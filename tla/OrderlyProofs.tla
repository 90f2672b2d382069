---------------------------- MODULE OrderlyProofs ----------------------------
(***************************************************************************)
(* What a run does when the transport is orderly: a task is taken once, no *)
(* process dies, and neither a callback nor a resume task overtakes the    *)
(* transaction that caused it.  Provider calls may still fail, callbacks   *)
(* be rejected, tasks end in an error, and the user, the watchdog and a    *)
(* failed launch may decide about the run at any time.                     *)
(*                                                                         *)
(* The argument is that of a token.  Whoever carries the run forward (a    *)
(* worker, a resume task nobody has taken, a callback request, or a row at *)
(* the provider) is alone, and knows how far the workflow has come.        *)
(***************************************************************************)
EXTENDS CallbackProofs

(* The assumption of this module's theorems, about the environment only. *)
Orderly ==
    /\ "duplicate" \notin Environment /\ "crash" \notin Environment
    /\ "early_callback" \notin Environment /\ "early_resume" \notin Environment

-----------------------------------------------------------------------------
(* The token *)

(* A worker that may still move the run forward: not one that has left the  *)
(* step to the provider, that has seen the cancellation or that only        *)
(* publishes.                                                               *)
Driving(w) ==
    /\ worker[w].pc \notin {"idle", "canceled", "emit"}
    /\ ~(worker[w].pc \in {"loop", "mark"} /\ worker[w].result = "pending")

(* The workflow has come to step s, which nobody has opened *)
Front(s) ==
    \A r \in Steps : /\ r < s => Cleared(r)
                     /\ r >= s => step[r] = "ABSENT"

(* A resume task that no worker has taken *)
Waiting(t) ==
    /\ t \in queue /\ t > 0
    /\ \A w \in Workers : worker[w].pc = "idle" \/ worker[w].task # t

NoneRunning == \A s \in Steps : step[s] # "RUNNING"
AllCleared == \A s \in Steps : Cleared(s)

InLauncher == {"prepare", "claim", "call", "accepted", "unknown"}
InStep == {"execute", "record", "fail", "close", "finalize"} \cup InLauncher

(* What was launched for the open step, the worker still answers for: the   *)
(* provider's answer cannot overtake it.                                    *)
Held(w) ==
    \A a \in Attempts :
        step[StepOf(a)] = "RUNNING" /\ launches[a] > 0 => worker[w].target = a

(* What a driving worker may rely on, by where it is.  As long as the run   *)
(* is undecided nobody else moves the row the worker is launching.          *)
Placed(w) ==
    LET r == worker[w] IN
    /\ Held(w)
    /\ r.pc = "start" \/ (r.pc = "loop" /\ r.result = "none") => Front(r.at)
    /\ r.pc \in {"loop", "start", "execute", "prepare"} => r.target = NoAttempt
    /\ r.pc \in InStep => step[r.at] = "RUNNING"
    /\ r.pc \in InStep \ {"execute"} => Kind[r.at] = "container"
    /\ r.pc = "execute" => ~HasHistory(r.at)
    /\ r.pc \in {"execute", "prepare"} => ~jobName[r.at]
    /\ r.pc \in InLauncher => Exists(Own(w))
    /\ r.pc \in InLauncher \ {"prepare"} => r.target = Own(w)
    /\ r.pc \in {"prepare", "claim"} => launches[Own(w)] = 0
    /\ r.pc = "record" /\ r.target # NoAttempt => StepOf(r.target) = r.at
    /\ r.pc \in {"loop", "save"} /\ r.result = "failed" => NoneRunning
    /\ r.pc \in {"save", "raised"} => r.result # "pending"
    /\ r.pc = "issue" \/ (r.pc = "save" /\ r.result # "failed") => AllCleared
    /\ run = "RUNNING" =>
        /\ r.pc \in {"prepare", "claim"} => attempt[Own(w)] = "PENDING"
        /\ r.pc \in {"call", "accepted", "unknown"}
             => attempt[Own(w)] = "DISPATCHING"
        /\ r.pc = "record"
             => r.target \in Attempts /\ attempt[r.target] \in ClaimedStates

(* How far the workflow has come, and what its rows say about it. *)
InOrder ==
    \A s, r \in Steps : r < s /\ step[s] # "ABSENT" => Cleared(r)
OneRow ==
    \A a, b \in Attempts :
        StepOf(a) = StepOf(b) /\ Exists(a) /\ Exists(b) => a = b
RowsOfSteps ==
    \A a \in Attempts :
        Exists(a) => Kind[StepOf(a)] = "container" /\ step[StepOf(a)] # "ABSENT"
NamedJobs ==
    \A s \in Steps : jobName[s] => step[s] # "ABSENT"

ShapeInv == InOrder /\ OneRow /\ RowsOfSteps /\ NamedJobs /\ SuccessMeansPassed

OneDriver == \A v, w \in Workers : Driving(v) /\ Driving(w) => v = w
NoDriver == \A w \in Workers : ~Driving(w)

TokenInv ==
    /\ ShapeInv
    /\ OneDriver
    /\ \A w \in Workers : Driving(w) => Placed(w)
    /\ \A w \in Workers : worker[w].pc = "canceled" => run \in RunTerminal
    /\ \A t \in Tasks : Waiting(t) => Front(t + 1) /\ NoDriver
    /\ \A a \in Attempts : handler[a] # "idle" =>
           handler[a] = "processing" /\ step[StepOf(a)] = "RUNNING" /\ Exists(a)
               /\ NoDriver
    /\ \A a \in Attempts : ended[a] # "none" =>
           launches[a] > 0 /\ \A w \in Workers : worker[w].target # a

(* What is known of the engine in every environment. *)
KnownInv == EngineInv /\ DecisionInv /\ UntouchedInv /\ LaunchInv

LEMMA KnownSafe == Spec => []KnownInv
<1>1. Init => DecisionInv /\ UntouchedInv /\ LaunchInv
  <2> SUFFICES ASSUME Init PROVE DecisionInv /\ UntouchedInv /\ LaunchInv
    OBVIOUS
  <2>1. DecisionInv /\ UntouchedInv
    BY DEF Init, AttemptsInit, IdleWorker, DecisionInv, UntouchedInv
  <2>2. /\ \A a \in Attempts : launches[a] = 0
        /\ \A w \in Workers : worker[w].pc # "call"
    BY DEF Init, IdleWorker
  <2> QED BY <2>1, <2>2 DEF LaunchInv, LaunchOnce
<1>2. EngineInv /\ DecisionInv /\ UntouchedInv /\ LaunchInv /\ [Next]_vars
        => (DecisionInv /\ UntouchedInv /\ LaunchInv)'
  BY DecisionStep, UntouchedStep, LaunchStepKeeps DEF EngineInv, LedgerInv
<1> QED BY <1>1, <1>2, EngineSafe, PTL DEF Spec, KnownInv

-----------------------------------------------------------------------------
(* Where a worker's moves leave it *)

Alone(w) == \A v \in Workers : v # w => worker'[v] = worker[v]

LEMMA GotoFields ==
    ASSUME TypeInv, NEW w \in Workers, NEW pc, Goto(w, pc)
    PROVE  /\ Alone(w) /\ worker'[w].pc = pc
           /\ worker'[w].task = worker[w].task
           /\ worker'[w].at = worker[w].at
           /\ worker'[w].own = worker[w].own
           /\ worker'[w].target = worker[w].target
           /\ worker'[w].job = worker[w].job
           /\ worker'[w].result = worker[w].result
BY DEF Goto, Alone, TypeInv, TypeOK, WorkerStates

LEMMA LoopFields ==
    ASSUME TypeInv, NEW w \in Workers, NEW s, NEW verdict, Loop(w, s, verdict)
    PROVE  /\ Alone(w) /\ worker'[w].pc = "loop"
           /\ worker'[w].task = worker[w].task
           /\ worker'[w].at = s
           /\ worker'[w].target = NoAttempt
           /\ worker'[w].result = verdict
BY DEF Loop, IdleWorker, Alone, TypeInv, TypeOK

LEMMA LeaveFields ==
    ASSUME TypeInv, NEW w \in Workers, NEW pc, Leave(w, pc)
    PROVE  /\ Alone(w) /\ worker'[w].pc = pc
           /\ worker'[w].task = worker[w].task
           /\ worker'[w].target = worker[w].target
           /\ worker'[w].result = "none"
BY DEF Leave, IdleWorker, Alone, TypeInv, TypeOK

LEMMA PendFields ==
    ASSUME TypeInv, NEW w \in Workers, NEW job, Pend(w, job)
    PROVE  /\ Alone(w) /\ worker'[w].pc = "record"
           /\ worker'[w].task = worker[w].task
           /\ worker'[w].at = worker[w].at
           /\ worker'[w].own = worker[w].own
           /\ worker'[w].target = worker[w].target
           /\ worker'[w].job = job
           /\ UNCHANGED <<attempt, step>>
BY DEF Pend, Alone, TypeInv, TypeOK, WorkerStates

LEMMA AcknowledgeFields ==
    ASSUME Orderly, TypeInv, NEW w \in Workers, Acknowledge(w)
    PROVE  /\ Alone(w) /\ worker'[w].pc = "idle"
           /\ worker'[w].target = NoAttempt
           /\ queue' = queue \ {worker[w].task}
BY DEF Orderly, Acknowledge, IdleWorker, Alone, TypeInv, TypeOK

LEMMA AttemptIsPair ==
    \A a \in Attempts : a = <<StepOf(a), NumberOf(a)>>
BY DEF Attempts, StepOf, NumberOf

LEMMA OwnParts ==
    \A w \in Workers : StepOf(Own(w)) = worker[w].at /\ NumberOf(Own(w)) = worker[w].own
BY DEF Own, StepOf, NumberOf

-----------------------------------------------------------------------------
(* The shape of the workflow *)

LEMMA StepType ==
    ASSUME TypeInv
    PROVE  /\ step \in [Steps -> StepStates]
           /\ jobName \in [Steps -> BOOLEAN]
           /\ Steps = 1 .. NumSteps /\ NumSteps \in Nat
           /\ run \in RunActive \cup RunTerminal
BY StepsAssumption DEF TypeInv, TypeOK

(* Two steps are never open, and behind an open step nothing is. *)
LEMMA OpenStepIsFront ==
    ASSUME TypeInv, InOrder, NEW s \in Steps, step[s] = "RUNNING"
    PROVE  /\ \A r \in Steps : r < s => Cleared(r)
           /\ \A r \in Steps : r > s => step[r] = "ABSENT"
           /\ \A r \in Steps : step[r] = "RUNNING" => r = s
<1>1. ~Cleared(s)
  BY DEF Cleared
<1>2. \A r \in Steps : r > s => step[r] = "ABSENT"
  BY <1>1 DEF InOrder
<1>3. \A r \in Steps : r < s => Cleared(r)
  BY DEF InOrder
<1>4. \A r \in Steps : step[r] = "RUNNING" => r = s
  BY <1>2, <1>3, StepFacts DEF Cleared
<1> QED BY <1>2, <1>3, <1>4

LEMMA FrontHasNoneRunning ==
    ASSUME NEW s \in Nat, Front(s)
    PROVE  NoneRunning
BY StepFacts DEF Front, NoneRunning, Cleared

(* What keeps the worker's hold, and what makes it empty. *)
LEMMA HeldStays ==
    ASSUME NEW w \in Workers, Held(w), worker'[w].target = worker[w].target,
           UNCHANGED launches,
           \A s \in Steps : step'[s] = "RUNNING" => step[s] = "RUNNING"
    PROVE  Held(w)'
BY AttemptParts DEF Held

LEMMA NothingHeld ==
    ASSUME NEW w \in Workers
    PROVE  (NoneRunning => Held(w)) /\ (NoneRunning' => Held(w)')
BY AttemptParts DEF Held, NoneRunning

(* Opening the step at the front. *)
LEMMA OpenShape ==
    ASSUME TypeInv, ShapeInv, NEW s \in Steps, Front(s),
           step' = [step EXCEPT ![s] = "RUNNING"],
           UNCHANGED <<run, jobName, attempt>>, run # "SUCCEEDED"
    PROVE  ShapeInv'
<1> USE StepType DEF ShapeInv
<1>1. /\ step'[s] = "RUNNING"
      /\ \A r \in Steps : r # s => step'[r] = step[r]
  OBVIOUS
<1>2. InOrder'
  BY <1>1, StepFacts DEF InOrder, Front, Cleared
<1>3. OneRow' /\ RowsOfSteps'
  BY <1>1, AttemptParts DEF OneRow, RowsOfSteps, Exists
<1>4. NamedJobs' /\ SuccessMeansPassed'
  BY <1>1 DEF NamedJobs, SuccessMeansPassed
<1> QED BY <1>2, <1>3, <1>4

(* Deciding the open step. *)
LEMMA CloseShape ==
    ASSUME TypeInv, ShapeInv, NEW s \in Steps, step[s] = "RUNNING",
           NEW d \in {"PASSED", "FAILED", "SKIPPED"},
           step' = [step EXCEPT ![s] = d],
           \A r \in Steps : jobName'[r] => jobName[r],
           \A a \in Attempts : attempt[a] = "ABSENT" => attempt'[a] = "ABSENT",
           run' = "SUCCEEDED" => AllCleared'
    PROVE  ShapeInv'
<1> USE StepType DEF ShapeInv
<1>1. /\ step'[s] = d
      /\ \A r \in Steps : r # s => step'[r] = step[r]
  OBVIOUS
<1>2. InOrder'
  BY <1>1, OpenStepIsFront DEF InOrder, Cleared
<1>3. OneRow' /\ RowsOfSteps'
  BY <1>1, AttemptParts DEF OneRow, RowsOfSteps, Exists
<1>4. NamedJobs'
  BY <1>1 DEF NamedJobs
<1>5. SuccessMeansPassed'
  BY DEF SuccessMeansPassed, AllCleared
<1> QED BY <1>2, <1>3, <1>4, <1>5

(* Leaving the steps alone. *)
LEMMA SameShape ==
    ASSUME TypeInv, ShapeInv, UNCHANGED step,
           \A r \in Steps : jobName'[r] => jobName[r] \/ step[r] # "ABSENT",
           \A a \in Attempts : attempt[a] = "ABSENT" => attempt'[a] = "ABSENT",
           run' = "SUCCEEDED" => run = "SUCCEEDED" \/ AllCleared
    PROVE  ShapeInv'
<1> USE DEF ShapeInv
<1>1. InOrder' /\ OneRow' /\ RowsOfSteps'
  BY DEF InOrder, OneRow, RowsOfSteps, Exists, Cleared
<1>2. NamedJobs'
  BY DEF NamedJobs
<1>3. SuccessMeansPassed'
  BY DEF SuccessMeansPassed, AllCleared, Cleared
<1> QED BY <1>1, <1>2, <1>3

-----------------------------------------------------------------------------
(* Passing the token *)

(* A worker that holds the token does something: nobody else is concerned.  *)
LEMMA DriverMoves ==
    ASSUME TypeInv, TokenInv, NEW w \in Workers, Driving(w), Alone(w),
           ShapeInv', Driving(w)' => Placed(w)',
           worker'[w].pc = "canceled" => run' \in RunTerminal,
           run \in RunTerminal => run' \in RunTerminal,
           \/ /\ worker'[w].pc # "idle" /\ worker'[w].task = worker[w].task
              /\ UNCHANGED queue
           \/ queue' = queue \ {worker[w].task},
           UNCHANGED handler,
           UNCHANGED ended,
           \A a \in Attempts : launches'[a] \in {launches[a], launches[a] + 1},
           \A a \in Attempts : ended[a] # "none" => worker'[w].target # a
    PROVE  TokenInv'
<1> USE DEF Alone
<1>1. \A v \in Workers : v # w => ~Driving(v) /\ ~Driving(v)'
  BY DEF TokenInv, OneDriver, Driving
<1>2. OneDriver' /\ \A v \in Workers : Driving(v)' => Placed(v)'
  BY <1>1 DEF OneDriver
<1>3. \A v \in Workers : worker'[v].pc = "canceled" => run' \in RunTerminal
  BY DEF TokenInv
<1>4. ASSUME NEW t \in Tasks PROVE ~Waiting(t)'
  <2>1. ~Waiting(t)
    BY DEF TokenInv, NoDriver
  <2>2. Waiting(t)' => t \in queue /\ t > 0
    BY DEF Waiting
  <2>3. ASSUME Waiting(t)', NEW v \in Workers PROVE worker[v].pc = "idle" \/ worker[v].task # t
    BY <2>3 DEF Waiting
  <2> QED BY <2>1, <2>2, <2>3 DEF Waiting
<1>5. \A a \in Attempts : handler'[a] = "idle"
  BY DEF TokenInv, NoDriver
<1>6. \A a \in Attempts : ended'[a] # "none" =>
          launches'[a] > 0 /\ \A v \in Workers : worker'[v].target # a
  BY DEF TokenInv, TypeInv, TypeOK
<1> QED BY <1>2, <1>3, <1>4, <1>5, <1>6 DEF TokenInv

(* What makes the placement of a worker that does not move stay true. *)
LEMMA PlacedStays ==
    ASSUME TypeInv, NEW v \in Workers, Placed(v), worker'[v] = worker[v],
           Driving(v),
           UNCHANGED <<step, jobName, launches>>,
           \A a \in Attempts : attempt'[a] = "ABSENT" <=> attempt[a] = "ABSENT",
           run' = "RUNNING" => run = "RUNNING" /\ UNCHANGED attempt
    PROVE  Placed(v)'
<1>1. worker[v].pc \in InLauncher => Own(v) \in Attempts
  BY OwnIsAttempt DEF InLauncher, TypeInv, Owning
<1>2. Own(v)' = Own(v)
  BY DEF Own
<1>3. \A s \in Nat : Front(s)' <=> Front(s)
  BY DEF Front, Cleared
<1>4. worker[v].at \in Nat
  BY StepFacts DEF TypeInv, TypeOK, WorkerStates
<1>5. HasHistory(worker[v].at)' <=> HasHistory(worker[v].at)
  BY DEF HasHistory, Exists
<1>6. worker[v].pc \in InLauncher => (Exists(Own(v))' <=> Exists(Own(v)))
  BY <1>1, <1>2 DEF Exists
<1>7. (NoneRunning' <=> NoneRunning) /\ (AllCleared' <=> AllCleared)
  BY DEF NoneRunning, AllCleared, Cleared
<1>8. Held(v)'
  BY HeldStays DEF Placed
<1> QED BY <1>2, <1>3, <1>4, <1>5, <1>6, <1>7, <1>8 DEF Placed

(* Something happens beside the token: nothing it relies on is touched, and *)
(* no resume task appears.                                                  *)
LEMMA BesideToken ==
    ASSUME TypeInv, TokenInv, ShapeInv',
           UNCHANGED <<step, jobName, launches, ended, handler>>,
           \A a \in Attempts : attempt'[a] = "ABSENT" <=> attempt[a] = "ABSENT",
           run' = "RUNNING" => run = "RUNNING" /\ UNCHANGED attempt,
           run \in RunTerminal => run' \in RunTerminal,
           \A v \in Workers :
               \/ worker'[v] = worker[v]
               \/ /\ ~Driving(v) /\ ~Driving(v)'
                  /\ worker'[v].target \in {worker[v].target, NoAttempt}
                  /\ worker'[v].pc = "canceled" => run' \in RunTerminal
                  /\ \/ worker'[v].task = worker[v].task /\ worker'[v].pc # "idle"
                     \/ worker[v].task \notin queue',
           queue' \subseteq queue \cup {0}
    PROVE  TokenInv'
<1>1. \A v \in Workers : Driving(v)' => Driving(v) /\ worker'[v] = worker[v]
  BY DEF Driving
<1>2. OneDriver'
  BY <1>1 DEF TokenInv, OneDriver
<1>3. NoDriver => NoDriver'
  BY <1>1 DEF NoDriver
<1>4. \A v \in Workers : Driving(v)' => Placed(v)'
  BY <1>1, PlacedStays DEF TokenInv
<1>5. \A v \in Workers : worker'[v].pc = "canceled" => run' \in RunTerminal
  BY DEF TokenInv
<1>6. ASSUME NEW t \in Tasks, Waiting(t)' PROVE Front(t + 1)' /\ NoDriver'
  <2>1. t \in queue /\ t > 0 /\ t \in queue'
    BY <1>6 DEF Waiting
  <2>2. ASSUME NEW v \in Workers PROVE worker[v].pc = "idle" \/ worker[v].task # t
    BY <1>6, <2>1, <2>2 DEF Waiting
  <2>3. Waiting(t)
    BY <2>1, <2>2 DEF Waiting
  <2>4. Front(t + 1) /\ NoDriver
    BY <2>3 DEF TokenInv
  <2> QED BY <1>3, <2>4 DEF Front, Cleared
<1>7. \A a \in Attempts : handler'[a] # "idle" =>
          handler'[a] = "processing" /\ step'[StepOf(a)] = "RUNNING" /\ Exists(a)'
              /\ NoDriver'
  BY <1>3 DEF TokenInv, Exists
<1>8. \A a \in Attempts : a # NoAttempt
  BY NoAttemptAssumption
<1>9. \A a \in Attempts : ended'[a] # "none" =>
          launches'[a] > 0 /\ \A v \in Workers : worker'[v].target # a
  BY <1>8 DEF TokenInv
<1> QED BY <1>2, <1>4, <1>5, <1>6, <1>7, <1>9 DEF TokenInv

-----------------------------------------------------------------------------
(* The worker takes the token *)

LEMMA TakesToken ==
    ASSUME TypeInv, TokenInv, ShapeInv', NEW w \in Workers, Alone(w), NoDriver,
           worker'[w].pc = "loop", worker'[w].result = "none",
           worker'[w].target = NoAttempt, Front(worker'[w].at),
           UNCHANGED <<step, launches, ended, handler, attempt>>,
           run' = "RUNNING", NoneRunning,
           \A t \in Tasks : ~Waiting(t)',
           \A v \in Workers : v # w => worker[v].pc # "canceled"
    PROVE  TokenInv'
<1> USE DEF Alone
<1>1. \A v \in Workers : v # w => ~Driving(v)'
  BY DEF NoDriver, Driving
<1>2. OneDriver'
  BY <1>1 DEF OneDriver
<1>3. Placed(w)'
  <2>1. Held(w)'
    BY NothingHeld DEF NoneRunning
  <2> QED BY <2>1 DEF Placed, InStep, InLauncher, Front, Cleared
<1>4. \A a \in Attempts : handler'[a] = "idle"
  BY AttemptParts DEF TokenInv, NoneRunning
<1>5. \A a \in Attempts : a # NoAttempt
  BY NoAttemptAssumption
<1>6. \A a \in Attempts : ended'[a] # "none" =>
          launches'[a] > 0 /\ \A v \in Workers : worker'[v].target # a
  BY <1>5 DEF TokenInv
<1>7. \A v \in Workers : worker'[v].pc # "canceled"
  OBVIOUS
<1> QED BY <1>1, <1>2, <1>3, <1>4, <1>6, <1>7 DEF TokenInv

LEMMA BeginInitialMoves ==
    ASSUME Orderly, TypeInv, UntouchedInv, TokenInv, NEW w \in Workers, BeginInitial(w)
    PROVE  TokenInv'
<1> DEFINE r == [IdleWorker EXCEPT !.pc = "loop"]
<1>1. worker' = [worker EXCEPT ![w] = r]
  BY DEF BeginInitial
<1>2. /\ r.pc = "loop" /\ r.result = "none" /\ r.target = NoAttempt
      /\ r.at = 1 /\ r.task = 0
  BY DEF IdleWorker
<1> HIDE DEF r
<1>3. worker'[w] = r /\ Alone(w)
  BY <1>1 DEF Alone, TypeInv, TypeOK
<1>4. /\ run = "PENDING" /\ run' = "RUNNING"
      /\ UNCHANGED <<step, jobName, launches, ended, handler, attempt, queue>>
  BY DEF BeginInitial, Startable, stepVars, providerVars, callbackVars, attemptVars
<1>5. /\ \A v \in Workers : worker[v].pc = "idle"
      /\ \A s \in Steps : step[s] = "ABSENT"
  BY <1>4 DEF UntouchedInv
<1>6. NoDriver /\ NoneRunning
  BY <1>5 DEF NoDriver, Driving, NoneRunning
<1>7. Front(1)
  BY <1>5, StepType DEF Front
<1>8. ASSUME NEW t \in Tasks PROVE ~Waiting(t)'
  <2>1. SUFFICES ASSUME Waiting(t)' PROVE FALSE
    OBVIOUS
  <2>2. Waiting(t)
    BY <1>4, <1>5, <2>1 DEF Waiting
  <2>3. Front(t + 1) /\ t > 0 /\ t \in 0 .. NumSteps
    BY <2>2 DEF TokenInv, Waiting, Tasks
  <2>4. 1 \in Steps /\ 1 < t + 1
    BY <2>3, StepType
  <2> QED BY <1>5, <2>3, <2>4 DEF Front, Cleared
<1>9. ShapeInv'
  BY <1>4, SameShape DEF TokenInv, RunActive
<1> QED BY <1>2, <1>3, <1>4, <1>5, <1>6, <1>7, <1>8, <1>9, TakesToken

LEMMA BeginResumeMoves ==
    ASSUME Orderly, TypeInv, TokenInv, NEW w \in Workers, NEW t \in Tasks,
           BeginResume(w, t)
    PROVE  TokenInv'
<1> DEFINE r1 == [IdleWorker EXCEPT !.pc = "loop"]
           r2 == [r1 EXCEPT !.task = t]
           r  == [r2 EXCEPT !.at = ResumeAt(t)]
<1>1. worker' = [worker EXCEPT ![w] = r]
  BY DEF BeginResume
<1>2. /\ r.pc = "loop" /\ r.result = "none" /\ r.target = NoAttempt
      /\ r.at = t + 1 /\ r.task = t
  BY DEF IdleWorker, ResumeAt
<1> HIDE DEF r
<1>3. worker'[w] = r /\ Alone(w)
  BY <1>1 DEF Alone, TypeInv, TypeOK
<1>4. /\ run = "RUNNING" /\ run' = "RUNNING" /\ Deliverable(t) /\ t > 0
      /\ UNCHANGED <<step, jobName, launches, ended, handler, attempt, queue>>
  BY DEF BeginResume, Startable, runVars, stepVars, providerVars, callbackVars,
         attemptVars
<1>5. Waiting(t)
  BY <1>4 DEF Orderly, Deliverable, Waiting
<1>6. Front(t + 1) /\ NoDriver /\ t + 1 \in Nat
  BY <1>5, StepType DEF TokenInv, Tasks
<1>7. NoneRunning
  BY <1>6, FrontHasNoneRunning
<1>8. ASSUME NEW u \in Tasks PROVE ~Waiting(u)'
  <2>1. SUFFICES ASSUME Waiting(u)' PROVE FALSE
    OBVIOUS
  <2>2. u # t
    BY <1>2, <1>3, <2>1 DEF Waiting
  <2>3. u \in queue /\ u > 0
    BY <1>4, <2>1 DEF Waiting
  <2>4. ASSUME NEW v \in Workers PROVE worker[v].pc = "idle" \/ worker[v].task # u
    <3>1. CASE v = w
      BY <3>1 DEF BeginResume
    <3>2. CASE v # w
      BY <1>3, <2>1, <3>2 DEF Waiting, Alone
    <3> QED BY <3>1, <3>2
  <2>5. Front(u + 1)
    BY <2>3, <2>4 DEF Waiting, TokenInv
  <2>6. u \in 1 .. NumSteps /\ t \in 1 .. NumSteps /\ Steps = 1 .. NumSteps
    BY <1>4, <2>3, StepType DEF Tasks
  <2> QED BY <1>6, <2>2, <2>5, <2>6 DEF Front, Cleared
<1>9. ShapeInv'
  BY <1>4, SameShape DEF TokenInv, RunActive
<1>10. \A v \in Workers : worker[v].pc # "canceled"
  BY <1>4 DEF TokenInv, RunTerminal
<1> QED BY <1>2, <1>3, <1>4, <1>6, <1>7, <1>8, <1>9, <1>10, TakesToken

-----------------------------------------------------------------------------
(* The loop *)

LEMMA CheckMoves ==
    ASSUME Orderly, TypeInv, TokenInv, NEW w \in Workers, CheckCancelled(w)
    PROVE  TokenInv'
<1>1. /\ worker[w].pc = "loop"
      /\ UNCHANGED <<run, step, jobName, launches, ended, handler, attempt>>
  BY DEF CheckCancelled, runVars, stepVars, providerVars, callbackVars, attemptVars
<1>2. ShapeInv'
  BY <1>1, SameShape DEF TokenInv
<1>3. \A a \in Attempts : ended[a] # "none" => worker[w].target # a
  BY DEF TokenInv
<1>4. launches \in [Attempts -> Nat]
  BY DEF TypeInv, TypeOK
<1>5. CASE ~Driving(w)
  <2>1. CASE run = "CANCELED"
    <3>1. Leave(w, "canceled") /\ UNCHANGED queue
      BY <2>1 DEF CheckCancelled
    <3>2. ~Driving(w)' /\ run \in RunTerminal
      BY <2>1, <3>1, LeaveFields DEF Driving, RunTerminal
    <3> QED BY <1>1, <1>2, <1>5, <3>1, <3>2, LeaveFields, BesideToken DEF Alone
  <2>2. CASE run # "CANCELED"
    <3>1. Acknowledge(w)
      BY <1>1, <1>5, <2>2 DEF CheckCancelled, Driving
    <3>2. ~Driving(w)'
      BY <3>1, AcknowledgeFields DEF Driving
    <3> QED BY <1>1, <1>2, <1>5, <3>1, <3>2, AcknowledgeFields, BesideToken DEF Alone
  <2> QED BY <2>1, <2>2
<1>6. CASE Driving(w)
  <2>1. /\ Placed(w) /\ worker[w].result # "pending"
        /\ worker[w].result \in {"none", "failed", "pending"}
        /\ worker[w].at \in 1 .. (NumSteps + 1)
    BY <1>1, <1>6 DEF TokenInv, Driving, TypeInv, TypeOK, WorkerStates
  <2>2. CASE run = "CANCELED"
    <3>1. Leave(w, "canceled") /\ UNCHANGED queue
      BY <2>2 DEF CheckCancelled
    <3>2. ~Driving(w)' /\ run \in RunTerminal
      BY <2>2, <3>1, LeaveFields DEF Driving, RunTerminal
    <3> QED BY <1>1, <1>2, <1>3, <1>4, <1>6, <3>1, <3>2, LeaveFields, DriverMoves
  <2>3. ASSUME NEW pc \in {"save", "start"}, Goto(w, pc), UNCHANGED queue,
               pc = "save" => worker[w].result = "failed" \/ worker[w].at > NumSteps,
               pc = "start" => worker[w].result = "none" /\ worker[w].at <= NumSteps
        PROVE  TokenInv'
    <3>1. Held(w)'
      BY <1>1, <2>1, <2>3, GotoFields, HeldStays DEF Placed
    <3>2. CASE pc = "save"
      <4>1. worker[w].result = "failed" => NoneRunning'
        BY <1>1, <2>1 DEF Placed, NoneRunning
      <4>2. worker[w].result # "failed" => AllCleared'
        <5>1. worker[w].result # "failed" => Front(worker[w].at) /\ worker[w].at = NumSteps + 1
          BY <1>1, <2>1, <2>3, <3>2, StepType DEF Placed
        <5> QED BY <1>1, <5>1, StepType DEF Front, AllCleared, Cleared
      <4>3. Placed(w)'
        BY <2>1, <2>3, <3>1, <3>2, <4>1, <4>2, GotoFields DEF Placed, InStep, InLauncher
      <4> QED BY <1>1, <1>2, <1>3, <1>4, <1>6, <2>3, <3>2, <4>3, GotoFields, DriverMoves
    <3>3. CASE pc = "start"
      <4>1. Front(worker[w].at) /\ worker[w].target = NoAttempt
        BY <1>1, <2>1, <2>3, <3>3 DEF Placed
      <4>2. Placed(w)'
        BY <1>1, <2>3, <3>1, <3>3, <4>1, GotoFields
        DEF Placed, InStep, InLauncher, Front, Cleared
      <4> QED BY <1>1, <1>2, <1>3, <1>4, <1>6, <2>3, <3>3, <4>2, GotoFields, DriverMoves
    <3> QED BY <2>3, <3>2, <3>3
  <2> QED BY <2>1, <2>2, <2>3 DEF CheckCancelled
<1> QED BY <1>5, <1>6

-----------------------------------------------------------------------------
(* A step is started, executed, raised *)

(* The token stays with its worker, which goes on to its next statement. *)
LEMMA DriverGoesOn ==
    ASSUME TypeInv, TokenInv, NEW w \in Workers, Driving(w), Alone(w), ShapeInv',
           Driving(w)' => Placed(w)',
           worker'[w].pc \notin {"idle", "canceled"},
           worker'[w].task = worker[w].task,
           \/ worker'[w].target \in {worker[w].target, NoAttempt}
           \/ ended[worker'[w].target] = "none",
           UNCHANGED <<queue, handler, ended, launches, run>>
    PROVE  TokenInv'
<1>1. launches \in [Attempts -> Nat] /\ \A a \in Attempts : a # NoAttempt
  BY NoAttemptAssumption DEF TypeInv, TypeOK
<1>2. \A a \in Attempts : ended[a] # "none" => worker'[w].target # a
  BY <1>1 DEF TokenInv
<1> QED BY <1>1, <1>2, DriverMoves

LEMMA StartMoves ==
    ASSUME TypeInv, TokenInv, LaunchInv, NEW w \in Workers, StartStep(w)
    PROVE  TokenInv'
<1>1. /\ worker[w].pc = "start" /\ worker[w].at \in Steps
      /\ UNCHANGED <<run, jobName, queue, launches, ended, handler, attempt>>
  BY DEF StartStep, runVars, providerVars, callbackVars, attemptVars, TypeInv, WorkerInv
<1>2. PICK s \in Steps : s = worker[w].at
  BY <1>1
<1>3. Driving(w) /\ Front(s) /\ worker[w].target = NoAttempt
  BY <1>1, <1>2 DEF Driving, TokenInv, Placed
<1>4. step[s] = "ABSENT" /\ s \in Nat
  BY <1>3, StepFacts DEF Front
<1>5. step' = [step EXCEPT ![s] = "RUNNING"] /\ Goto(w, "execute")
  BY <1>2, <1>4 DEF StartStep
<1>6. step'[s] = "RUNNING" /\ worker'[w].at = s
  BY <1>2, <1>5, StepType, GotoFields
<1>7. ~HasHistory(s)' /\ ~jobName'[s]
  <2>1. \A a \in Attempts : StepOf(a) = s => attempt[a] = "ABSENT"
    BY <1>4 DEF TokenInv, ShapeInv, RowsOfSteps, Exists
  <2>2. ~jobName[s]
    BY <1>4 DEF TokenInv, ShapeInv, NamedJobs
  <2> QED BY <1>1, <2>1, <2>2 DEF HasHistory, Exists
<1>8. run # "SUCCEEDED"
  BY <1>4 DEF TokenInv, ShapeInv, SuccessMeansPassed, Cleared
<1>9. ShapeInv'
  BY <1>1, <1>3, <1>5, <1>8, OpenShape DEF TokenInv
<1>10. Placed(w)'
  <2>1. Held(w)'
    <3>1. NoneRunning
      BY <1>3, <1>4, FrontHasNoneRunning
    <3>2. \A a \in Attempts : StepOf(a) = s => launches[a] = 0
      BY <1>1, <1>7 DEF HasHistory, Exists, LaunchInv
    <3> QED BY <1>1, <1>5, <3>1, <3>2, StepType, AttemptParts DEF Held, NoneRunning
  <2> QED BY <1>1, <1>3, <1>5, <1>6, <1>7, <2>1, GotoFields DEF Placed, InStep, InLauncher
<1> QED BY <1>1, <1>3, <1>5, <1>9, <1>10, GotoFields, DriverGoesOn

(* The step of a worker that is executing it has no rows yet. *)
LEMMA NoRowsYet ==
    ASSUME TypeInv, TokenInv, AttemptsTypeOK, NEW w \in Workers, worker[w].pc = "execute"
    PROVE  LET s == worker[w].at IN
           /\ Driving(w) /\ s \in Steps /\ step[s] = "RUNNING" /\ ~jobName[s]
           /\ worker[w].target = NoAttempt
           /\ \A a \in Attempts : StepOf(a) = s => attempt[a] = "ABSENT"
BY DEF Driving, TokenInv, Placed, InStep, HasHistory, Exists, TypeInv, WorkerInv

LEMMA LocalMoves ==
    ASSUME TypeInv, TokenInv, AttemptsTypeOK, NEW w \in Workers, RunLocalStep(w)
    PROVE  TokenInv'
<1>a. worker[w].pc = "execute"
  BY DEF RunLocalStep
<1>b. PICK s \in Steps : s = worker[w].at
  BY <1>a, NoRowsYet
<1>1. /\ worker[w].pc = "execute"
      /\ UNCHANGED <<run, jobName, queue, launches, ended, handler, attempt>>
  BY <1>b DEF RunLocalStep, runVars, providerVars, callbackVars, attemptVars
<1>2. /\ Driving(w) /\ s \in Steps /\ step[s] = "RUNNING"
      /\ \A a \in Attempts : StepOf(a) = s => attempt[a] = "ABSENT"
  BY <1>b, <1>1, NoRowsYet
<1>3. PICK outcome \in LocalOutcomes(s) :
        /\ step' = [step EXCEPT ![s] = outcome]
        /\ IF outcome = "FAILED" /\ Kind[s] \in Validators
           THEN Loop(w, s, "failed")
           ELSE Loop(w, s + 1, "none")
  BY <1>b DEF RunLocalStep
<1>4. outcome \in {"PASSED", "FAILED"} /\ Kind[s] \in Kinds
        /\ (Kind[s] = "container" => outcome = "FAILED")
  BY <1>2, KindAssumption DEF LocalOutcomes
<1>5. /\ step'[s] = outcome
      /\ \A r \in Steps : r # s => step'[r] = step[r]
  BY <1>2, <1>3, StepType
<1>6. /\ \A r \in Steps : r < s => Cleared(r)
      /\ \A r \in Steps : r > s => step[r] = "ABSENT"
  BY <1>2, OpenStepIsFront DEF TokenInv, ShapeInv
<1>7. run # "SUCCEEDED"
  BY <1>2 DEF TokenInv, ShapeInv, SuccessMeansPassed, Cleared
<1>8. NoneRunning'
  BY <1>2, <1>4, <1>5, <1>6, StepFacts DEF NoneRunning, Cleared
<1>9. ShapeInv'
  BY <1>1, <1>2, <1>3, <1>4, <1>7, CloseShape DEF TokenInv
<1> s \in Nat /\ Steps \subseteq Nat /\ s \in Steps
  BY <1>2, StepFacts
<1>10. CASE outcome = "FAILED" /\ Kind[s] \in Validators
  <2>2. Loop(w, s, "failed")
    BY <1>3, <1>10
  <2>3. Placed(w)'
    BY <1>8, <2>2, LoopFields, NothingHeld DEF Placed, InStep, InLauncher
  <2> QED BY <1>1, <1>2, <1>9, <2>2, <2>3, <1>b, LoopFields, DriverGoesOn
<1>11. CASE ~(outcome = "FAILED" /\ Kind[s] \in Validators)
  <2>1. Cleared(s)'
    <3>1. step'[s] = "PASSED" \/ (step'[s] = "FAILED" /\ Kind[s] \in {"advisory", "credential"})
      BY <1>4, <1>5, <1>11 DEF Kinds, Validators
    <3> QED BY <3>1 DEF Cleared, Tolerant
  <2>2. Front(s + 1)'
    <3>1. \A r \in Steps : r < s => Cleared(r)'
      BY <1>5, <1>6 DEF Cleared
    <3>2. \A r \in Steps : r > s => step'[r] = "ABSENT"
      BY <1>5, <1>6
    <3>3. \A r \in Steps : r < s + 1 => Cleared(r)'
      BY <2>1, <3>1
    <3> QED BY <3>2, <3>3 DEF Front
  <2>3. Loop(w, s + 1, "none")
    BY <1>3, <1>11
  <2>4. Placed(w)'
    BY <1>8, <2>2, <2>3, LoopFields, NothingHeld DEF Placed, InStep, InLauncher
  <2> QED BY <1>1, <1>2, <1>9, <2>3, <2>4, <1>b, LoopFields, DriverGoesOn
<1> QED BY <1>10, <1>11

(* Wherever a worker is in the loop: the step it opened is still open, and  *)
(* what was launched for it is the worker's.                                *)
LEMMA InStepFacts ==
    ASSUME TypeInv, TokenInv, NEW w \in Workers, worker[w].pc \in InStep
    PROVE  /\ Driving(w) /\ Placed(w) /\ Held(w) /\ worker[w].at \in Steps
           /\ step[worker[w].at] = "RUNNING"
           /\ \A r \in Steps : step[r] = "RUNNING" => r = worker[w].at
           /\ run # "SUCCEEDED"
<1>1. Driving(w) /\ worker[w].at \in Steps
  BY DEF Driving, InStep, InLauncher, TypeInv, WorkerInv, Owning
<1>2. Placed(w) /\ Held(w) /\ step[worker[w].at] = "RUNNING"
  BY <1>1 DEF TokenInv, Placed
<1>3. \A r \in Steps : step[r] = "RUNNING" => r = worker[w].at
  BY <1>1, <1>2, OpenStepIsFront DEF TokenInv, ShapeInv
<1>4. run # "SUCCEEDED"
  BY <1>1, <1>2 DEF TokenInv, ShapeInv, SuccessMeansPassed, Cleared
<1> QED BY <1>1, <1>2, <1>3, <1>4

(* Its failure closes the open step. *)
LEMMA FailedShape ==
    ASSUME TypeInv, TokenInv, NEW w \in Workers, worker[w].pc \in InStep,
           step' = [step EXCEPT ![worker[w].at] = "FAILED"],
           \A r \in Steps : jobName'[r] => jobName[r],
           UNCHANGED <<run, attempt>>
    PROVE  ShapeInv' /\ NoneRunning'
<1>1. PICK s \in Steps : s = worker[w].at
  BY InStepFacts
<1>2. /\ step[s] = "RUNNING" /\ run # "SUCCEEDED"
      /\ \A r \in Steps : step[r] = "RUNNING" => r = s
  BY <1>1, InStepFacts
<1>3. ShapeInv'
  BY <1>1, <1>2, CloseShape DEF TokenInv
<1>4. NoneRunning'
  BY <1>1, <1>2, StepType DEF NoneRunning
<1> QED BY <1>3, <1>4

LEMMA RaiseMoves ==
    ASSUME TypeInv, TokenInv, NEW w \in Workers, RaiseInStep(w)
    PROVE  TokenInv'
<1>1. /\ \/ worker[w].pc \in {"loop", "start"}
             /\ (worker[w].pc = "loop" => worker[w].result = "none")
         \/ worker[w].pc \in InStep
      /\ Leave(w, "raised")
      /\ UNCHANGED <<run, queue, launches, ended, handler, attempt>>
  BY DEF RaiseInStep, InStep, InLauncher, runVars, providerVars, callbackVars, attemptVars
<1>2. Driving(w) /\ Held(w)
  BY <1>1 DEF Driving, InStep, InLauncher, TokenInv, Placed
<1>3. CASE UNCHANGED stepVars
  <2>1. ShapeInv'
    BY <1>1, <1>3, SameShape DEF TokenInv, stepVars
  <2>2. Held(w)'
    BY <1>1, <1>2, <1>3, LeaveFields, HeldStays DEF stepVars
  <2>3. Placed(w)'
    BY <1>1, <2>2, LeaveFields DEF Placed, InStep, InLauncher
  <2> QED BY <1>1, <1>2, <2>1, <2>3, LeaveFields, DriverGoesOn
<1>4. ASSUME worker[w].pc \in InStep, step' = [step EXCEPT ![worker[w].at] = "FAILED"],
             jobName' = [jobName EXCEPT ![worker[w].at] = FALSE]
      PROVE  TokenInv'
  <2>1. \A r \in Steps : jobName'[r] => jobName[r]
    BY <1>4, StepType
  <2>2. ShapeInv' /\ NoneRunning'
    BY <1>1, <1>4, <2>1, FailedShape
  <2>3. Placed(w)'
    BY <1>1, <2>2, LeaveFields, NothingHeld DEF Placed, InStep, InLauncher
  <2> QED BY <1>1, <1>2, <2>2, <2>3, LeaveFields, DriverGoesOn
<1> QED BY <1>1, <1>3, <1>4 DEF RaiseInStep

-----------------------------------------------------------------------------
(* The launcher *)

LEMMA AllocateMoves ==
    ASSUME TypeInv, TokenInv, LaunchInv, AttemptsTypeOK,
           NEW w \in Workers, AllocateAttempt(w)
    PROVE  TokenInv'
<1> DEFINE s == worker[w].at
<1>1. /\ worker[w].pc = "execute" /\ Kind[s] = "container"
      /\ UNCHANGED <<run, step, jobName, queue, launches, ended, handler>>
  BY DEF AllocateAttempt, runVars, stepVars, providerVars, callbackVars
<1>2. /\ Driving(w) /\ s \in Steps /\ step[s] = "RUNNING" /\ ~jobName[s]
      /\ \A a \in Attempts : StepOf(a) = s => attempt[a] = "ABSENT"
      /\ worker[w].target = NoAttempt
  BY <1>1, NoRowsYet
<1>3. ActiveAttempts(s) = {}
  BY <1>2 DEF ActiveAttempts, IsActive, ActiveStates
<1>4. PICK a \in Attempts :
        /\ StepOf(a) = s
        /\ CreateAttempt(a)
        /\ worker' = [worker EXCEPT ![w].pc = "prepare", ![w].own = NumberOf(a)]
  BY <1>3 DEF AllocateAttempt
<1>5. /\ attempt'[a] = "PENDING"
      /\ \A b \in Attempts : b # a => attempt'[b] = attempt[b]
  BY <1>4 DEF CreateAttempt, Moved, AttemptsTypeOK
<1>6. /\ Alone(w) /\ worker'[w].pc = "prepare" /\ worker'[w].own = NumberOf(a)
      /\ worker'[w].at = s /\ worker'[w].task = worker[w].task
      /\ worker'[w].target = NoAttempt
  BY <1>2, <1>4 DEF Alone, TypeInv, TypeOK, WorkerStates
<1>7. Own(w)' = a
  BY <1>4, <1>6, AttemptIsPair DEF Own
<1>8. launches[a] = 0
  BY <1>2, <1>4 DEF LaunchInv
<1>9. ShapeInv'
  <2> USE DEF TokenInv, ShapeInv
  <2>1. InOrder' /\ NamedJobs' /\ SuccessMeansPassed'
    BY <1>1 DEF InOrder, NamedJobs, SuccessMeansPassed, Cleared
  <2>2. OneRow' /\ RowsOfSteps'
    BY <1>1, <1>2, <1>4, <1>5 DEF OneRow, RowsOfSteps, Exists
  <2> QED BY <2>1, <2>2
<1>10. Placed(w)'
  <2>1. Held(w)'
    BY <1>1, <1>2, <1>6, HeldStays DEF TokenInv, Placed
  <2> QED BY <1>1, <1>2, <1>5, <1>6, <1>7, <1>8, <2>1 DEF Placed, InStep, InLauncher, Exists
<1> QED BY <1>1, <1>2, <1>6, <1>9, <1>10, DriverGoesOn

(* In the launcher: the open step is the worker's, its one row the one the  *)
(* worker owns, and as long as the run is undecided the row is as it left it *)
LEMMA LaunchingFacts ==
    ASSUME TypeInv, TokenInv, NEW w \in Workers, worker[w].pc \in InLauncher
    PROVE  /\ Driving(w) /\ Placed(w) /\ worker[w].at \in Steps
           /\ step[worker[w].at] = "RUNNING" /\ Kind[worker[w].at] = "container"
           /\ Own(w) \in Attempts /\ StepOf(Own(w)) = worker[w].at
           /\ \A s \in Steps : Current(s) => s = worker[w].at
           /\ \A b \in Attempts : StepOf(b) = worker[w].at /\ Exists(b) => b = Own(w)
<1>1. Driving(w)
  BY DEF Driving, InLauncher
<1>2. Placed(w)
  BY <1>1 DEF TokenInv
<1>3. /\ worker[w].at \in Steps /\ Own(w) \in Attempts /\ StepOf(Own(w)) = worker[w].at
  BY OwnIsAttempt, OwnParts DEF InLauncher, TypeInv, WorkerInv, Owning
<1>4. step[worker[w].at] = "RUNNING" /\ Kind[worker[w].at] = "container" /\ Exists(Own(w))
  BY <1>2 DEF Placed, InStep, InLauncher
<1>5. \A s \in Steps : Current(s) => s = worker[w].at
  BY <1>3, <1>4, OpenStepIsFront DEF TokenInv, ShapeInv, Current
<1>6. \A b \in Attempts : StepOf(b) = worker[w].at /\ Exists(b) => b = Own(w)
  BY <1>3, <1>4 DEF TokenInv, ShapeInv, OneRow
<1> QED BY <1>1, <1>2, <1>3, <1>4, <1>5, <1>6

(* The step is about to fail in the launcher, or behind it. *)
LEMMA FailMoves ==
    ASSUME TypeInv, TokenInv, NEW w \in Workers,
           worker[w].pc \in InLauncher \cup {"record"}, FailStep(w),
           UNCHANGED <<run, jobName, queue, launches, ended, handler>>
    PROVE  TokenInv'
<1>1. /\ Driving(w) /\ Placed(w) /\ Held(w) /\ step[worker[w].at] = "RUNNING"
      /\ Kind[worker[w].at] = "container"
  BY InStepFacts DEF InStep, Placed, InLauncher
<1>2. Goto(w, "fail") /\ UNCHANGED <<attempt, step>>
  BY DEF FailStep
<1>3. ShapeInv'
  BY <1>2, SameShape DEF TokenInv
<1>4. Placed(w)'
  BY <1>1, <1>2, GotoFields, HeldStays DEF Placed, InStep, InLauncher
<1> QED BY <1>1, <1>2, <1>3, <1>4, GotoFields, DriverGoesOn

(* The launcher leaves the step to the provider. *)
LEMMA PendMoves ==
    ASSUME TypeInv, TokenInv, NEW w \in Workers, NEW job,
           worker[w].pc \in InLauncher, Pend(w, job),
           worker[w].target \in {NoAttempt, Own(w)},
           run = "RUNNING" =>
               worker[w].target = Own(w) /\ attempt[Own(w)] \in ClaimedStates,
           UNCHANGED <<run, jobName, queue, launches, ended, handler>>
    PROVE  TokenInv'
<1>1. ShapeInv'
  BY SameShape, PendFields DEF TokenInv
<1>2. Held(w)'
  BY InStepFacts, PendFields, HeldStays DEF InStep
<1>3. Placed(w)'
  BY <1>2, PendFields, LaunchingFacts DEF Placed, InStep, InLauncher
<1> QED BY <1>1, <1>3, PendFields, LaunchingFacts, DriverGoesOn

LEMMA LauncherRaisesMoves ==
    ASSUME TypeInv, TokenInv, NEW w \in Workers,
           worker[w].pc \in InLauncher, LauncherRaises(w, worker[w].at),
           worker[w].target \in {NoAttempt, Own(w)},
           run = "RUNNING" => attempt[Own(w)] = "PENDING" \/ worker[w].target = Own(w),
           UNCHANGED <<run, jobName, queue, launches, ended, handler>>
    PROVE  TokenInv'
<1>1. CASE FailStep(w)
  BY <1>1, FailMoves
<1>2. ASSUME NEW a \in ActiveAttempts(worker[w].at), attempt[a] \in ClaimedStates,
             Pend(w, FALSE)
      PROVE  TokenInv'
  <2>1. a = Own(w)
    BY LaunchingFacts DEF ActiveAttempts, IsActive, ActiveStates, Exists
  <2>2. attempt[Own(w)] # "PENDING"
    BY <1>2, <2>1 DEF ClaimedStates
  <2> QED BY <1>2, <2>1, <2>2, PendMoves
<1> QED BY <1>1, <1>2 DEF LauncherRaises

(* The launcher's row is moved on, or left alone, by its own worker. *)
LEMMA LauncherGoesOn ==
    ASSUME TypeInv, TokenInv, NEW w \in Workers, worker[w].pc \in InLauncher, Alone(w),
           worker'[w].pc \in {"claim", "call", "record"},
           worker'[w].task = worker[w].task, worker'[w].at = worker[w].at,
           worker'[w].own = worker[w].own, worker'[w].target = Own(w),
           \A b \in Attempts : b # Own(w) => attempt'[b] = attempt[b],
           attempt'[Own(w)] # "ABSENT",
           worker'[w].pc = "claim" =>
               /\ launches[Own(w)] = 0
               /\ run = "RUNNING" => attempt'[Own(w)] = "PENDING",
           worker'[w].pc = "call" => attempt'[Own(w)] = "DISPATCHING",
           worker'[w].pc = "record" => attempt'[Own(w)] \in ClaimedStates,
           worker[w].pc = "prepare" => worker'[w].pc = "claim",
           UNCHANGED <<run, step, jobName, queue, launches, ended, handler>>
    PROVE  TokenInv'
<1>1. PICK a \in Attempts : a = Own(w)
  BY LaunchingFacts
<1>2. /\ Driving(w) /\ Placed(w) /\ worker[w].at \in Steps
      /\ step[worker[w].at] = "RUNNING" /\ Kind[worker[w].at] = "container"
      /\ StepOf(a) = worker[w].at
  BY <1>1, LaunchingFacts
<1>3. Own(w)' = a
  BY <1>1 DEF Own
<1>4. attempt[a] # "ABSENT"
  BY <1>1, <1>2 DEF Placed, Exists
<1>5. ShapeInv'
  <2>1. \A b \in Attempts : attempt[b] = "ABSENT" => attempt'[b] = "ABSENT"
    BY <1>1, <1>4
  <2> QED BY <2>1, SameShape DEF TokenInv
<1>6. /\ worker[w].pc = "prepare" => launches[a] = 0
      /\ worker[w].pc # "prepare" => worker[w].target = a
  BY <1>1, <1>2 DEF Placed, InLauncher
<1>7. ended[a] = "none"
  BY <1>6 DEF TokenInv, TypeInv, TypeOK
<1>8. Held(w)'
  <2>1. \A b \in Attempts : step[StepOf(b)] = "RUNNING" /\ launches[b] > 0 =>
            worker[w].target = b
    BY <1>2 DEF Placed, Held
  <2>2. worker[w].target \in {NoAttempt, a}
    BY <1>2, <1>6 DEF Placed, InLauncher
  <2> QED BY <1>1, <2>1, <2>2, NoAttemptAssumption DEF Held
<1>9. Placed(w)'
  BY <1>1, <1>2, <1>3, <1>8 DEF Placed, InStep, InLauncher, Exists
<1> QED BY <1>1, <1>2, <1>5, <1>7, <1>9, DriverGoesOn

LEMMA PrepareMoves ==
    ASSUME TypeInv, AttemptsTypeOK, UntouchedInv, TokenInv,
           NEW w \in Workers, PrepareLaunch(w)
    PROVE  TokenInv'
<1>1. /\ worker[w].pc = "prepare" /\ worker[w].pc \in InLauncher
      /\ UNCHANGED <<run, jobName, queue, launches, ended, handler>>
  BY DEF PrepareLaunch, InLauncher, runVars, providerVars, callbackVars
<1>2. /\ Placed(w) /\ worker[w].at \in Steps /\ Own(w) \in Attempts
      /\ \A s \in Steps : Current(s) => s = worker[w].at
      /\ \A b \in Attempts : StepOf(b) = worker[w].at /\ Exists(b) => b = Own(w)
  BY <1>1, LaunchingFacts
<1>3. /\ worker[w].target = NoAttempt /\ ~jobName[worker[w].at]
      /\ launches[Own(w)] = 0 /\ Exists(Own(w))
      /\ run = "RUNNING" => attempt[Own(w)] = "PENDING"
  BY <1>1, <1>2 DEF Placed, InLauncher
<1>4. CASE FailStep(w)
  BY <1>1, <1>3, <1>4, FailMoves
<1>5. ASSUME NEW s \in Steps, Current(s), LauncherRaises(w, s)
      PROVE  TokenInv'
  BY <1>1, <1>2, <1>3, <1>5, LauncherRaisesMoves
<1>6. ASSUME NEW s \in Steps, Current(s), NEW a \in ActiveAttempts(s), IssueCredentials(a),
             worker' = [worker EXCEPT ![w].pc = "claim", ![w].target = a], UNCHANGED step
      PROVE  TokenInv'
  <2>1. a = Own(w)
    BY <1>2, <1>6 DEF ActiveAttempts, IsActive, ActiveStates, Exists
  <2>2. /\ Alone(w) /\ worker'[w].pc = "claim" /\ worker'[w].target = Own(w)
        /\ worker'[w].task = worker[w].task /\ worker'[w].at = worker[w].at
        /\ worker'[w].own = worker[w].own
    BY <1>6, <2>1 DEF Alone, TypeInv, TypeOK, WorkerStates
  <2>3. UNCHANGED attempt
    BY <1>6 DEF IssueCredentials
  <2> QED BY <1>1, <1>2, <1>3, <1>6, <2>2, <2>3, LauncherGoesOn DEF Exists
<1> QED BY <1>2, <1>3, <1>4, <1>5, <1>6 DEF PrepareLaunch

LEMMA ClaimMoves ==
    ASSUME TypeInv, AttemptsTypeOK, UntouchedInv, TokenInv,
           NEW w \in Workers, ClaimAttempt(w)
    PROVE  TokenInv'
<1>1. /\ worker[w].pc = "claim" /\ worker[w].pc \in InLauncher
      /\ UNCHANGED <<run, jobName, queue, launches, ended, handler>>
  BY DEF ClaimAttempt, InLauncher, runVars, providerVars, callbackVars
<1>2. /\ Placed(w) /\ worker[w].at \in Steps /\ Own(w) \in Attempts
      /\ StepOf(Own(w)) = worker[w].at
      /\ \A b \in Attempts : StepOf(b) = worker[w].at /\ Exists(b) => b = Own(w)
  BY <1>1, LaunchingFacts
<1>3. /\ worker[w].target = Own(w) /\ StepOf(worker[w].target) = worker[w].at
      /\ run = "RUNNING" => attempt[Own(w)] = "PENDING"
  BY <1>1, <1>2 DEF Placed, InLauncher
<1>4. CASE LauncherRaises(w, worker[w].at)
  BY <1>1, <1>3, <1>4, LauncherRaisesMoves
<1>5. ASSUME NEW a \in ActiveAttempts(worker[w].at), attempt[a] = "RUNNING", Pend(w, TRUE)
      PROVE  TokenInv'
  <2>1. a = Own(w)
    BY <1>2 DEF ActiveAttempts, IsActive, ActiveStates, Exists
  <2>2. run # "RUNNING"
    BY <1>3, <1>5, <2>1
  <2> QED BY <1>1, <1>3, <1>5, <2>2, PendMoves
<1>6. ASSUME NEW a \in ActiveAttempts(worker[w].at), attempt' = Moved(a, "DISPATCHING"),
             worker' = [worker EXCEPT ![w].pc = "call", ![w].target = a], UNCHANGED step
      PROVE  TokenInv'
  <2>1. a = Own(w) /\ a \in Attempts
    BY <1>2 DEF ActiveAttempts, IsActive, ActiveStates, Exists
  <2>2. /\ Alone(w) /\ worker'[w].pc = "call" /\ worker'[w].target = Own(w)
        /\ worker'[w].task = worker[w].task /\ worker'[w].at = worker[w].at
        /\ worker'[w].own = worker[w].own
    BY <1>6, <2>1 DEF Alone, TypeInv, TypeOK, WorkerStates
  <2>3. /\ attempt'[a] = "DISPATCHING"
        /\ \A b \in Attempts : b # a => attempt'[b] = attempt[b]
    BY <1>6, <2>1 DEF Moved, AttemptsTypeOK
  <2> QED BY <1>1, <1>6, <2>1, <2>2, <2>3, LauncherGoesOn
<1> QED BY <1>3, <1>4, <1>5, <1>6 DEF ClaimAttempt

LEMMA CallMoves ==
    ASSUME TypeInv, TokenInv, NEW w \in Workers, CallProvider(w)
    PROVE  TokenInv'
<1>1. /\ worker[w].pc = "call" /\ worker[w].pc \in InLauncher
      /\ UNCHANGED <<run, step, jobName, queue, ended, handler, attempt>>
  BY DEF CallProvider, InLauncher, runVars, stepVars, callbackVars, attemptVars
<1>2. Driving(w) /\ Placed(w) /\ worker[w].target = Own(w) /\ Own(w) \in Attempts
  BY <1>1, LaunchingFacts DEF Placed, InLauncher
<1>3. PICK pc \in {"accepted", "unknown"} : Goto(w, pc)
  BY DEF CallProvider
<1>4. \A a \in Attempts : launches'[a] \in {launches[a], launches[a] + 1}
  <2>1. launches \in [Attempts -> Nat]
    BY DEF TypeInv, TypeOK
  <2>2. launches' = launches
          \/ launches' = [launches EXCEPT ![worker[w].target] = @ + 1]
    BY DEF CallProvider
  <2> QED BY <2>1, <2>2
<1>5. ShapeInv'
  BY <1>1, SameShape DEF TokenInv
<1>6. Own(w)' = Own(w)
  BY <1>3, GotoFields DEF Own
<1>9. Held(w)'
  <2>1. \A a \in Attempts : a # worker[w].target => launches'[a] = launches[a]
    BY DEF CallProvider, TypeInv, TypeOK
  <2>2. \A a \in Attempts : step[StepOf(a)] = "RUNNING" /\ launches[a] > 0 =>
            worker[w].target = a
    BY <1>2 DEF Placed, Held
  <2> QED BY <1>1, <1>3, <2>1, <2>2, GotoFields DEF Held
<1>7. Placed(w)'
  BY <1>1, <1>2, <1>3, <1>6, <1>9, GotoFields DEF Placed, InStep, InLauncher, Exists
<1>8. \A a \in Attempts : ended[a] # "none" => worker'[w].target # a
  BY <1>3, GotoFields DEF TokenInv
<1> QED BY <1>1, <1>2, <1>3, <1>4, <1>5, <1>7, <1>8, GotoFields, DriverMoves

LEMMA RecordDispatchMoves ==
    ASSUME TypeInv, AttemptsTypeOK, UntouchedInv, TokenInv,
           NEW w \in Workers, RecordDispatch(w)
    PROVE  TokenInv'
<1>1. /\ worker[w].pc \in {"accepted", "unknown"} /\ worker[w].pc \in InLauncher
      /\ UNCHANGED <<run, jobName, queue, launches, ended, handler>>
  BY DEF RecordDispatch, InLauncher, runVars, providerVars, callbackVars
<1>2. /\ Placed(w) /\ worker[w].at \in Steps /\ Own(w) \in Attempts
      /\ StepOf(Own(w)) = worker[w].at
  BY <1>1, LaunchingFacts
<1>3. /\ worker[w].target = Own(w) /\ Exists(Own(w))
      /\ run = "RUNNING" => attempt[Own(w)] = "DISPATCHING"
  BY <1>1, <1>2 DEF Placed, InLauncher
<1>4. DispatchState(w) \in {"RUNNING", "UNKNOWN"}
  BY DEF DispatchState
<1>5. ASSUME NEW job, attempt' = Moved(Own(w), DispatchState(w)), UNCHANGED step,
             worker' = [worker EXCEPT ![w].pc = "record", ![w].job = job]
      PROVE  TokenInv'
  <2>2. /\ Alone(w) /\ worker'[w].pc = "record" /\ worker'[w].target = Own(w)
        /\ worker'[w].task = worker[w].task /\ worker'[w].at = worker[w].at
        /\ worker'[w].own = worker[w].own
    BY <1>3, <1>5 DEF Alone, TypeInv, TypeOK, WorkerStates
  <2>3. PICK a \in Attempts : a = Own(w)
    BY <1>2
  <2>4. /\ attempt'[a] \in ClaimedStates /\ attempt'[a] # "ABSENT"
        /\ \A b \in Attempts : b # a => attempt'[b] = attempt[b]
    BY <1>4, <1>5, <2>3 DEF Moved, AttemptsTypeOK, ClaimedStates
  <2> QED BY <1>1, <1>5, <2>2, <2>3, <2>4, LauncherGoesOn
<1>6. CASE LauncherRaises(w, worker[w].at)
  BY <1>1, <1>3, <1>6, LauncherRaisesMoves
<1> QED BY <1>2, <1>3, <1>5, <1>6 DEF RecordDispatch

(* The step is failed: its attempt is looked at, closed if it was never     *)
(* claimed, and the step is closed.                                         *)
LEMMA FailingMoves ==
    ASSUME TypeInv, AttemptsTypeOK, TokenInv, NEW w \in Workers,
           ValidatorRaises(w) \/ InspectAttempt(w) \/ CloseUnlaunched(w)
             \/ FinalizeFailedStep(w)
    PROVE  TokenInv'
<1>1. /\ worker[w].pc \in {"record", "fail", "close", "finalize"}
      /\ UNCHANGED <<run, jobName, queue, launches, ended, handler>>
  BY DEF ValidatorRaises, InspectAttempt, CloseUnlaunched, FinalizeFailedStep,
         runVars, stepVars, providerVars, callbackVars
<1>2. /\ Driving(w) /\ Held(w) /\ worker[w].at \in Steps
      /\ step[worker[w].at] = "RUNNING" /\ Kind[worker[w].at] = "container"
  BY <1>1, InStepFacts DEF InStep, Placed
<1>3. CASE ValidatorRaises(w)
  BY <1>1, <1>3, FailMoves DEF ValidatorRaises
<1>4. ASSUME NEW pc \in {"close", "finalize"}, Goto(w, pc), UNCHANGED step,
             \A a \in Attempts : attempt[a] = "ABSENT" => attempt'[a] = "ABSENT"
      PROVE  TokenInv'
  <2>1. ShapeInv'
    BY <1>1, <1>4, SameShape DEF TokenInv
  <2>2. Placed(w)'
    BY <1>1, <1>2, <1>4, GotoFields, HeldStays DEF Placed, InStep, InLauncher
  <2> QED BY <1>1, <1>2, <1>4, <2>1, <2>2, GotoFields, DriverGoesOn
<1>5. CASE InspectAttempt(w)
  <2>1. UNCHANGED <<step, attempt>>
    BY <1>5 DEF InspectAttempt, stepVars, attemptVars
  <2> QED BY <1>4, <1>5, <2>1 DEF InspectAttempt
<1>6. CASE CloseUnlaunched(w)
  <2>1. PICK a \in Attempts : a = Own(w)
    BY <1>6, OwnIsAttempt DEF CloseUnlaunched, TypeInv, Owning
  <2>2. PICK target \in {"FAILED", "CANCELED"} :
            MayTransition(a, target) /\ attempt' = Moved(a, target)
    BY <1>6, <2>1 DEF CloseUnlaunched
  <2>3. \A b \in Attempts : attempt[b] = "ABSENT" => attempt'[b] = "ABSENT"
    BY <2>2 DEF MayTransition, Exists, Moved, AttemptsTypeOK
  <2> QED BY <1>4, <1>6, <2>3 DEF CloseUnlaunched, stepVars
<1>7. CASE FinalizeFailedStep(w)
  <2>1. /\ step' = [step EXCEPT ![worker[w].at] = "FAILED"]
        /\ Loop(w, worker[w].at, "failed") /\ UNCHANGED attempt
    BY <1>7 DEF FinalizeFailedStep, attemptVars
  <2>2. ShapeInv' /\ NoneRunning'
    BY <1>1, <2>1, FailedShape DEF InStep
  <2>3. Placed(w)'
    BY <2>1, <2>2, LoopFields, NothingHeld DEF Placed, InStep, InLauncher
  <2> QED BY <1>1, <1>2, <2>1, <2>2, <2>3, LoopFields, DriverGoesOn
<1> QED BY <1>3, <1>5, <1>6, <1>7

-----------------------------------------------------------------------------
(* The worker's saves *)

(* The step it marks as running is the one it works on, and it is running. *)
LEMMA RecordPendingMoves ==
    ASSUME TypeInv, TokenInv, NEW w \in Workers, RecordPending(w)
    PROVE  TokenInv'
<1>1. /\ worker[w].pc = "record" /\ worker[w].at \in Steps
      /\ UNCHANGED <<run, queue, launches, ended, handler, attempt>>
      /\ Loop(w, worker[w].at, "pending")
      /\ jobName' = [jobName EXCEPT ![worker[w].at] = worker[w].job]
  BY DEF RecordPending, runVars, providerVars, callbackVars, attemptVars, TypeInv, WorkerInv,
         Owning
<1>2. Driving(w)
  BY <1>1 DEF Driving
<1>3. /\ step[worker[w].at] = "RUNNING"
      /\ worker[w].target # NoAttempt => StepOf(worker[w].target) = worker[w].at
  BY <1>1, <1>2 DEF TokenInv, Placed, InStep
<1>4. UNCHANGED step
  <2> DEFINE marked == {worker[w].at}
                         \cup (IF worker[w].job /\ worker[w].target # NoAttempt
                                THEN {StepOf(worker[w].target)} ELSE {})
  <2>1. /\ step' = [s \in Steps |-> IF s \in marked THEN "RUNNING" ELSE step[s]]
        /\ \A s \in marked : s = worker[w].at
    BY <1>3 DEF RecordPending
  <2> HIDE DEF marked
  <2>2. \A s \in Steps : step'[s] = step[s]
    BY <1>3, <2>1
  <2> QED BY <2>1, <2>2, StepType
<1>5. ShapeInv'
  <2>1. \A r \in Steps : jobName'[r] => jobName[r] \/ step[r] # "ABSENT"
    BY <1>1, <1>3, StepType
  <2> QED BY <1>1, <1>4, <2>1, SameShape DEF TokenInv
<1>6. ~Driving(w)'
  BY <1>1, LoopFields DEF Driving
<1> QED BY <1>1, <1>2, <1>4, <1>5, <1>6, LoopFields, DriverGoesOn

LEMMA SaveMoves ==
    ASSUME TypeInv, TokenInv, NEW w \in Workers, SaveOutcome(w)
    PROVE  TokenInv'
<1>1. /\ UNCHANGED <<step, jobName, queue, launches, ended, handler, attempt>>
      /\ worker[w].pc \in {"save", "raised", "canceled"}
      /\ run' \in RunTerminal
  BY DEF SaveOutcome, stepVars, providerVars, callbackVars, attemptVars, RunTerminal
<1>2. PICK pc \in {"issue", "emit"} :
          /\ Leave(w, pc)
          /\ pc = "issue" => worker[w].pc = "save" /\ run' = "SUCCEEDED"
  BY DEF SaveOutcome
<1>3. run' = "SUCCEEDED" => worker[w].pc = "save" /\ worker[w].result # "failed"
  BY DEF SaveOutcome
<1>4. Driving(w) => Placed(w)
  BY DEF TokenInv
<1>5. run' = "SUCCEEDED" => Driving(w) /\ AllCleared
  BY <1>3, <1>4 DEF Driving, Placed
<1>6. ShapeInv'
  BY <1>1, <1>5, SameShape DEF TokenInv, RunActive, RunTerminal
<1>7. CASE worker[w].pc = "canceled"
  <2>1. ~Driving(w) /\ ~Driving(w)'
    BY <1>2, <1>7, LeaveFields DEF Driving
  <2>2. run' # "RUNNING"
    BY <1>1 DEF RunTerminal
  <2> QED BY <1>1, <1>2, <1>6, <2>1, <2>2, LeaveFields, BesideToken DEF Alone
<1>8. CASE worker[w].pc # "canceled"
  <2>1. Driving(w)
    BY <1>1, <1>8 DEF Driving
  <2>2. Placed(w)'
    <3>1. Held(w)'
      BY <1>1, <1>2, <2>1, LeaveFields, HeldStays DEF TokenInv, Placed
    <3> QED BY <1>1, <1>2, <1>5, <3>1, LeaveFields
            DEF Placed, InStep, InLauncher, AllCleared, Cleared
  <2>3. \A a \in Attempts : ended[a] # "none" => worker'[w].target # a
    BY <1>2, LeaveFields DEF TokenInv
  <2>4. launches \in [Attempts -> Nat]
    BY DEF TypeInv, TypeOK
  <2> QED BY <1>1, <1>2, <1>6, <2>1, <2>2, <2>3, <2>4, LeaveFields, DriverMoves
<1> QED BY <1>7, <1>8

LEMMA IssueMoves ==
    ASSUME TypeInv, DecisionInv, TokenInv, NEW w \in Workers, IssueSignedCredential(w)
    PROVE  TokenInv'
<1>1. /\ UNCHANGED <<jobName, queue, launches, ended, handler, attempt>>
      /\ worker[w].pc = "issue" /\ Goto(w, "emit")
  BY DEF IssueSignedCredential, providerVars, callbackVars, attemptVars
<1>2. Driving(w) /\ run \in RunTerminal
  BY <1>1 DEF Driving, DecisionInv
<1>3. AllCleared
  BY <1>1, <1>2 DEF TokenInv, Placed
<1>4. run' \in RunTerminal
  BY <1>2 DEF IssueSignedCredential, RunTerminal
<1>5. AllCleared'
  <2>1. CASE UNCHANGED step
    BY <1>3, <2>1 DEF AllCleared, Cleared
  <2>2. ASSUME NEW s \in Steps, IssuesCredential(s),
               step' = [step EXCEPT ![s] = "FAILED"]
        PROVE  AllCleared'
    <3>1. s \in Tolerant
      BY <2>2 DEF IssuesCredential, Tolerant
    <3>2. /\ step'[s] = "FAILED"
          /\ \A r \in Steps : r # s => step'[r] = step[r]
      BY <2>2, StepType
    <3> QED BY <1>3, <3>1, <3>2 DEF AllCleared, Cleared
  <2> QED BY <2>1, <2>2 DEF IssueSignedCredential
<1>6. ShapeInv'
  <2>1. \A s \in Steps : step'[s] # "ABSENT"
    BY <1>5 DEF AllCleared, Cleared
  <2>2. InOrder' /\ SuccessMeansPassed'
    BY <1>5 DEF InOrder, SuccessMeansPassed, AllCleared
  <2>3. OneRow' /\ RowsOfSteps'
    BY <1>1, <2>1, AttemptParts DEF OneRow, RowsOfSteps, Exists, TokenInv, ShapeInv
  <2>4. NamedJobs'
    BY <2>1 DEF NamedJobs
  <2> QED BY <2>2, <2>3, <2>4 DEF ShapeInv
<1>7. ~Driving(w)'
  BY <1>1, GotoFields DEF Driving
<1>8. \A a \in Attempts : ended[a] # "none" => worker'[w].target # a
  BY <1>1, GotoFields DEF TokenInv
<1>9. launches \in [Attempts -> Nat]
  BY DEF TypeInv, TypeOK
<1> QED BY <1>1, <1>2, <1>4, <1>6, <1>7, <1>8, <1>9, GotoFields, DriverMoves

(* A worker without the token ends its delivery. *)
LEMMA LeavesBeside ==
    ASSUME Orderly, TypeInv, TokenInv, NEW w \in Workers, ~Driving(w), Acknowledge(w),
           run' = run \/ run' = "FAILED",
           UNCHANGED <<step, jobName, launches, ended, handler, attempt>>
    PROVE  TokenInv'
<1>1. ShapeInv'
  BY SameShape DEF TokenInv
<1>2. ~Driving(w)'
  BY AcknowledgeFields DEF Driving
<1>3. run \in RunTerminal => run' \in RunTerminal
  BY DEF RunTerminal
<1> QED BY <1>1, <1>2, <1>3, AcknowledgeFields, BesideToken DEF Alone

(* The worker with the token ends its delivery. *)
LEMMA LeavesWithToken ==
    ASSUME Orderly, TypeInv, TokenInv, NEW w \in Workers, Driving(w), Acknowledge(w),
           run' = run \/ run' = "FAILED",
           UNCHANGED <<step, jobName, launches, ended, handler, attempt>>
    PROVE  TokenInv'
<1>1. ShapeInv'
  BY SameShape DEF TokenInv
<1>2. ~Driving(w)'
  BY AcknowledgeFields DEF Driving
<1>3. \A a \in Attempts : a # NoAttempt
  BY NoAttemptAssumption
<1>4. launches \in [Attempts -> Nat] /\ (run \in RunTerminal => run' \in RunTerminal)
  BY DEF TypeInv, TypeOK, RunTerminal
<1> QED BY <1>1, <1>2, <1>3, <1>4, AcknowledgeFields, DriverMoves

LEMMA EmitMoves ==
    ASSUME Orderly, TypeInv, TokenInv, NEW w \in Workers, EmitFinalized(w)
    PROVE  TokenInv'
<1>1. /\ UNCHANGED <<run, step, jobName, launches, ended, handler, attempt>>
      /\ worker[w].pc = "emit" /\ Acknowledge(w)
  BY DEF EmitFinalized, stepVars, providerVars, callbackVars, attemptVars
<1>2. ~Driving(w)
  BY <1>1 DEF Driving
<1> QED BY <1>1, <1>2, LeavesBeside

LEMMA MarkMoves ==
    ASSUME Orderly, TypeInv, TokenInv, NEW w \in Workers, MarkRunFailed(w)
    PROVE  TokenInv'
<1>1. /\ UNCHANGED <<step, jobName, launches, ended, handler, attempt>>
      /\ worker[w].pc = "mark" /\ Acknowledge(w) /\ run' = "FAILED"
  BY DEF MarkRunFailed, stepVars, providerVars, callbackVars, attemptVars
<1> QED BY <1>1, LeavesBeside, LeavesWithToken

(* An error ends the task behind the loop. *)
LEMMA TaskRaisesMoves ==
    ASSUME Orderly, TypeInv, DecisionInv, TokenInv, NEW w \in Workers, TaskRaises(w)
    PROVE  TokenInv'
<1>1. UNCHANGED <<run, step, jobName, launches, ended, handler, attempt>>
  BY DEF TaskRaises, runVars, stepVars, providerVars, callbackVars, attemptVars
<1>2. CASE run \in RunTerminal
  BY <1>1, <1>2, LeavesBeside, LeavesWithToken DEF TaskRaises
<1>3. CASE run \notin RunTerminal
  <2>1. Goto(w, "mark") /\ UNCHANGED queue
    BY <1>3 DEF TaskRaises
  <2>2. ShapeInv'
    BY <1>1, SameShape DEF TokenInv
  <2>3. worker[w].pc \notin {"idle", "canceled", "emit", "mark"}
    BY <1>3 DEF TaskRaises, Unguarded, DecisionInv, TokenInv
  <2>4. CASE Driving(w)
    <3>1. Placed(w)'
      BY <1>1, <2>1, <2>4, GotoFields, HeldStays DEF TokenInv, Placed, InStep, InLauncher
    <3> QED BY <1>1, <2>1, <2>2, <2>4, <3>1, GotoFields, DriverGoesOn
  <2>5. CASE ~Driving(w)
    <3>1. worker[w].pc = "loop" /\ worker[w].result = "pending"
      BY <2>3, <2>5 DEF Driving
    <3>2. ~Driving(w)'
      BY <2>1, <3>1, GotoFields DEF Driving
    <3>3. run' = "RUNNING" => UNCHANGED attempt
      BY <1>1
    <3> QED BY <1>1, <2>1, <2>2, <2>5, <3>2, GotoFields, BesideToken DEF Alone
  <2> QED BY <2>4, <2>5
<1> QED BY <1>2, <1>3

(* Nothing a worker does breaks the argument. *)
LEMMA WorkersKeepToken ==
    ASSUME Orderly, TypeInv, KnownInv, TokenInv, NEW w \in Workers, WorkerStep(w)
    PROVE  TokenInv'
<1> AttemptsTypeOK /\ DecisionInv /\ UntouchedInv /\ LaunchInv
  BY DEF KnownInv, TypeInv, TypeOK
<1>1. ASSUME NEW t \in Tasks, BeginResume(w, t) PROVE TokenInv'
  BY <1>1, BeginResumeMoves
<1> QED
  BY <1>1, BeginInitialMoves, CheckMoves, StartMoves, LocalMoves, RaiseMoves,
     AllocateMoves, PrepareMoves, ClaimMoves, CallMoves, RecordDispatchMoves,
     FailingMoves, RecordPendingMoves, SaveMoves, IssueMoves, EmitMoves, TaskRaisesMoves,
     MarkMoves DEF WorkerStep

-----------------------------------------------------------------------------
(* The transport, the user, the watchdog *)

LEMMA LaunchKeepsToken ==
    ASSUME TypeInv, TokenInv, LaunchStep
    PROVE  TokenInv'
<1>1. /\ UNCHANGED <<step, jobName, worker, launches, ended, handler, attempt>>
      /\ queue' \subseteq queue \cup {0}
      /\ run' = run \/ run' = "FAILED"
  BY DEF LaunchStep, EnqueueRun, EnqueueRaises, FailLaunch, runVars, stepVars,
         providerVars, callbackVars, attemptVars
<1>2. ShapeInv'
  BY <1>1, SameShape DEF TokenInv, RunActive
<1>3. run \in RunTerminal => run' \in RunTerminal
  BY <1>1 DEF RunTerminal
<1> QED BY <1>1, <1>2, <1>3, BesideToken

LEMMA SkipKeepsToken ==
    ASSUME TypeInv, TokenInv, NEW t \in Tasks, SkipDelivery(t)
    PROVE  TokenInv'
<1>1. /\ UNCHANGED <<run, step, jobName, worker, launches, ended, handler, attempt>>
      /\ queue' \subseteq queue \cup {0}
  BY DEF SkipDelivery, runVars, stepVars, providerVars, callbackVars, attemptVars
<1>2. ShapeInv'
  BY <1>1, SameShape DEF TokenInv
<1> QED BY <1>1, <1>2, BesideToken

LEMMA FenceKeepsRows ==
    ASSUME AttemptsTypeOK, NEW target \in TerminalStates, Fence(target)
    PROVE  \A a \in Attempts : attempt'[a] = "ABSENT" <=> attempt[a] = "ABSENT"
<1>1. attempt' = [a \in Attempts |-> IF a \in Fenced THEN target ELSE attempt[a]]
  BY DEF Fence
<1>2. \A a \in Attempts : a \in Fenced => attempt[a] # "ABSENT"
  BY DEF Fenced, IsActive, ActiveStates
<1>3. target # "ABSENT"
  BY DEF TerminalStates
<1> QED BY <1>1, <1>2, <1>3

(* The run is decided elsewhere, or a decision is followed up. *)
LEMMA DecidedElsewhere ==
    ASSUME TypeInv, TokenInv, run' \in RunTerminal,
           run' = run \/ run' \in {"FAILED", "CANCELED", "TIMED_OUT"},
           \A a \in Attempts : attempt'[a] = "ABSENT" <=> attempt[a] = "ABSENT",
           UNCHANGED <<step, jobName, queue, worker, launches, ended, handler>>
    PROVE  TokenInv'
<1>1. ShapeInv'
  BY SameShape DEF TokenInv
<1>2. run' # "RUNNING"
  BY DEF RunTerminal
<1> QED BY <1>1, <1>2, BesideToken

LEMMA CancelKeepsToken ==
    ASSUME TypeInv, AttemptsTypeOK, DecisionInv, TokenInv, CancelRun \/ FollowCancel
    PROVE  TokenInv'
<1>1. /\ UNCHANGED <<step, jobName, queue, worker, launches, ended, handler>>
      /\ Fence("CANCELED") /\ run' \in RunTerminal
      /\ run' = run \/ run' = "CANCELED"
  BY DEF CancelRun, FollowCancel, DecisionInv, stepVars, providerVars, callbackVars,
         RunTerminal
<1>2. "CANCELED" \in TerminalStates
  BY DEF TerminalStates
<1> QED BY <1>1, <1>2, FenceKeepsRows, DecidedElsewhere

LEMMA WatchdogKeepsToken ==
    ASSUME TypeInv, AttemptsTypeOK, DecisionInv, TokenInv,
           SelectStuckRun \/ RecoverReturns \/ ReconcileFailed
             \/ ReconcileFailedAttempt \/ TimeOutRun \/ FollowTimeout
    PROVE  TokenInv'
<1>1. UNCHANGED <<step, jobName, queue, worker, launches, ended, handler>>
  BY DEF SelectStuckRun, RecoverReturns, ReconcileFailed, ReconcileFailedAttempt,
         TimeOutRun, FollowTimeout, stepVars, providerVars, callbackVars
<1>2. CASE UNCHANGED <<run, attempt>>
  <2>1. ShapeInv'
    BY <1>1, <1>2, SameShape DEF TokenInv
  <2> QED BY <1>1, <1>2, <2>1, BesideToken
<1>3. CASE run' \in {"FAILED", "TIMED_OUT"} /\ UNCHANGED attempt
  BY <1>1, <1>3, DecidedElsewhere DEF RunTerminal
<1>4. ASSUME Fence("TIMED_OUT"), run' = "TIMED_OUT" \/ (run' = run /\ run \in RunTerminal)
      PROVE  TokenInv'
  <2>1. "TIMED_OUT" \in TerminalStates /\ run' \in RunTerminal
    BY <1>4 DEF TerminalStates, RunTerminal
  <2> QED BY <1>1, <1>4, <2>1, FenceKeepsRows, DecidedElsewhere
<1>5. CASE SelectStuckRun \/ RecoverReturns
  BY <1>2, <1>5 DEF SelectStuckRun, RecoverReturns, runVars, attemptVars
<1>6. CASE ReconcileFailed
  BY <1>2, <1>3, <1>6 DEF ReconcileFailed, attemptVars
<1>7. CASE ReconcileFailedAttempt
  <2>1. watchdog.of \in Attempts /\ run \in RunTerminal /\ UNCHANGED run
    BY <1>7 DEF ReconcileFailedAttempt, TypeInv, WatchdogInv, DecisionInv
  <2>2. CASE UNCHANGED attempt
    BY <1>2, <2>1, <2>2
  <2>3. CASE MayTransition(watchdog.of, "FAILED") /\ attempt' = Moved(watchdog.of, "FAILED")
    <3>1. attempt[watchdog.of] # "ABSENT"
      BY <2>3 DEF MayTransition, Exists
    <3>2. \A a \in Attempts : attempt'[a] = "ABSENT" <=> attempt[a] = "ABSENT"
      BY <2>1, <2>3, <3>1 DEF Moved, AttemptsTypeOK
    <3> QED BY <1>1, <2>1, <3>2, DecidedElsewhere
  <2> QED BY <1>7, <2>2, <2>3 DEF ReconcileFailedAttempt
<1>8. CASE TimeOutRun
  BY <1>2, <1>4, <1>8 DEF TimeOutRun
<1>9. CASE FollowTimeout
  <2>1. run \in RunTerminal /\ UNCHANGED run
    BY <1>9 DEF FollowTimeout, DecisionInv
  <2> QED BY <1>2, <1>4, <1>9, <2>1 DEF FollowTimeout
<1> QED BY <1>5, <1>6, <1>7, <1>8, <1>9

-----------------------------------------------------------------------------
(* The provider and its callbacks *)

LEMMA ProviderKeepsToken ==
    ASSUME Orderly, TypeInv, TokenInv, NEW a \in Attempts, ProviderEnds(a)
    PROVE  TokenInv'
<1>1. /\ UNCHANGED <<run, step, jobName, queue, worker, launches, handler, attempt>>
      /\ launches[a] > 0 /\ \A w \in Workers : worker[w].target # a
  BY DEF ProviderEnds, Orderly, runVars, stepVars, callbackVars, attemptVars
<1>2. \A b \in Attempts : b # a => ended'[b] = ended[b]
  BY DEF ProviderEnds, TypeInv, TypeOK
<1>3. ShapeInv'
  BY <1>1, SameShape DEF TokenInv
<1>4. OneDriver' /\ (NoDriver => NoDriver')
  BY <1>1 DEF TokenInv, OneDriver, NoDriver, Driving
<1>5. ASSUME NEW w \in Workers, Driving(w)' PROVE Placed(w)'
  <2>1. Driving(w) /\ Placed(w)
    BY <1>1, <1>5 DEF TokenInv, Driving
  <2> QED BY <1>1, <2>1, PlacedStays
<1>6. \A w \in Workers : worker'[w].pc = "canceled" => run' \in RunTerminal
  BY <1>1 DEF TokenInv
<1>7. \A t \in Tasks : Waiting(t)' => Front(t + 1)' /\ NoDriver'
  BY <1>1, <1>4 DEF TokenInv, Waiting, Front, Cleared
<1>8. \A b \in Attempts : handler'[b] # "idle" =>
          handler'[b] = "processing" /\ step'[StepOf(b)] = "RUNNING" /\ Exists(b)'
              /\ NoDriver'
  BY <1>1, <1>4 DEF TokenInv, Exists
<1>9. \A b \in Attempts : ended'[b] # "none" =>
          launches'[b] > 0 /\ \A w \in Workers : worker'[w].target # b
  BY <1>1, <1>2 DEF TokenInv
<1> QED BY <1>3, <1>4, <1>5, <1>6, <1>7, <1>8, <1>9 DEF TokenInv

(* An answer is admitted only when nobody else carries the run forward. *)
LEMMA AdmittedIsAlone ==
    ASSUME KnownInv, TokenInv, NEW a \in Attempts,
           ended[a] # "none", step[StepOf(a)] = "RUNNING"
    PROVE  NoDriver /\ Exists(a)
<1>1. launches[a] > 0 /\ \A w \in Workers : worker[w].target # a
  BY DEF TokenInv
<1>2. Exists(a)
  BY <1>1 DEF KnownInv, LaunchInv, Exists
<1>3. ASSUME NEW w \in Workers, Driving(w) PROVE FALSE
  BY <1>1, <1>3 DEF TokenInv, Placed, Held
<1> QED BY <1>2, <1>3 DEF NoDriver

LEMMA AdmitKeepsToken ==
    ASSUME TypeInv, KnownInv, TokenInv, NEW a \in Attempts, AdmitCallback(a),
           UNCHANGED <<run, step, jobName, queue, worker, launches, ended, attempt>>
    PROVE  TokenInv'
<1>1. ShapeInv'
  BY SameShape DEF TokenInv
<1>2. CASE UNCHANGED handler
  BY <1>1, <1>2, BesideToken
<1>3. CASE handler' # handler
  <2>1. /\ ended[a] # "none" /\ step[StepOf(a)] = "RUNNING" /\ run \notin RunTerminal
        /\ handler' = [handler EXCEPT ![a] = "processing"]
    BY <1>3 DEF AdmitCallback, Current
  <2>2. NoDriver /\ Exists(a)
    BY <2>1, AdmittedIsAlone
  <2>3. NoDriver'
    BY <2>2 DEF NoDriver, Driving
  <2>4. /\ handler'[a] = "processing"
        /\ \A b \in Attempts : b # a => handler'[b] = handler[b]
    BY <2>1 DEF TypeInv, TypeOK
  <2>5. \A b \in Attempts : handler'[b] # "idle" =>
            handler'[b] = "processing" /\ step'[StepOf(b)] = "RUNNING" /\ Exists(b)'
                /\ NoDriver'
    BY <2>1, <2>2, <2>3, <2>4 DEF TokenInv, Exists
  <2>6. OneDriver' /\ \A w \in Workers : Driving(w)' => Placed(w)'
    BY <2>3 DEF NoDriver, OneDriver
  <2>7. \A t \in Tasks : Waiting(t)' => Front(t + 1)' /\ NoDriver'
    BY <2>3 DEF TokenInv, Waiting, Front, Cleared
  <2>8. \A w \in Workers : worker'[w].pc = "canceled" => run' \in RunTerminal
    BY DEF TokenInv
  <2>9. \A b \in Attempts : ended'[b] # "none" =>
            launches'[b] > 0 /\ \A w \in Workers : worker'[w].target # b
    BY DEF TokenInv
  <2> QED BY <1>1, <2>5, <2>6, <2>7, <2>8, <2>9 DEF TokenInv
<1> QED BY <1>2, <1>3

LEMMA DeliveryKeepsToken ==
    ASSUME TypeInv, KnownInv, TokenInv,
           RecoverCallback \/ \E a \in Attempts : ReceiveCallback(a)
    PROVE  TokenInv'
<1>1. UNCHANGED <<run, step, jobName, queue, worker, launches, ended, attempt>>
  BY DEF RecoverCallback, ReceiveCallback, runVars, stepVars, providerVars, attemptVars
<1>2. CASE \E a \in Attempts : AdmitCallback(a)
  BY <1>1, <1>2, AdmitKeepsToken
<1>3. CASE UNCHANGED handler
  <2>1. ShapeInv'
    BY <1>1, SameShape DEF TokenInv
  <2> QED BY <1>1, <1>3, <2>1, BesideToken
<1>4. CASE RecoverCallback
  <2>1. watchdog.of # NoAttempt => watchdog.of \in Attempts
    BY DEF TypeInv, TypeOK
  <2> QED BY <1>2, <1>3, <1>4, <2>1 DEF RecoverCallback, callbackVars
<1> QED BY <1>2, <1>4 DEF ReceiveCallback

(* A request gives its receipt back without an effect on the run. *)
LEMMA RequestReturns ==
    ASSUME TypeInv, TokenInv, NEW a \in Attempts, handler[a] # "idle",
           handler' = [handler EXCEPT ![a] = "idle"],
           \A b \in Attempts : attempt'[b] = "ABSENT" <=> attempt[b] = "ABSENT",
           UNCHANGED <<run, step, jobName, queue, worker, launches, ended>>
    PROVE  TokenInv'
<1>1. ShapeInv'
  BY SameShape DEF TokenInv
<1>2. NoDriver
  BY DEF TokenInv
<1>3. NoDriver'
  BY <1>2 DEF NoDriver, Driving
<1>4. \A b \in Attempts : handler'[b] # "idle" => handler'[b] = handler[b]
  BY DEF TypeInv, TypeOK
<1>5. \A b \in Attempts : handler'[b] # "idle" =>
          handler'[b] = "processing" /\ step'[StepOf(b)] = "RUNNING" /\ Exists(b)'
              /\ NoDriver'
  BY <1>3, <1>4 DEF TokenInv, Exists
<1>6. OneDriver' /\ \A w \in Workers : Driving(w)' => Placed(w)'
  BY <1>3 DEF NoDriver, OneDriver
<1>7. \A t \in Tasks : Waiting(t)' => Front(t + 1)' /\ NoDriver'
  BY <1>3 DEF TokenInv, Waiting, Front, Cleared
<1>8. \A w \in Workers : worker'[w].pc = "canceled" => run' \in RunTerminal
  BY DEF TokenInv
<1>9. \A b \in Attempts : ended'[b] # "none" =>
          launches'[b] > 0 /\ \A w \in Workers : worker'[w].target # b
  BY DEF TokenInv
<1> QED BY <1>1, <1>5, <1>6, <1>7, <1>8, <1>9 DEF TokenInv

(* A request completes the step it was admitted for: it was alone with the  *)
(* token, and leaves it to the resume task, if there is one, or ends the run *)
LEMMA RequestCompletes ==
    ASSUME TypeInv, AttemptsTypeOK, TokenInv, NEW a \in Attempts, handler[a] # "idle",
           NEW outcome \in StepTerminal, Complete(a, outcome),
           run' = run \/ (run \in RunActive /\ run' \in RunTerminal),
           run' = "SUCCEEDED" => run = "SUCCEEDED"
                                   \/ (outcome = "PASSED" /\ StepOf(a) = NumSteps),
           queue' = queue
             \/ (outcome = "PASSED" /\ queue' = queue \cup {StepOf(a)})
    PROVE  TokenInv'
<1>1. PICK s \in Steps : s = StepOf(a) /\ s \in Nat
  BY AttemptParts, StepFacts
<1>2. /\ step[s] = "RUNNING" /\ Exists(a) /\ NoDriver
      /\ \A b \in Attempts : handler[b] # "idle" => step[StepOf(b)] = "RUNNING" /\ Exists(b)
  BY <1>1 DEF TokenInv
<1>3. /\ step' = [step EXCEPT ![s] = outcome]
      /\ handler' = [handler EXCEPT ![a] = "idle"]
      /\ attempt' = [attempt EXCEPT ![a] = "COMPLETED"]
      /\ UNCHANGED <<jobName, worker, launches, ended>>
  BY <1>1 DEF Complete, CloseAttempt, CloseReceipt, Moved, providerVars
<1>4. /\ \A r \in Steps : r < s => Cleared(r)
      /\ \A r \in Steps : r > s => step[r] = "ABSENT"
      /\ \A r \in Steps : step[r] = "RUNNING" => r = s
  BY <1>2, OpenStepIsFront DEF TokenInv, ShapeInv
<1>5. /\ step'[s] = outcome
      /\ \A r \in Steps : r # s => step'[r] = step[r]
  BY <1>3, StepType
<1>6. /\ attempt'[a] = "COMPLETED"
      /\ \A b \in Attempts : b # a => attempt'[b] = attempt[b]
  BY <1>3 DEF AttemptsTypeOK
<1>7. \A b \in Attempts : StepOf(b) = s /\ Exists(b) => b = a
  BY <1>1, <1>2 DEF TokenInv, ShapeInv, OneRow
<1>8. outcome = "PASSED" =>
          /\ \A r \in Steps : r < s + 1 => Cleared(r)'
          /\ \A r \in Steps : r >= s + 1 => step'[r] = "ABSENT"
  <2>1. outcome = "PASSED" => \A r \in Steps : r <= s => Cleared(r)'
    BY <1>4, <1>5, StepFacts DEF Cleared
  <2>2. \A r \in Steps : r >= s + 1 => step'[r] = "ABSENT"
    BY <1>1, <1>4, <1>5, StepFacts
  <2> QED BY <1>1, <2>1, <2>2, StepFacts
<1>9. run # "SUCCEEDED"
  BY <1>2 DEF TokenInv, ShapeInv, SuccessMeansPassed, Cleared
<1>10. ShapeInv'
  <2>1. run' = "SUCCEEDED" => AllCleared'
    BY <1>1, <1>8, <1>9, StepType DEF AllCleared
  <2>2. \A b \in Attempts : attempt[b] = "ABSENT" => attempt'[b] = "ABSENT"
    BY <1>2, <1>6 DEF Exists
  <2>5. outcome \in {"PASSED", "FAILED", "SKIPPED"}
    BY DEF StepTerminal
  <2> QED BY <1>2, <1>3, <2>1, <2>2, <2>5, CloseShape DEF TokenInv
<1>11. NoDriver'
  BY <1>2, <1>3 DEF NoDriver, Driving
<1>12. ASSUME NEW t \in Tasks, Waiting(t)' PROVE Front(t + 1)' /\ NoDriver'
  <2>1. ~Waiting(t)
    <3>1. Waiting(t) => Front(t + 1) /\ t + 1 \in Nat
      BY StepType DEF TokenInv, Tasks
    <3> QED BY <1>2, <3>1, FrontHasNoneRunning DEF NoneRunning
  <2>2. t \notin queue
    BY <1>3, <1>12, <2>1 DEF Waiting
  <2>3. t = s /\ outcome = "PASSED"
    BY <1>1, <1>12, <2>2 DEF Waiting
  <2> QED BY <1>8, <1>11, <2>3 DEF Front
<1>13. \A b \in Attempts : handler'[b] = "idle"
  <2>1. \A b \in Attempts : b # a => handler[b] = "idle"
    BY <1>2, <1>4, <1>7, AttemptParts
  <2> QED BY <1>3, <2>1 DEF TypeInv, TypeOK
<1>14. OneDriver' /\ \A w \in Workers : Driving(w)' => Placed(w)'
  BY <1>11 DEF NoDriver, OneDriver
<1>15. \A w \in Workers : worker'[w].pc = "canceled" => run' \in RunTerminal
  BY <1>3 DEF TokenInv
<1>16. \A b \in Attempts : ended'[b] # "none" =>
           launches'[b] > 0 /\ \A w \in Workers : worker'[w].target # b
  BY <1>3 DEF TokenInv
<1> QED BY <1>10, <1>12, <1>13, <1>14, <1>15, <1>16 DEF TokenInv

LEMMA HandlersKeepToken ==
    ASSUME Orderly, TypeInv, AttemptsTypeOK, TokenInv, NEW a \in Attempts, HandlerStep(a)
    PROVE  TokenInv'
<1>1. handler[a] # "idle"
  BY DEF HandlerStep, EnqueueNextStep, ResumeAfterCallback, FinalizeAfterCallback,
         RejectCallback, PostponeCallback, AbortCallback
<1>2. CASE ResumeAfterCallback(a)
  <2>1. Complete(a, "PASSED") /\ UNCHANGED run
        /\ (queue' = queue \/ queue' = queue \cup {StepOf(a)})
    BY <1>2 DEF ResumeAfterCallback, runVars
  <2>2. StepOf(a) < NumSteps /\ "PASSED" \in StepTerminal
    BY <1>2 DEF ResumeAfterCallback, StepTerminal
  <2> QED BY <1>1, <2>1, <2>2, RequestCompletes
<1>3. ASSUME NEW outcome \in StepTerminal, FinalizeAfterCallback(a, outcome)
      PROVE  TokenInv'
  <2>1. Complete(a, outcome) /\ UNCHANGED queue
        /\ (StepOf(a) = NumSteps \/ outcome # "PASSED")
    BY <1>3 DEF FinalizeAfterCallback
  <2>2. run' = run \/ (run \in RunActive /\ run' = OutcomeOf(outcome))
    BY <1>3 DEF FinalizeAfterCallback, runVars
  <2>3. /\ OutcomeOf(outcome) \in RunTerminal
        /\ OutcomeOf(outcome) = "SUCCEEDED" => outcome = "PASSED"
    BY DEF OutcomeOf, StepTerminal, RunTerminal
  <2> QED BY <1>1, <2>1, <2>2, <2>3, RequestCompletes
<1>4. CASE RejectCallback(a)
  <2>1. /\ UNCHANGED <<run, step, jobName, queue, worker, launches, ended>>
        /\ handler' = [handler EXCEPT ![a] = "idle"]
        /\ attempt' = [attempt EXCEPT ![a] = "FAILED"] /\ attempt[a] # "ABSENT"
    BY <1>4 DEF RejectCallback, CloseReceipt, CloseAttempt, MayTransition, Exists, Moved,
                runVars, stepVars, providerVars
  <2>2. \A b \in Attempts : attempt'[b] = "ABSENT" <=> attempt[b] = "ABSENT"
    BY <2>1 DEF AttemptsTypeOK
  <2> QED BY <1>1, <2>1, <2>2, RequestReturns
<1>5. CASE PostponeCallback(a) \/ AbortCallback(a)
  <2>1. /\ UNCHANGED <<run, step, jobName, queue, worker, launches, ended, attempt>>
        /\ handler' = [handler EXCEPT ![a] = "idle"]
    BY <1>5 DEF PostponeCallback, AbortCallback, CloseReceipt,
                runVars, stepVars, providerVars, attemptVars
  <2> QED BY <1>1, <2>1, RequestReturns
<1> QED BY <1>2, <1>3, <1>4, <1>5 DEF HandlerStep, EnqueueNextStep, Orderly

-----------------------------------------------------------------------------
(* The theorems *)

LEMMA TokenStart == Init => TokenInv
<1> SUFFICES ASSUME Init PROVE TokenInv
  OBVIOUS
<1>1. /\ \A s \in Steps : step[s] = "ABSENT" /\ ~jobName[s]
      /\ \A w \in Workers : worker[w].pc = "idle"
      /\ \A a \in Attempts : handler[a] = "idle" /\ ended[a] = "none"
                             /\ attempt[a] = "ABSENT"
      /\ queue = {} /\ run = "PENDING"
  BY DEF Init, AttemptsInit, IdleWorker
<1>2. InOrder /\ NamedJobs /\ SuccessMeansPassed
  BY <1>1 DEF InOrder, NamedJobs, SuccessMeansPassed
<1>3. OneRow /\ RowsOfSteps
  BY <1>1 DEF OneRow, RowsOfSteps, Exists
<1>4. \A w \in Workers : ~Driving(w)
  BY <1>1 DEF Driving
<1>5. \A t \in Tasks : ~Waiting(t)
  BY <1>1 DEF Waiting
<1> QED BY <1>1, <1>2, <1>3, <1>4, <1>5 DEF TokenInv, ShapeInv, OneDriver

LEMMA TokenStep ==
    ASSUME Orderly, KnownInv, TokenInv, [Next]_vars
    PROVE  TokenInv'
<1>1. TypeInv /\ AttemptsTypeOK /\ DecisionInv
  BY DEF KnownInv, EngineInv, TypeInv, TypeOK
<1>2. CASE UNCHANGED vars
  <2>1. UNCHANGED <<run, step, jobName, queue, worker, launches, ended, handler, attempt>>
    BY <1>2 DEF vars
  <2>2. ShapeInv'
    BY <1>1, <2>1, SameShape DEF TokenInv
  <2> QED BY <1>1, <2>1, <2>2, BesideToken
<1>3. CASE LaunchStep
  BY <1>1, <1>3, LaunchKeepsToken
<1>4. ASSUME NEW w \in Workers, WorkerStep(w) \/ CrashWorker(w) PROVE TokenInv'
  BY <1>1, <1>4, WorkersKeepToken DEF CrashWorker, Orderly
<1>5. ASSUME NEW t \in Tasks, SkipDelivery(t) PROVE TokenInv'
  BY <1>1, <1>5, SkipKeepsToken
<1>6. ASSUME NEW a \in Attempts, ProviderEnds(a) \/ ReceiveCallback(a) \/ HandlerStep(a)
      PROVE  TokenInv'
  BY <1>1, <1>6, ProviderKeepsToken, DeliveryKeepsToken, HandlersKeepToken
<1>7. CASE CancelRun \/ FollowCancel
  BY <1>1, <1>7, CancelKeepsToken
<1>8. CASE WatchdogStep
  BY <1>1, <1>8, WatchdogKeepsToken, DeliveryKeepsToken DEF WatchdogStep
<1> QED BY <1>2, <1>3, <1>4, <1>5, <1>6, <1>7, <1>8 DEF Next

LEMMA TokenSafe == ASSUME Orderly PROVE Spec => []TokenInv
<1>1. KnownInv /\ TokenInv /\ [Next]_vars => TokenInv'
  BY TokenStep
<1> QED BY <1>1, TokenStart, KnownSafe, PTL DEF Spec

(* One step of a run is open at a time, whatever provider calls, rejected   *)
(* callbacks, task errors, the user, the watchdog and a failed launch do.   *)
THEOREM OrderlyOneActiveStep == ASSUME Orderly PROVE Spec => []OneActiveStep
<1>1. KnownInv /\ TokenInv => OneActiveStep
  <2>1. TypeInv /\ InOrder => OneActiveStep
    BY OpenStepIsFront DEF OneActiveStep
  <2> QED BY <2>1 DEF KnownInv, EngineInv, TokenInv, ShapeInv
<1> QED BY <1>1, TokenSafe, KnownSafe, PTL

(* "stopping on failure": success is recorded only over cleared steps.      *)
THEOREM OrderlySuccess == ASSUME Orderly PROVE Spec => []SuccessMeansPassed
<1>1. TokenInv => SuccessMeansPassed
  BY DEF TokenInv, ShapeInv
<1> QED BY <1>1, TokenSafe, PTL

(* A step is given to the provider once: it has one row, launched once.     *)
THEOREM OrderlyOneLaunch == ASSUME Orderly PROVE Spec => []OneLaunchPerStep
<1>1. KnownInv /\ TokenInv => OneLaunchPerStep
  <2> SUFFICES ASSUME KnownInv, TokenInv, NEW a \in Attempts, NEW b \in Attempts,
                      StepOf(a) = StepOf(b), launches[a] > 0, launches[b] > 0
               PROVE  a = b
    BY DEF OneLaunchPerStep
  <2>1. Exists(a) /\ Exists(b)
    BY DEF KnownInv, LaunchInv, Exists
  <2> QED BY <2>1 DEF TokenInv, ShapeInv, OneRow
<1> QED BY <1>1, TokenSafe, KnownSafe, PTL

-----------------------------------------------------------------------------
(* A running run is somebody's *)

(* A receipt is closed only for an attempt that was made, and, as long as   *)
(* the run waits for its step, only with a verdict.                         *)
Closed(a) == receipt[a] \in {"COMPLETED", "REJECTED"}

ReceiptInv ==
    OutputNotDropped /\ \A a \in Attempts : Closed(a) => Exists(a)

(* The task of a delivery in progress names a step that is behind the run. *)
ResumedInv ==
    \A w \in Workers : Busy(w) /\ worker[w].task > 0 => Cleared(worker[w].task)

(* The provider holds the open step's row, and its answer will be taken. *)
Awaited(a) ==
    /\ attempt[a] \in ClaimedStates
    /\ step[StepOf(a)] = "RUNNING"
    /\ receipt[a] \in {"NONE", "PROCESSING"}

CarriedInv ==
    run = "RUNNING" =>
        \/ \E w \in Workers : Driving(w)
        \/ \E t \in Tasks : Waiting(t)
        \/ \E a \in Attempts : Awaited(a)

LEMMA KnownParts ==
    ASSUME KnownInv
    PROVE  /\ TypeInv /\ AttemptsTypeOK /\ LedgerInv
           /\ DecisionInv /\ UntouchedInv /\ LaunchInv
BY DEF KnownInv, EngineInv, LedgerInv

(* What a worker does to the steps: it opens or closes the one it is at,    *)
(* which is not closed, or takes a credential back.                         *)
LEMMA WorkersMoveSteps ==
    ASSUME TypeInv, AttemptsTypeOK, TokenInv, NEW w \in Workers, WorkerStep(w)
    PROVE  \/ UNCHANGED step
           \/ /\ worker[w].at \in Steps /\ step[worker[w].at] \in {"ABSENT", "RUNNING"}
              /\ \E d \in {"RUNNING", "PASSED", "FAILED"} :
                     /\ step' = [step EXCEPT ![worker[w].at] = d]
                     /\ d = "FAILED" => Kind[worker[w].at] # "credential"
           \/ /\ worker[w].pc = "issue"
              /\ \E s \in Steps : /\ Kind[s] = "credential"
                                  /\ step' = [step EXCEPT ![s] = "FAILED"]
<1>1. worker[w].pc \in {"start"} \cup InStep => worker[w].at \in Steps
  BY DEF TypeInv, WorkerInv, InStep, InLauncher, Owning
<1>2. worker[w].pc \in InStep => step[worker[w].at] = "RUNNING"
  BY InStepFacts
<1>3. CASE StartStep(w)
  BY <1>1, <1>3 DEF StartStep
<1>4. CASE RunLocalStep(w)
  BY <1>1, <1>2, <1>4 DEF RunLocalStep, LocalOutcomes, InStep
<1>5. CASE RaiseInStep(w)
  <2>1. UNCHANGED step
          \/ (/\ worker[w].pc \in InStep /\ Kind[worker[w].at] \in Validators
              /\ step' = [step EXCEPT ![worker[w].at] = "FAILED"])
    BY <1>5 DEF RaiseInStep, stepVars, InStep, InLauncher
  <2> QED BY <1>1, <1>2, <2>1 DEF Validators
<1>6. CASE PrepareLaunch(w) \/ ClaimAttempt(w) \/ CallProvider(w) \/ RecordDispatch(w)
  BY <1>6 DEF PrepareLaunch, ClaimAttempt, CallProvider, RecordDispatch, LauncherRaises,
         FailStep, Pend, stepVars
<1>7. CASE FinalizeFailedStep(w)
  <2>1. Kind[worker[w].at] = "container"
    BY <1>7, InStepFacts DEF FinalizeFailedStep, InStep, Placed
  <2> QED BY <1>1, <1>2, <1>7, <2>1 DEF FinalizeFailedStep, InStep
<1>8. CASE RecordPending(w)
  <2> DEFINE marked == {worker[w].at}
                         \cup (IF worker[w].job /\ worker[w].target # NoAttempt
                                THEN {StepOf(worker[w].target)} ELSE {})
  <2>1. worker[w].pc = "record" /\ step[worker[w].at] = "RUNNING"
        /\ (worker[w].target # NoAttempt => StepOf(worker[w].target) = worker[w].at)
    BY <1>8, InStepFacts DEF RecordPending, InStep, Placed
  <2>2. /\ step' = [s \in Steps |-> IF s \in marked THEN "RUNNING" ELSE step[s]]
        /\ \A s \in marked : s = worker[w].at
    BY <1>8, <2>1 DEF RecordPending
  <2> HIDE DEF marked
  <2>3. \A s \in Steps : step'[s] = step[s]
    BY <2>1, <2>2
  <2>4. UNCHANGED step
    BY <2>2, <2>3, StepType
  <2> QED BY <2>4
<1>9. CASE IssueSignedCredential(w)
  BY <1>9 DEF IssueSignedCredential, IssuesCredential
<1>10. CASE \/ BeginInitial(w) \/ CheckCancelled(w) \/ AllocateAttempt(w)
            \/ SaveOutcome(w) \/ EmitFinalized(w) \/ TaskRaises(w) \/ MarkRunFailed(w)
            \/ ValidatorRaises(w) \/ InspectAttempt(w) \/ CloseUnlaunched(w)
            \/ \E t \in Tasks : BeginResume(w, t)
  BY <1>10 DEF BeginInitial, CheckCancelled, AllocateAttempt, SaveOutcome, EmitFinalized,
         TaskRaises, MarkRunFailed, ValidatorRaises, FailStep, InspectAttempt,
         CloseUnlaunched, BeginResume, stepVars
<1> QED BY <1>3, <1>4, <1>5, <1>6, <1>7, <1>8, <1>9, <1>10 DEF WorkerStep

(* A request closes the step it was admitted for. *)
LEMMA HandlersMoveSteps ==
    ASSUME TokenInv, NEW a \in Attempts, HandlerStep(a)
    PROVE  UNCHANGED step
             \/ (/\ step[StepOf(a)] = "RUNNING"
                 /\ \E d \in StepTerminal : step' = [step EXCEPT ![StepOf(a)] = d])
<1>1. /\ handler[a] # "idle"
      /\ UNCHANGED step \/ \E d \in StepTerminal : step' = [step EXCEPT ![StepOf(a)] = d]
  BY DEF HandlerStep, EnqueueNextStep, ResumeAfterCallback, FinalizeAfterCallback,
         Complete, RejectCallback, PostponeCallback, AbortCallback, stepVars, StepTerminal
<1> QED BY <1>1 DEF TokenInv

(* A step with an attempt is not opened again. *)
LEMMA ReopenedNever ==
    ASSUME KnownInv, TokenInv, [Next]_vars, NEW s \in Steps,
           step[s] # "ABSENT", step'[s] = "RUNNING"
    PROVE  step[s] = "RUNNING"
<1>1. TypeInv /\ AttemptsTypeOK
  BY KnownParts
<1>2. CASE UNCHANGED step
  BY <1>2
<1>3. ASSUME NEW w \in Workers, WorkerStep(w) PROVE step[s] = "RUNNING"
  BY <1>1, <1>3, WorkersMoveSteps, StepType
<1>4. ASSUME NEW a \in Attempts, HandlerStep(a) PROVE step[s] = "RUNNING"
  BY <1>1, <1>4, HandlersMoveSteps, StepType, AttemptParts DEF StepTerminal
<1> QED BY <1>1, <1>2, <1>3, <1>4, OnlyTheyMoveSteps

LEMMA RowsStay ==
    ASSUME AttemptsTypeOK, [AttemptsNext]_attemptVars, NEW a \in Attempts, Exists(a)
    PROVE  Exists(a)'
<1>1. CASE UNCHANGED attemptVars
  BY <1>1 DEF attemptVars, Exists
<1>2. ASSUME NEW b \in Attempts, CreateAttempt(b) \/ IssueCredentials(b)
      PROVE  Exists(a)'
  BY <1>2 DEF CreateAttempt, IssueCredentials, Moved, AttemptsTypeOK, Exists
<1>3. ASSUME NEW b \in Attempts, NEW target \in States, TransitionAttempt(b, target)
      PROVE  Exists(a)'
  <2>1. target # "ABSENT"
    BY <1>3 DEF TransitionAttempt, MayTransition, Exists, AllowedTransitions, States,
                AttemptsTypeOK, TerminalStates, ActiveStates
  <2> QED BY <1>3, <2>1 DEF TransitionAttempt, Moved, AttemptsTypeOK, Exists
<1> QED BY <1>1, <1>2, <1>3 DEF AttemptsNext

LEMMA ReceiptStep ==
    ASSUME KnownInv, TokenInv, ReceiptInv, [Next]_vars
    PROVE  ReceiptInv'
<1>1. TypeInv /\ AttemptsTypeOK /\ LedgerInv /\ DecisionInv /\ LaunchInv
  BY KnownParts
<1> SUFFICES ASSUME NEW a \in Attempts, Closed(a)'
             PROVE  /\ Exists(a)'
                    /\ run' \in RunActive /\ step'[StepOf(a)] = "RUNNING" => IsTerminal(a)'
  BY DEF ReceiptInv, OutputNotDropped, Closed
<1> DEFINE Waited == run' \in RunActive /\ step'[StepOf(a)] = "RUNNING"
<1>2. run' \in RunActive => run \in RunActive
  BY <1>1, EveryRunMoves DEF RunMoves, RunActive, RunTerminal
<1>3. (IsTerminal(a) => IsTerminal(a)') /\ (Exists(a) => Exists(a)')
  BY <1>1, EngineStep, TerminalStep, RowsStay DEF IsTerminal
<1>4. receipt \in [Attempts -> {"NONE", "PROCESSING", "COMPLETED", "REJECTED"}]
  BY <1>1 DEF TypeInv, TypeOK
<1>5. ASSUME Exists(a), Waited PROVE run \in RunActive /\ step[StepOf(a)] = "RUNNING"
  BY <1>2, <1>5, ReopenedNever, AttemptParts DEF TokenInv, ShapeInv, RowsOfSteps
<1>6. CASE receipt'[a] = receipt[a]
  BY <1>3, <1>5, <1>6 DEF ReceiptInv, OutputNotDropped, Closed
<1>7. ASSUME NEW b \in Attempts, AdmitCallback(b), receipt'[a] # receipt[a]
      PROVE  Exists(a)' /\ (Waited => IsTerminal(a)')
  <2>1. /\ b = a /\ ended[a] # "none"
        /\ IsTerminal(a) \/ ~Current(StepOf(a)) \/ run \in RunTerminal
    BY <1>4, <1>7 DEF AdmitCallback
  <2>2. Exists(a)
    BY <1>1, <2>1 DEF TokenInv, LaunchInv, Exists
  <2>3. ASSUME Waited PROVE IsTerminal(a)
    <3>1. run \in RunActive /\ step[StepOf(a)] = "RUNNING" /\ StepOf(a) \in Steps
      BY <1>5, <2>2, <2>3, AttemptParts
    <3>2. Current(StepOf(a))
      <4>1. \A r \in Steps : step[r] = "RUNNING" => r = StepOf(a)
        BY <1>1, <3>1, OpenStepIsFront DEF TokenInv, ShapeInv
      <4> QED BY <3>1, <4>1, StepFacts DEF Current
    <3> QED BY <2>1, <3>1, <3>2 DEF RunActive, RunTerminal
  <2> QED BY <1>3, <2>2, <2>3
<1>8. ASSUME NEW b \in Attempts, HandlerStep(b), receipt'[a] # receipt[a]
      PROVE  Exists(a)' /\ IsTerminal(a)'
  <2>1. CASE \/ ResumeAfterCallback(b)
             \/ \E outcome \in StepTerminal : FinalizeAfterCallback(b, outcome)
    <3>1. receipt' = [receipt EXCEPT ![b] = "COMPLETED"] /\ attempt' = Moved(b, "COMPLETED")
      BY <2>1 DEF ResumeAfterCallback, FinalizeAfterCallback, Complete, CloseAttempt,
                  CloseReceipt
    <3> QED BY <1>1, <1>4, <1>8, <3>1
            DEF Moved, IsTerminal, Exists, TerminalStates, AttemptsTypeOK
  <2>2. CASE RejectCallback(b)
    <3>1. receipt' = [receipt EXCEPT ![b] = "REJECTED"] /\ attempt' = Moved(b, "FAILED")
      BY <2>2 DEF RejectCallback, CloseAttempt, CloseReceipt
    <3> QED BY <1>1, <1>4, <1>8, <3>1
            DEF Moved, IsTerminal, Exists, TerminalStates, AttemptsTypeOK
  <2>3. CASE PostponeCallback(b)
    BY <1>4, <1>8, <2>3 DEF PostponeCallback, CloseReceipt, Closed
  <2>4. CASE EnqueueNextStep(b) \/ AbortCallback(b)
    BY <1>8, <2>4 DEF EnqueueNextStep, AbortCallback
  <2> QED BY <1>8, <2>1, <2>2, <2>3, <2>4 DEF HandlerStep
<1> QED BY <1>1, <1>6, <1>7, <1>8, OnlyCallbacksReceive DEF callbackVars

(* No receipt of a step the run still waits for is closed before the        *)
(* ledger has a verdict: an output is dropped as late only when nobody      *)
(* waits for it (validation_callback._process_with_idempotency_guard).      *)
THEOREM OrderlyOutput == ASSUME Orderly PROVE Spec => []OutputNotDropped
<1>1. Init => ReceiptInv
  BY DEF Init, ReceiptInv, OutputNotDropped, Closed
<1>2. KnownInv /\ TokenInv /\ ReceiptInv /\ [Next]_vars => ReceiptInv'
  BY ReceiptStep
<1>3. ReceiptInv => OutputNotDropped
  BY DEF ReceiptInv
<1> QED BY <1>1, <1>2, <1>3, TokenSafe, KnownSafe, PTL DEF Spec

(* What is behind the run stays behind it. *)
LEMMA ClearedStays ==
    ASSUME KnownInv, TokenInv, [Next]_vars, NEW s \in Steps, Cleared(s)
    PROVE  Cleared(s)'
<1>1. TypeInv /\ AttemptsTypeOK
  BY KnownParts
<1>2. CASE step'[s] = step[s]
  BY <1>2 DEF Cleared
<1>3. ASSUME NEW r \in Steps, step[r] \in {"ABSENT", "RUNNING"},
             NEW d, step' = [step EXCEPT ![r] = d]
      PROVE  step'[s] = step[s]
  BY <1>1, <1>3, StepType DEF Cleared
<1>4. ASSUME NEW r \in Steps, Kind[r] = "credential", step' = [step EXCEPT ![r] = "FAILED"]
      PROVE  Cleared(s)'
  <2>1. step'[s] = step[s] \/ (s \in Tolerant /\ step'[s] = "FAILED")
    BY <1>1, <1>4, StepType DEF Tolerant
  <2> QED BY <1>2, <2>1 DEF Cleared
<1>5. ASSUME NEW w \in Workers, WorkerStep(w) PROVE Cleared(s)'
  BY <1>1, <1>2, <1>3, <1>4, <1>5, WorkersMoveSteps
<1>6. ASSUME NEW a \in Attempts, HandlerStep(a) PROVE Cleared(s)'
  BY <1>2, <1>3, <1>6, HandlersMoveSteps, AttemptParts
<1> QED BY <1>2, <1>5, <1>6, OnlyTheyMoveSteps

(* A delivery in progress was taken for its task. *)
LEMMA TasksAreTaken ==
    ASSUME Orderly, TypeInv, NEW w \in Workers, WorkerStep(w),
           Busy(w)', worker'[w].task > 0
    PROVE  \/ Busy(w) /\ worker'[w].task = worker[w].task
           \/ \E t \in Tasks : BeginResume(w, t) /\ worker'[w].task = t
<1> USE DEF Busy
<1>1. ASSUME NEW pc, Goto(w, pc) PROVE worker'[w].task = worker[w].task
  BY <1>1, GotoFields
<1>2. ASSUME NEW s, NEW verdict, Loop(w, s, verdict)
      PROVE  worker'[w].task = worker[w].task
  BY <1>2, LoopFields
<1>3. ASSUME NEW s, LauncherRaises(w, s) \/ FailStep(w) \/ Pend(w, TRUE)
      PROVE  worker'[w].task = worker[w].task
  BY <1>1, <1>3, PendFields DEF LauncherRaises, FailStep
<1>0. ASSUME NEW pc, Leave(w, pc) PROVE worker'[w].task = worker[w].task
  BY <1>0, LeaveFields
<1>4. ~Acknowledge(w)
  BY AcknowledgeFields
<1>5. CASE BeginInitial(w)
  <2>1. worker'[w].task = 0
    BY <1>5 DEF BeginInitial, IdleWorker, TypeInv, TypeOK
  <2> QED BY <2>1
<1>6. ASSUME NEW t \in Tasks, BeginResume(w, t) PROVE worker'[w].task = t
  BY <1>6 DEF BeginResume, IdleWorker, TypeInv, TypeOK
<1>7. CASE CheckCancelled(w)
  BY <1>0, <1>1, <1>4, <1>7 DEF CheckCancelled
<1>8. CASE StartStep(w)
  BY <1>1, <1>2, <1>8 DEF StartStep
<1>9. CASE RunLocalStep(w)
  BY <1>2, <1>9 DEF RunLocalStep
<1>10. CASE RaiseInStep(w)
  BY <1>0, <1>10 DEF RaiseInStep
<1>11. CASE AllocateAttempt(w)
  <2>1. ASSUME NEW n, worker' = [worker EXCEPT ![w].pc = "prepare", ![w].own = n]
        PROVE  worker'[w].task = worker[w].task
    BY <2>1 DEF TypeInv, TypeOK, WorkerStates
  <2> QED BY <1>2, <1>11, <2>1 DEF AllocateAttempt
<1>12. CASE PrepareLaunch(w)
  <2>1. ASSUME NEW a, worker' = [worker EXCEPT ![w].pc = "claim", ![w].target = a]
        PROVE  worker'[w].task = worker[w].task
    BY <2>1 DEF TypeInv, TypeOK, WorkerStates
  <2> QED BY <1>3, <1>12, <2>1 DEF PrepareLaunch
<1>13. CASE ClaimAttempt(w)
  <2>1. ASSUME NEW a, worker' = [worker EXCEPT ![w].pc = "call", ![w].target = a]
        PROVE  worker'[w].task = worker[w].task
    BY <2>1 DEF TypeInv, TypeOK, WorkerStates
  <2> QED BY <1>3, <1>13, <2>1 DEF ClaimAttempt
<1>14. CASE CallProvider(w)
  BY <1>1, <1>14 DEF CallProvider
<1>15. CASE RecordDispatch(w)
  <2>1. ASSUME NEW job, worker' = [worker EXCEPT ![w].pc = "record", ![w].job = job]
        PROVE  worker'[w].task = worker[w].task
    BY <2>1 DEF TypeInv, TypeOK, WorkerStates
  <2> QED BY <1>3, <1>15, <2>1 DEF RecordDispatch
<1>16. CASE RecordPending(w)
  BY <1>2, <1>16 DEF RecordPending
<1>17. CASE SaveOutcome(w) \/ IssueSignedCredential(w)
  BY <1>0, <1>1, <1>17 DEF SaveOutcome, IssueSignedCredential
<1>18. CASE TaskRaises(w)
  BY <1>1, <1>4, <1>18 DEF TaskRaises, Unguarded
<1>19. CASE EmitFinalized(w) \/ MarkRunFailed(w)
  BY <1>4, <1>19 DEF EmitFinalized, MarkRunFailed
<1>21. CASE ValidatorRaises(w) \/ InspectAttempt(w) \/ CloseUnlaunched(w)
              \/ FinalizeFailedStep(w)
  BY <1>1, <1>2, <1>21 DEF ValidatorRaises, FailStep, InspectAttempt, CloseUnlaunched,
         FinalizeFailedStep
<1>20. (\E t \in Tasks : BeginResume(w, t)) \/ Busy(w) \/ BeginInitial(w)
  BY DEF WorkerStep, CheckCancelled, StartStep, RunLocalStep, RaiseInStep,
         AllocateAttempt, PrepareLaunch, ClaimAttempt, CallProvider, RecordDispatch,
         RecordPending, SaveOutcome, IssueSignedCredential, EmitFinalized, TaskRaises,
         Unguarded, MarkRunFailed, ValidatorRaises, InspectAttempt, CloseUnlaunched,
         FinalizeFailedStep
<1> QED
  BY <1>5, <1>6, <1>7, <1>8, <1>9, <1>10, <1>11, <1>12, <1>13, <1>14, <1>15, <1>16,
     <1>17, <1>18, <1>19, <1>20, <1>21 DEF WorkerStep

LEMMA ResumedStep ==
    ASSUME Orderly, KnownInv, TokenInv, ResumedInv, [Next]_vars
    PROVE  ResumedInv'
<1>1. TypeInv
  BY KnownParts
<1> SUFFICES ASSUME NEW w \in Workers, NEW t, t = worker'[w].task, Busy(w)', t > 0
             PROVE  Cleared(t)'
  BY DEF ResumedInv, Cleared
<1>2. t \in Tasks
  <2>1. worker' \in [Workers -> WorkerStates]
    BY KnownParts, EngineInvStep DEF KnownInv, EngineInv, TypeInv, TypeOK
  <2> QED BY <2>1 DEF WorkerStates
<1>3. t \in Steps
  BY <1>2, StepType, <1>1 DEF Tasks
<1>4. CASE Busy(w) /\ worker'[w].task = worker[w].task
  <2>1. Cleared(t)
    BY <1>3, <1>4 DEF ResumedInv
  <2> QED BY <1>3, <2>1, ClearedStays
<1>5. CASE BeginResume(w, t)
  <2>1. Waiting(t) /\ t \in Tasks
    BY <1>2, <1>3, <1>5 DEF BeginResume, Orderly, Deliverable, Waiting
  <2>2. Front(t + 1)
    BY <2>1 DEF TokenInv
  <2>3. Cleared(t)
    BY <1>3, <2>2, StepFacts DEF Front
  <2> QED BY <1>3, <2>3, ClearedStays
<1>6. CASE worker'[w] = worker[w]
  BY <1>4, <1>6 DEF Busy
<1>7. CASE WorkerStep(w)
  BY <1>1, <1>3, <1>4, <1>5, <1>7, TasksAreTaken
<1> QED BY <1>1, <1>6, <1>7, OnlyWorkersMoveWorkers, WorkerPcs DEF Orderly, CrashWorker

(* Who drives goes on driving, decides the run, or has left the step to the *)
(* provider.                                                                *)
LEMMA DriverStays ==
    ASSUME TypeInv, KnownInv, TokenInv, NEW w \in Workers, WorkerStep(w),
           Driving(w), run' = "RUNNING"
    PROVE  Driving(w)' \/ RecordPending(w)
<1>1. ASSUME NEW pc \in {"start", "execute", "prepare", "claim", "call", "accepted",
                         "unknown", "record", "fail", "close", "finalize", "save",
                         "raised", "issue"},
             worker'[w].pc = pc
      PROVE  Driving(w)'
  BY <1>1 DEF Driving
<1>2. ASSUME NEW s, NEW verdict \in {"none", "failed"}, Loop(w, s, verdict)
      PROVE  Driving(w)'
  BY <1>2, LoopFields DEF Driving
<1>3. ASSUME NEW s, LauncherRaises(w, s) \/ FailStep(w) \/ Pend(w, TRUE)
      PROVE  Driving(w)'
  BY <1>1, <1>3, GotoFields, PendFields DEF LauncherRaises, FailStep
<1>4. CASE CheckCancelled(w)
  <2>1. run = "RUNNING" /\ worker[w].result # "pending"
    BY <1>4 DEF CheckCancelled, Driving, runVars
  <2>2. Goto(w, "save") \/ Goto(w, "start")
    BY <1>4, <2>1 DEF CheckCancelled
  <2> QED BY <1>1, <2>2, GotoFields
<1>5. CASE StartStep(w)
  BY <1>1, <1>2, <1>5, GotoFields DEF StartStep
<1>6. CASE RunLocalStep(w)
  BY <1>2, <1>6 DEF RunLocalStep
<1>7. CASE RaiseInStep(w)
  BY <1>1, <1>7, LeaveFields DEF RaiseInStep
<1>8. CASE AllocateAttempt(w)
  <2>1. ActiveAttempts(worker[w].at) = {}
    <3>1. \A a \in Attempts : StepOf(a) = worker[w].at => attempt[a] = "ABSENT"
      BY <1>8, NoRowsYet, KnownParts DEF AllocateAttempt
    <3> QED BY <3>1 DEF ActiveAttempts, IsActive, ActiveStates
  <2>2. PICK n : worker' = [worker EXCEPT ![w].pc = "prepare", ![w].own = n]
    BY <1>8, <2>1 DEF AllocateAttempt
  <2>3. worker'[w].pc = "prepare"
    BY <2>2 DEF TypeInv, TypeOK, WorkerStates
  <2> QED BY <1>1, <2>3
<1>9. CASE PrepareLaunch(w)
  <2>1. ASSUME NEW a, worker' = [worker EXCEPT ![w].pc = "claim", ![w].target = a]
        PROVE  worker'[w].pc = "claim"
    BY <2>1 DEF TypeInv, TypeOK, WorkerStates
  <2> QED BY <1>1, <1>3, <1>9, <2>1 DEF PrepareLaunch
<1>10. CASE ClaimAttempt(w)
  <2>1. ASSUME NEW a, worker' = [worker EXCEPT ![w].pc = "call", ![w].target = a]
        PROVE  worker'[w].pc = "call"
    BY <2>1 DEF TypeInv, TypeOK, WorkerStates
  <2> QED BY <1>1, <1>3, <1>10, <2>1 DEF ClaimAttempt
<1>11. CASE CallProvider(w)
  BY <1>1, <1>11, GotoFields DEF CallProvider
<1>12. CASE RecordDispatch(w)
  <2>1. ASSUME NEW job, worker' = [worker EXCEPT ![w].pc = "record", ![w].job = job]
        PROVE  worker'[w].pc = "record"
    BY <2>1 DEF TypeInv, TypeOK, WorkerStates
  <2> QED BY <1>1, <1>3, <1>12, <2>1 DEF RecordDispatch
<1>13. CASE TaskRaises(w)
  <2>1. run \notin RunTerminal
    BY <1>13 DEF TaskRaises, runVars, RunTerminal
  <2>2. Goto(w, "mark") /\ worker[w].pc # "mark"
    BY <1>13, <2>1 DEF TaskRaises, Unguarded
  <2>3. worker[w].pc = "loop" => worker[w].result # "pending"
    BY DEF Driving
  <2>4. worker[w].pc # "loop" => worker[w].pc \in {"save", "raised"}
    BY <1>13, <2>1, KnownParts DEF TaskRaises, Unguarded, DecisionInv, Driving
  <2>5. worker[w].pc \in {"save", "raised"} => worker[w].result # "pending"
    BY DEF TokenInv, Placed
  <2> QED BY <2>2, <2>3, <2>4, <2>5, GotoFields DEF Driving
<1>14. ~SaveOutcome(w) /\ ~MarkRunFailed(w)
  BY DEF SaveOutcome, MarkRunFailed
<1>15. ~IssueSignedCredential(w)
  <2>1. worker[w].pc = "issue" => run \in RunTerminal
    BY KnownParts DEF DecisionInv
  <2> QED BY <2>1 DEF IssueSignedCredential, RunTerminal
<1>16. /\ ~BeginInitial(w) /\ ~EmitFinalized(w)
       /\ \A t \in Tasks : ~BeginResume(w, t)
  BY DEF Driving, BeginInitial, EmitFinalized, BeginResume
<1>17. CASE ValidatorRaises(w) \/ InspectAttempt(w) \/ CloseUnlaunched(w)
              \/ FinalizeFailedStep(w)
  BY <1>1, <1>2, <1>3, <1>17, GotoFields
  DEF ValidatorRaises, InspectAttempt, CloseUnlaunched, FinalizeFailedStep
<1> QED BY <1>4, <1>5, <1>6, <1>7, <1>8, <1>9, <1>10, <1>11, <1>12, <1>13, <1>14,
           <1>15, <1>16, <1>17 DEF WorkerStep

(* Who does not drive takes the token, or ends a delivery it is done with.  *)
LEMMA IdlerStays ==
    ASSUME TypeInv, KnownInv, TokenInv, NEW w \in Workers, WorkerStep(w),
           ~Driving(w), run = "RUNNING", run' = "RUNNING"
    PROVE  \/ Driving(w)'
           \/ /\ Busy(w) /\ UNCHANGED <<step, attempt, receipt>>
              /\ Acknowledge(w) \/ (Goto(w, "mark") /\ UNCHANGED queue)
<1>1. ASSUME NEW t \in Tasks, BeginResume(w, t) PROVE Driving(w)'
  <2>1. worker'[w].pc = "loop" /\ worker'[w].result = "none"
    BY <1>1 DEF BeginResume, IdleWorker, TypeInv, TypeOK
  <2> QED BY <2>1 DEF Driving
<1>2. ~BeginInitial(w)
  BY DEF BeginInitial, Startable
<1>3. worker[w].pc \notin {"canceled", "emit"}
  BY KnownParts DEF TokenInv, DecisionInv, RunTerminal
<1>4. worker[w].pc = "idle" \/ (worker[w].pc \in {"loop", "mark"} /\ worker[w].result = "pending")
  BY <1>3 DEF Driving
<1>5. CASE CheckCancelled(w)
  BY <1>4, <1>5 DEF CheckCancelled, stepVars, callbackVars, attemptVars, Busy
<1>7. CASE TaskRaises(w)
  BY <1>4, <1>7 DEF TaskRaises, Unguarded, stepVars, callbackVars, attemptVars, Busy,
         RunTerminal
<1>6. /\ ~StartStep(w) /\ ~RunLocalStep(w) /\ ~RaiseInStep(w) /\ ~AllocateAttempt(w)
      /\ ~PrepareLaunch(w) /\ ~ClaimAttempt(w) /\ ~CallProvider(w) /\ ~RecordDispatch(w)
      /\ ~RecordPending(w) /\ ~SaveOutcome(w) /\ ~IssueSignedCredential(w)
      /\ ~EmitFinalized(w) /\ ~MarkRunFailed(w) /\ ~ValidatorRaises(w)
      /\ ~InspectAttempt(w) /\ ~CloseUnlaunched(w) /\ ~FinalizeFailedStep(w)
  BY <1>4 DEF StartStep, RunLocalStep, RaiseInStep, AllocateAttempt, PrepareLaunch,
         ClaimAttempt, CallProvider, RecordDispatch, RecordPending, SaveOutcome,
         IssueSignedCredential, EmitFinalized, MarkRunFailed, ValidatorRaises,
         InspectAttempt, CloseUnlaunched, FinalizeFailedStep
<1> QED BY <1>1, <1>2, <1>5, <1>6, <1>7 DEF WorkerStep

(* When a running run begins, a worker begins it. *)
LEMMA BeginningDrives ==
    ASSUME TypeInv, KnownInv, [Next]_vars, run = "PENDING", run' = "RUNNING"
    PROVE  \E w \in Workers : Driving(w)'
<1>1. PICK w \in Workers : BeginInitial(w)
  <2>1. /\ \A w \in Workers : ~CrashWorker(w) /\ (WorkerStep(w) => BeginInitial(w))
        /\ \A a \in Attempts : ~HandlerStep(a)
    BY KnownParts, PendingStep
  <2>2. ~UNCHANGED vars
    BY DEF vars
  <2>3. ~LaunchStep
    BY DEF LaunchStep, EnqueueRun, EnqueueRaises, FailLaunch, runVars
  <2>4. \A t \in Tasks : ~SkipDelivery(t)
    BY DEF SkipDelivery, runVars
  <2>5. \A a \in Attempts : ~ProviderEnds(a) /\ ~ReceiveCallback(a)
    BY DEF ProviderEnds, ReceiveCallback, runVars
  <2>6. ~CancelRun /\ ~FollowCancel
    BY DEF CancelRun, FollowCancel
  <2>7. ~WatchdogStep
    BY DEF WatchdogStep, SelectStuckRun, RecoverCallback, RecoverReturns, ReconcileFailed,
           ReconcileFailedAttempt, TimeOutRun, FollowTimeout, runVars
  <2> QED BY <2>1, <2>2, <2>3, <2>4, <2>5, <2>6, <2>7 DEF Next
<1>2. worker'[w].pc = "loop" /\ worker'[w].result = "none"
  BY <1>1 DEF BeginInitial, IdleWorker, TypeInv, TypeOK
<1> QED BY <1>2 DEF Driving

(* A worker leaves the run in good hands. *)
LEMMA WorkerCarries ==
    ASSUME Orderly, TypeInv, KnownInv, TokenInv, ReceiptInv, CarriedInv,
           NEW w \in Workers, WorkerStep(w), UNCHANGED callbackVars,
           run = "RUNNING", run' = "RUNNING"
    PROVE  CarriedInv'
<1>1. \A v \in Workers : v # w => worker'[v] = worker[v]
  BY WorkerPcs
<1>2. CASE RecordPending(w)
  <2>1. worker[w].pc = "record" /\ Driving(w) /\ UNCHANGED attempt
    BY <1>2 DEF RecordPending, Driving, attemptVars
  <2>2. PICK a \in Attempts : a = worker[w].target
    BY <2>1 DEF TokenInv, Placed
  <2>3. /\ attempt[a] \in ClaimedStates /\ StepOf(a) = worker[w].at
        /\ step[StepOf(a)] = "RUNNING" /\ StepOf(a) \in Steps
    BY <2>1, <2>2, AttemptParts, NoAttemptAssumption DEF TokenInv, Placed, InStep
  <2>4. receipt[a] \in {"NONE", "PROCESSING"}
    <3>1. ~IsTerminal(a)
      BY <2>3 DEF IsTerminal, TerminalStates, ClaimedStates
    <3>2. receipt[a] \in {"NONE", "PROCESSING", "COMPLETED", "REJECTED"}
      BY DEF TypeInv, TypeOK
    <3> QED BY <2>3, <3>1, <3>2 DEF ReceiptInv, OutputNotDropped, RunActive
  <2>5. step'[StepOf(a)] = "RUNNING"
    BY <1>2, <2>3 DEF RecordPending
  <2> QED BY <2>1, <2>3, <2>4, <2>5 DEF CarriedInv, Awaited, callbackVars
<1>3. CASE Driving(w) /\ ~RecordPending(w)
  BY <1>3, DriverStays DEF CarriedInv
<1>4. CASE \E v \in Workers : v # w /\ Driving(v)
  <2>1. PICK v \in Workers : v # w /\ Driving(v)
    BY <1>4
  <2>2. Driving(v)'
    BY <1>1, <2>1 DEF Driving
  <2> QED BY <2>2 DEF CarriedInv
<1>5. CASE NoDriver
  <2>1. CASE Driving(w)'
    BY <2>1 DEF CarriedInv
  <2>2. CASE ~Driving(w)'
    <3>1. /\ Busy(w) /\ UNCHANGED <<step, attempt, receipt>>
          /\ Acknowledge(w) \/ (Goto(w, "mark") /\ UNCHANGED queue)
      BY <1>5, <2>2, IdlerStays DEF NoDriver
    <3>2. ASSUME NEW t \in Tasks, Waiting(t) PROVE Waiting(t)'
      <4>1. worker[w].task # t
        BY <3>1, <3>2 DEF Waiting, Busy
      <4>2. t \in queue'
        BY <3>1, <3>2, <4>1, AcknowledgeFields DEF Waiting
      <4>3. \A v \in Workers : worker'[v].pc = "idle" \/ worker'[v].task # t
        BY <1>1, <3>1, <3>2, <4>1, AcknowledgeFields, GotoFields DEF Waiting
      <4> QED BY <3>2, <4>2, <4>3 DEF Waiting
    <3>3. \A a \in Attempts : Awaited(a) => Awaited(a)'
      BY <3>1 DEF Awaited
    <3> QED BY <1>5, <3>2, <3>3 DEF CarriedInv, NoDriver
  <2> QED BY <2>1, <2>2
<1> QED BY <1>2, <1>3, <1>4, <1>5 DEF NoDriver

(* An awaited answer stays awaited, unless the run is decided or resumed.   *)
LEMMA AnswerCarries ==
    ASSUME Orderly, "bad_callback" \notin Environment, TypeInv, KnownInv, TokenInv,
           ResumedInv, [Next]_vars, UNCHANGED worker,
           \A w \in Workers : ~WorkerStep(w),
           run = "RUNNING", run' = "RUNNING", NEW a \in Attempts, Awaited(a)
    PROVE  Awaited(a)' \/ Waiting(StepOf(a))'
<1>1. /\ step[StepOf(a)] = "RUNNING" /\ StepOf(a) \in Steps /\ run \notin RunTerminal
      /\ ~IsTerminal(a)
  BY AttemptParts DEF Awaited, RunTerminal, IsTerminal, TerminalStates, ClaimedStates
<1>2. \A r \in Steps : step[r] = "RUNNING" => r = StepOf(a)
  BY <1>1, OpenStepIsFront DEF TokenInv, ShapeInv
<1>3. Current(StepOf(a))
  BY <1>1, <1>2, StepFacts DEF Current
<1>4. CASE UNCHANGED <<attempt, step, receipt>>
  BY <1>4 DEF Awaited
<1>5. ASSUME NEW b \in Attempts, AdmitCallback(b), UNCHANGED <<attempt, step>>
      PROVE  Awaited(a)'
  <2>1. receipt'[a] = receipt[a]
    BY <1>1, <1>3, <1>5 DEF AdmitCallback, TypeInv, TypeOK
  <2> QED BY <1>5, <2>1 DEF Awaited
<1>6. CASE \/ UNCHANGED vars \/ LaunchStep
           \/ (\E t \in Tasks : SkipDelivery(t))
           \/ (\E b \in Attempts : ProviderEnds(b))
  BY <1>4, <1>6 DEF vars, LaunchStep, EnqueueRun, EnqueueRaises, FailLaunch, SkipDelivery,
         ProviderEnds, stepVars, callbackVars, attemptVars
<1>7. ~CancelRun /\ ~FollowCancel
  BY KnownParts DEF CancelRun, FollowCancel, DecisionInv, RunTerminal
<1>8. CASE WatchdogStep
  <2>1. ~ReconcileFailedAttempt /\ ~FollowTimeout
    BY KnownParts DEF ReconcileFailedAttempt, FollowTimeout, DecisionInv, RunTerminal
  <2>2. CASE SelectStuckRun \/ RecoverReturns \/ ReconcileFailed
    BY <1>4, <2>2 DEF SelectStuckRun, RecoverReturns, ReconcileFailed, stepVars,
           callbackVars, attemptVars
  <2>3. CASE TimeOutRun
    BY <1>4, <2>3 DEF TimeOutRun, stepVars, callbackVars
  <2>4. CASE RecoverCallback
    <3>1. watchdog.of # NoAttempt => watchdog.of \in Attempts
      BY DEF TypeInv, TypeOK
    <3> QED BY <1>4, <1>5, <2>4, <3>1 DEF RecoverCallback, stepVars, callbackVars, attemptVars
  <2> QED BY <1>8, <2>1, <2>2, <2>3, <2>4 DEF WatchdogStep
<1>9. ASSUME NEW b \in Attempts, ReceiveCallback(b) PROVE Awaited(a)'
  BY <1>5, <1>9 DEF ReceiveCallback, stepVars, attemptVars
<1>10. ASSUME NEW b \in Attempts, HandlerStep(b) PROVE Awaited(a)' \/ Waiting(StepOf(a))'
  <2>1. handler[b] # "idle"
    BY <1>10 DEF HandlerStep, EnqueueNextStep, ResumeAfterCallback, FinalizeAfterCallback,
           RejectCallback, PostponeCallback, AbortCallback
  <2>2. b = a /\ handler[a] = "processing"
    <3>1. /\ handler[b] = "processing" /\ step[StepOf(b)] = "RUNNING" /\ Exists(b)
          /\ Exists(a)
      BY <2>1 DEF TokenInv, Awaited, Exists, ClaimedStates
    <3>2. StepOf(b) = StepOf(a)
      BY <1>2, <3>1, AttemptParts
    <3> QED BY <3>1, <3>2 DEF TokenInv, ShapeInv, OneRow
  <2>3. CASE ResumeAfterCallback(a)
    <3>1. queue' = queue \cup {StepOf(a)}
      BY <2>2, <2>3 DEF ResumeAfterCallback, RunActive
    <3>2. ASSUME NEW w \in Workers, Busy(w) PROVE worker[w].task # StepOf(a)
      <4>1. StepOf(a) > 0
        BY <1>1, StepType
      <4> QED BY <1>1, <3>2, <4>1 DEF ResumedInv, Cleared
    <3> QED BY <1>1, <3>1, <3>2, StepType DEF Waiting, Busy
  <2>4. ASSUME NEW outcome \in StepTerminal PROVE ~FinalizeAfterCallback(a, outcome)
    BY DEF FinalizeAfterCallback, OutcomeOf, StepTerminal, RunActive
  <2>5. CASE PostponeCallback(a)
    <3>1. receipt'[a] = "PROCESSING" /\ UNCHANGED <<attempt, step>>
      BY <2>5 DEF PostponeCallback, CloseReceipt, stepVars, attemptVars, TypeInv, TypeOK
    <3> QED BY <3>1 DEF Awaited
  <2>6. CASE AbortCallback(a)
    BY <1>4, <2>6 DEF AbortCallback, stepVars, attemptVars
  <2>7. ~EnqueueNextStep(a) /\ ~RejectCallback(a)
    BY DEF EnqueueNextStep, RejectCallback, Orderly
  <2> QED BY <1>10, <2>2, <2>3, <2>4, <2>5, <2>6, <2>7 DEF HandlerStep
<1> QED BY <1>6, <1>7, <1>8, <1>9, <1>10 DEF Next, Orderly, CrashWorker

LEMMA CarriedStep ==
    ASSUME Orderly, "bad_callback" \notin Environment, KnownInv, TokenInv, ReceiptInv,
           ResumedInv, CarriedInv, [Next]_vars
    PROVE  CarriedInv'
<1>1. TypeInv /\ DecisionInv
  BY KnownParts
<1> SUFFICES ASSUME run' = "RUNNING" PROVE CarriedInv'
  BY DEF CarriedInv
<1>2. run \in {"PENDING", "RUNNING"}
  BY <1>1, EveryRunMoves DEF RunMoves, RunTerminal
<1>3. CASE run = "PENDING"
  BY <1>1, <1>3, BeginningDrives DEF CarriedInv
<1>4. ASSUME run = "RUNNING", NEW w \in Workers, WorkerStep(w) PROVE CarriedInv'
  <2>1. UNCHANGED callbackVars
    BY <1>4 DEF WorkerStep, BeginInitial, CheckCancelled, StartStep, RunLocalStep,
           RaiseInStep, AllocateAttempt, PrepareLaunch, ClaimAttempt,
           CallProvider, RecordDispatch, RecordPending, SaveOutcome,
           IssueSignedCredential, EmitFinalized, BeginResume, TaskRaises, MarkRunFailed,
           ValidatorRaises, InspectAttempt, CloseUnlaunched, FinalizeFailedStep
  <2> QED BY <1>1, <1>4, <2>1, WorkerCarries
<1>5. CASE run = "RUNNING" /\ \A w \in Workers : ~WorkerStep(w)
  <2>1. UNCHANGED worker
    BY <1>5, OnlyWorkersMoveWorkers DEF CrashWorker, Orderly
  <2>2. \A w \in Workers : Driving(w) => Driving(w)'
    BY <2>1 DEF Driving
  <2>3. queue \subseteq queue' \/ queue' = queue \ {0}
    BY <1>1, <1>5, QueueMoves
  <2>4. \A t \in Tasks : Waiting(t) => Waiting(t)'
    BY <2>1, <2>3 DEF Waiting
  <2>5. \A a \in Attempts : Awaited(a) => Awaited(a)' \/ Waiting(StepOf(a))'
    BY <1>1, <1>5, <2>1, AnswerCarries
  <2>6. \A a \in Attempts : StepOf(a) \in Tasks
    BY AttemptParts, StepType, <1>1 DEF Tasks
  <2> QED BY <1>5, <2>2, <2>4, <2>5, <2>6 DEF CarriedInv
<1> QED BY <1>2, <1>3, <1>4, <1>5

(* A running run is never abandoned: somebody will carry it on, or an       *)
(* answer is awaited that will be taken.  A rejected callback would leave   *)
(* it to the watchdog.                                                      *)
THEOREM OrderlyNotStranded ==
    ASSUME Orderly, "bad_callback" \notin Environment
    PROVE  Spec => []NotStranded
<1> DEFINE Inv == ReceiptInv /\ ResumedInv /\ CarriedInv
<1>1. Init => Inv
  <2> SUFFICES ASSUME Init PROVE Inv
    OBVIOUS
  <2>1. run = "PENDING" /\ (\A w \in Workers : worker[w].pc = "idle")
        /\ \A a \in Attempts : receipt[a] = "NONE"
    BY DEF Init, IdleWorker
  <2> QED BY <2>1 DEF ReceiptInv, OutputNotDropped, Closed, ResumedInv, CarriedInv, Busy
<1>2. KnownInv /\ TokenInv /\ Inv /\ [Next]_vars => Inv'
  BY ReceiptStep, ResumedStep, CarriedStep
<1>3. KnownInv /\ TokenInv /\ Inv => NotStranded
  <2> SUFFICES ASSUME KnownInv, TokenInv, CarriedInv, run = "RUNNING"
               PROVE  NotStranded
    BY DEF NotStranded
  <2>1. ASSUME NEW a \in Attempts, Awaited(a) PROVE Current(StepOf(a))
    <3>1. \A r \in Steps : step[r] = "RUNNING" => r = StepOf(a)
      BY <2>1, AttemptParts, KnownParts, OpenStepIsFront DEF Awaited, TokenInv, ShapeInv
    <3> QED BY <2>1, <3>1, AttemptParts, StepFacts DEF Current, Awaited
  <2>2. \A w \in Workers : Driving(w) => Busy(w)
    BY DEF Driving, Busy
  <2>3. \A t \in Tasks : Waiting(t) => queue # {}
    BY DEF Waiting
  <2> QED BY <2>1, <2>2, <2>3 DEF CarriedInv, Awaited, NotStranded
<1> QED BY <1>1, <1>2, <1>3, TokenSafe, KnownSafe, PTL DEF Spec

=============================================================================
