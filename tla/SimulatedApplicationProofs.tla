----------------------- MODULE SimulatedApplicationProofs -----------------------
(***************************************************************************)
(* Proofs about the dispatcher and the simulated runner together, for any  *)
(* operations, threads and workers.                                        *)
(*                                                                         *)
(* That each start is ended once (OneReport) needs only its own count.     *)
(* That the dispatcher and the runner agree needs to know, while nothing   *)
(* has disturbed them, which threads are in the runner (OwnThreads), that  *)
(* nothing is active while a start is asked for (StartsWhenIdle), and      *)
(* where the simulation of an operation may be.                            *)
(***************************************************************************)
EXTENDS SimulatedApplication, TLAPS

(* Thread t answers the start request of o and has installed it.           *)
Launched(t, o) ==
  asked = t /\ call[t] = <<"start", o>> /\ pc[t] \in {"launching", "answered"}

(* Thread t cancels o and has been through the section.                    *)
Took(t, o) ==
  /\ call[t] = <<"cancel", o>>
  /\ pc[t] = "joining" \/ (pc[t] = "answered" /\ answer[t])

OwnThreads ==
  /\ \A t \in Thread : pc[t] # "idle" => t \in {asked, blocked}
  /\ asked # 0 => /\ pc[asked] # "idle"
                  /\ \E o \in Operation : call[asked] = <<"start", o>>
  /\ blocked # 0 =>
       /\ pc[blocked] \in {"entered", "joining", "answered"}
       /\ \E m \in Method \ {"start"}, o \in Operation : call[blocked] = <<m, o>>

StartsWhenIdle == asked # 0 => Idle

(* What the dispatcher counts on is simulated, taken or being cancelled.   *)
Kept(o) ==
  \/ operation = o
  \/ \E w \in Worker : taken[w] = o
  \/ \E t \in Thread : Took(t, o)

InstalledIsKept ==
  \A o \in Operation :
    \/ phase[o] = "active"
    \/ phase[o] = "waiting" /\ \E t \in Thread : Launched(t, o)
    => Kept(o)

(* What is simulated is active and not cancelled, or about to be active.   *)
SimulatedIsWanted ==
  \A o \in Operation :
    operation = o =>
      \/ phase[o] = "active" /\ \A t \in Thread : ~Took(t, o)
      \/ \E t \in Thread : Launched(t, o)

(* What a worker has taken nobody simulates any more.                      *)
TakenIsEnding ==
  \A o \in Operation, w \in Worker :
    taken[w] = o /\ phase[o] # "done" =>
      /\ operation # o
      /\ phase[o] = "active" \/ \E t \in Thread : Launched(t, o)

TakersReport == \A w \in Worker : taken[w] # None => work[w] = "reporting"

(* A thread starts the worker it has created, and nobody else does.        *)
NewWorkers ==
  /\ \A w \in Worker : w > created => work[w] = "absent"
  /\ \A t \in Thread : pc[t] = "launching" =>
       launched[t] \in 1..created /\ work[launched[t]] = "new"
  /\ \A t, u \in Thread :
       pc[t] = "launching" /\ pc[u] = "launching" /\ t # u => launched[t] # launched[u]

Agreement ==
  ~disturbed => /\ OwnThreads
                /\ StartsWhenIdle
                /\ InstalledIsKept
                /\ SimulatedIsWanted
                /\ TakenIsEnding

RunnerInv == RunnerTypeOK /\ OneReport /\ TakersReport /\ NewWorkers

DispatcherTypeOK ==
  /\ phase \in [Operation -> {"waiting", "active", "done"}]
  /\ is_paused \in BOOLEAN
  /\ paused \in BOOLEAN
  /\ asked \in Thread \cup {0}
  /\ blocked \in Thread \cup {0}
  /\ disturbed \in BOOLEAN

Inv == RunnerInv /\ DispatcherTypeOK /\ Agreement
-----------------------------------------------------------------------------
(* The runner's own variables.                                             *)

LEMMA RunnerInitInv == RunnerInit => RunnerInv
<1> SUFFICES ASSUME RunnerInit PROVE RunnerInv
  OBVIOUS
<1> USE RunnerAssumption DEF RunnerInit
<1>1. RunnerTypeOK
  <2>1. answer \in [Thread -> BOOLEAN] /\ pause_event \in BOOLEAN /\ stop_event \in BOOLEAN
    OBVIOUS
  <2>2. /\ work \in [Worker -> Work]
        /\ taken \in [Worker -> Operation \cup {None}]
        /\ pc \in [Thread -> Point]
        /\ call \in [Thread -> Call \cup {NoCall}]
    BY DEF Work, Point
  <2>3. /\ worker \in 0..MaxWorkers /\ created \in 0..MaxWorkers
        /\ launched \in [Thread -> 0..MaxWorkers]
        /\ owed \in [Operation -> Nat]
        /\ operation \in Operation \cup {None}
    OBVIOUS
  <2> HIDE DEF RunnerInit
  <2> QED BY <2>1, <2>2, <2>3 DEF RunnerTypeOK
<1>2. OneReport /\ TakersReport /\ NewWorkers
  BY DEF OneReport, TakersReport, NewWorkers, Worker
<1> QED BY <1>1, <1>2 DEF RunnerInv

(* The operation that is ended was owed an end.                            *)
LEMMA SettledFacts ==
  ASSUME RunnerInv
  PROVE  /\ Settled(operation) \in [Operation -> Nat]
         /\ \A o \in Operation : Settled(operation)[o] >= 0
  BY DEF RunnerInv, RunnerTypeOK, OneReport, Settled

(* One start more is owed an end.                                          *)
LEMMA OneMoreOwed ==
  ASSUME NEW f \in [Operation -> Nat], NEW o, NEW g, g = [f EXCEPT ![o] = f[o] + 1]
  PROVE  /\ g \in [Operation -> Nat]
         /\ \A p \in Operation : g[p] >= IF p = o THEN 1 ELSE 0
<1>1. CASE o \in Operation
  BY <1>1
<1>2. CASE o \notin Operation
  <2>1. g = f
    BY <1>2
  <2>2. \A p \in Operation : f[p] >= IF p = o THEN 1 ELSE 0
    BY <1>2
  <2> QED BY <2>1, <2>2, Zenon
<1> QED BY <1>1, <1>2

LEMMA RunnerUnchanged ==
  ASSUME RunnerInv, UNCHANGED runnerVars
  PROVE  RunnerInv'
  BY DEF runnerVars, RunnerInv, RunnerTypeOK, OneReport, TakersReport, NewWorkers

LEMMA EnterInv ==
  ASSUME RunnerInv, NEW t \in Thread, NEW m \in Method, NEW o \in Operation,
         Enter(t, m, o)
  PROVE  RunnerInv'
  BY DEF Enter, RunnerInv, RunnerTypeOK, OneReport, TakersReport, NewWorkers, Goes, Call,
         Point, slot, events, workers

LEMMA LeaveInv ==
  ASSUME RunnerInv, NEW t \in Thread, Leave(t)
  PROVE  RunnerInv'
  BY RunnerAssumption
  DEF Leave, RunnerInv, RunnerTypeOK, OneReport, TakersReport, NewWorkers, Goes, Point,
      slot, events, workers

LEMMA CallerStepInv ==
  ASSUME RunnerInv, NEW t \in Thread, CallerStep(t)
  PROVE  RunnerInv'
<1> USE RunnerAssumption
<1>1. CASE CancelRefused(t)
  BY <1>1
  DEF CancelRefused, RunnerInv, RunnerTypeOK, OneReport, TakersReport, NewWorkers,
      Goes, Answers, Point, slot, events, workers
<1>2. CASE CancelSection(t)
  BY <1>2, SettledFacts
  DEF CancelSection, RunnerInv, RunnerTypeOK, OneReport, TakersReport, NewWorkers,
      Goes, Point, workers
<1>3. CASE JoinAndClear(t)
  <2>1. /\ pc' \in [Thread -> Point]
        /\ answer' \in [Thread -> BOOLEAN]
        /\ pc'[t] # "launching"
        /\ \A u \in Thread : u # t => pc'[u] = pc[u]
    BY <1>3 DEF JoinAndClear, RunnerInv, RunnerTypeOK, Goes, Answers, Point
  <2>2. UNCHANGED <<slot, pause_event, workers, call, launched, owed>> /\ stop_event' = FALSE
    BY <1>3 DEF JoinAndClear
  <2> QED
    <3>1. RunnerTypeOK' /\ OneReport'
      BY <2>1, <2>2 DEF RunnerInv, RunnerTypeOK, OneReport, slot, workers
    <3>2. TakersReport' /\ NewWorkers'
      BY <2>1, <2>2 DEF RunnerInv, TakersReport, NewWorkers, workers
    <3> QED BY <3>1, <3>2 DEF RunnerInv
<1>4. CASE Install(t)
  <2> DEFINE o == call[t][2]
             n == created + 1
  <2>1. /\ n \in Worker
        /\ created' = n /\ worker' = n
        /\ work' = [work EXCEPT ![n] = "new"]
        /\ work[n] = "absent"
        /\ launched' = [launched EXCEPT ![t] = n]
        /\ pc' = [pc EXCEPT ![t] = "launching"]
    BY <1>4 DEF Install, RunnerInv, RunnerTypeOK, NewWorkers, Worker, Goes
  <2>2. /\ operation' = o /\ o \in Operation \cup {None}
        /\ owed' = [owed EXCEPT ![o] = owed[o] + 1]
    BY <1>4 DEF Install, RunnerInv, RunnerTypeOK, Call, NoCall
  <2>3. /\ stop_event' = FALSE /\ pause_event' = TRUE
        /\ UNCHANGED <<taken, call, answer>>
    BY <1>4 DEF Install
  <2> HIDE DEF o
  <2>4. owed' \in [Operation -> Nat] /\ OneReport'
    <3>1. owed \in [Operation -> Nat]
      BY DEF RunnerInv, RunnerTypeOK
    <3>2. /\ owed' \in [Operation -> Nat]
          /\ \A p \in Operation : owed'[p] >= IF p = o THEN 1 ELSE 0
      BY <2>2, <3>1, OneMoreOwed
    <3> QED BY <2>2, <3>2 DEF OneReport
  <2>5. RunnerTypeOK'
    <3>1. /\ operation' \in Operation \cup {None}
          /\ stop_event' \in BOOLEAN /\ pause_event' \in BOOLEAN
          /\ answer' \in [Thread -> BOOLEAN]
          /\ call' \in [Thread -> Call \cup {NoCall}]
          /\ taken' \in [Worker -> Operation \cup {None}]
      BY <2>2, <2>3 DEF RunnerInv, RunnerTypeOK
    <3>2. /\ worker' \in 0..MaxWorkers /\ created' \in 0..MaxWorkers
          /\ launched' \in [Thread -> 0..MaxWorkers]
      BY <2>1 DEF RunnerInv, RunnerTypeOK, Worker
    <3>3. work' \in [Worker -> Work] /\ pc' \in [Thread -> Point]
      BY <2>1 DEF RunnerInv, RunnerTypeOK, Work, Point
    <3> QED BY <2>4, <3>1, <3>2, <3>3 DEF RunnerTypeOK
  <2>6. TakersReport'
    BY <2>1, <2>3 DEF RunnerInv, RunnerTypeOK, TakersReport
  <2>7. NewWorkers'
    BY <2>1 DEF RunnerInv, RunnerTypeOK, NewWorkers, Worker
  <2> QED BY <2>4, <2>5, <2>6, <2>7 DEF RunnerInv
<1>5. CASE Launch(t)
  <2>1. /\ launched[t] \in 1..created /\ work[launched[t]] = "new"
        /\ work' = [work EXCEPT ![launched[t]] = "polling"]
        /\ pc' = [pc EXCEPT ![t] = "answered"]
        /\ answer' = [answer EXCEPT ![t] = TRUE]
    BY <1>5 DEF Launch, RunnerInv, NewWorkers, Goes, Answers
  <2>2. UNCHANGED <<slot, events, created, taken, call, launched, owed>>
    BY <1>5 DEF Launch
  <2>3. RunnerTypeOK' /\ OneReport'
    BY <2>1, <2>2 DEF RunnerInv, RunnerTypeOK, OneReport, Work, Point, slot, events
  <2>4. TakersReport'
    BY <2>1, <2>2 DEF RunnerInv, RunnerTypeOK, TakersReport
  <2>5. NewWorkers'
    <3>1. /\ \A u \in Thread : pc'[u] = "launching" => u # t /\ pc[u] = "launching"
          /\ \A w \in Worker : w # launched[t] => work'[w] = work[w]
      BY <2>1 DEF RunnerInv, RunnerTypeOK
    <3>2. pc[t] = "launching" /\ launched[t] <= created
      BY <1>5, <2>1 DEF Launch, RunnerInv, RunnerTypeOK
    <3> QED BY <2>1, <2>2, <3>1, <3>2 DEF RunnerInv, RunnerTypeOK, NewWorkers, Worker
  <2> QED BY <2>3, <2>4, <2>5 DEF RunnerInv
<1>6. CASE PauseOrResume(t)
  BY <1>6
  DEF PauseOrResume, RunnerInv, RunnerTypeOK, OneReport, TakersReport, NewWorkers,
      Goes, Answers, Point, slot, workers
<1> QED BY <1>1, <1>2, <1>3, <1>4, <1>5, <1>6 DEF CallerStep

LEMMA WorkerStepInv ==
  ASSUME RunnerInv, NEW w \in Worker, WorkerStep(w)
  PROVE  RunnerInv'
<1> USE RunnerAssumption
    DEF RunnerInv, RunnerTypeOK, OneReport, TakersReport, NewWorkers, Work, slot, events, calls
<1>1. CASE Poll(w)
  BY <1>1 DEF Poll
<1>2. CASE Tick(w)
  BY <1>2 DEF Tick
<1>3. CASE Take(w)
  BY <1>3, SettledFacts DEF Take
<1> QED BY <1>1, <1>2, <1>3 DEF WorkerStep

LEMMA ReportInv ==
  ASSUME RunnerInv, NEW w \in Worker, Report(w)
  PROVE  RunnerInv'
  BY DEF Report, RunnerInv, RunnerTypeOK, OneReport, TakersReport, NewWorkers, Work, slot,
         events, calls
-----------------------------------------------------------------------------
(* The application: which thread is where.                                 *)

LEMMA InitInv == Init => Inv
<1> SUFFICES ASSUME Init PROVE Inv
  OBVIOUS
<1>1. RunnerInv
  BY RunnerInitInv DEF Init
<1>2. DispatcherTypeOK
  BY DEF Init, DispatcherTypeOK
<1>3. OwnThreads /\ StartsWhenIdle
  BY DEF Init, RunnerInit, OwnThreads, StartsWhenIdle
<1>4. InstalledIsKept
  BY RunnerAssumption DEF Init, InstalledIsKept, Launched
<1>5. SimulatedIsWanted /\ TakenIsEnding
  BY RunnerAssumption DEF Init, RunnerInit, SimulatedIsWanted, TakenIsEnding
<1> QED BY <1>1, <1>2, <1>3, <1>4, <1>5 DEF Inv, Agreement

LEMMA NextTypes ==
  ASSUME Inv, [Next]_vars
  PROVE  RunnerInv' /\ DispatcherTypeOK'
<1> USE DEF Inv, DispatcherTypeOK
<1>1. ASSUME NEW t \in Thread, NEW o \in Operation, StartRequest(t, o)
      PROVE  RunnerInv' /\ DispatcherTypeOK'
  BY <1>1, EnterInv DEF StartRequest, Method
<1>2. ASSUME NEW t \in Thread, NEW o \in Operation,
             NEW m \in {"cancel", "pause", "resume"}, BlockingRequest(t, m, o)
      PROVE  RunnerInv' /\ DispatcherTypeOK'
  BY <1>2, EnterInv DEF BlockingRequest, Method
<1>3. ASSUME NEW t \in Thread, DispatcherReads(t)
      PROVE  RunnerInv' /\ DispatcherTypeOK'
  <2>1. Leave(t)
    BY <1>3 DEF DispatcherReads, StartAccepted, BlockingAnswered, LateAnswer
  <2>2. DispatcherTypeOK'
    <3>1. CASE StartAccepted(t)
      BY <3>1 DEF StartAccepted
    <3>2. CASE BlockingAnswered(t)
      BY <3>2 DEF BlockingAnswered, Denied, MarkPaused
    <3>3. CASE LateAnswer(t)
      BY <3>3 DEF LateAnswer, dispatcher
    <3> QED BY <1>3, <3>1, <3>2, <3>3 DEF DispatcherReads
  <2> QED BY <2>1, <2>2, LeaveInv
<1>4. ASSUME NEW t \in Thread, StartTimesOut(t) \/ BlockingTimesOut(t)
      PROVE  RunnerInv' /\ DispatcherTypeOK'
  <2>1. DispatcherTypeOK' /\ UNCHANGED runnerVars
    BY <1>4 DEF StartTimesOut, BlockingTimesOut, Denied, MarkPaused
  <2> QED BY <2>1, RunnerUnchanged
<1>5. ASSUME NEW w \in Worker, Completes(w)
      PROVE  RunnerInv' /\ DispatcherTypeOK'
  <2>1. RunnerInv'
    BY <1>5, ReportInv DEF Completes
  <2>2. DispatcherTypeOK'
    BY <1>5 DEF Completes
  <2> QED BY <2>1, <2>2
<1>6. CASE RunnerStep
  BY <1>6, CallerStepInv, WorkerStepInv DEF RunnerStep, dispatcher
<1>7. CASE UNCHANGED vars
  BY <1>7, RunnerUnchanged DEF vars, runnerVars
<1>8. CASE PauseDispatcher \/ ResumeDispatcher
  <2>1. DispatcherTypeOK' /\ UNCHANGED runnerVars
    BY <1>8 DEF PauseDispatcher, ResumeDispatcher, MarkPaused
  <2> QED BY <2>1, RunnerUnchanged
<1> QED BY <1>1, <1>2, <1>3, <1>4, <1>5, <1>6, <1>7, <1>8 DEF Next
-----------------------------------------------------------------------------
(* The dispatcher and the runner agree.                                    *)

(* A thread in the runner is the one that is asked or the one the loop is  *)
(* blocked on, and its method tells which.                                 *)
LEMMA CallerIs ==
  ASSUME Inv, ~disturbed, NEW t \in Thread, pc[t] # "idle"
  PROVE  \/ /\ t = asked /\ asked # 0 /\ t # blocked
            /\ \E o \in Operation : call[t] = <<"start", o>>
         \/ /\ t = blocked /\ blocked # 0 /\ t # asked
            /\ pc[t] \in {"entered", "joining", "answered"}
            /\ \E m \in Method \ {"start"}, o \in Operation : call[t] = <<m, o>>
<1>1. t # 0
  BY RunnerAssumption
<1> QED BY <1>1 DEF Inv, Agreement, OwnThreads

LEMMA StartRequestAgreement ==
  ASSUME Inv, ~disturbed, NEW t \in Thread, NEW o \in Operation, StartRequest(t, o)
  PROVE  Agreement'
<1> USE DEF Inv, Agreement
<1>1. /\ pc[t] = "idle" /\ asked = 0 /\ blocked = 0 /\ asked' = t /\ Idle
      /\ call' = [call EXCEPT ![t] = <<"start", o>>]
      /\ pc' = [pc EXCEPT ![t] = "entered"]
      /\ UNCHANGED <<operation, taken, answer, phase, blocked>>
  BY DEF StartRequest, Fresh, Enter, Goes, slot, workers
<1>2. call \in [Thread -> Call \cup {NoCall}] /\ pc \in [Thread -> Point]
  BY DEF RunnerInv, RunnerTypeOK
<1>3. \A u \in Thread, p \in Operation : ~Launched(u, p) /\ ~Launched(u, p)'
  BY <1>1, <1>2, RunnerAssumption DEF Launched
<1>4. \A u \in Thread, p \in Operation : ~Took(u, p) /\ ~Took(u, p)'
  BY <1>1, <1>2, RunnerAssumption DEF Took, OwnThreads
<1>5. OwnThreads'
  BY <1>1, <1>2 DEF OwnThreads
<1>6. StartsWhenIdle'
  BY <1>1 DEF StartsWhenIdle, Idle
<1>7. InstalledIsKept'
  BY <1>1, <1>3, <1>4 DEF InstalledIsKept, Kept
<1>8. SimulatedIsWanted'
  BY <1>1, <1>3, <1>4 DEF SimulatedIsWanted
<1>9. TakenIsEnding'
  BY <1>1, <1>3 DEF TakenIsEnding
<1> QED BY <1>5, <1>6, <1>7, <1>8, <1>9

(* The approved operation is dispatched, and it is the one that was asked. *)
LEMMA StartAcceptedAgreement ==
  ASSUME Inv, ~disturbed, ~disturbed', NEW t \in Thread, StartAccepted(t)
  PROVE  Agreement'
<1> USE DEF Inv, Agreement
<1>1. PICK o \in Operation :
        /\ phase[o] = "waiting" /\ phase' = [phase EXCEPT ![o] = "active"]
        /\ call[t][2] = o
  BY DEF StartAccepted, Head
<1>2. /\ asked = t /\ asked' = 0 /\ blocked = 0 /\ blocked' = 0
      /\ pc[t] = "answered"
      /\ call' = [call EXCEPT ![t] = NoCall]
      /\ pc' = [pc EXCEPT ![t] = "idle"]
      /\ UNCHANGED <<operation, taken>>
  BY DEF StartAccepted, Leave, Goes, slot, workers
<1>3. call[t] = <<"start", o>>
  BY <1>1, <1>2, RunnerAssumption DEF OwnThreads
<1>4. /\ call \in [Thread -> Call \cup {NoCall}] /\ pc \in [Thread -> Point]
      /\ phase \in [Operation -> {"waiting", "active", "done"}]
  BY DEF RunnerInv, RunnerTypeOK, DispatcherTypeOK
<1>5. Launched(t, o) /\ \A u \in Thread, p \in Operation : p # o => ~Launched(u, p)
  BY <1>2, <1>3 DEF Launched
<1>6. \A u \in Thread, p \in Operation : ~Took(u, p) /\ ~Took(u, p)' /\ ~Launched(u, p)'
  BY <1>2, <1>3, <1>4, RunnerAssumption DEF Took, Launched, OwnThreads, NoCall
<1>7. OwnThreads'
  BY <1>2, <1>4 DEF OwnThreads
<1>8. StartsWhenIdle'
  BY <1>2 DEF StartsWhenIdle
<1>9. InstalledIsKept'
  BY <1>1, <1>2, <1>4, <1>5, <1>6 DEF InstalledIsKept, Kept
<1>10. SimulatedIsWanted'
  BY <1>1, <1>2, <1>4, <1>5, <1>6 DEF SimulatedIsWanted
<1>11. TakenIsEnding'
  BY <1>1, <1>2, <1>4, <1>5, <1>6 DEF TakenIsEnding
<1> QED BY <1>7, <1>8, <1>9, <1>10, <1>11

LEMMA BlockingRequestAgreement ==
  ASSUME Inv, ~disturbed, NEW t \in Thread, NEW o \in Operation,
         NEW m \in {"cancel", "pause", "resume"}, BlockingRequest(t, m, o)
  PROVE  Agreement'
<1> USE DEF Inv, Agreement
<1>1. /\ pc[t] = "idle" /\ blocked = 0 /\ blocked' = t
      /\ call' = [call EXCEPT ![t] = <<m, o>>]
      /\ pc' = [pc EXCEPT ![t] = "entered"]
      /\ UNCHANGED <<operation, taken, answer, phase, asked>>
  BY DEF BlockingRequest, Fresh, Enter, Goes, slot, workers
<1>2. call \in [Thread -> Call \cup {NoCall}] /\ pc \in [Thread -> Point]
  BY DEF RunnerInv, RunnerTypeOK
<1>3. \A u \in Thread, p \in Operation : Launched(u, p)' <=> Launched(u, p)
  BY <1>1, <1>2, RunnerAssumption DEF Launched, OwnThreads
<1>4. \A u \in Thread, p \in Operation : ~Took(u, p) /\ ~Took(u, p)'
  BY <1>1, <1>2, RunnerAssumption DEF Took, OwnThreads
<1>5. OwnThreads'
  BY <1>1, <1>2, RunnerAssumption DEF OwnThreads, Method
<1>6. StartsWhenIdle'
  BY <1>1 DEF StartsWhenIdle, Idle
<1>7. InstalledIsKept'
  BY <1>1, <1>3, <1>4 DEF InstalledIsKept, Kept
<1>8. SimulatedIsWanted'
  BY <1>1, <1>3, <1>4 DEF SimulatedIsWanted
<1>9. TakenIsEnding'
  BY <1>1, <1>3 DEF TakenIsEnding
<1> QED BY <1>5, <1>6, <1>7, <1>8, <1>9

(* A confirmed cancellation ends the operation it took.                    *)
LEMMA BlockingAnsweredAgreement ==
  ASSUME Inv, ~disturbed, NEW t \in Thread, BlockingAnswered(t)
  PROVE  Agreement'
<1> USE DEF Inv, Agreement
<1>1. /\ blocked = t /\ blocked' = 0 /\ pc[t] = "answered"
      /\ call' = [call EXCEPT ![t] = NoCall]
      /\ pc' = [pc EXCEPT ![t] = "idle"]
      /\ phase' = IF answer[t] /\ call[t][1] = "cancel"
                  THEN [phase EXCEPT ![call[t][2]] = "done"] ELSE phase
      /\ UNCHANGED <<operation, taken, asked>>
  BY DEF BlockingAnswered, Leave, Goes, slot, workers
<1>2. /\ call \in [Thread -> Call \cup {NoCall}] /\ pc \in [Thread -> Point]
      /\ phase \in [Operation -> {"waiting", "active", "done"}]
  BY DEF RunnerInv, RunnerTypeOK, DispatcherTypeOK
<1>3. t # 0 /\ t # asked
  BY <1>1, RunnerAssumption DEF OwnThreads
<1>4. PICK m \in Method \ {"start"}, o \in Operation : call[t] = <<m, o>>
  BY <1>1, <1>3 DEF OwnThreads
<1>5. \A p \in Operation : phase'[p] = IF Took(t, p) THEN "done" ELSE phase[p]
  BY <1>1, <1>2, <1>4 DEF Took
<1>6. \A u \in Thread, p \in Operation : Launched(u, p)' <=> Launched(u, p)
  BY <1>1, <1>2, <1>3 DEF Launched
<1>7. \A u \in Thread, p \in Operation : ~Took(u, p)' /\ (Took(u, p) => u = t)
  BY <1>1, <1>2, CallerIs, RunnerAssumption DEF Took, NoCall
<1>8. OwnThreads'
  BY <1>1, <1>2, <1>3 DEF OwnThreads
<1>9. StartsWhenIdle'
  BY <1>1, <1>5 DEF StartsWhenIdle, Idle
<1>10. InstalledIsKept'
  BY <1>1, <1>5, <1>6, <1>7 DEF InstalledIsKept, Kept
<1>11. SimulatedIsWanted'
  BY <1>1, <1>5, <1>6, <1>7 DEF SimulatedIsWanted
<1>12. TakenIsEnding'
  BY <1>1, <1>5, <1>6 DEF TakenIsEnding
<1> QED BY <1>8, <1>9, <1>10, <1>11, <1>12

(* No thread is left over.                                                 *)
LEMMA NoLateAnswer ==
  ASSUME Inv, ~disturbed, NEW t \in Thread, LateAnswer(t)
  PROVE  FALSE
  BY DEF LateAnswer, Leave, Inv, Agreement, OwnThreads

LEMMA CompletesAgreement ==
  ASSUME Inv, ~disturbed, ~disturbed', NEW w \in Worker, Completes(w)
  PROVE  Agreement'
<1> USE DEF Inv, Agreement
<1>1. /\ taken' = [taken EXCEPT ![w] = None]
      /\ phase' = IF phase[taken[w]] = "active"
                  THEN [phase EXCEPT ![taken[w]] = "done"] ELSE phase
      /\ UNCHANGED <<operation, call, pc, answer, asked, blocked>>
  BY DEF Completes, Report, slot, calls
<1>2. /\ taken \in [Worker -> Operation \cup {None}]
      /\ phase \in [Operation -> {"waiting", "active", "done"}]
  BY DEF RunnerInv, RunnerTypeOK, DispatcherTypeOK
<1>3. taken[w] \in Operation => phase[taken[w]] # "waiting" /\ phase'[taken[w]] = "done"
  BY <1>1, <1>2 DEF Completes
<1>4. \A p \in Operation : p # taken[w] => phase'[p] = phase[p]
  BY <1>1, <1>2
<1>5. \A u \in Thread, p \in Operation :
        (Launched(u, p)' <=> Launched(u, p)) /\ (Took(u, p)' <=> Took(u, p))
  BY <1>1 DEF Launched, Took
<1>6. OwnThreads'
  BY <1>1 DEF OwnThreads
<1>7. StartsWhenIdle'
  BY <1>1, <1>3, <1>4 DEF StartsWhenIdle, Idle
<1>8. InstalledIsKept'
  BY <1>1, <1>2, <1>3, <1>4, <1>5, RunnerAssumption DEF InstalledIsKept, Kept
<1>9. SimulatedIsWanted'
  <2> SUFFICES ASSUME NEW o \in Operation, operation = o,
                      \A t \in Thread : ~Launched(t, o)
               PROVE  phase'[o] = "active" /\ \A t \in Thread : ~Took(t, o)
    BY <1>1, <1>5 DEF SimulatedIsWanted
  <2>1. phase[o] = "active" /\ \A t \in Thread : ~Took(t, o)
    BY DEF SimulatedIsWanted
  <2>2. taken[w] # o
    BY <2>1 DEF TakenIsEnding
  <2> QED BY <1>4, <2>1, <2>2
<1>10. TakenIsEnding'
  BY <1>1, <1>2, <1>3, <1>4, <1>5, RunnerAssumption DEF TakenIsEnding
<1> QED BY <1>6, <1>7, <1>8, <1>9, <1>10

(* A step that moves no simulation keeps the agreement.                    *)
LEMMA NothingMovesAgreement ==
  ASSUME Inv, ~disturbed, OwnThreads',
         UNCHANGED <<operation, taken, phase, asked>>,
         \A u \in Thread, p \in Operation :
           (Launched(u, p)' <=> Launched(u, p)) /\ (Took(u, p)' <=> Took(u, p))
  PROVE  Agreement'
<1> USE DEF Inv, Agreement
<1>1. StartsWhenIdle'
  BY DEF StartsWhenIdle, Idle
<1>2. InstalledIsKept'
  BY DEF InstalledIsKept, Kept
<1>3. SimulatedIsWanted'
  BY DEF SimulatedIsWanted
<1>4. TakenIsEnding'
  BY DEF TakenIsEnding
<1> QED BY <1>1, <1>2, <1>3, <1>4

(* A caller that goes on stays where OwnThreads wants it.                  *)
LEMMA CallerMoves ==
  ASSUME Inv, ~disturbed, NEW t \in Thread, NEW p \in Point \ {"idle"},
         pc[t] # "idle", pc' = [pc EXCEPT ![t] = p],
         UNCHANGED <<call, asked, blocked>>,
         t = blocked => p \in {"joining", "answered"}
  PROVE  OwnThreads'
<1>1. pc \in [Thread -> Point]
  BY DEF Inv, RunnerInv, RunnerTypeOK
<1>2. /\ pc'[t] = p /\ p # "idle"
      /\ \A u \in Thread : u # t => pc'[u] = pc[u]
      /\ asked \in Thread \cup {0} /\ blocked \in Thread \cup {0}
  BY <1>1 DEF Inv, DispatcherTypeOK
<1> QED BY <1>2 DEF Inv, Agreement, OwnThreads

LEMMA QuietCallerAgreement ==
  ASSUME Inv, ~disturbed, NEW t \in Thread,
         CancelRefused(t) \/ JoinAndClear(t) \/ Launch(t) \/ PauseOrResume(t),
         UNCHANGED dispatcher
  PROVE  Agreement'
<1>1. /\ pc[t] # "idle"
      /\ UNCHANGED <<operation, taken, call, phase, asked, blocked>>
  BY DEF CancelRefused, JoinAndClear, Launch, PauseOrResume, slot, workers, dispatcher
<1>2. /\ call \in [Thread -> Call \cup {NoCall}] /\ pc \in [Thread -> Point]
      /\ answer \in [Thread -> BOOLEAN]
  BY DEF Inv, RunnerInv, RunnerTypeOK
<1>3. PICK p \in {"installing", "answered"} :
        /\ pc' = [pc EXCEPT ![t] = p]
        /\ p = "installing" => call[t][1] = "start"
  BY DEF CancelRefused, JoinAndClear, Launch, PauseOrResume, Goes, Answers
<1>4. OwnThreads'
  <2>1. t = blocked => p = "answered"
    BY <1>1, <1>3, CallerIs DEF Method
  <2> QED BY <1>1, <1>3, <2>1, CallerMoves DEF Point
<1>5. \A u \in Thread : u # t => pc'[u] = pc[u] /\ answer'[u] = answer[u]
  BY <1>2, <1>3
     DEF CancelRefused, JoinAndClear, Launch, PauseOrResume, Answers
<1>6. ASSUME NEW o \in Operation
      PROVE  (Launched(t, o)' <=> Launched(t, o)) /\ (Took(t, o)' <=> Took(t, o))
  <2>1. CASE CancelRefused(t)
    BY <2>1, <1>1, <1>2 DEF CancelRefused, Mismatch, Answers, Goes, Launched, Took
  <2>2. CASE JoinAndClear(t)
    <3>1. CASE call[t][1] = "start"
      BY <3>1, <2>2, <1>1, <1>2 DEF JoinAndClear, Goes, Launched, Took
    <3>2. CASE call[t][1] # "start"
      BY <3>2, <2>2, <1>1, <1>2 DEF JoinAndClear, Answers, Goes, Launched, Took
    <3> QED BY <3>1, <3>2
  <2>3. CASE Launch(t)
    <3>1. \E q \in Operation : call[t] = <<"start", q>>
      BY <2>3, <1>1, CallerIs DEF Launch
    <3> QED BY <3>1, <2>3, <1>1, <1>2 DEF Launch, Answers, Goes, Launched, Took
  <2>4. CASE PauseOrResume(t)
    BY <2>4, <1>1, <1>2 DEF PauseOrResume, Answers, Goes, Launched, Took
  <2> QED BY <2>1, <2>2, <2>3, <2>4
<1>7. \A u \in Thread, o \in Operation :
        (Launched(u, o)' <=> Launched(u, o)) /\ (Took(u, o)' <=> Took(u, o))
  <2> SUFFICES ASSUME NEW u \in Thread, NEW o \in Operation, u # t
               PROVE  (Launched(u, o)' <=> Launched(u, o)) /\ (Took(u, o)' <=> Took(u, o))
    BY <1>6
  <2> QED BY <1>1, <1>5 DEF Launched, Took
<1> QED BY <1>1, <1>4, <1>7, NothingMovesAgreement

(* A start finds nothing to end, and a cancel takes what it ends over.     *)
LEMMA CancelSectionAgreement ==
  ASSUME Inv, ~disturbed, NEW t \in Thread, CancelSection(t), UNCHANGED dispatcher
  PROVE  Agreement'
<1> USE DEF Inv, Agreement
<1>1. /\ pc[t] = "entered" /\ call[t][1] \in {"start", "cancel"} /\ ~Mismatch(t)
      /\ operation' = None
      /\ pc' = [pc EXCEPT ![t] = "joining"]
      /\ UNCHANGED <<taken, call, answer, phase, asked, blocked>>
  BY DEF CancelSection, Goes, workers, dispatcher
<1>2. /\ call \in [Thread -> Call \cup {NoCall}] /\ pc \in [Thread -> Point]
      /\ operation \in Operation \cup {None}
  BY DEF RunnerInv, RunnerTypeOK
<1>3. OwnThreads'
  BY <1>1, CallerMoves DEF Point
<1>4. StartsWhenIdle'
  BY <1>1 DEF StartsWhenIdle, Idle
<1>5. \A u \in Thread, p \in Operation : Launched(u, p)' <=> Launched(u, p)
  BY <1>1, <1>2 DEF Launched
<1>6. \A u \in Thread, p \in Operation :
        Took(u, p)' <=> Took(u, p) \/ (u = t /\ call[t] = <<"cancel", p>>)
  BY <1>1, <1>2 DEF Took
<1>7. InstalledIsKept'
  <2>1. CASE call[t][1] = "start"
    <3>1. asked = t /\ asked # 0
      BY <1>1, <2>1, CallerIs
    <3>2. \A p \in Operation : phase[p] # "active" /\ \A u \in Thread : ~Launched(u, p)
      BY <1>1, <3>1 DEF StartsWhenIdle, Idle, Launched
    <3> QED BY <1>1, <1>5, <3>2 DEF InstalledIsKept
  <2>2. CASE call[t][1] = "cancel"
    <3>1. PICK o \in Operation : call[t] = <<"cancel", o>>
      BY <1>1, <2>2, CallerIs DEF Method
    <3>2. operation \in {None, o}
      BY <1>1, <3>1 DEF Mismatch
    <3>3. Took(t, o)'
      BY <1>6, <3>1
    <3>4. ASSUME NEW p \in Operation, Kept(p)
          PROVE  Kept(p)'
      BY <1>1, <1>6, <3>2, <3>3, <3>4, RunnerAssumption DEF Kept
    <3> QED BY <1>1, <1>5, <3>4 DEF InstalledIsKept
  <2> QED BY <1>1, <2>1, <2>2
<1>8. SimulatedIsWanted'
  BY <1>1, RunnerAssumption DEF SimulatedIsWanted
<1>9. TakenIsEnding'
  BY <1>1, <1>5, RunnerAssumption DEF TakenIsEnding
<1> QED BY <1>3, <1>4, <1>7, <1>8, <1>9

(* A start installs its operation when nothing is simulated or taken.      *)
LEMMA InstallAgreement ==
  ASSUME Inv, ~disturbed, NEW t \in Thread, Install(t), UNCHANGED dispatcher
  PROVE  Agreement'
<1> USE DEF Inv, Agreement
<1>1. /\ pc[t] = "installing" /\ operation' = call[t][2]
      /\ pc' = [pc EXCEPT ![t] = "launching"]
      /\ UNCHANGED <<taken, call, answer, phase, asked, blocked>>
  BY DEF Install, Goes, dispatcher
<1>2. /\ call \in [Thread -> Call \cup {NoCall}] /\ pc \in [Thread -> Point]
  BY DEF RunnerInv, RunnerTypeOK
<1>3. t = asked /\ asked # 0 /\ t # blocked
  BY <1>1, CallerIs
<1>4. PICK o \in Operation : call[t] = <<"start", o>>
  BY <1>1, CallerIs
<1>5. OwnThreads'
  BY <1>1, <1>3, CallerMoves DEF Point
<1>6. StartsWhenIdle' /\ Idle
  BY <1>1, <1>3 DEF StartsWhenIdle, Idle
<1>7. \A u \in Thread, p \in Operation :
        ~Launched(u, p) /\ (Launched(u, p)' <=> u = t /\ p = o)
  BY <1>1, <1>2, <1>3, <1>4 DEF Launched
<1>8. InstalledIsKept'
  BY <1>1, <1>4, <1>6, <1>7 DEF InstalledIsKept, Kept, Idle
<1>9. SimulatedIsWanted'
  BY <1>1, <1>4, <1>7 DEF SimulatedIsWanted
<1>10. TakenIsEnding'
  BY <1>1, <1>6, <1>7 DEF TakenIsEnding, Idle
<1> QED BY <1>5, <1>6, <1>8, <1>9, <1>10

LEMMA WorkerStepAgreement ==
  ASSUME Inv, ~disturbed, NEW w \in Worker, WorkerStep(w), UNCHANGED dispatcher
  PROVE  Agreement'
<1> USE DEF Inv, Agreement
<1>1. UNCHANGED <<call, pc, answer, phase, asked, blocked>>
  BY DEF WorkerStep, Poll, Tick, Take, calls, dispatcher
<1>2. OwnThreads'
  BY <1>1 DEF OwnThreads
<1>3. \A u \in Thread, p \in Operation :
        (Launched(u, p)' <=> Launched(u, p)) /\ (Took(u, p)' <=> Took(u, p))
  BY <1>1 DEF Launched, Took
<1>4. CASE Poll(w) \/ Tick(w)
  <2>1. UNCHANGED <<operation, taken>>
    BY <1>4 DEF Poll, Tick, slot
  <2> QED BY <1>1, <1>2, <1>3, <2>1, NothingMovesAgreement
<1>5. CASE Take(w)
  <2>1. /\ operation \in Operation /\ operation' = None
        /\ taken' = [taken EXCEPT ![w] = operation]
        /\ taken[w] = None
        /\ taken \in [Worker -> Operation \cup {None}]
    BY <1>5 DEF Take, RunnerInv, RunnerTypeOK, TakersReport
  <2>2. StartsWhenIdle'
    BY <1>1 DEF StartsWhenIdle, Idle
  <2>3. ASSUME NEW p \in Operation, Kept(p)
        PROVE  Kept(p)'
    BY <2>1, <2>3, <1>3, RunnerAssumption DEF Kept
  <2>4. InstalledIsKept'
    BY <1>1, <1>3, <2>3 DEF InstalledIsKept
  <2>5. SimulatedIsWanted'
    BY <2>1, RunnerAssumption DEF SimulatedIsWanted
  <2>6. TakenIsEnding'
    BY <1>1, <1>3, <2>1, RunnerAssumption DEF TakenIsEnding, SimulatedIsWanted
  <2> QED BY <1>2, <2>2, <2>4, <2>5, <2>6
<1> QED BY <1>4, <1>5 DEF WorkerStep

(* A pause or a resume of the dispatcher moves nothing.                    *)
LEMMA UnchangedAgreement ==
  ASSUME Inv, ~disturbed, UNCHANGED <<runnerVars, phase, asked, blocked>>
  PROVE  Agreement'
<1> USE DEF Inv, Agreement
<1>1. OwnThreads' <=> OwnThreads
  BY DEF OwnThreads, runnerVars
<1>2. \A u \in Thread, p \in Operation :
        (Launched(u, p)' <=> Launched(u, p)) /\ (Took(u, p)' <=> Took(u, p))
  BY DEF Launched, Took, runnerVars
<1>3. UNCHANGED <<operation, taken, phase, asked>>
  BY DEF runnerVars
<1> QED BY <1>1, <1>2, <1>3, NothingMovesAgreement
-----------------------------------------------------------------------------
LEMMA NextInv == Inv /\ [Next]_vars => Inv'
<1> SUFFICES ASSUME Inv, [Next]_vars PROVE Agreement'
  BY NextTypes DEF Inv
<1>1. CASE disturbed'
  BY <1>1 DEF Agreement
<1>2. CASE disturbed
  <2>1. disturbed'
    <3>1. ASSUME NEW t \in Thread, DispatcherReads(t) PROVE disturbed'
      BY <1>2, <3>1 DEF DispatcherReads, StartAccepted, BlockingAnswered, LateAnswer
    <3>2. ASSUME NEW t \in Thread, NEW o \in Operation,
                 StartRequest(t, o) \/ \E m \in {"cancel", "pause", "resume"} : BlockingRequest(t, m, o)
          PROVE  disturbed'
      BY <1>2, <3>2 DEF StartRequest, BlockingRequest
    <3>3. ASSUME NEW w \in Worker, Completes(w) PROVE disturbed'
      BY <1>2, <3>3 DEF Completes
    <3> QED BY <1>2, <3>1, <3>2, <3>3
            DEF Next, StartTimesOut, BlockingTimesOut, PauseDispatcher, ResumeDispatcher,
                RunnerStep, vars
  <2> QED BY <2>1 DEF Agreement
<1>3. CASE ~disturbed /\ ~disturbed'
  <2>1. ASSUME NEW t \in Thread, DispatcherReads(t) PROVE Agreement'
    BY <1>3, <2>1, StartAcceptedAgreement, BlockingAnsweredAgreement, NoLateAnswer
       DEF DispatcherReads
  <2>2. ASSUME NEW t \in Thread, NEW o \in Operation,
               StartRequest(t, o) \/ \E m \in {"cancel", "pause", "resume"} : BlockingRequest(t, m, o)
        PROVE  Agreement'
    BY <1>3, <2>2, StartRequestAgreement, BlockingRequestAgreement
  <2>3. ASSUME NEW t \in Thread, StartTimesOut(t) \/ BlockingTimesOut(t)
        PROVE  Agreement'
    BY <1>3, <2>3 DEF StartTimesOut, BlockingTimesOut
  <2>4. ASSUME NEW w \in Worker, Completes(w) PROVE Agreement'
    BY <1>3, <2>4, CompletesAgreement
  <2>5. CASE RunnerStep
    <3>1. UNCHANGED dispatcher
      BY <2>5 DEF RunnerStep
    <3>2. ASSUME NEW t \in Thread, CallerStep(t) PROVE Agreement'
      BY <1>3, <3>1, <3>2, QuietCallerAgreement, CancelSectionAgreement, InstallAgreement
         DEF CallerStep
    <3>3. ASSUME NEW w \in Worker, WorkerStep(w) PROVE Agreement'
      BY <1>3, <3>1, <3>3, WorkerStepAgreement
    <3> QED BY <2>5, <3>2, <3>3 DEF RunnerStep
  <2>6. CASE PauseDispatcher \/ ResumeDispatcher \/ UNCHANGED vars
    <3>1. UNCHANGED <<runnerVars, phase, asked, blocked>>
      BY <2>6 DEF PauseDispatcher, ResumeDispatcher, vars, runnerVars
    <3> QED BY <1>3, <3>1, UnchangedAgreement
  <2> QED BY <2>1, <2>2, <2>3, <2>4, <2>5, <2>6 DEF Next
<1> QED BY <1>1, <1>2, <1>3

THEOREM Invariance == Spec => []Inv
<1> QED BY InitInv, NextInv, PTL DEF Spec

(* Every variable of the runner and of the reduced dispatcher keeps its    *)
(* type, whatever the threads of SimulatedOperationRunner do.              *)
THEOREM ApplicationTypes == Spec => []TypeOK
<1>1. Inv => TypeOK
  BY DEF Inv, RunnerInv, DispatcherTypeOK, TypeOK
<1> QED BY <1>1, Invariance, PTL

(* The runner reports or cancels every start at most once, for any number  *)
(* of workers alive at the same time and whatever callers do to the events *)
(* (_run_worker takes the operation in the section that reads it).         *)
THEOREM OneReportPerStart == Spec => []OneReport
<1>1. Inv => OneReport
  BY DEF Inv, RunnerInv
<1> QED BY <1>1, Invariance, PTL

(* While nothing has disturbed the two, what the dispatcher takes for      *)
(* active the runner simulates, is about to report or is cancelling.       *)
THEOREM ActiveSimulated == Spec => []ActiveIsSimulated
<1>1. Inv => ActiveIsSimulated
  <2> SUFFICES ASSUME Inv, NEW o \in Operation, phase[o] = "active", ~disturbed
               PROVE  \/ operation = o
                      \/ \E w \in Worker : taken[w] = o
                      \/ \E t \in Thread : Calls(t, "cancel", o)
    BY DEF ActiveIsSimulated
  <2>1. Kept(o)
    BY DEF Inv, Agreement, InstalledIsKept
  <2>2. \A t \in Thread : Took(t, o) => Calls(t, "cancel", o)
    BY DEF Took, Calls
  <2> QED BY <2>1, <2>2 DEF Kept
<1> QED BY <1>1, Invariance, PTL

(* And nothing is simulated that the dispatcher has not started and has    *)
(* not asked to start, whenever the dispatcher is paused and resumed, but  *)
(* for a pause that overtakes an approval (runtime_service.py:109-116).    *)
THEOREM SimulatedActive == Spec => []SimulatedIsActive
<1>1. Inv => SimulatedIsActive
  BY DEF Inv, Agreement, SimulatedIsWanted, SimulatedIsActive, Launched, Calls
<1> QED BY <1>1, Invariance, PTL
=============================================================================
