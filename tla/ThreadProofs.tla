----------------------------- MODULE ThreadProofs -----------------------------
(***************************************************************************)
(* Proofs about the two components that work with a thread of their own.   *)
(* DisposableWorker, for any timeouts, any longest timer delay, any        *)
(* duration of start() and any lateness of the timers; and LoaderHook, for *)
(* any finite number of loads: a source serves its own import, and what    *)
(* has settled leaves nothing behind.  Neither uses the other.             *)
(***************************************************************************)
EXTENDS DisposableWorker, LoaderHook, FiniteSetTheorems, TLAPS

-----------------------------------------------------------------------------
(* DisposableWorker.                                                       *)
\* Before start() has returned there is no worker, and only an abort counts.
EarlyInv ==
    /\ phase # "running" =>
           /\ worker = NoWorker /\ result = "none" /\ ~observed
           /\ termination = "idle"
           /\ promise # "pending" <=> phase = "refused"
    /\ phase \in {"idle", "refused"} => outcome = "none" /\ due = 0
    /\ phase = "starting" => outcome = IF aborted THEN "abort" ELSE "none"

\* An armed timer and what it leaves reach the deadline, and the outcome
\* disarms it.
TimerInv == due # 0 => outcome = "none" /\ due + remaining >= timeoutMs

\* The termination follows the outcome, and the promise the termination.
TerminationInv ==
    /\ phase = "running" =>
           /\ termination = "idle" <=> outcome = "none"
           /\ promise # "pending" => termination \in {"done", "failed"}
    /\ terminations <= 1
    /\ termination \in {"idle", "requested"} => terminations = 0
    /\ termination \in {"pending", "failed"} => terminations = 1
    /\ termination = "done" /\ worker.terminable => terminations = 1

WInv ==
    /\ WorkerTypeOK /\ EarlyInv /\ TimerInv /\ TerminationInv
    /\ OutcomeIsReported /\ TimeoutIsNotEarly /\ NothingUnobserved

-----------------------------------------------------------------------------
LEMMA LesserBound ==
    ASSUME NEW left \in Nat
    PROVE  /\ Lesser(left, MaxTimerDelay) \in Nat
           /\ left - Lesser(left, MaxTimerDelay) \in Nat
           /\ left > 0 => Lesser(left, MaxTimerDelay) > 0
  BY TimerAssumption DEF Lesser

LEMMA WInvInit == WorkerInit => WInv
<1>. SUFFICES ASSUME WorkerInit PROVE WInv
  OBVIOUS
<1>1. WorkerTypeOK
  BY TimeoutsAssumption DEF WorkerInit, WorkerTypeOK, Outcomes, Workers, NoWorker
<1>2. EarlyInv /\ TimerInv /\ TerminationInv
  BY DEF WorkerInit, EarlyInv, TimerInv, TerminationInv
<1>3. OutcomeIsReported /\ TimeoutIsNotEarly /\ NothingUnobserved
  BY DEF WorkerInit, OutcomeIsReported, TimeoutIsNotEarly, NothingUnobserved
<1>. QED
  BY <1>1, <1>2, <1>3 DEF WInv

(* Select and Arm, in the form the actions need.                           *)
LEMMA SelectEffect ==
    ASSUME NEW o, Select(o)
    PROVE  /\ outcome # "none" => UNCHANGED <<outcome, due, termination>>
           /\ outcome = "none" =>
                  /\ outcome' = o /\ due' = 0
                  /\ termination' =
                        IF phase = "running" THEN "requested" ELSE termination
  BY DEF Select

LEMMA ArmEffect ==
    ASSUME WorkerTypeOK, NEW left \in Nat, left > 0, Arm(left)
    PROVE  /\ due' \in Nat /\ due' # 0 /\ remaining' \in Nat
           /\ due' + remaining' = now + left
<1>. DEFINE delay == Lesser(left, MaxTimerDelay)
<1>1. delay \in Nat /\ left - delay \in Nat /\ delay > 0
  BY LesserBound
<1>2. due' = now + delay /\ remaining' = left - delay
  BY DEF Arm
<1>3. now \in Nat
  BY DEF WorkerTypeOK
<1>. HIDE DEF delay
<1>. QED
  BY <1>1, <1>2, <1>3

-----------------------------------------------------------------------------
LEMMA CallKeepsWInv == WInv /\ Run => WInv'
<1>. SUFFICES ASSUME WInv, Run PROVE WInv'
  OBVIOUS
<1>. USE DEF WInv
<1>1. /\ phase = "idle" /\ ~aborted /\ outcome = "none" /\ due = 0
      /\ worker = NoWorker /\ result = "none" /\ ~observed
      /\ termination = "idle" /\ promise = "pending"
      /\ timeoutMs \in Nat /\ timeoutMs > 0 /\ now \in Nat
  BY TimeoutsAssumption DEF Run, EarlyInv, WorkerTypeOK
<1>2. /\ UNCHANGED <<timeoutMs, now, signalled, aborted, worker, result, observed,
                     terminations, promise>>
  BY DEF Run
<1>3. CASE phase' = "starting" /\ Arm(timeoutMs) /\ UNCHANGED <<outcome, termination>>
  <2>1. /\ due' \in Nat /\ due' # 0 /\ remaining' \in Nat
        /\ due' + remaining' = now + timeoutMs
    BY <1>1, <1>3, ArmEffect
  <2>2. WorkerTypeOK'
    BY <1>2, <1>3, <2>1 DEF WorkerTypeOK
  <2>3. EarlyInv' /\ TerminationInv'
    BY <1>1, <1>2, <1>3 DEF EarlyInv, TerminationInv
  <2>4. TimerInv'
    <3>1. now + timeoutMs >= timeoutMs
      BY <1>1
    <3>2. timeoutMs' = timeoutMs /\ outcome' = "none"
      BY <1>1, <1>2, <1>3
    <3>. QED
      BY <2>1, <3>1, <3>2 DEF TimerInv
  <2>5. OutcomeIsReported' /\ TimeoutIsNotEarly' /\ NothingUnobserved'
    BY <1>1, <1>2, <1>3 DEF OutcomeIsReported, TimeoutIsNotEarly, NothingUnobserved
  <2>. QED
    BY <2>2, <2>3, <2>4, <2>5
<1>4. CASE /\ phase' = "running"
           /\ remaining' = timeoutMs - Lesser(timeoutMs, MaxTimerDelay)
           /\ outcome' = "error" /\ termination' = "requested" /\ due' = due
  <2>1. remaining' \in Nat
    BY <1>1, <1>4, LesserBound
  <2>2. WorkerTypeOK'
    BY <1>2, <1>4, <2>1 DEF WorkerTypeOK, Outcomes
  <2>3. EarlyInv' /\ TimerInv' /\ TerminationInv'
    BY <1>1, <1>2, <1>4 DEF EarlyInv, TimerInv, TerminationInv
  <2>4. OutcomeIsReported' /\ TimeoutIsNotEarly' /\ NothingUnobserved'
    BY <1>1, <1>2, <1>4 DEF OutcomeIsReported, TimeoutIsNotEarly, NothingUnobserved
  <2>. QED
    BY <2>2, <2>3, <2>4
<1>. QED
  BY <1>3, <1>4 DEF Run

LEMMA RefuseKeepsWInv == WInv /\ Refuse => WInv'
  BY DEF WInv, Refuse, WorkerTypeOK, EarlyInv, TimerInv, TerminationInv,
         OutcomeIsReported, TimeoutIsNotEarly, NothingUnobserved

\* What every selection of an outcome after the call has started keeps.
LEMMA SelectKeepsWInv ==
    ASSUME WInv, NEW o \in Outcomes \ {"none"}, Select(o),
           phase \in {"starting", "running"},
           o = "timeout" => now >= timeoutMs,
           phase = "starting" => o = "abort" /\ aborted' /\ ~aborted,
           aborted' \in BOOLEAN,
           UNCHANGED <<phase, timeoutMs, now, remaining, signalled, worker,
                       result, terminations, promise>>,
           observed' \in BOOLEAN, observed' => observed,
           result = "pending" => observed' = observed
    PROVE  WInv'
<1>. USE DEF WInv
<1>1. /\ outcome # "none" => UNCHANGED <<outcome, due, termination>>
      /\ outcome = "none" =>
             /\ outcome' = o /\ due' = 0
             /\ termination' = IF phase = "running" THEN "requested" ELSE termination
  BY SelectEffect
<1>2. WorkerTypeOK'
  BY <1>1 DEF WorkerTypeOK
<1>3. EarlyInv'
  BY <1>1 DEF EarlyInv
<1>4. TimerInv'
  BY <1>1 DEF TimerInv
<1>5. TerminationInv'
  BY <1>1 DEF TerminationInv, EarlyInv
<1>6. OutcomeIsReported'
  BY <1>1 DEF OutcomeIsReported, TerminationInv
<1>7. TimeoutIsNotEarly' /\ NothingUnobserved'
  BY <1>1 DEF TimeoutIsNotEarly, NothingUnobserved
<1>. QED
  BY <1>2, <1>3, <1>4, <1>5, <1>6, <1>7

LEMMA AbortKeepsWInv == WInv /\ Abort => WInv'
<1>. SUFFICES ASSUME WInv, Abort PROVE WInv'
  OBVIOUS
<1>1. CASE phase = "idle"
  BY <1>1 DEF WInv, Abort, WorkerTypeOK, EarlyInv, TimerInv, TerminationInv,
              OutcomeIsReported, TimeoutIsNotEarly, NothingUnobserved
<1>2. CASE phase # "idle"
  <2>1. phase \in {"starting", "running"} /\ observed \in BOOLEAN
    BY <1>2 DEF Abort, WInv, WorkerTypeOK
  <2>. QED
    BY <1>2, <2>1, SelectKeepsWInv DEF Abort, Outcomes
<1>. QED
  BY <1>1, <1>2

LEMMA ObservedKeepsWInv == WInv /\ ResultObserved => WInv'
<1>. SUFFICES ASSUME WInv, ResultObserved PROVE WInv'
  OBVIOUS
<1>1. phase = "running" /\ aborted \in BOOLEAN
  BY DEF WInv, ResultObserved, EarlyInv, WorkerTypeOK
<1>2. PICK o \in {"success", "error"} : Select(o)
  BY DEF ResultObserved
<1>. QED
  BY <1>1, <1>2, SelectKeepsWInv DEF ResultObserved, Outcomes

LEMMA TimerKeepsWInv == WInv /\ TimerFires => WInv'
<1>. SUFFICES ASSUME WInv, TimerFires PROVE WInv'
  OBVIOUS
<1>. USE DEF WInv
<1>1. /\ phase = "running" /\ due # 0 /\ now >= due
      /\ outcome = "none" /\ due + remaining >= timeoutMs
      /\ now \in Nat /\ due \in Nat /\ remaining \in Nat /\ timeoutMs \in Nat
      /\ UNCHANGED <<phase, timeoutMs, now, signalled, aborted, worker, result,
                     observed, terminations, promise>>
  BY TimeoutsAssumption DEF TimerFires, TimerInv, WorkerTypeOK
<1>2. CASE remaining > 0
  <2>1. Arm(remaining) /\ UNCHANGED <<outcome, termination>>
    BY <1>2 DEF TimerFires
  <2>2. /\ due' \in Nat /\ remaining' \in Nat
        /\ due' + remaining' = now + remaining
    BY <1>1, <1>2, <2>1, ArmEffect
  <2>3. WorkerTypeOK'
    BY <1>1, <2>1, <2>2 DEF WorkerTypeOK
  <2>4. TimerInv'
    <3>1. now + remaining >= timeoutMs
      BY <1>1
    <3>2. timeoutMs' = timeoutMs /\ outcome' = "none"
      BY <1>1, <2>1
    <3>. QED
      BY <2>2, <3>1, <3>2 DEF TimerInv
  <2>5. EarlyInv' /\ TerminationInv'
    BY <1>1, <2>1 DEF EarlyInv, TerminationInv
  <2>6. OutcomeIsReported' /\ TimeoutIsNotEarly' /\ NothingUnobserved'
    BY <1>1, <2>1 DEF OutcomeIsReported, TimeoutIsNotEarly, NothingUnobserved
  <2>. QED
    BY <2>3, <2>4, <2>5, <2>6
<1>3. CASE ~(remaining > 0)
  <2>1. Select("timeout") /\ UNCHANGED remaining
    BY <1>3 DEF TimerFires
  <2>2. now >= timeoutMs
    BY <1>1, <1>3
  <2>3. observed \in BOOLEAN /\ aborted \in BOOLEAN
    BY DEF WorkerTypeOK
  <2>. QED
    BY <1>1, <2>1, <2>2, <2>3, SelectKeepsWInv DEF Outcomes
<1>. QED
  BY <1>2, <1>3

LEMMA StartKeepsWInv ==
    ASSUME WInv, NEW w \in Workers, StartEnds(w)
    PROVE  WInv'
<1>. USE DEF WInv
<1>1. /\ phase = "starting" /\ phase' = "running" /\ worker' = w
      /\ outcome' = StartOutcome(w)
      /\ outcome' = "none" => UNCHANGED <<due, termination>>
      /\ outcome' # "none" => due' = 0 /\ termination' = "requested"
      /\ result' = (IF w.thenable THEN "pending" ELSE "none")
      /\ observed' = w.thenable
      /\ UNCHANGED <<timeoutMs, now, remaining, signalled, aborted,
                     terminations, promise>>
  BY DEF StartEnds, Adopt
<1>2. /\ outcome = IF aborted THEN "abort" ELSE "none"
      /\ termination = "idle" /\ promise = "pending" /\ terminations = 0
      /\ w.thenable \in BOOLEAN
  BY <1>1 DEF EarlyInv, TerminationInv, Workers
<1>3. /\ outcome' \in Outcomes
      /\ outcome' = "timeout" => now >= timeoutMs
      /\ outcome # "none" => outcome' = outcome
  BY <1>1, <1>2 DEF StartOutcome, Outcomes, Expired
<1>4. WorkerTypeOK'
  BY <1>1, <1>2, <1>3 DEF WorkerTypeOK
<1>5. EarlyInv'
  BY <1>1 DEF EarlyInv
<1>6. TimerInv'
  BY <1>1, <1>3 DEF TimerInv
<1>7. TerminationInv'
  BY <1>1, <1>2 DEF TerminationInv
<1>8. OutcomeIsReported' /\ TimeoutIsNotEarly' /\ NothingUnobserved'
  BY <1>1, <1>2, <1>3 DEF OutcomeIsReported, TimeoutIsNotEarly, NothingUnobserved
<1>. QED
  BY <1>4, <1>5, <1>6, <1>7, <1>8

LEMMA WorkerKeepsWInv ==
    WInv /\ (ResultSettles \/ RequestTermination \/ TerminationEnds) => WInv'
<1>. SUFFICES ASSUME WInv, ResultSettles \/ RequestTermination \/ TerminationEnds
              PROVE  WInv'
  OBVIOUS
<1>. USE DEF WInv
<1>1. phase = "running"
  BY DEF ResultSettles, RequestTermination, TerminationEnds, EarlyInv
<1>2. UNCHANGED <<phase, timeoutMs, now, due, remaining, signalled, aborted,
                  outcome, worker, observed, promise>>
  BY DEF ResultSettles, RequestTermination, TerminationEnds
<1>3. WorkerTypeOK'
  BY <1>2 DEF ResultSettles, RequestTermination, TerminationEnds, WorkerTypeOK
<1>4. EarlyInv' /\ TimerInv' /\ TimeoutIsNotEarly'
  BY <1>1, <1>2 DEF EarlyInv, TimerInv, TimeoutIsNotEarly
<1>5. TerminationInv'
  BY <1>1, <1>2 DEF ResultSettles, RequestTermination, TerminationEnds,
                    TerminationInv, WorkerTypeOK
<1>6. OutcomeIsReported'
  BY <1>1, <1>2 DEF ResultSettles, RequestTermination, TerminationEnds,
                    TerminationInv, OutcomeIsReported
<1>7. NothingUnobserved'
  BY <1>2 DEF ResultSettles, RequestTermination, TerminationEnds, NothingUnobserved
<1>. QED
  BY <1>3, <1>4, <1>5, <1>6, <1>7

LEMMA SettleKeepsWInv == WInv /\ Settle => WInv'
<1>. SUFFICES ASSUME WInv, Settle PROVE WInv'
  OBVIOUS
<1>. USE DEF WInv
<1>1. /\ phase = "running" /\ termination \in {"done", "failed"}
      /\ UNCHANGED <<phase, timeoutMs, now, due, remaining, signalled, aborted,
                     outcome, worker, result, observed, termination, terminations>>
  BY DEF Settle, EarlyInv
<1>2. /\ promise' \in {"fulfilled", "rejected", "aggregate"}
      /\ promise' = "fulfilled" <=> outcome = "success" /\ termination = "done"
      /\ promise' = "aggregate" <=> outcome # "success" /\ termination = "failed"
  BY <1>1 DEF Settle
<1>3. WorkerTypeOK'
  BY <1>1, <1>2 DEF WorkerTypeOK
<1>4. EarlyInv' /\ TimerInv' /\ TerminationInv'
  BY <1>1 DEF EarlyInv, TimerInv, TerminationInv
<1>5. OutcomeIsReported' /\ TimeoutIsNotEarly' /\ NothingUnobserved'
  BY <1>1, <1>2 DEF OutcomeIsReported, TimeoutIsNotEarly, NothingUnobserved
<1>. QED
  BY <1>3, <1>4, <1>5

LEMMA TickKeepsWInv == WInv /\ Tick => WInv'
<1>. SUFFICES ASSUME WInv, Tick PROVE WInv'
  OBVIOUS
<1>. USE DEF WInv
<1>1. /\ now' = now + 1 /\ now \in Nat /\ timeoutMs \in Nat
      /\ UNCHANGED <<phase, timeoutMs, due, remaining, signalled, aborted, outcome,
                     worker, result, observed, termination, terminations, promise>>
  BY TimeoutsAssumption DEF Tick, WorkerTypeOK
<1>2. WorkerTypeOK'
  BY <1>1 DEF WorkerTypeOK
<1>3. EarlyInv' /\ TimerInv' /\ TerminationInv'
  BY <1>1 DEF EarlyInv, TimerInv, TerminationInv
<1>4. OutcomeIsReported' /\ TimeoutIsNotEarly' /\ NothingUnobserved'
  BY <1>1 DEF OutcomeIsReported, TimeoutIsNotEarly, NothingUnobserved
<1>. QED
  BY <1>2, <1>3, <1>4

-----------------------------------------------------------------------------
LEMMA WInvStep == WInv /\ [WorkerNext]_workerVars => WInv'
<1>. SUFFICES ASSUME WInv, [WorkerNext]_workerVars PROVE WInv'
  OBVIOUS
<1>1. CASE UNCHANGED workerVars
  BY <1>1 DEF WInv, workerVars, WorkerTypeOK, EarlyInv, TimerInv, TerminationInv,
              OutcomeIsReported, TimeoutIsNotEarly, NothingUnobserved
<1>2. CASE WorkerNext
  BY <1>2, CallKeepsWInv, RefuseKeepsWInv, AbortKeepsWInv, ObservedKeepsWInv,
     TimerKeepsWInv, StartKeepsWInv, WorkerKeepsWInv, SettleKeepsWInv, TickKeepsWInv
  DEF WorkerNext, Loop, EndStart
<1>. QED
  BY <1>1, <1>2

(* The inductive invariant of a call.                                      *)
THEOREM CallInvariant == WorkerSpec => []WInv
  BY WInvInit, WInvStep, PTL DEF WorkerSpec

(* Type correctness: the chain of timers never has a negative rest.        *)
THEOREM CallTypeCorrect == WorkerSpec => []WorkerTypeOK
  BY CallInvariant, PTL DEF WInv

(* terminate() is called at most once, and has ended before the caller of  *)
(* runDisposableWorkerOperation learns anything.                           *)
THEOREM TerminatedFirst == WorkerSpec => []TerminatedBeforeSettled
<1>1. WInv => TerminatedBeforeSettled
  BY DEF WInv, EarlyInv, TerminationInv, TerminatedBeforeSettled, NoWorker
<1>. QED
  BY <1>1, CallInvariant, PTL

(* The caller's promise says which outcome won and whether the termination *)
(* failed: a value only for a success whose worker is gone.                *)
THEOREM OutcomeReported == WorkerSpec => []OutcomeIsReported
  BY CallInvariant, PTL DEF WInv

(* onTimeout never reports a timeout before timeoutMs, into however many   *)
(* timers the delay was split.                                             *)
THEOREM NeverEarly == WorkerSpec => []TimeoutIsNotEarly
  BY CallInvariant, PTL DEF WInv

(* No result of a handle that start() returned is left without a handler.  *)
THEOREM AllObserved == WorkerSpec => []NothingUnobserved
  BY CallInvariant, PTL DEF WInv

(* The first outcome that select() takes is the last.                      *)
THEOREM FirstOutcomeWins == WorkerSpec => FirstOutcomeStays
<1>1. WInv /\ [WorkerNext]_workerVars => [outcome # "none" => outcome' = outcome]_workerVars
  <2>. SUFFICES ASSUME WInv, WorkerNext, outcome # "none" PROVE outcome' = outcome
    BY DEF workerVars
  <2>1. Run => FALSE
    BY DEF Run, WInv, EarlyInv
  <2>2. \A o : Select(o) => outcome' = outcome
    BY DEF Select
  <2>3. Abort \/ TimerFires \/ ResultObserved => outcome' = outcome
    BY <2>2 DEF Abort, TimerFires, ResultObserved
  <2>4. EndStart => outcome' = outcome
    BY DEF EndStart, StartEnds, StartOutcome
  <2>5. Refuse \/ RequestTermination \/ Settle \/ ResultSettles \/ TerminationEnds
            \/ Tick => outcome' = outcome
    BY DEF Refuse, RequestTermination, Settle, ResultSettles, TerminationEnds, Tick
  <2>. QED
    BY <2>1, <2>3, <2>4, <2>5 DEF WorkerNext, Loop
<1>. QED
  BY <1>1, CallInvariant, PTL DEF WorkerSpec, FirstOutcomeStays

(* A start() that outlives the deadline or the signal never succeeds.      *)
THEOREM SlowStartsFail == WorkerSpec => SlowStartFails
<1>1. WInv /\ [WorkerNext]_workerVars =>
         [phase = "starting" /\ phase' = "running" =>
             /\ Expired => outcome' \in {"timeout", "abort"}
             /\ aborted => outcome' = "abort"]_workerVars
  <2>. SUFFICES ASSUME WInv, WorkerNext, phase = "starting", phase' = "running"
                PROVE  /\ Expired => outcome' \in {"timeout", "abort"}
                       /\ aborted => outcome' = "abort"
    BY DEF workerVars
  <2>1. PICK w \in Workers : StartEnds(w)
    BY DEF WorkerNext, Loop, EndStart, Run, Refuse, Abort, TimerFires, ResultObserved,
       RequestTermination, Settle, ResultSettles, TerminationEnds, Tick
  <2>2. outcome' = StartOutcome(w)
    BY <2>1 DEF StartEnds
  <2>3. outcome = IF aborted THEN "abort" ELSE "none"
    BY DEF WInv, EarlyInv
  <2>. QED
    BY <2>2, <2>3 DEF StartOutcome
<1>. QED
  BY <1>1, CallInvariant, PTL DEF WorkerSpec, SlowStartFails

-----------------------------------------------------------------------------
(* LoaderHook.                                                             *)
Settled == {"done", "failed"}
Messages == [kind : {"install", "cancel"}, load : Loads]

\* Every m in s has an n behind it.
Followed(s, m, n) ==
    \A i \in 1 .. Len(s) : s[i] = m => \E j \in 1 .. Len(s) : i < j /\ s[j] = n

\* m is at most once in s.
Once(s, m) == \A i, j \in 1 .. Len(s) : s[i] = m /\ s[j] = m => i = j

\* One load, its messages and what is held for it.  Its installation is
\* under way, or acknowledged, or neither; while the library needs the source,
\* no cancel is under way; when it does not, one follows the installation.
LoadInv(l) ==
    /\ stage[l] \in {"idle", "verifying"} =>
          /\ ~Has(toThread, Install(l)) /\ ~Has(toMain, l)
          /\ l \notin bySpecifier
    /\ l \in waiters <=> stage[l] = "waiting"
    /\ Has(toThread, Cancel(l)) => stage[l] \in Settled
    /\ Once(toThread, Install(l))
    /\ Has(toThread, Install(l)) => ~Has(toMain, l) /\ l \notin bySpecifier
    /\ stage[l] = "waiting" /\ Has(toMain, l) => l \in bySpecifier
    /\ stage[l] \in Importing => ~Has(toThread, Install(l))
    /\ stage[l] \in Settled =>
          /\ l \in bySpecifier => Has(toThread, Cancel(l))
          /\ Followed(toThread, Install(l), Cancel(l))
    /\ l \in offered \cup hooks => stage[l] \in Importing
    /\ stage[l] = "resolving" => l \in (IF host = "thread" THEN bySpecifier ELSE hooks)
    /\ stage[l] \in {"resolving", "loading"} =>
          l \in (IF host = "thread" THEN bySpecifier ELSE offered)
    /\ stage[l] = "evaluating" => l \notin bySpecifier
    /\ stage[l] = "evaluating" /\ host = "inline" => l \notin offered

\* The hosts do not mix; and the port is held for somebody.
HostInv ==
    /\ bySpecifier = byUrl
    /\ waiters = timers
    /\ host = "thread" => hooks = {} /\ offered = {}
    /\ host # "thread" => bySpecifier = {} /\ waiters = {} /\ toMain = <<>> /\ toThread = <<>>
    /\ refd => waiters # {}

IInv == TypeOK /\ HostInv /\ \A l \in Loads : LoadInv(l)

-----------------------------------------------------------------------------
(* Queues of messages.                                                      *)

LEMMA InTail ==
    ASSUME NEW S, NEW s \in Seq(S), s # <<>>, NEW m
    PROVE  /\ Tail(s) \in Seq(S)
           /\ Has(Tail(s), m) => Has(s, m)
           /\ Has(s, m) => m = Head(s) \/ Has(Tail(s), m)
           /\ Has(s, Head(s))
           /\ Once(s, m) => Once(Tail(s), m)
           /\ Once(s, Head(s)) => ~Has(Tail(s), Head(s))
<1>1. /\ Tail(s) \in Seq(S) /\ Len(s) \in Nat /\ Len(s) > 0
      /\ Len(Tail(s)) = Len(s) - 1
      /\ \A i \in 1 .. Len(Tail(s)) : Tail(s)[i] = s[i + 1]
      /\ Head(s) = s[1]
  OBVIOUS
<1>2. Has(Tail(s), m) => Has(s, m)
  BY <1>1 DEF Has
<1>3. Has(s, m) => m = Head(s) \/ Has(Tail(s), m)
  <2>1. SUFFICES ASSUME NEW i \in 1 .. Len(s), s[i] = m, i # 1
                 PROVE  Has(Tail(s), m)
    BY <1>1 DEF Has
  <2>2. i - 1 \in 1 .. Len(Tail(s)) /\ Tail(s)[i - 1] = m
    BY <1>1, <2>1
  <2> QED
    BY <2>2 DEF Has
<1>4. Has(s, Head(s))
  BY <1>1 DEF Has
<1>5. Once(s, m) => Once(Tail(s), m)
  BY <1>1 DEF Once
<1>6. Once(s, Head(s)) => ~Has(Tail(s), Head(s))
  BY <1>1 DEF Once, Has
<1> QED
  BY <1>1, <1>2, <1>3, <1>4, <1>5, <1>6

LEMMA FollowedTail ==
    ASSUME NEW S, NEW s \in Seq(S), s # <<>>, NEW m, NEW n, Followed(s, m, n)
    PROVE  /\ Followed(Tail(s), m, n)
           /\ Head(s) = m => Has(Tail(s), n)
<1>1. /\ Tail(s) \in Seq(S) /\ Len(s) \in Nat /\ Len(s) > 0
      /\ Len(Tail(s)) = Len(s) - 1
      /\ \A i \in 1 .. Len(Tail(s)) : Tail(s)[i] = s[i + 1]
      /\ Head(s) = s[1]
  OBVIOUS
<1>2. ASSUME NEW i \in 1 .. Len(Tail(s)), Tail(s)[i] = m
      PROVE  \E j \in 1 .. Len(Tail(s)) : i < j /\ Tail(s)[j] = n
  <2>1. PICK j \in 1 .. Len(s) : i + 1 < j /\ s[j] = n
    BY <1>1, <1>2 DEF Followed
  <2>2. j - 1 \in 1 .. Len(Tail(s)) /\ i < j - 1 /\ Tail(s)[j - 1] = n
    BY <1>1, <2>1
  <2> QED
    BY <2>2
<1>3. ASSUME Head(s) = m
      PROVE  Has(Tail(s), n)
  <2>1. PICK j \in 1 .. Len(s) : 1 < j /\ s[j] = n
    BY <1>1, <1>3 DEF Followed
  <2>2. j - 1 \in 1 .. Len(Tail(s)) /\ Tail(s)[j - 1] = n
    BY <1>1, <2>1
  <2> QED
    BY <2>2 DEF Has
<1> QED
  BY <1>2, <1>3 DEF Followed

LEMMA InConcat ==
    ASSUME NEW S, NEW s \in Seq(S), NEW t \in Seq(S), NEW m
    PROVE  /\ s \o t \in Seq(S)
           /\ Has(s \o t, m) <=> Has(s, m) \/ Has(t, m)
           /\ Once(s, m) /\ ~Has(t, m) => Once(s \o t, m)
           /\ Once(t, m) /\ ~Has(s, m) => Once(s \o t, m)
<1>1. /\ s \o t \in Seq(S) /\ Len(s) \in Nat /\ Len(t) \in Nat
      /\ Len(s \o t) = Len(s) + Len(t)
      /\ \A i \in 1 .. Len(s) + Len(t) :
            (s \o t)[i] = IF i <= Len(s) THEN s[i] ELSE t[i - Len(s)]
  OBVIOUS
<1>2. Has(s, m) => Has(s \o t, m)
  BY <1>1 DEF Has
<1>3. ASSUME Has(t, m)
      PROVE  Has(s \o t, m)
  <2>1. PICK i \in 1 .. Len(t) : t[i] = m
    BY <1>3 DEF Has
  <2>2. i + Len(s) \in 1 .. Len(s \o t) /\ (s \o t)[i + Len(s)] = m
    BY <1>1, <2>1
  <2> QED
    BY <2>2 DEF Has
<1>4. ASSUME NEW i \in 1 .. Len(s \o t), (s \o t)[i] = m
      PROVE  \/ i <= Len(s) /\ s[i] = m
             \/ i - Len(s) \in 1 .. Len(t) /\ t[i - Len(s)] = m
  BY <1>1, <1>4
<1>5. Has(s \o t, m) => Has(s, m) \/ Has(t, m)
  BY <1>1, <1>4 DEF Has
<1>6. Once(s, m) /\ ~Has(t, m) => Once(s \o t, m)
  BY <1>1, <1>4 DEF Once, Has
<1>7. Once(t, m) /\ ~Has(s, m) => Once(s \o t, m)
  BY <1>1, <1>4 DEF Once, Has
<1> QED
  BY <1>1, <1>2, <1>3, <1>5, <1>6, <1>7

LEMMA FollowedConcat ==
    ASSUME NEW S, NEW s \in Seq(S), NEW t \in Seq(S), NEW m, NEW n,
           ~Has(t, m), Followed(s, m, n) \/ Has(t, n)
    PROVE  Followed(s \o t, m, n)
<1>1. /\ s \o t \in Seq(S) /\ Len(s) \in Nat /\ Len(t) \in Nat
      /\ Len(s \o t) = Len(s) + Len(t)
      /\ \A i \in 1 .. Len(s) + Len(t) :
            (s \o t)[i] = IF i <= Len(s) THEN s[i] ELSE t[i - Len(s)]
  OBVIOUS
<1>2. SUFFICES ASSUME NEW i \in 1 .. Len(s \o t), (s \o t)[i] = m
               PROVE  \E j \in 1 .. Len(s \o t) : i < j /\ (s \o t)[j] = n
  BY DEF Followed
<1>3. i \in 1 .. Len(s) /\ s[i] = m
  BY <1>1, <1>2 DEF Has
<1>4. CASE Followed(s, m, n)
  <2>1. PICK j \in 1 .. Len(s) : i < j /\ s[j] = n
    BY <1>3, <1>4 DEF Followed
  <2> QED
    BY <1>1, <2>1
<1>5. CASE Has(t, n)
  <2>1. PICK j \in 1 .. Len(t) : t[j] = n
    BY <1>5 DEF Has
  <2>2. j + Len(s) \in 1 .. Len(s \o t) /\ i < j + Len(s) /\ (s \o t)[j + Len(s)] = n
    BY <1>1, <1>3, <2>1
  <2> QED
    BY <2>2
<1> QED
  BY <1>4, <1>5

LEMMA SingleMessage ==
    ASSUME NEW S, NEW s \in Seq(S), NEW e \in S, NEW m
    PROVE  /\ Append(s, e) = s \o <<e>> /\ <<e>> \in Seq(S)
           /\ Has(<<e>>, m) <=> m = e
           /\ Once(<<e>>, m)
<1>1. Append(s, e) = s \o <<e>> /\ <<e>> \in Seq(S)
  OBVIOUS
<1>2. Len(<<e>>) = 1 /\ <<e>>[1] = e
  OBVIOUS
<1> QED
  BY <1>1, <1>2 DEF Has, Once

\* What messages sent to the thread, no installation of k among them, do to k.
LEMMA Sends ==
    ASSUME NEW s \in Seq(Messages), NEW t \in Seq(Messages), NEW k \in Loads,
           ~Has(t, Install(k))
    PROVE  /\ s \o t \in Seq(Messages)
           /\ Has(s \o t, Install(k)) <=> Has(s, Install(k))
           /\ Has(s \o t, Cancel(k)) <=> Has(s, Cancel(k)) \/ Has(t, Cancel(k))
           /\ Once(s, Install(k)) => Once(s \o t, Install(k))
           /\ Followed(s, Install(k), Cancel(k)) \/ Has(t, Cancel(k)) =>
                 Followed(s \o t, Install(k), Cancel(k))
<1>1. /\ s \o t \in Seq(Messages)
      /\ Has(s \o t, Install(k)) <=> Has(s, Install(k))
      /\ Once(s, Install(k)) => Once(s \o t, Install(k))
  BY InConcat
<1>2. Has(s \o t, Cancel(k)) <=> Has(s, Cancel(k)) \/ Has(t, Cancel(k))
  BY InConcat
<1>3. Followed(s, Install(k), Cancel(k)) \/ Has(t, Cancel(k)) =>
         Followed(s \o t, Install(k), Cancel(k))
  BY FollowedConcat
<1> QED
  BY <1>1, <1>2, <1>3

\* The same for one message, a cancel.
LEMMA SendsCancel ==
    ASSUME NEW s \in Seq(Messages), NEW l \in Loads, NEW k \in Loads
    PROVE  LET u == Append(s, Cancel(l)) IN
           /\ u \in Seq(Messages)
           /\ Has(u, Install(k)) <=> Has(s, Install(k))
           /\ Has(u, Cancel(k)) <=> Has(s, Cancel(k)) \/ k = l
           /\ Once(s, Install(k)) => Once(u, Install(k))
           /\ Followed(s, Install(k), Cancel(k)) \/ k = l =>
                 Followed(u, Install(k), Cancel(k))
<1>1. /\ Cancel(l) \in Messages
      /\ Install(k) # Cancel(l)
      /\ Cancel(k) = Cancel(l) <=> k = l
  BY DEF Cancel, Install, Messages
<1>2. /\ Append(s, Cancel(l)) = s \o <<Cancel(l)>> /\ <<Cancel(l)>> \in Seq(Messages)
      /\ ~Has(<<Cancel(l)>>, Install(k))
      /\ Has(<<Cancel(l)>>, Cancel(k)) <=> k = l
  BY <1>1, SingleMessage
<1>3. LET u == s \o <<Cancel(l)>> IN
      /\ u \in Seq(Messages)
      /\ Has(u, Install(k)) <=> Has(s, Install(k))
      /\ Has(u, Cancel(k)) <=> Has(s, Cancel(k)) \/ k = l
      /\ Once(s, Install(k)) => Once(u, Install(k))
      /\ Followed(s, Install(k), Cancel(k)) \/ k = l =>
            Followed(u, Install(k), Cancel(k))
  BY <1>2, Sends
<1> QED
  BY <1>2, <1>3

-----------------------------------------------------------------------------
(* The inductive step, one lemma per handler.                               *)

\* A load that no message and no handler is about keeps its invariant.
LEMMA InitIInv == Init => IInv
<1> SUFFICES ASSUME Init PROVE IInv
  OBVIOUS
<1>4. <<>> \in Seq([kind : {"install", "cancel"}, load : Loads]) /\ <<>> \in Seq(Loads)
  OBVIOUS
<1>5. stage \in [Loads -> Stages]
  BY DEF Init, Stages
<1>1. TypeOK
  BY <1>4, <1>5 DEF Init, TypeOK
<1>3. HostInv
  BY DEF Init, HostInv
<1>2. \A l \in Loads : LoadInv(l)
  BY DEF Init, LoadInv, Has, Once, Settled, Importing
<1> QED
  BY <1>1, <1>2, <1>3 DEF IInv

LEMMA StutterIInv == IInv /\ UNCHANGED vars => IInv'
<1> SUFFICES ASSUME IInv, UNCHANGED vars PROVE IInv'
  OBVIOUS
<1> USE DEF vars, waiting, messages, threadVars, inlineVars
<1>1. TypeOK' /\ HostInv'
  BY DEF IInv, TypeOK, HostInv
<1>2. ASSUME NEW k \in Loads PROVE LoadInv(k)'
  BY DEF IInv, LoadInv
<1> QED
  BY <1>1, <1>2 DEF IInv

USE DEF waiting, messages, threadVars, inlineVars, Move

\* Only the stage of one load moves, to one where as much is needed.
LEMMA MovesOnly ==
    ASSUME IInv, NEW l \in Loads,
           Call(l) \/ NotInstalled(l) \/ ThreadResolves(l) \/ HookResolves(l) \/ BlobLoads(l)
    PROVE  IInv'
<1>1. TypeOK' /\ HostInv'
  BY DEF IInv, TypeOK, HostInv, Stages, Importing, Call, NotInstalled, ThreadResolves,
         HookResolves, BlobLoads
<1>2. ASSUME NEW k \in Loads PROVE LoadInv(k)'
  <2>1. /\ LoadInv(k) /\ HostInv /\ stage \in [Loads -> Stages]
        /\ toThread' = toThread /\ toMain' = toMain
        /\ ~Has(toThread, Install(k)) => Followed(toThread, Install(k), Cancel(k))
    BY DEF IInv, TypeOK, Call, NotInstalled, ThreadResolves, HookResolves, BlobLoads,
           Has, Followed
  <2> QED
    BY <2>1 DEF LoadInv, HostInv, Stages, Importing, Settled, Call, NotInstalled,
                ThreadResolves, HookResolves, BlobLoads
<1> QED
  BY <1>1, <1>2 DEF IInv

LEMMA OffersIInv ==
    ASSUME IInv, NEW l \in Loads,
           InstallInline(l) \/ CreateBlobUrl(l) \/ HookLoads(l) \/ ThreadLoads(l)
    PROVE  IInv'
<1>1. TypeOK'
  BY DEF IInv, TypeOK, Stages, Importing, InstallInline, CreateBlobUrl, HookLoads,
         ThreadLoads
<1>3. HostInv'
  <2>1. CASE ThreadLoads(l)
    BY <2>1 DEF IInv, HostInv, ThreadLoads
  <2>2. CASE InstallInline(l)
    BY <2>2 DEF IInv, HostInv, InstallInline
  <2>3. CASE CreateBlobUrl(l)
    BY <2>3 DEF IInv, HostInv, CreateBlobUrl
  <2>4. CASE HookLoads(l)
    BY <2>4 DEF IInv, HostInv, HookLoads
  <2> QED
    BY <2>1, <2>2, <2>3, <2>4
<1>2. ASSUME NEW k \in Loads PROVE LoadInv(k)'
  <2>1. /\ LoadInv(k) /\ HostInv /\ stage \in [Loads -> Stages]
        /\ toThread' = toThread /\ toMain' = toMain
    BY DEF IInv, TypeOK, InstallInline, CreateBlobUrl, HookLoads, ThreadLoads
  <2> QED
    BY <2>1 DEF LoadInv, HostInv, Stages, Importing, Settled, InstallInline,
                CreateBlobUrl, HookLoads, ThreadLoads
<1> QED
  BY <1>1, <1>2, <1>3 DEF IInv

\* The installation of l is sent, or its cancel.
LEMMA InstallOnThreadIInv ==
    ASSUME IInv, NEW l \in Loads, InstallOnThread(l)
    PROVE  IInv'
<1>1. /\ toThread \in Seq(Messages) /\ stage \in [Loads -> Stages]
      /\ host = "thread" /\ stage[l] = "verifying" /\ LoadInv(l) /\ HostInv
      /\ Install(l) \in Messages
  BY DEF IInv, TypeOK, InstallOnThread, Messages, Install
<1>2. CASE toThread' = Append(toThread, Install(l)) /\ stage' = [stage EXCEPT ![l] = "waiting"]
  <2>1. waiters' = waiters \cup {l} /\ timers' = timers \cup {l}
    BY <1>1, <1>2 DEF InstallOnThread, Stages, Install, Cancel
  <2>2. toThread' = toThread \o <<Install(l)>> /\ <<Install(l)>> \in Seq(Messages)
    BY <1>1, <1>2, SingleMessage
  <2>3. toThread' \in Seq(Messages)
    BY <1>1, <2>2, InConcat
  <2>4. TypeOK'
    BY <1>1, <1>2, <2>1, <2>3 DEF IInv, TypeOK, InstallOnThread, Stages, Messages
  <2>5. HostInv'
    BY <1>1, <2>1 DEF HostInv, InstallOnThread
  <2>6. ASSUME NEW k \in Loads, k # l PROVE LoadInv(k)'
    <3>1. LoadInv(k) /\ stage'[k] = stage[k]
      BY <1>1, <1>2, <2>6 DEF IInv
    <3>2. Install(k) # Install(l) /\ Cancel(k) # Install(l)
      BY <2>6 DEF Install, Cancel
    <3>3. ~Has(<<Install(l)>>, Install(k)) /\ ~Has(<<Install(l)>>, Cancel(k))
      BY <1>1, <3>2, SingleMessage
    <3> DEFINE u == toThread \o <<Install(l)>>
    <3>4. /\ Has(u, Install(k)) <=> Has(toThread, Install(k))
          /\ Has(u, Cancel(k)) <=> Has(toThread, Cancel(k))
          /\ Once(toThread, Install(k)) => Once(u, Install(k))
          /\ Followed(toThread, Install(k), Cancel(k)) =>
                Followed(u, Install(k), Cancel(k))
      BY <1>1, <2>2, <3>3, Sends
    <3> QED
      BY <1>1, <2>1, <2>2, <2>6, <3>1, <3>4 DEF LoadInv, InstallOnThread
  <2>7. LoadInv(l)'
    <3>1. stage[l] = "verifying" /\ stage'[l] = "waiting" /\ LoadInv(l)
      BY <1>1, <1>2
    <3>2. ~Has(<<Install(l)>>, Cancel(l)) /\ Once(<<Install(l)>>, Install(l))
      <4>1. Install(l) # Cancel(l)
        BY DEF Install, Cancel
      <4> QED
        BY <1>1, <4>1, SingleMessage
    <3>3. /\ Has(toThread', Cancel(l)) <=> Has(toThread, Cancel(l))
          /\ Once(toThread', Install(l))
      <4>1. Once(toThread', Install(l))
        BY <1>1, <2>2, <3>1, <3>2, InConcat DEF LoadInv
      <4>2. Has(toThread', Cancel(l)) <=> Has(toThread, Cancel(l))
        BY <1>1, <2>2, <3>2, InConcat
      <4> QED
        BY <4>1, <4>2
    <3> QED
      BY <1>1, <2>1, <3>1, <3>3 DEF LoadInv, InstallOnThread, Settled, Importing, HostInv
  <2> QED
    BY <2>4, <2>5, <2>6, <2>7 DEF IInv
<1>3. CASE toThread' = Append(toThread, Cancel(l)) /\ stage' = [stage EXCEPT ![l] = "failed"]
  <2>1. waiters' = waiters /\ timers' = timers /\ refd' = FALSE
    BY <1>1, <1>3 DEF InstallOnThread, Stages
  <2>2. toThread' \in Seq(Messages)
    BY <1>1, <1>3, SendsCancel
  <2>3. TypeOK'
    BY <1>1, <1>3, <2>1, <2>2 DEF IInv, TypeOK, InstallOnThread, Stages, Messages
  <2>4. HostInv'
    BY <1>1, <2>1 DEF HostInv, InstallOnThread
  <2>5. ASSUME NEW k \in Loads PROVE LoadInv(k)'
    <3> DEFINE u == Append(toThread, Cancel(l))
    <3>1. /\ Has(u, Install(k)) <=> Has(toThread, Install(k))
          /\ Has(u, Cancel(k)) <=> Has(toThread, Cancel(k)) \/ k = l
          /\ Once(toThread, Install(k)) => Once(u, Install(k))
          /\ Followed(toThread, Install(k), Cancel(k)) \/ k = l =>
                Followed(u, Install(k), Cancel(k))
      BY <1>1, SendsCancel
    <3>2. LoadInv(k)
      BY DEF IInv
    <3> QED
      BY <1>1, <1>3, <2>1, <3>1, <3>2 DEF LoadInv, InstallOnThread, Settled, Importing, Stages
  <2> QED
    BY <2>3, <2>4, <2>5 DEF IInv
<1> QED
  BY <1>2, <1>3 DEF InstallOnThread

LEMMA ImportSettlesIInv ==
    ASSUME IInv, NEW l \in Loads, ImportSettles(l)
    PROVE  IInv'
<1>1. /\ toThread \in Seq(Messages) /\ stage \in [Loads -> Stages]
      /\ stage[l] \in Importing /\ HostInv
      /\ hooks' = hooks \ {l} /\ offered' = offered \ {l}
  BY DEF IInv, TypeOK, ImportSettles, Cleanup, Messages
<1>2. PICK end \in Settled : stage' = [stage EXCEPT ![l] = end]
  BY DEF ImportSettles, Settled
<1>3. toThread' \in Seq(Messages)
  BY <1>1, SendsCancel DEF ImportSettles, Cleanup
<1>4. TypeOK'
  BY <1>1, <1>2, <1>3 DEF IInv, TypeOK, ImportSettles, Stages, Settled, Messages
<1>5. HostInv'
  BY <1>1 DEF HostInv, ImportSettles, Cleanup
<1>6. ASSUME NEW k \in Loads PROVE LoadInv(k)'
  <2>1. LoadInv(k) /\ (k # l => stage'[k] = stage[k]) /\ (k = l => stage'[k] = end)
    BY <1>1, <1>2 DEF IInv
  <2>2. CASE host = "thread"
    <3> DEFINE u == Append(toThread, Cancel(l))
    <3>1. /\ Has(u, Install(k)) <=> Has(toThread, Install(k))
          /\ Has(u, Cancel(k)) <=> Has(toThread, Cancel(k)) \/ k = l
          /\ Once(toThread, Install(k)) => Once(u, Install(k))
          /\ Followed(toThread, Install(k), Cancel(k)) \/ k = l =>
                Followed(u, Install(k), Cancel(k))
      BY <1>1, SendsCancel
    <3>2. toThread' = u
      BY <2>2 DEF ImportSettles, Cleanup
    <3> QED
      BY <1>1, <2>1, <2>2, <3>1, <3>2 DEF LoadInv, ImportSettles, Settled, Importing
  <2>3. CASE host # "thread"
    <3>1. /\ toThread' = toThread /\ bySpecifier = {}
          /\ ~Has(toThread, Install(k)) => Followed(toThread, Install(k), Cancel(k))
      BY <1>1, <2>3 DEF ImportSettles, Cleanup, HostInv, Has, Followed
    <3> QED
      BY <1>1, <2>1, <2>3, <3>1 DEF LoadInv, ImportSettles, Settled, Importing
  <2> QED
    BY <2>2, <2>3
<1> QED
  BY <1>4, <1>5, <1>6 DEF IInv

\* Waits that are rejected: their cancels follow whatever was sent before.
LEMMA GiveUpIInv ==
    ASSUME IInv, NEW gone \in Seq(Loads), GiveUp(gone), host = "thread",
           \A l \in Loads : Has(gone, l) => l \in waiters,
           waiters' = {l \in waiters : ~Has(gone, l)}, timers' = waiters',
           toMain' \in Seq(Loads),
           \A l \in Loads : Has(toMain', l) => Has(toMain, l),
           UNCHANGED <<host, threadVars, inlineVars>>
    PROVE  IInv'
<1> DEFINE t == [i \in 1 .. Len(gone) |-> Cancel(gone[i])]
<1>1. /\ toThread \in Seq(Messages) /\ stage \in [Loads -> Stages] /\ HostInv
      /\ waiters \subseteq Loads
  BY DEF IInv, TypeOK, Messages
<1>2. \A i \in 1 .. Len(gone) : gone[i] \in Loads /\ Cancel(gone[i]) \in Messages
  BY DEF Cancel, Messages
<1>3. t \in Seq(Messages) /\ Len(t) = Len(gone) /\ \A i \in 1 .. Len(gone) : t[i] = Cancel(gone[i])
  BY <1>2
<1> HIDE DEF t
<1>4. toThread' = toThread \o t
  BY DEF GiveUp, t
<1>5. ASSUME NEW k \in Loads
      PROVE  ~Has(t, Install(k)) /\ (Has(t, Cancel(k)) <=> Has(gone, k))
  <2>1. \A l \in Loads : Cancel(l) # Install(k) /\ (Cancel(l) = Cancel(k) <=> l = k)
    BY DEF Cancel, Install
  <2> QED
    BY <1>2, <1>3, <2>1 DEF Has
<1>6. ASSUME NEW k \in Loads
      PROVE  stage'[k] = IF Has(gone, k) THEN "failed" ELSE stage[k]
  BY DEF GiveUp
<1>7. stage' \in [Loads -> Stages]
  BY <1>1, <1>6 DEF GiveUp, Stages
<1>8. toThread' \in Seq(Messages)
  BY <1>1, <1>3, <1>4, InConcat
<1>9. TypeOK'
  BY <1>1, <1>7, <1>8 DEF IInv, TypeOK, GiveUp, Messages
<1>10. HostInv'
  BY <1>1 DEF HostInv, GiveUp
<1>11. ASSUME NEW k \in Loads PROVE LoadInv(k)'
  <2>1. /\ Has(toThread', Install(k)) <=> Has(toThread, Install(k))
        /\ Has(toThread', Cancel(k)) <=> Has(toThread, Cancel(k)) \/ Has(gone, k)
        /\ Once(toThread, Install(k)) => Once(toThread', Install(k))
        /\ Followed(toThread, Install(k), Cancel(k)) \/ Has(gone, k) =>
              Followed(toThread', Install(k), Cancel(k))
    BY <1>1, <1>3, <1>4, <1>5, Sends
  <2>2. LoadInv(k) /\ (Has(gone, k) => k \in waiters)
    BY DEF IInv
  <2>3. k \in waiters' <=> k \in waiters /\ ~Has(gone, k)
    OBVIOUS
  <2> QED
    BY <1>1, <1>6, <2>1, <2>2, <2>3 DEF LoadInv, Settled, Importing
<1> QED
  BY <1>9, <1>10, <1>11 DEF IInv

LEMMA TimesOutIInv ==
    ASSUME IInv, NEW l \in Loads, TimesOut(l)
    PROVE  IInv'
<1>1. <<l>> \in Seq(Loads) /\ \A k \in Loads : Has(<<l>>, k) <=> k = l
  <2>1. <<>> \in Seq(Loads) /\ <<l>> \in Seq(Loads)
    OBVIOUS
  <2> QED
    BY <2>1, SingleMessage
<1>2. waiters = timers /\ waiters \subseteq Loads /\ host = "thread" /\ toMain \in Seq(Loads)
  BY DEF IInv, HostInv, TypeOK, TimesOut
<1>3. waiters' = {k \in waiters : ~Has(<<l>>, k)} /\ timers' = waiters'
  BY <1>1, <1>2 DEF TimesOut
<1>4. \A k \in Loads : Has(<<l>>, k) => k \in waiters
  BY <1>1, <1>2 DEF TimesOut
<1>5. GiveUp(<<l>>) /\ toMain' = toMain /\ UNCHANGED <<host, threadVars, inlineVars>>
  BY DEF TimesOut
<1> QED
  BY <1>1, <1>2, <1>3, <1>4, <1>5, GiveUpIInv

\* An order in which the waiters can be walked is a sequence of them.
LEMMA OrdersAreSequences ==
    ASSUME NEW S \in SUBSET Loads, NEW order \in Orders(S)
    PROVE  /\ order \in Seq(Loads)
           /\ \A l \in Loads : Has(order, l) <=> l \in S
<1>1. Cardinality(S) \in Nat
  BY LoadsAssumption, FS_Subset, FS_CardinalityType
<1>2. order \in [1 .. Cardinality(S) -> S] /\ \A l \in S : Has(order, l)
  BY DEF Orders
<1>3. order \in Seq(S) /\ Len(order) = Cardinality(S)
  BY <1>1, <1>2
<1>4. order \in Seq(Loads)
  BY <1>1, <1>2
<1>5. \A l \in Loads : Has(order, l) => l \in S
  BY <1>2, <1>3 DEF Has
<1> QED
  BY <1>2, <1>4, <1>5

\* What remains of the answers once one is taken.
LEMMA AnswerTaken ==
    ASSUME IInv, toMain # <<>>, toMain' = Tail(toMain)
    PROVE  /\ host = "thread" /\ Head(toMain) \in Loads /\ toMain' \in Seq(Loads)
           /\ Has(toMain, Head(toMain))
           /\ \A l \in Loads : Has(toMain', l) => Has(toMain, l)
<1>1. host = "thread" /\ toMain \in Seq(Loads)
  BY DEF IInv, HostInv, TypeOK
<1>2. Head(toMain) \in Loads
  BY <1>1
<1> QED
  BY <1>1, <1>2, InTail

LEMMA SpoiledIInv ==
    ASSUME IInv, Spoiled
    PROVE  IInv'
<1>1. waiters = timers /\ waiters \subseteq Loads
  BY DEF IInv, HostInv, TypeOK
<1>2. /\ host = "thread" /\ toMain' \in Seq(Loads)
      /\ \A l \in Loads : Has(toMain', l) => Has(toMain, l)
  BY AnswerTaken DEF Spoiled
<1>3. CASE waiters = {}
  <2>1. TypeOK' /\ HostInv'
    BY <1>1, <1>2, <1>3 DEF IInv, TypeOK, HostInv, Spoiled
  <2>2. ASSUME NEW k \in Loads PROVE LoadInv(k)'
    <3>1. LoadInv(k) /\ (Has(toMain', k) => Has(toMain, k))
      BY <1>2 DEF IInv
    <3> QED
      BY <1>3, <3>1 DEF LoadInv, Spoiled
  <2> QED
    BY <2>1, <2>2 DEF IInv
<1>4. CASE waiters # {}
  <2>1. PICK order \in Orders(waiters) : GiveUp(order)
    BY <1>4 DEF Spoiled
  <2>2. order \in Seq(Loads) /\ \A l \in Loads : Has(order, l) <=> l \in waiters
    BY <1>1, OrdersAreSequences
  <2>3. waiters' = {l \in waiters : ~Has(order, l)} /\ timers' = waiters'
    BY <1>1, <2>2 DEF Spoiled
  <2>4. UNCHANGED <<host, threadVars, inlineVars>>
    BY DEF Spoiled
  <2> QED
    BY <1>2, <2>1, <2>2, <2>3, <2>4, GiveUpIInv
<1> QED
  BY <1>3, <1>4

LEMMA ReadyIInv ==
    ASSUME IInv, Ready
    PROVE  IInv'
<1> DEFINE l == Head(toMain)
<1>1. /\ host = "thread" /\ l \in Loads /\ toMain' \in Seq(Loads) /\ Has(toMain, l)
      /\ \A k \in Loads : Has(toMain', k) => Has(toMain, k)
  BY AnswerTaken DEF Ready
<1>2. /\ stage \in [Loads -> Stages] /\ HostInv /\ LoadInv(l)
      /\ host' = host /\ toThread' = toThread /\ bySpecifier' = bySpecifier
      /\ byUrl' = byUrl /\ hooks' = hooks /\ offered' = offered
  BY <1>1 DEF IInv, TypeOK, Ready
<1>3. \/ /\ l \in waiters /\ waiters' = waiters \ {l} /\ timers' = timers \ {l}
         /\ stage' = [stage EXCEPT ![l] = "resolving"] /\ refd' = FALSE
      \/ l \notin waiters /\ waiters' = waiters /\ timers' = timers /\ stage' = stage /\ refd' = refd
  BY DEF Ready
<1> HIDE DEF l
<1>4. TypeOK'
  BY <1>1, <1>2, <1>3 DEF IInv, TypeOK, Stages, Importing
<1>5. HostInv'
  <2>1. waiters' = timers' /\ (refd' => waiters' # {})
    <3>1. CASE l \in waiters
      BY <1>2, <1>3, <3>1 DEF HostInv
    <3>2. CASE l \notin waiters
      BY <1>2, <1>3, <3>2 DEF HostInv
    <3> QED
      BY <3>1, <3>2
  <2> QED
    BY <1>1, <1>2, <2>1 DEF HostInv
<1>6. ASSUME NEW k \in Loads PROVE LoadInv(k)'
  <2>1. LoadInv(k) /\ (Has(toMain', k) => Has(toMain, k))
    BY <1>1 DEF IInv
  <2>2. CASE l \in waiters /\ k = l
    BY <1>1, <1>2, <1>3, <2>1, <2>2 DEF LoadInv, HostInv, Importing, Settled
  <2>3. CASE l \notin waiters \/ k # l
    <3>1. stage'[k] = stage[k] /\ (k \in waiters' <=> k \in waiters)
      BY <1>1, <1>2, <1>3, <2>3
    <3> QED
      BY <1>2, <2>1, <3>1 DEF LoadInv
  <2> QED
    BY <2>2, <2>3
<1> QED
  BY <1>4, <1>5, <1>6 DEF IInv

LEMMA ThreadReceivesIInv ==
    ASSUME IInv, ThreadReceives
    PROVE  IInv'
<1>1. /\ toThread \in Seq(Messages) /\ toThread # <<>> /\ toMain \in Seq(Loads)
      /\ HostInv /\ TypeOK
  BY DEF IInv, TypeOK, ThreadReceives, Messages
<1>2. PICK m \in Messages : m = Head(toThread)
  BY <1>1
<1>3. PICK l \in Loads : l = m.load /\ (m = Install(l) \/ m = Cancel(l)) /\ host = "thread"
  BY <1>1, <1>2 DEF Messages, Install, Cancel, HostInv
<1>4. Tail(toThread) \in Seq(Messages) /\ toThread' = Tail(toThread)
  BY <1>1 DEF ThreadReceives
<1>5. ASSUME NEW k \in Loads
      PROVE  /\ Has(toThread', Install(k)) => Has(toThread, Install(k))
             /\ Has(toThread', Cancel(k)) => Has(toThread, Cancel(k))
             /\ Has(toThread, Cancel(k)) => m = Cancel(k) \/ Has(toThread', Cancel(k))
             /\ Once(toThread, Install(k)) => Once(toThread', Install(k))
  <2>1. /\ Has(toThread', Install(k)) => Has(toThread, Install(k))
        /\ Once(toThread, Install(k)) => Once(toThread', Install(k))
    BY <1>1, <1>2, <1>4, InTail
  <2>2. /\ Has(toThread', Cancel(k)) => Has(toThread, Cancel(k))
        /\ Has(toThread, Cancel(k)) => m = Cancel(k) \/ Has(toThread', Cancel(k))
    BY <1>1, <1>2, <1>4, InTail
  <2> QED
    BY <2>1, <2>2
<1>6. ASSUME NEW k \in Loads, Followed(toThread, Install(k), Cancel(k))
      PROVE  /\ Followed(toThread', Install(k), Cancel(k))
             /\ m = Install(k) => Has(toThread', Cancel(k))
  BY <1>1, <1>2, <1>4, <1>6, FollowedTail
<1>7. Has(toThread, m)
  BY <1>1, <1>2, InTail
<1>8. CASE m = Install(l)
  <2>1. /\ bySpecifier' = bySpecifier \cup {l} /\ byUrl' = byUrl \cup {l}
        /\ toMain' = Append(toMain, l)
    BY <1>2, <1>3, <1>8 DEF ThreadReceives, Install
  <2>2. toMain' \in Seq(Loads)
    BY <1>1, <1>3, <2>1
  <2>3. ASSUME NEW k \in Loads
        PROVE  Has(toMain', k) <=> Has(toMain, k) \/ k = l
    <3>1. toMain' = toMain \o <<l>> /\ <<l>> \in Seq(Loads) /\ (Has(<<l>>, k) <=> k = l)
      BY <1>1, <2>1, SingleMessage
    <3> QED
      BY <1>1, <3>1, InConcat
  <2>4. TypeOK'
    BY <1>1, <1>3, <1>4, <2>1, <2>2 DEF TypeOK, ThreadReceives, Messages
  <2>5. HostInv'
    BY <1>1, <1>3, <2>1 DEF HostInv, ThreadReceives
  <2>6. ASSUME NEW k \in Loads, k # l PROVE LoadInv(k)'
    <3>1. LoadInv(k) /\ stage' = stage /\ m # Cancel(k) /\ m # Install(k)
      BY <1>8, <2>6 DEF IInv, ThreadReceives, Install, Cancel
    <3> QED
      BY <1>5, <1>6, <2>1, <2>3, <2>6, <3>1 DEF LoadInv, ThreadReceives
  <2>7. LoadInv(l)'
    <3>1. LoadInv(l) /\ Has(toThread, Install(l)) /\ m # Cancel(l)
      BY <1>3, <1>7, <1>8 DEF IInv, Install, Cancel
    <3>2. ~Has(toThread', Install(l))
      <4>1. Once(toThread, m)
        BY <1>8, <3>1 DEF LoadInv
      <4>2. ~Has(Tail(toThread), m)
        BY <1>1, <1>2, <4>1, InTail
      <4> QED
        BY <1>4, <1>8, <4>2
    <3>3. stage[l] \notin Importing /\ stage[l] \notin {"idle", "verifying"}
      BY <3>1 DEF LoadInv
    <3>4. stage' = stage /\ waiters' = waiters /\ host' = host /\ offered' = offered /\ hooks' = hooks
      BY DEF ThreadReceives
    <3> QED
      BY <1>3, <1>5, <1>6, <1>8, <2>1, <2>3, <3>1, <3>2, <3>3, <3>4 DEF LoadInv, Importing
  <2> QED
    BY <2>4, <2>5, <2>6, <2>7 DEF IInv
<1>9. CASE m = Cancel(l)
  <2>1. /\ bySpecifier' = bySpecifier \ {l} /\ toMain' = toMain
        /\ byUrl' = IF l \in bySpecifier THEN byUrl \ {l} ELSE byUrl
    BY <1>2, <1>3, <1>9 DEF ThreadReceives, Cancel
  <2>2. TypeOK'
    BY <1>1, <1>4, <2>1 DEF TypeOK, ThreadReceives, Messages
  <2>3. HostInv'
    BY <1>1, <1>3, <2>1 DEF HostInv, ThreadReceives
  <2>4. ASSUME NEW k \in Loads PROVE LoadInv(k)'
    <3>1. /\ LoadInv(k) /\ LoadInv(l) /\ Has(toThread, Cancel(l))
          /\ m # Install(k) /\ (m = Cancel(k) <=> k = l)
      BY <1>3, <1>7, <1>9 DEF IInv, Install, Cancel
    <3>2. stage' = stage /\ waiters' = waiters /\ host' = host /\ offered' = offered /\ hooks' = hooks
      BY DEF ThreadReceives
    <3>3. k = l => stage[k] \in Settled
      BY <3>1 DEF LoadInv
    <3> QED
      BY <1>5, <1>6, <2>1, <3>1, <3>2, <3>3 DEF LoadInv, Settled, Importing
  <2> QED
    BY <2>2, <2>3, <2>4 DEF IInv
<1> QED
  BY <1>3, <1>8, <1>9

-----------------------------------------------------------------------------
(* The theorems.                                                            *)

LEMMA NextIInv == IInv /\ [Next]_vars => IInv'
<1> SUFFICES ASSUME IInv, [Next]_vars PROVE IInv'
  OBVIOUS
<1>1. CASE UNCHANGED vars
  BY <1>1, StutterIInv
<1>2. ASSUME NEW l \in Loads, Call(l) \/ Installs(l) PROVE IInv'
  BY <1>2, MovesOnly, InstallOnThreadIInv, OffersIInv DEF Installs
<1>3. ASSUME NEW l \in Loads, TimesOut(l) \/ ImportSettles(l) PROVE IInv'
  BY <1>3, TimesOutIInv, ImportSettlesIInv
<1>4. ASSUME NEW l \in Loads, ThreadResolves(l) \/ HookResolves(l) \/ BlobLoads(l) PROVE IInv'
  BY <1>4, MovesOnly
<1>5. ASSUME NEW l \in Loads, ThreadLoads(l) \/ HookLoads(l) PROVE IInv'
  BY <1>5, OffersIInv
<1>6. CASE Ready \/ Spoiled \/ ThreadReceives
  BY <1>6, ReadyIInv, SpoiledIInv, ThreadReceivesIInv
<1> QED
  BY <1>1, <1>2, <1>3, <1>4, <1>5, <1>6 DEF Next

LEMMA Invariance == Spec => []IInv
<1>1. Init => IInv
  BY InitIInv
<1>2. IInv /\ [Next]_vars => IInv'
  BY NextIInv
<1> QED
  BY <1>1, <1>2, PTL DEF Spec

\* Every variable keeps its type.
THEOREM HookTypes == Spec => []TypeOK
<1>1. IInv => TypeOK
  BY DEF IInv
<1> QED
  BY <1>1, Invariance, PTL

\* For any number of overlapping loads, on every host: an import finds the
\* source it was verified with, and a load that has settled leaves nothing.
THEOREM EachSourceServesItsLoad == Spec => []SourcesServeOneLoad
<1>1. IInv => ImportsFindTheirSource
  <2> SUFFICES ASSUME IInv, NEW l \in Loads
               PROVE  /\ stage[l] = "resolving" =>
                            l \in (IF host = "thread" THEN bySpecifier ELSE hooks)
                      /\ stage[l] \in {"resolving", "loading"} =>
                            l \in (IF host = "thread" THEN byUrl ELSE offered)
                      /\ stage[l] = "evaluating" /\ host # "blob" => l \notin Held
    BY DEF ImportsFindTheirSource
  <2>1. LoadInv(l) /\ HostInv /\ host \in {"thread", "inline", "blob"}
    BY DEF IInv, TypeOK
  <2> QED
    BY <2>1 DEF LoadInv, HostInv, Held
<1>2. IInv => SettledLeavesNothing
  <2> SUFFICES ASSUME IInv PROVE SettledLeavesNothing
    OBVIOUS
  <2>1. waiters = timers /\ (refd => waiters # {}) /\ HostInv
    BY DEF IInv, HostInv
  <2>2. toThread \in Seq(Messages)
    BY DEF IInv, TypeOK, Messages
  <2>3. ASSUME NEW l \in Loads, stage[l] \in Settled
        PROVE  /\ l \in Held \cup hooks => Has(toThread, Cancel(l))
               /\ \A i \in DOMAIN toThread : toThread[i] = Install(l) =>
                     \E j \in i + 1 .. Len(toThread) : toThread[j] = Cancel(l)
               /\ l \notin waiters \cup timers
    <3>1. LoadInv(l)
      BY DEF IInv
    <3>2. l \in Held \cup hooks => Has(toThread, Cancel(l))
      BY <2>1, <2>3, <3>1 DEF LoadInv, HostInv, Held, Importing, Settled
    <3>3. Followed(toThread, Install(l), Cancel(l))
      BY <2>3, <3>1 DEF LoadInv
    <3>4. l \notin waiters \cup timers
      BY <2>1, <2>3, <3>1 DEF LoadInv, Settled
    <3>5. ASSUME NEW i \in DOMAIN toThread, toThread[i] = Install(l)
          PROVE  \E j \in i + 1 .. Len(toThread) : toThread[j] = Cancel(l)
      <4>1. i \in 1 .. Len(toThread) /\ Len(toThread) \in Nat
        BY <2>2
      <4>2. PICK j \in 1 .. Len(toThread) : i < j /\ toThread[j] = Cancel(l)
        BY <3>3, <3>5, <4>1 DEF Followed
      <4> QED
        BY <4>1, <4>2
    <3> QED
      BY <3>2, <3>4, <3>5
  <2> QED
    BY <2>1, <2>3 DEF SettledLeavesNothing, Settled
<1> QED
  BY <1>1, <1>2, Invariance, PTL DEF SourcesServeOneLoad

=============================================================================
