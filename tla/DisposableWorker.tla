--------------------------- MODULE DisposableWorker ---------------------------
(***************************************************************************)
(* runDisposableWorkerOperation                                            *)
(* (src/internal/disposable-worker-operation.ts): one operation in a       *)
(* worker that is thrown away afterwards.  Result, failure, abort and      *)
(* timeout race; the first one is the outcome, then the worker is          *)
(* terminated, and only then the caller's promise settles.                 *)
(*                                                                         *)
(* start() runs synchronously: while it does, time passes and the caller's *)
(* code may abort, but no timer fires.  Delays above MaxTimerDelay (the    *)
(* 2^31 - 1 ms of setTimeout) are served by a chain of timers.             *)
(***************************************************************************)
EXTENDS Naturals

CONSTANTS
    Timeouts,        \* the values of options.timeoutMs
    MaxTimerDelay,   \* MAX_TIMER_DELAY_MS
    MaxStartTime,    \* bound: how long start() may take
    Lateness         \* bound: how late a timer may fire

ASSUME TimeoutsAssumption == Timeouts \subseteq Nat \ {0}
ASSUME TimerAssumption == MaxTimerDelay \in Nat \ {0}
ASSUME BoundsAssumption == MaxStartTime \in Nat /\ Lateness \in Nat

VARIABLES
    phase,        \* "idle", "starting" (inside start()), "running" or "refused"
    timeoutMs,    \* options.timeoutMs
    now,          \* time since the call
    due,          \* when the armed timer is due; 0: none is armed
    remaining,    \* remainingTimeoutMs
    signalled,    \* whether options.signal was given
    aborted,      \* whether the signal has fired
    outcome,      \* the first outcome selected
    worker,       \* what start() returned: NoWorker, or its usable parts
    result,       \* the worker's result: "none", "pending", "kept" or "broken"
    observed,     \* whether a handler is attached to the result
    termination,  \* "idle", "requested", "pending", "done" or "failed"
    terminations, \* how often terminate() was called
    promise       \* the caller's promise

workerVars == <<phase, timeoutMs, now, due, remaining, signalled, aborted, outcome,
          worker, result, observed, termination, terminations, promise>>

Outcomes == {"none", "success", "error", "abort", "timeout"}

\* start() throws or returns no handle, or a handle whose terminate method and
\* whose result may each be missing, unreadable or of the wrong kind.
Workers == [terminable : BOOLEAN, thenable : BOOLEAN]
NoWorker == [terminable |-> FALSE, thenable |-> FALSE]

Lesser(a, b) == IF a < b THEN a ELSE b

WorkerInit ==
    /\ phase = "idle"
    /\ timeoutMs \in Timeouts
    /\ signalled \in BOOLEAN
    /\ aborted \in {FALSE, signalled}
    /\ now = 0 /\ due = 0 /\ remaining = timeoutMs
    /\ outcome = "none" /\ worker = NoWorker
    /\ result = "none" /\ observed = FALSE
    /\ termination = "idle" /\ terminations = 0
    /\ promise = "pending"

-----------------------------------------------------------------------------
\* Mutation: what the first timer does not cover is forgotten.
ArmOnce(left) == due' = now + Lesser(left, MaxTimerDelay) /\ remaining' = 0

\* setTimeout for the next part of the remaining time.
Arm(left) ==
    LET delay == Lesser(left, MaxTimerDelay)
    IN due' = now + delay /\ remaining' = left - delay

\* select: the first outcome stays, and disarms the timer and the listener.
\* Once start() has returned, it also requests the termination.
Select(o) ==
    /\ outcome' = IF outcome = "none" THEN o ELSE outcome
    /\ due' = IF outcome = "none" THEN 0 ELSE due
    /\ termination' = IF outcome = "none" /\ phase = "running"
                      THEN "requested" ELSE termination

Run ==
    /\ phase = "idle" /\ ~aborted
    /\ \/ /\ phase' = "starting"
          /\ Arm(timeoutMs)
          /\ UNCHANGED <<outcome, termination>>
       \/ \* addEventListener throws: start() is never called.
          /\ signalled
          /\ phase' = "running"
          /\ remaining' = timeoutMs - Lesser(timeoutMs, MaxTimerDelay)
          /\ outcome' = "error" /\ termination' = "requested"
          /\ UNCHANGED due
    /\ UNCHANGED <<timeoutMs, now, signalled, aborted, worker, result, observed,
                   terminations, promise>>

\* A signal that has already fired: no timer, no worker.
Refuse ==
    /\ phase = "idle" /\ aborted
    /\ phase' = "refused" /\ promise' = "rejected"
    /\ UNCHANGED <<timeoutMs, now, due, remaining, signalled, aborted, outcome,
                   worker, result, observed, termination, terminations>>

Abort ==
    /\ signalled /\ ~aborted /\ phase # "refused"
    /\ aborted' = TRUE
    /\ IF phase = "idle"
       THEN UNCHANGED <<outcome, due, termination>>
       ELSE Select("abort")
    /\ UNCHANGED <<phase, timeoutMs, now, remaining, signalled, worker, result,
                   observed, terminations, promise>>

\* deadlineExpired
Expired == now >= timeoutMs

\* Mutation: the deadline is not looked at after start().
StartOutcomeAnyTime(w) ==
    IF outcome # "none" THEN outcome
    ELSE IF w.terminable /\ w.thenable THEN "none" ELSE "error"

\* A deadline that passed inside start() goes before any complaint about the
\* handle it returned.
StartOutcome(w) ==
    IF outcome # "none" THEN outcome
    ELSE IF Expired THEN "timeout"
    ELSE IF w.terminable /\ w.thenable THEN "none" ELSE "error"

\* Mutation: only a call without an outcome observes the worker's result.
AdoptIfOpen(w) ==
    /\ result' = IF w.thenable THEN "pending" ELSE "none"
    /\ observed' = (w.thenable /\ StartOutcome(w) = "none")

\* The result is adopted even when the outcome is already known, and observed
\* as the last thing the call does.
Adopt(w) ==
    /\ result' = IF w.thenable THEN "pending" ELSE "none"
    /\ observed' = w.thenable

\* start() ends, with a handle or none, or by throwing.
StartEnds(w) ==
    /\ phase = "starting"
    /\ phase' = "running"
    /\ worker' = w
    /\ outcome' = StartOutcome(w)
    /\ IF StartOutcome(w) = "none"
       THEN UNCHANGED <<due, termination>>
       ELSE due' = 0 /\ termination' = "requested"
    /\ Adopt(w)
    /\ UNCHANGED <<timeoutMs, now, remaining, signalled, aborted, terminations,
                   promise>>

\* onTimeout: the next timer of the chain, or the deadline.
TimerFires ==
    /\ phase = "running" /\ due # 0 /\ now >= due
    /\ IF remaining > 0
       THEN Arm(remaining) /\ UNCHANGED <<outcome, termination>>
       ELSE Select("timeout") /\ UNCHANGED remaining
    /\ UNCHANGED <<phase, timeoutMs, now, signalled, aborted, worker, result,
                   observed, terminations, promise>>

\* The worker's result settles, also after the worker was terminated.
ResultSettles ==
    /\ phase = "running" /\ result = "pending"
    /\ result' \in {"kept", "broken"}
    /\ UNCHANGED <<phase, timeoutMs, now, due, remaining, signalled, aborted,
                   outcome, worker, observed, termination, terminations, promise>>

\* The handlers of the result run.
ResultObserved ==
    /\ observed /\ result \in {"kept", "broken"}
    /\ observed' = FALSE
    /\ Select(IF result = "kept" THEN "success" ELSE "error")
    /\ UNCHANGED <<phase, timeoutMs, now, remaining, signalled, aborted, worker,
                   result, terminations, promise>>

\* Mutation: a worker without a terminate method is waited for.
RequestTerminationOnly ==
    /\ termination = "requested" /\ worker.terminable
    /\ termination' = "pending" /\ terminations' = terminations + 1
    /\ UNCHANGED <<phase, timeoutMs, now, due, remaining, signalled, aborted,
                   outcome, worker, result, observed, promise>>

\* A worker without a terminate method counts as terminated.
RequestTermination ==
    /\ termination = "requested"
    /\ IF worker.terminable
       THEN termination' = "pending" /\ terminations' = terminations + 1
       ELSE termination' = "done" /\ UNCHANGED terminations
    /\ UNCHANGED <<phase, timeoutMs, now, due, remaining, signalled, aborted,
                   outcome, worker, result, observed, promise>>

TerminationEnds ==
    /\ termination = "pending"
    /\ termination' \in {"done", "failed"}
    /\ UNCHANGED <<phase, timeoutMs, now, due, remaining, signalled, aborted,
                   outcome, worker, result, observed, terminations, promise>>

\* Mutation: the caller learns the outcome while the worker still runs.
SettleAtOnce ==
    /\ outcome # "none" /\ promise = "pending"
    /\ promise' = IF outcome = "success" THEN "fulfilled" ELSE "rejected"
    /\ UNCHANGED <<phase, timeoutMs, now, due, remaining, signalled, aborted,
                   outcome, worker, result, observed, termination, terminations>>

\* Mutation: a failed termination goes unnoticed.
SettleRegardless ==
    /\ termination \in {"done", "failed"} /\ promise = "pending"
    /\ promise' = IF outcome = "success" THEN "fulfilled" ELSE "rejected"
    /\ UNCHANGED <<phase, timeoutMs, now, due, remaining, signalled, aborted,
                   outcome, worker, result, observed, termination, terminations>>

\* The caller learns the outcome; a failed termination spoils a success and is
\* added to a failure.
Settle ==
    /\ termination \in {"done", "failed"} /\ promise = "pending"
    /\ promise' = CASE outcome = "success" /\ termination = "done" -> "fulfilled"
                    [] outcome # "success" /\ termination = "failed" -> "aggregate"
                    [] OTHER -> "rejected"
    /\ UNCHANGED <<phase, timeoutMs, now, due, remaining, signalled, aborted,
                   outcome, worker, result, observed, termination, terminations>>

\* Time passes inside start(), and as long as a timer is not too late.
Tick ==
    /\ \/ phase = "starting" /\ now < MaxStartTime
       \/ phase = "running" /\ due # 0 /\ now < due + Lateness
    /\ now' = now + 1
    /\ UNCHANGED <<phase, timeoutMs, due, remaining, signalled, aborted, outcome,
                   worker, result, observed, termination, terminations, promise>>

EndStart == \E w \in Workers : StartEnds(w)
Loop == Run \/ Refuse \/ TimerFires \/ ResultObserved \/ RequestTermination \/ Settle

WorkerNext == Abort \/ EndStart \/ ResultSettles \/ TerminationEnds \/ Tick \/ Loop

WorkerSpec == WorkerInit /\ [][WorkerNext]_workerVars

\* The event loop runs what is due, time passes, start() returns and the
\* adapter's termination ends; the worker's own result may never come.
WorkerFairSpec ==
    /\ WorkerSpec
    /\ WF_workerVars(Loop) /\ WF_workerVars(TimerFires) /\ WF_workerVars(Tick)
    /\ WF_workerVars(EndStart) /\ WF_workerVars(TerminationEnds)

-----------------------------------------------------------------------------
WorkerTypeOK ==
    /\ phase \in {"idle", "starting", "running", "refused"}
    /\ timeoutMs \in Timeouts
    /\ now \in Nat /\ due \in Nat /\ remaining \in Nat
    /\ signalled \in BOOLEAN /\ aborted \in BOOLEAN /\ observed \in BOOLEAN
    /\ outcome \in Outcomes
    /\ worker \in Workers
    /\ result \in {"none", "pending", "kept", "broken"}
    /\ termination \in {"idle", "requested", "pending", "done", "failed"}
    /\ terminations \in Nat
    /\ promise \in {"pending", "fulfilled", "rejected", "aggregate"}

\* "terminates every created worker exactly once, and waits for its termination
\* adapter before returning" (docs: browser-and-workers.mdx).
TerminatedBeforeSettled ==
    /\ terminations <= 1
    /\ promise # "pending" /\ worker.terminable =>
           terminations = 1 /\ termination \in {"done", "failed"}

\* The caller gets a value only if the result won the race and the worker was
\* terminated; both failures are reported when both happen.
OutcomeIsReported ==
    promise # "pending" /\ phase = "running" =>
        /\ promise = "fulfilled" <=> outcome = "success" /\ termination = "done"
        /\ promise = "aggregate" <=> outcome # "success" /\ termination = "failed"

\* The first outcome wins: later results, aborts and deadlines change nothing.
FirstOutcomeStays == [][outcome # "none" => outcome' = outcome]_workerVars

\* A timeout is never reported before timeoutMs have passed, however many
\* timers the delay was split into.
TimeoutIsNotEarly == outcome = "timeout" => now >= timeoutMs

\* A start() that outlives the deadline never ends in success, even when its
\* result is there at once, and an abort inside it is not forgotten.
SlowStartFails ==
    [][phase = "starting" /\ phase' = "running" =>
          /\ Expired => outcome' \in {"timeout", "abort"}
          /\ aborted => outcome' = "abort"]_workerVars

\* The result of every returned handle is observed, also when the deadline or
\* an abort won while start() was running: no unhandled rejection.
NothingUnobserved == result = "pending" => observed

\* The caller's promise settles whatever the worker does.
CallSettles == phase = "starting" ~> promise # "pending"
=============================================================================
