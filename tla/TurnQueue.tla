------------------------------ MODULE TurnQueue ------------------------------
(***************************************************************************)
(* ArtifactCacheSession.#exclusive (src/artifact-cache.ts): the chain of   *)
(* promises that serializes the operations of one session.                 *)
(*                                                                         *)
(* Every operation creates a promise, its turn, and makes it the tail of   *)
(* its session; the previous tail is its predecessor.  The operation runs  *)
(* when the predecessor is released and releases its own turn when it      *)
(* ends.  An abort signal races with the predecessor: an operation that is *)
(* cancelled in the queue settles at once, yet its turn is released only   *)
(* after its predecessor's, so that nobody behind it can overtake.         *)
(*                                                                         *)
(* An action is what the event loop runs without interruption.  What the   *)
(* operation does with its turn is left to the modules that extend this    *)
(* one: here it is just the time between Enter and Exit.                   *)
(***************************************************************************)
EXTENDS Naturals, FiniteSets

CONSTANTS
    Ops,        \* operations, each submitted at most once
    Sessions,   \* sessions, each with its own tail
    NoSession,  \* the session of an operation that was not submitted yet
    Signalled,  \* the operations that were given an AbortSignal
    NoTurn      \* the promise a new session starts with, already released

ASSUME NoTurnAssumption == NoTurn \notin Ops
ASSUME NoSessionAssumption == NoSession \notin Sessions
ASSUME SignalledAssumption == Signalled \subseteq Ops

VARIABLES
    phase,     \* "new", "queued", "running" or "settled": the caller's promise
    session,   \* the session the operation was submitted to
    tail,      \* #tail of each session: the newest turn
    pred,      \* the predecessor an operation waits for
    place,     \* how many turns its session had given out, its own included
    race,      \* Promise.race of `acquired` and `aborted`: "open" or its winner
    released,  \* the turns that are released
    aborted    \* the operations whose signal has fired

queueVars == <<phase, session, tail, pred, place, race, released, aborted>>

Phases == {"new", "queued", "running", "settled"}

Released(turn) == turn = NoTurn \/ turn \in released

\* An operation that took a turn.
Placed(op) == place[op] > 0

\* Mutation: a call whose listener could not be attached forgets its turn.
OwingWhenCancelled(op) ==
    /\ phase[op] = "settled" /\ Placed(op) /\ op \notin released
    /\ race[op] = "aborted"

\* The turn of a cancelled operation: settled, but its turn still pending.
Owing(op) == phase[op] = "settled" /\ Placed(op) /\ op \notin released

QueueInit ==
    /\ phase = [op \in Ops |-> "new"]
    /\ session = [op \in Ops |-> NoSession]
    /\ tail = [s \in Sessions |-> NoTurn]
    /\ pred = [op \in Ops |-> NoTurn]
    /\ place = [op \in Ops |-> 0]
    /\ race = [op \in Ops |-> "open"]
    /\ released = {}
    /\ aborted = {}

-----------------------------------------------------------------------------
\* Mutation: the abort listener is never attached.
AbortUnheard(op) ==
    /\ op \in Signalled \ aborted
    /\ phase[op] # "settled"
    /\ aborted' = aborted \cup {op}
    /\ UNCHANGED <<phase, session, tail, pred, place, race, released>>

\* The signal fires.  The listener of a queued operation settles the race
\* unless the predecessor already won it; a settled operation has no listener.
Abort(op) ==
    /\ op \in Signalled \ aborted
    /\ phase[op] # "settled"
    /\ aborted' = aborted \cup {op}
    /\ race' = IF phase[op] = "queued" /\ race[op] = "open"
               THEN [race EXCEPT ![op] = "aborted"]
               ELSE race
    /\ UNCHANGED <<phase, session, tail, pred, place, released>>

\* An operation whose signal fired before the call never takes a turn.
RefuseAborted(op) ==
    /\ phase[op] = "new"
    /\ op \in aborted
    /\ phase' = [phase EXCEPT ![op] = "settled"]
    /\ UNCHANGED <<session, tail, pred, place, race, released, aborted>>

\* Mutation: the new turn is not recorded as the tail.
TakeTurnBehindTheSame(op, s) ==
    /\ phase[op] = "new"
    /\ op \notin aborted
    /\ session' = [session EXCEPT ![op] = s]
    /\ pred' = [pred EXCEPT ![op] = tail[s]]
    /\ place' = [place EXCEPT ![op] = 1]
    /\ UNCHANGED <<tail, race, released, aborted>>

\* The new turn becomes the tail, behind the previous one.
TakeTurn(op, s) ==
    /\ phase[op] = "new"
    /\ op \notin aborted
    /\ session' = [session EXCEPT ![op] = s]
    /\ pred' = [pred EXCEPT ![op] = tail[s]]
    /\ place' = [place EXCEPT ![op] =
                    IF tail[s] = NoTurn THEN 1 ELSE place[tail[s]] + 1]
    /\ tail' = [tail EXCEPT ![s] = op]
    /\ UNCHANGED <<race, released, aborted>>

Submit(op, s) ==
    /\ TakeTurn(op, s)
    /\ phase' = [phase EXCEPT ![op] = "queued"]

\* addEventListener throws: the call fails, its turn is passed on in order.
AttachFails(op, s) ==
    /\ op \in Signalled
    /\ TakeTurn(op, s)
    /\ phase' = [phase EXCEPT ![op] = "settled"]

\* The predecessor is released and wins the race.
Acquire(op) ==
    /\ phase[op] = "queued"
    /\ race[op] = "open"
    /\ Released(pred[op])
    /\ race' = [race EXCEPT ![op] = "acquired"]
    /\ UNCHANGED <<phase, session, tail, pred, place, released, aborted>>

\* The cancelled caller gets its answer while the turn stays in the queue.
CancelQueued(op) ==
    /\ phase[op] = "queued"
    /\ race[op] = "aborted"
    /\ phase' = [phase EXCEPT ![op] = "settled"]
    /\ UNCHANGED <<session, tail, pred, place, race, released, aborted>>

Enter(op) ==
    /\ phase[op] = "queued"
    /\ race[op] = "acquired"
    /\ phase' = [phase EXCEPT ![op] = "running"]
    /\ UNCHANGED <<session, tail, pred, place, race, released, aborted>>

\* Mutation: a cancelled operation releases its turn without waiting.
PassOnAtOnce(op) ==
    /\ Owing(op)
    /\ released' = released \cup {op}
    /\ UNCHANGED <<phase, session, tail, pred, place, race, aborted>>

\* predecessor.then(release, release) of an operation that left the queue.
PassOn(op) ==
    /\ Owing(op)
    /\ Released(pred[op])
    /\ released' = released \cup {op}
    /\ UNCHANGED <<phase, session, tail, pred, place, race, aborted>>

\* The operation ends, well or not, and `finally` releases its turn.
Exit(op) ==
    /\ phase[op] = "running"
    /\ phase' = [phase EXCEPT ![op] = "settled"]
    /\ released' = released \cup {op}
    /\ UNCHANGED <<session, tail, pred, place, race, aborted>>

\* The continuations the event loop owes to an operation in the queue.
Continue(op) == Acquire(op) \/ CancelQueued(op) \/ Enter(op) \/ PassOn(op)

QueueNext ==
    \E op \in Ops :
        \/ Abort(op)
        \/ RefuseAborted(op)
        \/ \E s \in Sessions : Submit(op, s) \/ AttachFails(op, s)
        \/ Continue(op)
        \/ Exit(op)

QueueSpec == QueueInit /\ [][QueueNext]_queueVars

\* The event loop runs every continuation; operations may hang.
LoopFairness == \A op \in Ops : WF_queueVars(Continue(op))

HangingQueueSpec == QueueSpec /\ LoopFairness

-----------------------------------------------------------------------------
QueueTypeOK ==
    /\ phase \in [Ops -> Phases]
    /\ session \in [Ops -> Sessions \cup {NoSession}]
    /\ tail \in [Sessions -> Ops \cup {NoTurn}]
    /\ pred \in [Ops -> Ops \cup {NoTurn}]
    /\ place \in [Ops -> Nat]
    /\ race \in [Ops -> {"open", "acquired", "aborted"}]
    /\ released \subseteq Ops
    /\ aborted \subseteq Signalled

\* At most one operation of a session is running: #exclusive is a mutex.
OneAtATime ==
    \A a, b \in Ops :
        phase[a] = "running" /\ phase[b] = "running" /\ session[a] = session[b]
            => a = b

\* A running operation is ahead of every live operation of its session: those
\* submitted before it have settled, and none of them still owes its turn.
NoOvertaking ==
    \A a, b \in Ops :
        /\ phase[b] = "running"
        /\ session[a] = session[b]
        /\ 0 < place[a] /\ place[a] < place[b]
        => phase[a] = "settled" /\ a \in released

\* A turn is released only behind its predecessor's, whether the operation ran
\* or was cancelled: "resolves queued cancellation promptly without allowing
\* later work to overtake the active store call" (docs/architecture.md).
ReleasedInOrder ==
    [][\A op \in released' \ released : Released(pred[op])]_queueVars

\* An operation aborted in the queue settles even when the operation that holds
\* the turn never ends.
PromptCancellation ==
    \A op \in Ops :
        (phase[op] = "queued" /\ op \in aborted) ~> phase[op] # "queued"

-----------------------------------------------------------------------------
\* Refinement: an operation waits while the race may still give it the turn.
StatusOf(op) ==
    CASE phase[op] = "new" -> "outside"
      [] phase[op] = "queued" /\ race[op] # "aborted" -> "waiting"
      [] phase[op] = "running" -> "holding"
      [] OTHER -> "left"

Serial == INSTANCE SerialTurns WITH status <- [op \in Ops |-> StatusOf(op)]

\* The promise chain implements a first-come-first-served queue of turns.
ImplementsSerialTurns == Serial!SerialSpec
=============================================================================
