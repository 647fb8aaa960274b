---------------------- MODULE ArtifactCacheSessionProofs ----------------------
(***************************************************************************)
(* Proofs about ArtifactCacheSession and the TurnQueue below it, for any   *)
(* operations, sessions, keys, payload sizes and limits.                   *)
(*                                                                         *)
(* First the queue: it is a mutex, nobody overtakes, turns are released in *)
(* order, and it implements SerialTurns.  Then the session, which is a     *)
(* refinement of its own queue: the aggregate limits follow from the mutual*)
(* exclusion of the operations of a session.  Last the accounts: what the  *)
(* operations of a session took is never more than what was charged.       *)
(***************************************************************************)
EXTENDS ArtifactCacheSession, FiniteSetTheorems, TLAPS

\* An operation without a place was never in a queue.
UnplacedInv ==
    \A op \in Ops :
        /\ phase[op] \in {"queued", "running"} => Placed(op)
        /\ phase[op] = "new" => ~Placed(op)
        /\ ~Placed(op) => op \notin released /\ race[op] = "open"

\* The tail of a session is its newest turn.
TailInv ==
    /\ \A s \in Sessions :
          tail[s] # NoTurn => Placed(tail[s]) /\ session[tail[s]] = s
    /\ \A op \in Ops :
          Placed(op) => /\ session[op] \in Sessions
                        /\ tail[session[op]] # NoTurn
                        /\ place[op] <= place[tail[session[op]]]

\* Turns are chained one place at a time, and no place is given twice.
ChainInv ==
    /\ \A op \in Ops :
          Placed(op) =>
              IF pred[op] = NoTurn
              THEN place[op] = 1
              ELSE /\ session[pred[op]] = session[op]
                   /\ place[op] = place[pred[op]] + 1
                   /\ Placed(pred[op])
    /\ \A a, b \in Ops :
          Placed(a) /\ session[a] = session[b] /\ place[a] = place[b] => a = b

\* Whoever holds, or has released, a turn has everyone before it released.
OrderInv ==
    \A a, b \in Ops :
        /\ Placed(a)
        /\ session[a] = session[b]
        /\ place[a] < place[b]
        /\ race[b] = "acquired" \/ b \in released
        => a \in released

StageInv ==
    /\ \A op \in Ops : phase[op] = "running" => race[op] = "acquired"
    /\ \A op \in released : phase[op] = "settled"
    /\ \A op \in Ops :
          phase[op] = "settled" /\ race[op] = "acquired" => op \in released

QInv == QueueTypeOK /\ UnplacedInv /\ TailInv /\ ChainInv /\ OrderInv /\ StageInv

-----------------------------------------------------------------------------
(* When the predecessor of a turn is released, so is everything before it. *)
LEMMA EarlierReleased ==
    ASSUME QInv, NEW a \in Ops, NEW b \in Ops,
           Placed(a), session[a] = session[b], place[a] < place[b],
           Released(pred[b])
    PROVE  a \in released
<1>. USE DEF QInv, QueueTypeOK, Placed
<1>1. place[a] \in Nat /\ place[b] \in Nat /\ Placed(b)
  OBVIOUS
<1>2. pred[b] # NoTurn
  BY <1>1 DEF ChainInv
<1>3. /\ pred[b] \in Ops
      /\ pred[b] \in released
      /\ session[pred[b]] = session[b]
      /\ place[b] = place[pred[b]] + 1
      /\ place[pred[b]] \in Nat
  BY <1>1, <1>2 DEF ChainInv, Released
<1>4. CASE place[a] = place[pred[b]]
  BY <1>3, <1>4 DEF ChainInv
<1>5. CASE place[a] < place[pred[b]]
  BY <1>3, <1>5 DEF OrderInv
<1>. QED
  BY <1>1, <1>3, <1>4, <1>5

(* Taking a turn keeps the chain: the new place is behind all others. *)
LEMMA NewTurn ==
    ASSUME QInv, NEW op \in Ops, NEW s \in Sessions, TakeTurn(op, s)
    PROVE  /\ place'[op] \in Nat /\ place'[op] > 0
           /\ \A o \in Ops \ {op} : place'[o] = place[o] /\ session'[o] = session[o]
           /\ session'[op] = s
           /\ \A o \in Ops : session[o] = s => place[o] < place'[op]
           /\ ~Placed(op) /\ op \notin released /\ race[op] = "open"
<1>. USE DEF QInv, QueueTypeOK
<1>1. ~Placed(op) /\ op \notin released /\ race[op] = "open"
  BY DEF UnplacedInv, TakeTurn
<1>2. /\ place'[op] = IF tail[s] = NoTurn THEN 1 ELSE place[tail[s]] + 1
      /\ session'[op] = s
      /\ \A o \in Ops \ {op} : place'[o] = place[o] /\ session'[o] = session[o]
  BY DEF TakeTurn
<1>3. tail[s] # NoTurn => place[tail[s]] \in Nat
  OBVIOUS
<1>4. ASSUME NEW o \in Ops, session[o] = s
      PROVE  place[o] < place'[op]
  BY <1>2, <1>3, <1>4 DEF TailInv, Placed
<1>. QED
  BY <1>1, <1>2, <1>3, <1>4

-----------------------------------------------------------------------------
LEMMA QInvInit == QueueInit => QInv
  BY NoTurnAssumption
  DEF QueueInit, QInv, QueueTypeOK, UnplacedInv, TailInv, ChainInv, OrderInv,
      StageInv, Placed, Phases

(* An operation that takes a turn disturbs nobody before it. *)
LEMMA TakeTurnKeepsQInv ==
    ASSUME QInv, NEW op \in Ops, NEW s \in Sessions, TakeTurn(op, s),
           NEW p \in {"queued", "settled"}, phase' = [phase EXCEPT ![op] = p]
    PROVE  QInv'
<1>. USE DEF QInv
<1>1. QueueTypeOK'
  <2>1. place' \in [Ops -> Nat]
    BY DEF QueueTypeOK, TakeTurn
  <2>. QED
    BY <2>1 DEF QueueTypeOK, TakeTurn, Phases
<1>2. /\ place'[op] \in Nat /\ place'[op] > 0
      /\ \A o \in Ops \ {op} : place'[o] = place[o] /\ session'[o] = session[o]
      /\ session'[op] = s
      /\ \A o \in Ops : session[o] = s => place[o] < place'[op]
      /\ ~Placed(op) /\ op \notin released /\ race[op] = "open"
  BY NewTurn
<1>3. UNCHANGED <<race, released>>
  BY DEF TakeTurn
<1>4. UnplacedInv'
  BY <1>2, <1>3 DEF UnplacedInv, QueueTypeOK, Placed
<1>5. TailInv'
  <2>1. tail' = [tail EXCEPT ![s] = op] /\ op # NoTurn
    BY NoTurnAssumption DEF TakeTurn
  <2>2. ASSUME NEW t \in Sessions, tail'[t] # NoTurn
        PROVE  Placed(tail[t])' /\ session'[tail'[t]] = t
    BY <1>2, <2>1, <2>2 DEF TailInv, QueueTypeOK, Placed
  <2>3. ASSUME NEW o \in Ops, Placed(o)'
        PROVE  /\ session'[o] \in Sessions
               /\ tail'[session'[o]] # NoTurn
               /\ place'[o] <= place'[tail'[session'[o]]]
    <3>1. CASE o = op
      BY <1>2, <2>1, <3>1 DEF QueueTypeOK
    <3>2. CASE o # op /\ session[o] = s
      BY <1>2, <2>1, <2>3, <3>2 DEF QueueTypeOK
    <3>3. CASE o # op /\ session[o] # s
      <4>1. Placed(o)
        BY <1>2, <2>3, <3>3 DEF Placed
      <4>2. tail[session[o]] # op
        BY <1>2, <3>3, <4>1 DEF TailInv, Placed
      <4>. QED
        BY <1>2, <2>1, <3>3, <4>1, <4>2 DEF TailInv, QueueTypeOK, Placed
    <3>. QED
      BY <3>1, <3>2, <3>3
  <2>. QED
    BY <2>2, <2>3 DEF TailInv, Placed
<1>6. ChainInv'
  <2>1. ASSUME NEW o \in Ops, Placed(o)'
        PROVE  IF pred'[o] = NoTurn
               THEN place'[o] = 1
               ELSE /\ session'[pred'[o]] = session'[o]
                    /\ place'[o] = place'[pred'[o]] + 1
                    /\ Placed(pred[o])'
    <3>1. CASE o = op
      <4>1. pred'[o] = tail[s]
        BY <3>1 DEF TakeTurn, QueueTypeOK
      <4>2. tail[s] # NoTurn => tail[s] \in Ops \ {op}
        BY <1>2 DEF TailInv, QueueTypeOK
      <4>3. place'[o] = IF tail[s] = NoTurn THEN 1 ELSE place[tail[s]] + 1
        BY <3>1 DEF TakeTurn, QueueTypeOK
      <4>. QED
        BY <1>2, <3>1, <4>1, <4>2, <4>3 DEF TailInv, Placed
    <3>2. CASE o # op
      <4>1. Placed(o) /\ pred'[o] = pred[o]
        BY <1>2, <2>1, <3>2 DEF TakeTurn, Placed, QueueTypeOK
      <4>2. pred[o] # NoTurn => pred[o] \in Ops \ {op}
        BY <1>2, <4>1 DEF ChainInv, QueueTypeOK
      <4>. QED
        BY <1>2, <3>2, <4>1, <4>2 DEF ChainInv, Placed
    <3>. QED
      BY <3>1, <3>2
  <2>2. ASSUME NEW a \in Ops, NEW b \in Ops,
               Placed(a)', session'[a] = session'[b], place'[a] = place'[b]
        PROVE  a = b
    <3>1. place[a] \in Nat /\ place[b] \in Nat
      BY DEF QueueTypeOK
    <3>. QED
      BY <1>2, <2>2, <3>1 DEF ChainInv, Placed
  <2>. QED
    BY <2>1, <2>2 DEF ChainInv
<1>7. OrderInv'
  <2>. SUFFICES ASSUME NEW a \in Ops, NEW b \in Ops, Placed(a)',
                       session'[a] = session'[b], place'[a] < place'[b],
                       race'[b] = "acquired" \/ b \in released'
                PROVE  a \in released'
    BY DEF OrderInv
  <2>1. b # op
    BY <1>2, <1>3
  <2>2. place[b] \in Nat
    BY DEF QueueTypeOK
  <2>3. a # op
    BY <1>2, <2>1, <2>2
  <2>. QED
    BY <1>2, <1>3, <2>1, <2>3 DEF OrderInv, Placed
<1>8. StageInv'
  BY <1>2, <1>3 DEF StageInv, QueueTypeOK, TakeTurn
<1>. QED
  BY <1>1, <1>4, <1>5, <1>6, <1>7, <1>8

(* The steps that change neither the turns nor their order. *)
LEMMA SettledTurnsKeepQInv ==
    ASSUME QInv, NEW op \in Ops,
           Abort(op) \/ RefuseAborted(op) \/ CancelQueued(op) \/ Enter(op)
    PROVE  QInv'
<1>. USE DEF QInv
<1>1. UNCHANGED <<session, tail, pred, place, released>>
  BY DEF Abort, RefuseAborted, CancelQueued, Enter
<1>2. QueueTypeOK'
  BY DEF QueueTypeOK, Phases, Abort, RefuseAborted, CancelQueued, Enter
<1>3. UnplacedInv'
  BY <1>1 DEF UnplacedInv, QueueTypeOK, Placed, Abort, RefuseAborted, CancelQueued,
              Enter
<1>4. TailInv'
  BY <1>1 DEF TailInv, Placed
<1>5. ChainInv'
  BY <1>1 DEF ChainInv, Placed
<1>6. \A o \in Ops : race'[o] = "acquired" => race[o] = "acquired"
  BY DEF QueueTypeOK, Abort, RefuseAborted, CancelQueued, Enter
<1>7. OrderInv'
  BY <1>1, <1>6 DEF OrderInv, Placed
<1>8. StageInv'
  BY <1>1 DEF StageInv, UnplacedInv, QueueTypeOK, Abort, RefuseAborted,
              CancelQueued, Enter
<1>. QED
  BY <1>2, <1>3, <1>4, <1>5, <1>7, <1>8

(* The steps that win or release a turn keep the order of the queue. *)
LEMMA TurnStepsKeepQInv ==
    ASSUME QInv, NEW op \in Ops, Acquire(op) \/ PassOn(op) \/ Exit(op)
    PROVE  QInv'
<1>. USE DEF QInv
<1>1. UNCHANGED <<session, tail, pred, place>>
  BY DEF Acquire, PassOn, Exit
<1>2. QueueTypeOK'
  BY DEF QueueTypeOK, Phases, Acquire, PassOn, Exit
<1>3. Placed(op)
  BY DEF UnplacedInv, Acquire, PassOn, Exit, Owing, Placed
<1>4. UnplacedInv'
  BY <1>1, <1>3 DEF UnplacedInv, QueueTypeOK, Placed, Acquire, PassOn, Exit
<1>5. TailInv'
  BY <1>1 DEF TailInv, Placed
<1>6. ChainInv'
  BY <1>1 DEF ChainInv, Placed
<1>7. OrderInv'
  <2>. SUFFICES ASSUME NEW a \in Ops, NEW b \in Ops, Placed(a),
                       session[a] = session[b], place[a] < place[b],
                       race'[b] = "acquired" \/ b \in released'
                PROVE  a \in released'
    BY <1>1 DEF OrderInv, Placed
  <2>1. released \subseteq released'
    BY DEF Acquire, PassOn, Exit
  <2>2. CASE race[b] = "acquired" \/ b \in released
    BY <2>1, <2>2 DEF OrderInv
  <2>3. CASE ~(race[b] = "acquired" \/ b \in released)
    <3>1. b = op /\ (Acquire(op) \/ PassOn(op))
      BY <2>3 DEF Acquire, PassOn, Exit, QueueTypeOK, StageInv
    <3>2. Released(pred[b])
      BY <3>1 DEF Acquire, PassOn
    <3>. QED
      BY <2>1, <3>2, EarlierReleased
  <2>. QED
    BY <2>2, <2>3
<1>8. StageInv'
  BY DEF StageInv, QueueTypeOK, Acquire, PassOn, Exit, Owing
<1>. QED
  BY <1>2, <1>4, <1>5, <1>6, <1>7, <1>8

LEMMA QInvStutter == QInv /\ UNCHANGED queueVars => QInv'
  BY DEF QInv, QueueTypeOK, UnplacedInv, TailInv, ChainInv, OrderInv, StageInv,
         Placed, queueVars

LEMMA QInvStep == QInv /\ [QueueNext]_queueVars => QInv'
<1>. SUFFICES ASSUME QInv, [QueueNext]_queueVars PROVE QInv'
  OBVIOUS
<1>1. CASE UNCHANGED queueVars
  BY <1>1, QInvStutter
<1>2. ASSUME NEW op \in Ops,
             Abort(op) \/ RefuseAborted(op) \/ Continue(op) \/ Exit(op)
      PROVE  QInv'
  BY <1>2, SettledTurnsKeepQInv, TurnStepsKeepQInv DEF Continue
<1>3. ASSUME NEW op \in Ops, NEW s \in Sessions, Submit(op, s) \/ AttachFails(op, s)
      PROVE  QInv'
  BY <1>3, TakeTurnKeepsQInv DEF Submit, AttachFails
<1>. QED
  BY <1>1, <1>2, <1>3 DEF QueueNext

(* The inductive invariant of the queue. *)
THEOREM QueueInvariant == QueueSpec => []QInv
  BY QInvInit, QInvStep, PTL DEF QueueSpec

(* Type correctness for every set of operations and sessions. *)
THEOREM QueueTypeCorrect == QueueSpec => []QueueTypeOK
  BY QueueInvariant, PTL DEF QInv

-----------------------------------------------------------------------------
(* Of two turns of a session, one was given first. *)
LEMMA RunningAlone ==
    ASSUME QInv, NEW a \in Ops, NEW b \in Ops,
           phase[a] = "running", phase[b] = "running", session[a] = session[b]
    PROVE  a = b
<1>. USE DEF QInv
<1>1. /\ Placed(a) /\ Placed(b)
      /\ race[a] = "acquired" /\ race[b] = "acquired"
      /\ a \notin released /\ b \notin released
  BY DEF UnplacedInv, StageInv
<1>2. ~(place[a] < place[b]) /\ ~(place[b] < place[a])
  BY <1>1 DEF OrderInv
<1>3. place[a] = place[b]
  BY <1>2 DEF QueueTypeOK
<1>. QED
  BY <1>1, <1>3 DEF ChainInv

(* #exclusive is a mutex: two operations of a session never run at once. *)
THEOREM OneAtATimeHolds == QueueSpec => []OneAtATime
<1>1. QInv => OneAtATime
  BY RunningAlone DEF OneAtATime
<1>. QED
  BY <1>1, QueueInvariant, PTL

(* Nobody overtakes: whoever was submitted before a running operation has    *)
(* settled and no longer holds a turn.                                       *)
THEOREM NoOvertakingHolds == QueueSpec => []NoOvertaking
<1>1. QInv => NoOvertaking
  BY DEF QInv, NoOvertaking, OrderInv, StageInv, Placed
<1>. QED
  BY <1>1, QueueInvariant, PTL

(* A turn is released behind its predecessor's, cancelled or not. *)
THEOREM ReleasedInOrderHolds == QueueSpec => ReleasedInOrder
<1>1. ASSUME QInv, [QueueNext]_queueVars, NEW op \in released' \ released
      PROVE  Released(pred[op])
  <2>. USE DEF QInv
  <2>1. /\ op \in Ops
        /\ PassOn(op) \/ Exit(op)
    BY <1>1 DEF QueueNext, queueVars, Abort, RefuseAborted, Submit, AttachFails,
                TakeTurn, Continue, Acquire, CancelQueued, Enter, PassOn, Exit
  <2>2. CASE PassOn(op)
    BY <2>2 DEF PassOn
  <2>3. CASE Exit(op) /\ pred[op] # NoTurn
    <3>1. Placed(op) /\ race[op] = "acquired"
      BY <1>1, <2>1, <2>3 DEF UnplacedInv, StageInv, Exit
    <3>2. /\ pred[op] \in Ops
          /\ Placed(pred[op])
          /\ session[pred[op]] = session[op]
          /\ place[pred[op]] < place[op]
      BY <1>1, <2>1, <2>3, <3>1 DEF ChainInv, QueueTypeOK
    <3>. QED
      BY <1>1, <2>1, <3>1, <3>2 DEF OrderInv, Released
  <2>. QED
    BY <2>1, <2>2, <2>3 DEF Released
<1>2. QInv /\ [QueueNext]_queueVars
        => [\A op \in released' \ released : Released(pred[op])]_queueVars
  BY <1>1
<1>. QED
  BY <1>2, QueueInvariant, PTL DEF QueueSpec, ReleasedInOrder

-----------------------------------------------------------------------------
(* The abstract status of every operation. *)
Status == [op \in Ops |-> StatusOf(op)]

LEMMA SerialInitHolds == QueueInit => Serial!SerialInit
  BY DEF QueueInit, Serial!SerialInit, StatusOf

LEMMA TakeTurnArrives ==
    ASSUME QInv, NEW op \in Ops, NEW s \in Sessions,
           Submit(op, s) \/ AttachFails(op, s)
    PROVE  Serial!Arrive(op, s)
<1>. USE DEF QInv
<1>1. TakeTurn(op, s) /\ phase[op] = "new"
  BY DEF Submit, AttachFails, TakeTurn
<1>2. /\ place'[op] \in Nat /\ place'[op] > 0
      /\ \A o \in Ops : session[o] = s => place[o] < place'[op]
      /\ race[op] = "open"
  BY <1>1, NewTurn
<1>3. /\ session' = [session EXCEPT ![op] = s]
      /\ place' = [place EXCEPT ![op] = place'[op]]
  BY <1>1 DEF TakeTurn, QueueTypeOK
<1>4. \A o \in Ops \ {op} : StatusOf(o)' = StatusOf(o)
  BY DEF Submit, AttachFails, TakeTurn, StatusOf, QueueTypeOK
<1>5. StatusOf(op) = "outside" /\ StatusOf(op)' \in {"waiting", "left"}
  BY <1>2 DEF Submit, AttachFails, TakeTurn, StatusOf, QueueTypeOK
<1>6. Status' \in {[Status EXCEPT ![op] = st] : st \in {"waiting", "left"}}
  BY <1>4, <1>5 DEF Status
<1>. QED
  BY <1>2, <1>3, <1>5, <1>6 DEF Serial!Arrive, Status

(* Entering is a grant: nobody else holds the turn, and everybody with an    *)
(* earlier place has left.                                                   *)
LEMMA EnterGrants ==
    ASSUME QInv, NEW op \in Ops, Enter(op)
    PROVE  Serial!Grant(op)
<1>. USE DEF QInv
<1>1. /\ phase[op] = "queued" /\ race[op] = "acquired"
      /\ Placed(op) /\ op \notin released
  BY DEF Enter, UnplacedInv, StageInv
<1>2. ASSUME NEW o \in Ops, Placed(o), o # op, session[o] = session[op]
      PROVE  /\ StatusOf(o) # "holding"
             /\ place[o] < place[op] => StatusOf(o) = "left"
  <2>1. place[o] # place[op] /\ place[o] \in Nat /\ place[op] \in Nat
    BY <1>1, <1>2 DEF ChainInv, QueueTypeOK
  <2>2. CASE place[o] < place[op]
    <3>1. phase[o] = "settled"
      BY <1>1, <1>2, <2>2 DEF OrderInv, StageInv
    <3>. QED
      BY <3>1 DEF StatusOf
  <2>3. CASE place[op] < place[o]
    <3>1. race[o] # "acquired"
      BY <1>1, <1>2, <2>3 DEF OrderInv
    <3>2. phase[o] # "running"
      BY <3>1 DEF StageInv
    <3>. QED
      BY <2>3, <2>1, <3>2 DEF StatusOf
  <2>. QED
    BY <2>1, <2>2, <2>3
<1>3. /\ StatusOf(op) = "waiting" /\ StatusOf(op)' = "holding"
      /\ \A o \in Ops \ {op} : StatusOf(o)' = StatusOf(o)
  BY <1>1 DEF Enter, StatusOf, QueueTypeOK
<1>4. Status' = [Status EXCEPT ![op] = "holding"]
  BY <1>3 DEF Status
<1>5. UNCHANGED <<session, place>>
  BY DEF Enter
<1>. QED
  BY <1>2, <1>3, <1>4, <1>5 DEF Serial!Grant, Serial!Fellows, Status, Placed

(* Every step of the promise chain is a step of the serial queue or none. *)
LEMMA SerialStep ==
    QInv /\ [QueueNext]_queueVars => [Serial!SerialNext]_(Serial!serialVars)
<1>. SUFFICES ASSUME QInv, [QueueNext]_queueVars
              PROVE  [Serial!SerialNext]_(Serial!serialVars)
  OBVIOUS
<1>. USE DEF QInv
<1>1. CASE UNCHANGED queueVars
  BY <1>1 DEF queueVars, Serial!serialVars, StatusOf
<1>2. ASSUME NEW op \in Ops, NEW s \in Sessions, Submit(op, s) \/ AttachFails(op, s)
      PROVE  Serial!SerialNext
  BY <1>2, TakeTurnArrives DEF Serial!SerialNext
<1>3. ASSUME NEW op \in Ops, Enter(op)
      PROVE  Serial!SerialNext
  BY <1>3, EnterGrants DEF Serial!SerialNext
<1>4. ASSUME NEW op \in Ops, Acquire(op) \/ CancelQueued(op) \/ PassOn(op)
      PROVE  UNCHANGED Serial!serialVars
  <2>1. UNCHANGED <<session, place>>
    BY <1>4 DEF Acquire, CancelQueued, PassOn
  <2>2. \A o \in Ops : StatusOf(o)' = StatusOf(o)
    BY <1>4 DEF Acquire, CancelQueued, PassOn, StatusOf, QueueTypeOK
  <2>. QED
    BY <2>1, <2>2 DEF Serial!serialVars
<1>5. ASSUME NEW op \in Ops, Abort(op)
      PROVE  [Serial!SerialNext]_(Serial!serialVars)
  <2>1. UNCHANGED <<session, place>>
    BY <1>5 DEF Abort
  <2>2. \A o \in Ops \ {op} : StatusOf(o)' = StatusOf(o)
    BY <1>5 DEF Abort, StatusOf, QueueTypeOK
  <2>3. CASE phase[op] = "queued" /\ race[op] = "open"
    <3>1. StatusOf(op) = "waiting" /\ StatusOf(op)' = "left"
      BY <1>5, <2>3 DEF Abort, StatusOf, QueueTypeOK
    <3>2. Status' = [Status EXCEPT ![op] = "left"]
      BY <2>2, <3>1 DEF Status
    <3>3. Serial!GiveUp(op)
      BY <2>1, <3>1, <3>2 DEF Serial!GiveUp, Status
    <3>. QED
      BY <3>3 DEF Serial!SerialNext
  <2>4. CASE ~(phase[op] = "queued" /\ race[op] = "open")
    <3>1. StatusOf(op)' = StatusOf(op)
      BY <1>5, <2>4 DEF Abort, StatusOf, QueueTypeOK
    <3>. QED
      BY <2>1, <2>2, <3>1 DEF Serial!serialVars
  <2>. QED
    BY <2>3, <2>4
<1>6. ASSUME NEW op \in Ops, RefuseAborted(op) \/ Exit(op)
      PROVE  Serial!SerialNext
  <2>1. UNCHANGED <<session, place>>
    BY <1>6 DEF RefuseAborted, Exit
  <2>2. /\ \A o \in Ops \ {op} : StatusOf(o)' = StatusOf(o)
        /\ StatusOf(op)' = "left"
        /\ StatusOf(op) \in {"outside", "holding"}
    BY <1>6 DEF RefuseAborted, Exit, StatusOf, QueueTypeOK
  <2>3. Status' = [Status EXCEPT ![op] = "left"]
    BY <2>2 DEF Status
  <2>4. Serial!TurnAway(op) \/ Serial!Finish(op)
    BY <2>1, <2>2, <2>3 DEF Serial!TurnAway, Serial!Finish, Status
  <2>. QED
    BY <2>4 DEF Serial!SerialNext
<1>. QED
  BY <1>1, <1>2, <1>3, <1>4, <1>5, <1>6 DEF QueueNext, Continue

(* The promise chain implements a first-come-first-served queue of turns. *)
THEOREM QueueImplementsSerialTurns == QueueSpec => ImplementsSerialTurns
  BY SerialInitHolds, SerialStep, QueueInvariant, PTL
  DEF QueueSpec, ImplementsSerialTurns, Serial!SerialSpec

-----------------------------------------------------------------------------
\* The sorts of the limits, for citation.
LEMMA LimitsAreNat ==
    /\ MaxOperations \in Nat /\ MaxEntryBytes \in Nat
    /\ MaxTotalReadBytes \in Nat /\ MaxTotalWriteBytes \in Nat
    /\ \A b \in PayloadBytes : b \in Nat
  BY LimitsAssumption, BytesAssumption

\* A step of a task past its admission has a key, and a record where one is due.
TaskInv ==
    \A op \in Ops :
        LET t == task[op]
        IN /\ t.step \in {"calling", "answered", "encoding", "validating"}
                 => t.key \in Keys
           /\ t.kind = "write" /\ t.key \in Keys => t.record \in Records
           /\ t.kind = "encode" /\ t.step \in {"calling", "validating"}
                 => t.record \in Records
           /\ phase[op] = "new" => t = NoTask

\* What an encoder was promised is still left when it answers.
PromiseInv ==
    \A op \in Ops :
        Running(op, "encoding") =>
            writeBytes[session[op]] + task[op].limit <= MaxTotalWriteBytes

CInv == QInv /\ CacheTypeOK /\ TaskInv /\ WithinLimits /\ PromiseInv

-----------------------------------------------------------------------------
(* The steps of a session are steps of its queue, or leave it alone.       *)
LEMMA CacheStepIsQueueStep ==
    ASSUME [CacheNext]_cacheVars PROVE [QueueNext]_queueVars
<1>1. ASSUME NEW op \in Ops, Body(op) \/ External(op)
      PROVE  Exit(op) \/ UNCHANGED queueVars
  BY <1>1 DEF Body, External, Settle, StopAborted, RefuseKey, StopKeyed, Bypass,
      RefuseOperation, CallRead, CallDelete, CallWrite, CallEncoder,
      RefuseEncode, StopAnswered, FinishMutation, FinishMiss, CheckRead,
      StopValidated, FinishHit, CallStoreWrite, StoreReads, StoreWrites,
      StoreDeletes, StopEncoding, FinishEncoding
<1>2. ASSUME NEW op \in Ops, QueueOnly(op) \/ Begin(op)
      PROVE  QueueNext
  BY <1>2 DEF QueueOnly, Begin, QueueNext, Continue
<1>3. ASSUME NEW op \in Ops, NEW s \in Sessions, SubmitTask(op, s)
      PROVE  QueueNext
  BY <1>3 DEF SubmitTask, QueueNext
<1>4. CASE UNCHANGED cacheVars
  BY <1>4 DEF cacheVars
<1>. QED
  BY <1>1, <1>2, <1>3, <1>4 DEF CacheNext, QueueNext

(* The session implements the queue of turns it is built on. *)
THEOREM CacheImplementsQueue == CacheSpec => QueueSpec
<1>1. CacheInit => QueueInit
  BY DEF CacheInit
<1>2. [CacheNext]_cacheVars => [QueueNext]_queueVars
  BY CacheStepIsQueueStep
<1>. QED
  BY <1>1, <1>2, PTL DEF CacheSpec, QueueSpec

(* A running operation belongs to a session. *)
LEMMA RunningHasSession ==
    ASSUME QInv, NEW op \in Ops, phase[op] = "running"
    PROVE  session[op] \in Sessions
  BY DEF QInv, UnplacedInv, TailInv

-----------------------------------------------------------------------------
LEMMA CInvInit == CacheInit => CInv
<1>. SUFFICES ASSUME CacheInit PROVE CInv
  OBVIOUS
<1>1. QInv
  BY QInvInit DEF CacheInit
<1>2. NoTask \in Tasks
  BY DEF NoTask, Tasks, Kinds, Steps, Judgements, Verdicts
<1>3. CacheTypeOK
  BY <1>1, <1>2, RecordsAssumption DEF CacheTypeOK, CacheInit, QInv, Modes
<1>4. TaskInv
  BY KeysAssumption DEF TaskInv, CacheInit, NoTask
<1>5. WithinLimits
  BY LimitsAreNat DEF WithinLimits, CacheInit
<1>6. PromiseInv
  BY DEF PromiseInv, CacheInit, QueueInit, Running
<1>. QED
  BY <1>1, <1>3, <1>4, <1>5, <1>6 DEF CInv

(* A step that settles its operation and spends at most one operation.     *)
LEMMA SettleKeepsCInv ==
    ASSUME CInv, QInv', NEW op \in Ops, NEW v \in Verdicts, Settle(op, v),
           UNCHANGED <<mode, readBytes, writeBytes, records>>,
           \/ UNCHANGED opCount
           \/ /\ opCount[session[op]] + 1 <= MaxOperations
              /\ opCount' = [opCount EXCEPT ![session[op]] = @ + 1]
    PROVE  CInv'
<1>. USE DEF CInv
<1>1. /\ phase' = [phase EXCEPT ![op] = "settled"]
      /\ UNCHANGED session
      /\ task' = [task EXCEPT ![op].step = "ended", ![op].verdict = v]
      /\ session[op] \in Sessions
  BY RunningHasSession DEF Settle, Exit
<1>2. task' \in [Ops -> Tasks]
  <2>. DEFINE next == [task[op] EXCEPT !.step = "ended", !.verdict = v]
  <2>1. task \in [Ops -> Tasks]
    BY DEF CacheTypeOK
  <2>2. next \in Tasks
    BY <2>1 DEF Tasks, Steps
  <2>3. task' = [task EXCEPT ![op] = next]
    BY <1>1
  <2>. QED
    BY <2>1, <2>2, <2>3
<1>3. opCount' \in [Sessions -> Nat]
  BY <1>1 DEF CacheTypeOK
<1>4. CacheTypeOK'
  BY <1>2, <1>3 DEF CacheTypeOK, QInv
<1>5. TaskInv'
  <2>1. /\ task'[op].step = "ended" /\ phase'[op] = "settled"
        /\ task'[op].kind = task[op].kind /\ task'[op].key = task[op].key
        /\ task'[op].record = task[op].record
    BY <1>1 DEF CacheTypeOK, Tasks, QInv, QueueTypeOK
  <2>2. \A o \in Ops \ {op} : task'[o] = task[o] /\ phase'[o] = phase[o]
    BY <1>1 DEF CacheTypeOK, QInv, QueueTypeOK
  <2>. QED
    BY <2>1, <2>2 DEF TaskInv
<1>6. WithinLimits'
  BY <1>1 DEF WithinLimits, CacheTypeOK
<1>7. PromiseInv'
  BY <1>1 DEF PromiseInv, Running, CacheTypeOK, Tasks, QInv, QueueTypeOK
<1>. QED
  BY <1>4, <1>5, <1>6, <1>7

(* The settling steps of the body, in one form.                            *)
LEMMA SettlingSteps ==
    ASSUME CInv, NEW op \in Ops,
           \/ StopAborted(op) \/ RefuseKey(op) \/ StopKeyed(op) \/ Bypass(op)
           \/ RefuseOperation(op) \/ RefuseEncode(op) \/ StopAnswered(op)
           \/ FinishMutation(op) \/ FinishMiss(op) \/ StopValidated(op)
           \/ FinishHit(op) \/ StopEncoding(op)
    PROVE  /\ \E v \in Verdicts : Settle(op, v)
           /\ UNCHANGED <<mode, readBytes, writeBytes, records>>
           /\ \/ UNCHANGED opCount
              \/ /\ opCount[session[op]] + 1 <= MaxOperations
                 /\ opCount' = [opCount EXCEPT ![session[op]] = @ + 1]
<1>1. task[op].judged \in Judgements
  BY DEF CInv, CacheTypeOK, Tasks
<1>2. CASE StopAnswered(op) \/ StopValidated(op)
  BY <1>1, <1>2 DEF StopAnswered, StopValidated, Verdicts, Judgements, Budgets
<1>3. CASE RefuseEncode(op)
  BY <1>3 DEF RefuseEncode, Reserve, Verdicts, Judgements
<1>4. CASE StopEncoding(op)
  BY <1>4 DEF StopEncoding, Verdicts, Judgements, Budgets
<1>5. CASE \/ StopAborted(op) \/ RefuseKey(op) \/ StopKeyed(op) \/ Bypass(op)
           \/ RefuseOperation(op) \/ FinishMutation(op) \/ FinishMiss(op)
           \/ FinishHit(op)
  BY <1>5 DEF StopAborted, RefuseKey, StopKeyed, Bypass, RefuseOperation,
      FinishMutation, FinishMiss, FinishHit, Verdicts, Judgements, Budgets
<1>. QED
  BY <1>2, <1>3, <1>4, <1>5

(* Any other step of a running operation: it stays in its turn, and        *)
(* `next` is what it does next.                                            *)
LEMMA StayKeepsCInv ==
    ASSUME CInv, UNCHANGED <<queueVars, mode>>, NEW op \in Ops,
           phase[op] = "running",
           NEW next \in Tasks, task' = [task EXCEPT ![op] = next],
           opCount' \in [Sessions -> Nat],
           readBytes' \in [Sessions -> Nat],
           writeBytes' \in [Sessions -> Nat],
           records' \in [Keys -> Records \cup {NoRecord, MalformedRecord}],
           WithinLimits',
           \A s \in Sessions \ {session[op]} : writeBytes'[s] = writeBytes[s],
           next.step \in {"calling", "answered", "encoding", "validating"}
               => next.key \in Keys,
           next.kind = "write" /\ next.key \in Keys => next.record \in Records,
           next.kind = "encode" /\ next.step \in {"calling", "validating"}
               => next.record \in Records,
           next.step = "encoding" =>
               writeBytes'[session[op]] + next.limit <= MaxTotalWriteBytes
    PROVE  CInv'
<1>. USE DEF CInv
<1>1. QInv'
  BY QInvStutter DEF queueVars
<1>2. UNCHANGED <<phase, session>>
  BY DEF queueVars
<1>3. /\ task'[op] = next
      /\ \A o \in Ops \ {op} : task'[o] = task[o]
      /\ task' \in [Ops -> Tasks]
  BY DEF CacheTypeOK
<1>4. CacheTypeOK'
  BY <1>1, <1>3 DEF CacheTypeOK, QInv
<1>5. TaskInv'
  BY <1>2, <1>3 DEF TaskInv
<1>6. ASSUME NEW o \in Ops, Running(o, "encoding")'
      PROVE  writeBytes'[session[o]] + task'[o].limit <= MaxTotalWriteBytes
  <2>1. CASE o = op
    BY <1>2, <1>3, <1>6, <2>1 DEF Running
  <2>2. CASE o # op
    <3>1. Running(o, "encoding") /\ phase[o] = "running"
      BY <1>2, <1>3, <1>6, <2>2 DEF Running
    <3>2. session[o] # session[op]
      BY <2>2, <3>1, RunningAlone
    <3>3. session[o] \in Sessions
      BY <3>1, RunningHasSession
    <3>. QED
      BY <1>3, <2>2, <3>1, <3>2, <3>3 DEF PromiseInv
  <2>. QED
    BY <2>1, <2>2
<1>7. PromiseInv'
  BY <1>2, <1>6 DEF PromiseInv
<1>. QED
  BY <1>1, <1>4, <1>5, <1>7

-----------------------------------------------------------------------------
(* What is left of a budget, and the sum of what is charged.               *)
LEMMA StricterBound ==
    ASSUME NEW total \in Nat, NEW spent \in Nat, spent <= total
    PROVE  /\ Stricter(total, spent) \in Nat
           /\ spent + Stricter(total, spent) <= total
  BY LimitsAreNat DEF Stricter

LEMMA ReservedOps ==
    ASSUME CInv, NEW op \in Ops, NEW kind, Reserve(op, kind)
    PROVE  /\ phase[op] = "running" /\ session[op] \in Sessions
           /\ task[op].kind = kind /\ task[op].key \in Keys
           /\ opCount' \in [Sessions -> Nat]
           /\ \A s \in Sessions : opCount'[s] <= MaxOperations
           /\ ReadLimit(op) \in Nat
           /\ WriteLimit(op) \in Nat
           /\ writeBytes[session[op]] + WriteLimit(op) <= MaxTotalWriteBytes
<1>. USE DEF CInv
<1>1. phase[op] = "running" /\ session[op] \in Sessions
  BY RunningHasSession DEF Reserve, Keyed, Running
<1>2. task[op].kind = kind /\ task[op].key \in Keys
  BY DEF Reserve, Keyed, CacheTypeOK, Tasks
<1>3. /\ opCount' \in [Sessions -> Nat]
      /\ \A s \in Sessions : opCount'[s] <= MaxOperations
  BY <1>1 DEF Reserve, CacheTypeOK, WithinLimits
<1>4. /\ ReadLimit(op) \in Nat
      /\ WriteLimit(op) \in Nat
      /\ writeBytes[session[op]] + WriteLimit(op) <= MaxTotalWriteBytes
  BY <1>1, StricterBound, LimitsAreNat
  DEF ReadLimit, WriteLimit, CacheTypeOK, WithinLimits
<1>. QED
  BY <1>1, <1>2, <1>3, <1>4

(* The four ways to open a call keep the invariant.                        *)
LEMMA CallsKeepCInv ==
    ASSUME CInv, NEW op \in Ops,
           CallRead(op) \/ CallDelete(op) \/ CallEncoder(op)
    PROVE  CInv'
<1>. USE DEF CInv
<1>1. PICK kind : Reserve(op, kind) /\ kind \in {"read", "delete", "encode"}
                  /\ (kind = "encode" => CallEncoder(op))
                  /\ (kind = "read" => CallRead(op))
                  /\ (kind = "delete" => CallDelete(op))
  BY DEF CallRead, CallDelete, CallEncoder
<1>2. /\ phase[op] = "running" /\ session[op] \in Sessions
      /\ task[op].kind = kind /\ task[op].key \in Keys
      /\ opCount' \in [Sessions -> Nat]
      /\ \A s \in Sessions : opCount'[s] <= MaxOperations
      /\ ReadLimit(op) \in Nat
      /\ WriteLimit(op) \in Nat
      /\ writeBytes[session[op]] + WriteLimit(op) <= MaxTotalWriteBytes
  BY <1>1, ReservedOps
<1>3. /\ UNCHANGED <<queueVars, mode, readBytes, writeBytes, records>>
      /\ WithinLimits'
  BY <1>1, <1>2 DEF CallRead, CallDelete, CallEncoder, WithinLimits
<1>4. task \in [Ops -> Tasks]
  BY DEF CacheTypeOK
<1>5. CASE kind = "delete"
  <2>. DEFINE next == [task[op] EXCEPT !.step = "calling"]
  <2>1. next \in Tasks /\ next.step = "calling" /\ next.key = task[op].key
        /\ next.kind = "delete"
    BY <1>2, <1>4, <1>5 DEF Tasks, Steps
  <2>2. task' = [task EXCEPT ![op] = next]
    BY <1>1, <1>5 DEF CallDelete, At
  <2>. HIDE DEF next
  <2>. QED
    BY <1>2, <1>3, <2>1, <2>2, StayKeepsCInv DEF CacheTypeOK
<1>6. CASE kind = "read"
  <2>. DEFINE next == [task[op] EXCEPT !.step = "calling", !.limit = ReadLimit(op)]
  <2>1. next \in Tasks /\ next.step = "calling" /\ next.key = task[op].key
        /\ next.kind = "read"
    BY <1>2, <1>4, <1>6 DEF Tasks, Steps
  <2>2. task' = [task EXCEPT ![op] = next]
    BY <1>1, <1>6 DEF CallRead
  <2>. HIDE DEF next
  <2>. QED
    BY <1>2, <1>3, <2>1, <2>2, StayKeepsCInv DEF CacheTypeOK
<1>7. CASE kind = "encode"
  <2>. DEFINE next == [task[op] EXCEPT !.step = "encoding", !.limit = WriteLimit(op)]
  <2>1. next \in Tasks /\ next.step = "encoding" /\ next.key = task[op].key
        /\ next.kind = "encode" /\ next.limit = WriteLimit(op)
    BY <1>2, <1>4, <1>7 DEF Tasks, Steps
  <2>2. task' = [task EXCEPT ![op] = next]
    BY <1>1, <1>7 DEF CallEncoder
  <2>3. writeBytes' = writeBytes
    BY <1>3
  <2>. HIDE DEF next
  <2>. QED
    BY <1>2, <1>3, <2>1, <2>2, <2>3, StayKeepsCInv DEF CacheTypeOK
<1>. QED
  BY <1>1, <1>5, <1>6, <1>7

LEMMA JudgeType ==
    \A record, key, charged : Judge(record, key, charged) \in Judgements
  BY DEF Judge, Judgements

(* A write charges at most what is left of the total.                      *)
LEMMA CallWriteKeepsCInv ==
    ASSUME CInv, NEW op \in Ops, CallWrite(op)
    PROVE  CInv'
<1>. USE DEF CInv
<1>1. /\ phase[op] = "running" /\ session[op] \in Sessions
      /\ task[op].kind = "write" /\ task[op].key \in Keys
      /\ opCount' \in [Sessions -> Nat]
      /\ \A s \in Sessions : opCount'[s] <= MaxOperations
      /\ WriteLimit(op) \in Nat
  BY ReservedOps DEF CallWrite
<1>2. task[op].record \in Records /\ task[op].record.bytes \in Nat
  BY <1>1, LimitsAreNat DEF TaskInv, Records
<1>. DEFINE s0 == session[op]
            charged == Chargeable(task[op].record, WriteLimit(op),
                                  MaxTotalWriteBytes, writeBytes[s0])
            spent == IF charged THEN task[op].record.bytes ELSE 0
            next == [task[op] EXCEPT !.step = "validating",
                                     !.limit = WriteLimit(op),
                                     !.judged = Judge(task[op].record,
                                                      task[op].key, charged)]
<1>3. /\ task' = [task EXCEPT ![op] = next]
      /\ writeBytes' = [writeBytes EXCEPT ![s0] = writeBytes[s0] + spent]
      /\ UNCHANGED <<queueVars, mode, readBytes, records>>
  BY DEF CallWrite
<1>4. spent \in Nat /\ writeBytes[s0] \in Nat
      /\ writeBytes[s0] + spent <= MaxTotalWriteBytes
  BY <1>1, <1>2 DEF Chargeable, CacheTypeOK, WithinLimits
<1>5. /\ writeBytes' \in [Sessions -> Nat]
      /\ WithinLimits'
      /\ \A s \in Sessions \ {session[op]} : writeBytes'[s] = writeBytes[s]
  BY <1>1, <1>3, <1>4 DEF WithinLimits, CacheTypeOK
<1>6. /\ next \in Tasks /\ next.step = "validating" /\ next.key = task[op].key
      /\ next.kind = "write" /\ next.record = task[op].record
  BY <1>1, JudgeType DEF CacheTypeOK, Tasks, Steps
<1>. HIDE DEF next, charged, spent
<1>. QED
  BY <1>1, <1>2, <1>3, <1>5, <1>6, StayKeepsCInv DEF CacheTypeOK

(* A read charges at most what is left when the record arrives.            *)
LEMMA CheckReadKeepsCInv ==
    ASSUME CInv, NEW op \in Ops, CheckRead(op)
    PROVE  CInv'
<1>. USE DEF CInv
<1>1. /\ phase[op] = "running" /\ session[op] \in Sessions
      /\ task[op].kind = "read" /\ task[op].step = "answered"
      /\ task[op].record \in Records /\ task[op].record.bytes \in Nat
  BY RunningHasSession, LimitsAreNat DEF CheckRead, Answered, Running, Records
<1>2. task[op].key \in Keys
  BY <1>1 DEF TaskInv
<1>. DEFINE s0 == session[op]
            charged == Chargeable(task[op].record, task[op].limit,
                                  MaxTotalReadBytes, readBytes[s0])
            spent == IF charged THEN task[op].record.bytes ELSE 0
            next == [task[op] EXCEPT !.step = "validating",
                                     !.judged = Judge(task[op].record,
                                                      task[op].key, charged)]
<1>3. /\ task' = [task EXCEPT ![op] = next]
      /\ readBytes' = [readBytes EXCEPT ![s0] = readBytes[s0] + spent]
      /\ UNCHANGED <<queueVars, mode, opCount, writeBytes, records>>
  BY DEF CheckRead
<1>4. spent \in Nat /\ readBytes[s0] \in Nat
      /\ readBytes[s0] + spent <= MaxTotalReadBytes
  BY <1>1 DEF Chargeable, CacheTypeOK, WithinLimits
<1>5. /\ readBytes' \in [Sessions -> Nat]
      /\ WithinLimits'
  BY <1>1, <1>3, <1>4 DEF WithinLimits, CacheTypeOK
<1>6. /\ next \in Tasks /\ next.step = "validating" /\ next.key = task[op].key
      /\ next.kind = "read"
  BY <1>1, JudgeType DEF CacheTypeOK, Tasks, Steps
<1>. HIDE DEF next, charged, spent
<1>. QED
  BY <1>1, <1>2, <1>3, <1>5, <1>6, StayKeepsCInv DEF CacheTypeOK

(* The encoder's payload fits what the session still has: nobody else of   *)
(* the session spent anything while the encoder was awaited.               *)
LEMMA FinishEncodingKeepsCInv ==
    ASSUME CInv, NEW op \in Ops, FinishEncoding(op)
    PROVE  CInv'
<1>. USE DEF CInv
<1>1. /\ phase[op] = "running" /\ session[op] \in Sessions
      /\ task[op].step = "encoding" /\ task[op].limit \in Nat
      /\ writeBytes[session[op]] + task[op].limit <= MaxTotalWriteBytes
  BY RunningHasSession
  DEF FinishEncoding, Running, PromiseInv, CacheTypeOK, Tasks
<1>2. task[op].key \in Keys
  BY <1>1 DEF TaskInv
<1>3. PICK b \in PayloadBytes :
          /\ b <= task[op].limit
          /\ writeBytes' = [writeBytes EXCEPT ![session[op]] = @ + b]
          /\ task' = [task EXCEPT
                         ![op].step = "validating",
                         ![op].judged = "ok",
                         ![op].record = [key |-> task[op].key, bytes |-> b,
                                         intact |-> TRUE]]
  BY DEF FinishEncoding
<1>. DEFINE payload == [key |-> task[op].key, bytes |-> b, intact |-> TRUE]
            next == [task[op] EXCEPT !.step = "validating", !.judged = "ok",
                                     !.record = payload]
<1>4. payload \in Records
  BY <1>2 DEF Records
<1>5. UNCHANGED <<queueVars, mode, opCount, readBytes, records>>
  BY DEF FinishEncoding
<1>6. b \in Nat /\ writeBytes[session[op]] \in Nat
  BY <1>1, LimitsAreNat DEF CacheTypeOK
<1>7. writeBytes[session[op]] + b <= MaxTotalWriteBytes
  BY <1>1, <1>3, <1>6, LimitsAreNat
<1>8. /\ writeBytes' \in [Sessions -> Nat]
      /\ WithinLimits'
      /\ \A s \in Sessions \ {session[op]} : writeBytes'[s] = writeBytes[s]
  BY <1>1, <1>3, <1>5, <1>6, <1>7 DEF WithinLimits, CacheTypeOK
<1>9. /\ next \in Tasks /\ next.step = "validating" /\ next.key = task[op].key
      /\ next.record \in Records
  <2>. HIDE DEF payload
  <2>. QED
    BY <1>4 DEF CacheTypeOK, Tasks, Steps, Judgements
<1>10. task' = [task EXCEPT ![op] = next]
  BY <1>3
<1>. HIDE DEF next
<1>. QED
  BY <1>1, <1>2, <1>5, <1>8, <1>9, <1>10, StayKeepsCInv DEF CacheTypeOK

(* The answers of the store, and the write a hashed record is handed to.   *)
LEMMA AnswerKeepsCInv ==
    ASSUME CInv, NEW op \in Ops, Running(op, "calling"),
           NEW j \in Judgements,
           NEW r \in Records \cup {NoRecord, MalformedRecord},
           Answer(op, j, r),
           task[op].kind = "write" => r \in Records,
           UNCHANGED <<queueVars, mode, Budgets>>,
           records' \in [Keys -> Records \cup {NoRecord, MalformedRecord}]
    PROVE  CInv'
<1>. USE DEF CInv
<1>. DEFINE next == [task[op] EXCEPT !.step = "answered", !.judged = j, !.record = r]
<1>1. /\ phase[op] = "running" /\ task[op].key \in Keys
  BY DEF Running, TaskInv
<1>2. /\ next \in Tasks /\ next.step = "answered" /\ next.key = task[op].key
      /\ next.kind = task[op].kind /\ next.record = r
  BY DEF CacheTypeOK, Tasks, Steps
<1>3. task' = [task EXCEPT ![op] = next]
  BY DEF Answer
<1>4. UNCHANGED <<opCount, readBytes, writeBytes>> /\ WithinLimits'
  BY DEF Budgets, WithinLimits
<1>. HIDE DEF next
<1>. QED
  BY <1>1, <1>2, <1>3, <1>4, StayKeepsCInv DEF CacheTypeOK

LEMMA StoreKeepsCInv ==
    ASSUME CInv, NEW op \in Ops,
           StoreReads(op) \/ StoreWrites(op) \/ StoreDeletes(op)
    PROVE  CInv'
<1>. USE DEF CInv
<1>1. Running(op, "calling") /\ UNCHANGED <<queueVars, mode, Budgets>>
  BY DEF StoreReads, StoreWrites, StoreDeletes
<1>2. task[op].key \in Keys /\ "ok" \in Judgements /\ "error" \in Judgements
  BY <1>1 DEF Running, TaskInv, Judgements
<1>3. records \in [Keys -> Records \cup {NoRecord, MalformedRecord}]
  BY DEF CacheTypeOK
<1>4. CASE StoreReads(op)
  <2>1. /\ task[op].kind = "read" /\ records' = records
        /\ \/ Answer(op, "ok", records[task[op].key])
           \/ Answer(op, "error", NoRecord)
    BY <1>4 DEF StoreReads
  <2>2. records[task[op].key] \in Records \cup {NoRecord, MalformedRecord}
    BY <1>2, <1>3
  <2>. QED
    BY <1>1, <1>2, <1>3, <2>1, <2>2, AnswerKeepsCInv
<1>5. CASE StoreWrites(op)
  <2>1. task[op].record \in Records
    BY <1>1, <1>2, <1>5 DEF StoreWrites, TaskInv, Running
  <2>2. /\ \/ Answer(op, "ok", task[op].record)
           \/ Answer(op, "error", task[op].record)
        /\ records' \in {records,
                         [records EXCEPT ![task[op].record.key] = task[op].record]}
    BY <1>5 DEF StoreWrites
  <2>3. records' \in [Keys -> Records \cup {NoRecord, MalformedRecord}]
    BY <1>3, <2>1, <2>2
  <2>. QED
    BY <1>1, <1>2, <2>1, <2>2, <2>3, AnswerKeepsCInv
<1>6. CASE StoreDeletes(op)
  <2>1. /\ task[op].kind = "delete"
        /\ Answer(op, "ok", NoRecord) \/ Answer(op, "error", NoRecord)
        /\ records' \in {records, [records EXCEPT ![task[op].key] = NoRecord]}
    BY <1>6 DEF StoreDeletes
  <2>2. records' \in [Keys -> Records \cup {NoRecord, MalformedRecord}]
    BY <1>3, <2>1
  <2>. QED
    BY <1>1, <1>2, <2>1, <2>2, AnswerKeepsCInv
<1>. QED
  BY <1>4, <1>5, <1>6

LEMMA CallStoreWriteKeepsCInv ==
    ASSUME CInv, NEW op \in Ops, CallStoreWrite(op)
    PROVE  CInv'
<1>. USE DEF CInv
<1>. DEFINE next == [task[op] EXCEPT !.step = "calling"]
<1>1. /\ phase[op] = "running" /\ task[op].step = "validating"
      /\ UNCHANGED <<queueVars, mode, opCount, readBytes, writeBytes, records>>
  BY DEF CallStoreWrite, Validated, Running, Budgets
<1>2. /\ next \in Tasks /\ next.step = "calling" /\ next.key = task[op].key
      /\ next.kind = task[op].kind /\ next.record = task[op].record
  BY DEF CacheTypeOK, Tasks, Steps
<1>3. task' = [task EXCEPT ![op] = next]
  BY DEF CallStoreWrite, At
<1>4. WithinLimits'
  BY <1>1 DEF WithinLimits
<1>5. /\ task[op].key \in Keys
      /\ task[op].kind \in {"write", "encode"} => task[op].record \in Records
  BY <1>1 DEF TaskInv
<1>. HIDE DEF next
<1>. QED
  BY <1>1, <1>2, <1>3, <1>4, <1>5, StayKeepsCInv DEF CacheTypeOK

-----------------------------------------------------------------------------
(* The steps of the queue: a task in its turn is not disturbed.            *)
LEMMA QueueOnlyKeepsCInv ==
    ASSUME CInv, QInv', NEW op \in Ops, QueueOnly(op)
    PROVE  CInv'
<1>. USE DEF CInv
<1>1. UNCHANGED <<mode, opCount, readBytes, writeBytes, records, task>>
  BY DEF QueueOnly, sessionVars
<1>2. \A o \in Ops :
          /\ phase'[o] = "new" => phase[o] = "new"
          /\ phase'[o] = "running" => phase[o] = "running" /\ session'[o] = session[o]
  BY DEF QueueOnly, Abort, RefuseAborted, AttachFails, TakeTurn, Acquire,
         CancelQueued, PassOn, QInv, QueueTypeOK, Phases
<1>3. CacheTypeOK' /\ WithinLimits'
  BY <1>1 DEF CacheTypeOK, WithinLimits, QInv
<1>4. TaskInv'
  BY <1>1, <1>2 DEF TaskInv
<1>5. PromiseInv'
  BY <1>1, <1>2 DEF PromiseInv, Running
<1>. QED
  BY <1>3, <1>4, <1>5

(* A step that gives its operation a task outside any call.                *)
LEMMA IdleTaskKeepsCInv ==
    ASSUME CInv, QInv', NEW op \in Ops, phase[op] # "running",
           NEW p \in {"queued", "running"}, phase' = [phase EXCEPT ![op] = p],
           \A o \in Ops \ {op} : session'[o] = session[o],
           NEW next \in Tasks, task' = [task EXCEPT ![op] = next],
           next.step \in {"none", "stopping", "keying"},
           next.kind = "write" /\ next.key \in Keys => next.record \in Records,
           UNCHANGED <<mode, Budgets, records>>
    PROVE  CInv'
<1>. USE DEF CInv
<1>1. /\ task'[op] = next /\ phase'[op] = p
      /\ \A o \in Ops \ {op} : task'[o] = task[o] /\ phase'[o] = phase[o]
      /\ task' \in [Ops -> Tasks]
      /\ UNCHANGED <<opCount, readBytes, writeBytes>>
  BY DEF CacheTypeOK, Budgets, QInv, QueueTypeOK
<1>2. CacheTypeOK' /\ WithinLimits'
  BY <1>1 DEF CacheTypeOK, WithinLimits, QInv
<1>3. TaskInv'
  BY <1>1 DEF TaskInv
<1>4. PromiseInv'
  BY <1>1 DEF PromiseInv, Running
<1>. QED
  BY <1>2, <1>3, <1>4

LEMMA BeginKeepsCInv ==
    ASSUME CInv, QInv', NEW op \in Ops, Begin(op)
    PROVE  CInv'
<1>. USE DEF CInv
<1>. DEFINE step == IF op \in aborted THEN "stopping" ELSE "keying"
            next == [task[op] EXCEPT !.step = step]
<1>1. /\ next \in Tasks /\ next.step \in {"none", "stopping", "keying"}
      /\ next.kind = task[op].kind /\ next.key = task[op].key
      /\ next.record = task[op].record
  BY DEF CacheTypeOK, Tasks, Steps
<1>2. task' = [task EXCEPT ![op] = next]
  BY DEF Begin, At
<1>3. /\ phase[op] # "running" /\ phase' = [phase EXCEPT ![op] = "running"]
      /\ UNCHANGED session
      /\ UNCHANGED <<mode, Budgets, records>>
  BY DEF Begin, Enter
<1>4. task[op].kind = "write" /\ task[op].key \in Keys => task[op].record \in Records
  BY DEF TaskInv
<1>. HIDE DEF next
<1>. QED
  BY <1>1, <1>2, <1>3, <1>4, IdleTaskKeepsCInv

LEMMA SubmitTaskKeepsCInv ==
    ASSUME CInv, QInv', NEW op \in Ops, NEW s \in Sessions, SubmitTask(op, s)
    PROVE  CInv'
<1>. USE DEF CInv
<1>1. /\ phase[op] # "running" /\ phase' = [phase EXCEPT ![op] = "queued"]
      /\ \A o \in Ops \ {op} : session'[o] = session[o]
      /\ UNCHANGED <<mode, Budgets, records>>
  BY DEF SubmitTask, Submit, TakeTurn, QInv, QueueTypeOK
<1>2. NoTask \in Tasks
  BY DEF NoTask, Tasks, Kinds, Steps, Judgements, Verdicts
<1>3. PICK k \in Keys \cup {MalformedKey} :
        \/ \E kind \in {"read", "delete", "encode"} :
              task' = [task EXCEPT ![op] = [NoTask EXCEPT !.kind = kind, !.key = k]]
        \/ \E r \in Supplied :
              /\ IF r = MalformedRecord THEN k = MalformedKey ELSE k = r.key
              /\ task' = [task EXCEPT ![op] =
                            [NoTask EXCEPT !.kind = "write", !.key = k, !.record = r]]
  BY DEF SubmitTask
<1>4. ASSUME NEW kind \in {"read", "delete", "encode"},
             task' = [task EXCEPT ![op] = [NoTask EXCEPT !.kind = kind, !.key = k]]
      PROVE  CInv'
  <2>. DEFINE next == [NoTask EXCEPT !.kind = kind, !.key = k]
  <2>1. next \in Tasks /\ next.step = "none" /\ next.kind # "write"
    BY <1>2 DEF NoTask, Tasks, Kinds
  <2>2. task' = [task EXCEPT ![op] = next]
    BY <1>4
  <2>. HIDE DEF next
  <2>. QED
    BY <1>1, <2>1, <2>2, IdleTaskKeepsCInv
<1>5. ASSUME NEW r \in Supplied,
             IF r = MalformedRecord THEN k = MalformedKey ELSE k = r.key,
             task' = [task EXCEPT ![op] =
                        [NoTask EXCEPT !.kind = "write", !.key = k, !.record = r]]
      PROVE  CInv'
  <2>. DEFINE next == [NoTask EXCEPT !.kind = "write", !.key = k, !.record = r]
  <2>1. r \in Records \cup {MalformedRecord}
    BY RecordsAssumption
  <2>2. next \in Tasks /\ next.step = "none" /\ next.record = r /\ next.key = k
    BY <1>2, <2>1 DEF NoTask, Tasks, Kinds
  <2>3. k \in Keys => r \in Records
    BY <1>5, <2>1, KeysAssumption
  <2>4. task' = [task EXCEPT ![op] = next]
    BY <1>5
  <2>. HIDE DEF next
  <2>. QED
    BY <1>1, <2>2, <2>3, <2>4, IdleTaskKeepsCInv
<1>. QED
  BY <1>3, <1>4, <1>5

-----------------------------------------------------------------------------
LEMMA CInvStep == CInv /\ [CacheNext]_cacheVars => CInv'
<1>. SUFFICES ASSUME CInv, [CacheNext]_cacheVars PROVE CInv'
  OBVIOUS
<1>1. QInv'
  BY CacheStepIsQueueStep, QInvStep DEF CInv
<1>2. CASE UNCHANGED cacheVars
  BY <1>1, <1>2 DEF CInv, CacheTypeOK, QInv, TaskInv, WithinLimits, PromiseInv,
                    Running, cacheVars, sessionVars, queueVars
<1>3. ASSUME NEW op \in Ops, Body(op) \/ External(op)
      PROVE  CInv'
  <2>1. CASE \/ CallRead(op) \/ CallDelete(op) \/ CallEncoder(op)
             \/ CallWrite(op) \/ CheckRead(op) \/ FinishEncoding(op)
             \/ StoreReads(op) \/ StoreWrites(op) \/ StoreDeletes(op)
             \/ CallStoreWrite(op)
    BY <2>1, CallsKeepCInv, CallWriteKeepsCInv, CheckReadKeepsCInv,
       FinishEncodingKeepsCInv, StoreKeepsCInv, CallStoreWriteKeepsCInv
  <2>2. CASE \/ StopAborted(op) \/ RefuseKey(op) \/ StopKeyed(op) \/ Bypass(op)
             \/ RefuseOperation(op) \/ RefuseEncode(op) \/ StopAnswered(op)
             \/ FinishMutation(op) \/ FinishMiss(op) \/ StopValidated(op)
             \/ FinishHit(op) \/ StopEncoding(op)
    BY <1>1, <2>2, SettlingSteps, SettleKeepsCInv
  <2>. QED
    BY <1>3, <2>1, <2>2 DEF Body, External
<1>4. ASSUME NEW op \in Ops, QueueOnly(op) \/ Begin(op)
      PROVE  CInv'
  BY <1>1, <1>4, QueueOnlyKeepsCInv, BeginKeepsCInv
<1>5. ASSUME NEW op \in Ops, NEW s \in Sessions, SubmitTask(op, s)
      PROVE  CInv'
  BY <1>1, <1>5, SubmitTaskKeepsCInv
<1>. QED
  BY <1>2, <1>3, <1>4, <1>5 DEF CacheNext

(* The inductive invariant of the session.                                 *)
THEOREM CacheInvariant == CacheSpec => []CInv
  BY CInvInit, CInvStep, PTL DEF CacheSpec

(* Type correctness, the limits included: no counter leaves Nat.           *)
THEOREM CacheTypeCorrect == CacheSpec => []CacheTypeOK
  BY CacheInvariant, PTL DEF CInv

(* The aggregate limits of a session are never exceeded.                   *)
THEOREM WithinLimitsHolds == CacheSpec => []WithinLimits
  BY CacheInvariant, PTL DEF CInv

-----------------------------------------------------------------------------
(* Integrity: whatever the store holds and however it fails, only intact   *)
(* records under their own key are delivered or stored, and an aborted     *)
(* operation calls nobody and succeeds at nothing.                         *)

\* The record of a task is intact, fits, and is the one its key names.
Sound(t) ==
    /\ t.record \in Records /\ t.record.key = t.key
    /\ t.record.intact /\ t.record.bytes <= MaxEntryBytes

\* A record that passed judgement is sound, and stays so on its way to the
\* store or to the caller; what mutates the store was let through by the mode.
Clean(op) ==
    LET t == task[op]
    IN /\ t.limit <= MaxEntryBytes
       /\ phase[op] \in {"new", "queued"} => t.verdict = "none"
       /\ t.verdict = "hit" => phase[op] = "settled" /\ Sound(t)
       /\ t.step = "validating" /\ t.judged = "ok" => Sound(t)
       /\ t.step = "calling" /\ t.kind \in {"write", "encode"} => Sound(t)
       /\ t.step \in {"encoding", "validating", "calling"} /\ t.kind # "read"
             => mode # "read-only"

CleanInv == \A op \in Ops : Clean(op)

-----------------------------------------------------------------------------
LEMMA LimitsBound ==
    ASSUME CacheTypeOK, NEW op \in Ops, session[op] \in Sessions
    PROVE  ReadLimit(op) <= MaxEntryBytes /\ WriteLimit(op) <= MaxEntryBytes
  BY LimitsAreNat DEF ReadLimit, WriteLimit, Stricter, CacheTypeOK

\* It is enough to look at the operation that takes the step.
LEMMA OthersStayClean ==
    ASSUME CleanInv, NEW op \in Ops, mode' = mode, Clean(op)',
           \A o \in Ops \ {op} : task'[o] = task[o] /\ phase'[o] = phase[o]
    PROVE  CleanInv'
<1>1. ASSUME NEW o \in Ops \ {op} PROVE Clean(o)'
  <2>1. Clean(o) /\ task'[o] = task[o] /\ phase'[o] = phase[o]
    BY DEF CleanInv
  <2>. QED
    BY <2>1 DEF Clean, Sound
<1>. QED
  BY <1>1 DEF CleanInv

(* A step that settles its operation.                                      *)
LEMMA SettleKeepsClean ==
    ASSUME CInv, CleanInv, NEW op \in Ops, NEW v \in Verdicts, Settle(op, v),
           v = "hit" => Sound(task[op]), mode' = mode
    PROVE  CleanInv'
<1>1. /\ phase' = [phase EXCEPT ![op] = "settled"]
      /\ task' = [task EXCEPT ![op].step = "ended", ![op].verdict = v]
  BY DEF Settle, Exit
<1>2. task \in [Ops -> Tasks] /\ phase \in [Ops -> Phases]
  BY DEF CInv, CacheTypeOK, QueueTypeOK
<1>3. /\ task'[op].step = "ended" /\ task'[op].verdict = v
      /\ task'[op].limit = task[op].limit /\ task'[op].record = task[op].record
      /\ task'[op].key = task[op].key /\ phase'[op] = "settled"
  BY <1>1, <1>2 DEF Tasks
<1>4. \A o \in Ops \ {op} : task'[o] = task[o] /\ phase'[o] = phase[o]
  BY <1>1, <1>2
<1>5. task[op].limit <= MaxEntryBytes
  BY DEF CleanInv, Clean
<1>6. Clean(op)'
  BY <1>3, <1>5 DEF Clean, Sound
<1>. QED
  BY <1>4, <1>6, OthersStayClean

(* A step of a running operation to its next await.                        *)
LEMMA StayKeepsClean ==
    ASSUME CInv, CleanInv, NEW op \in Ops, phase[op] = "running",
           phase' = phase, mode' = mode,
           \A o \in Ops \ {op} : task'[o] = task[o],
           task'[op].verdict = task[op].verdict,
           task'[op].limit <= MaxEntryBytes,
           task'[op].step = "validating" /\ task'[op].judged = "ok"
               => Sound(task'[op]),
           task'[op].step = "calling" /\ task'[op].kind \in {"write", "encode"}
               => Sound(task'[op]),
           task'[op].step \in {"encoding", "validating", "calling"}
               /\ task'[op].kind # "read" => mode # "read-only"
    PROVE  CleanInv'
<1>1. task[op].verdict # "hit"
  BY DEF CleanInv, Clean
<1>2. Clean(op)'
  BY <1>1 DEF Clean, Sound
<1>. QED
  BY <1>2, OthersStayClean

-----------------------------------------------------------------------------
LEMMA CallsKeepClean ==
    ASSUME CInv, CleanInv, NEW op \in Ops,
           CallRead(op) \/ CallDelete(op) \/ CallEncoder(op) \/ CallWrite(op)
    PROVE  CleanInv'
<1>1. /\ task \in [Ops -> Tasks] /\ CacheTypeOK
      /\ task[op].limit <= MaxEntryBytes
  BY DEF CInv, CacheTypeOK, CleanInv, Clean
<1>2. \E kind \in Kinds : Reserve(op, kind)
  BY DEF CallRead, CallDelete, CallEncoder, CallWrite, Kinds
<1>3. /\ phase[op] = "running" /\ task[op].key \in Keys
      /\ task[op].kind # "read" => mode # "read-only"
  BY <1>1, <1>2 DEF Reserve, Keyed, Running, Bypassed, Tasks
<1>4. session[op] \in Sessions
  BY <1>3, RunningHasSession DEF CInv
<1>5. ReadLimit(op) <= MaxEntryBytes /\ WriteLimit(op) <= MaxEntryBytes
  BY <1>1, <1>4, LimitsBound
<1>6. /\ phase' = phase /\ mode' = mode
      /\ \A o \in Ops \ {op} : task'[o] = task[o]
  BY <1>1 DEF CallRead, CallDelete, CallEncoder, CallWrite, At, queueVars
<1>7. CASE CallRead(op)
  <2>1. /\ task'[op].step = "calling" /\ task'[op].limit = ReadLimit(op)
        /\ task'[op].kind = "read" /\ task'[op].verdict = task[op].verdict
    BY <1>1, <1>7 DEF CallRead, Reserve, Tasks
  <2>. QED
    BY <1>3, <1>5, <1>6, <2>1, StayKeepsClean
<1>8. CASE CallDelete(op)
  <2>1. /\ task'[op].step = "calling" /\ task'[op].limit = task[op].limit
        /\ task'[op].kind = "delete" /\ task[op].kind = "delete"
        /\ task'[op].verdict = task[op].verdict
    BY <1>1, <1>8 DEF CallDelete, Reserve, At, Tasks
  <2>. QED
    BY <1>1, <1>3, <1>6, <2>1, StayKeepsClean
<1>9. CASE CallEncoder(op)
  <2>1. /\ task'[op].step = "encoding" /\ task'[op].limit = WriteLimit(op)
        /\ task'[op].kind = task[op].kind /\ task'[op].verdict = task[op].verdict
    BY <1>1, <1>9 DEF CallEncoder, Tasks
  <2>. QED
    BY <1>3, <1>5, <1>6, <2>1, StayKeepsClean
<1>10. CASE CallWrite(op)
  <2> DEFINE charged == Chargeable(task[op].record, WriteLimit(op),
                                   MaxTotalWriteBytes, writeBytes[session[op]])
  <2>1. /\ task'[op].step = "validating" /\ task'[op].limit = WriteLimit(op)
        /\ task'[op].kind = task[op].kind /\ task'[op].key = task[op].key
        /\ task'[op].record = task[op].record
        /\ task'[op].verdict = task[op].verdict
        /\ task'[op].judged = Judge(task[op].record, task[op].key, charged)
    BY <1>1, <1>10 DEF CallWrite, Tasks
  <2>2. task[op].record \in Records
    BY <1>3, <1>10 DEF CallWrite, Reserve, CInv, TaskInv
  <2>3. WriteLimit(op) \in Int
    BY <1>1, <1>4, LimitsAreNat DEF WriteLimit, Stricter, CacheTypeOK
  <2>4. task'[op].judged = "ok" =>
           /\ task[op].record.key = task[op].key /\ task[op].record.intact
           /\ task[op].record.bytes <= WriteLimit(op)
    BY <2>1 DEF Judge, Chargeable
  <2>5. task[op].record.bytes \in Nat
    BY <2>2, LimitsAreNat DEF Records
  <2>6. task'[op].judged = "ok" => Sound(task'[op])
    BY <1>5, <2>1, <2>2, <2>3, <2>4, <2>5, LimitsAreNat DEF Sound
  <2> HIDE DEF charged
  <2>. QED
    BY <1>3, <1>5, <1>6, <2>1, <2>6, StayKeepsClean
<1>. QED
  BY <1>7, <1>8, <1>9, <1>10

LEMMA CheckReadKeepsClean ==
    ASSUME CInv, CleanInv, NEW op \in Ops, CheckRead(op)
    PROVE  CleanInv'
<1> DEFINE charged == Chargeable(task[op].record, task[op].limit,
                                 MaxTotalReadBytes, readBytes[session[op]])
<1>1. /\ task \in [Ops -> Tasks] /\ task[op].limit <= MaxEntryBytes
      /\ task[op].limit \in Nat
  BY DEF CInv, CacheTypeOK, CleanInv, Clean, Tasks
<1>2. /\ phase[op] = "running" /\ task[op].kind = "read"
      /\ task[op].record \in Records
      /\ phase' = phase /\ mode' = mode
      /\ task' = [task EXCEPT ![op].step = "validating",
                              ![op].judged = Judge(task[op].record, task[op].key, charged)]
  BY DEF CheckRead, Answered, Running, queueVars
<1> HIDE DEF charged
<1>3. /\ task'[op].step = "validating" /\ task'[op].limit = task[op].limit
      /\ task'[op].kind = "read" /\ task'[op].key = task[op].key
      /\ task'[op].record = task[op].record /\ task'[op].verdict = task[op].verdict
      /\ task'[op].judged = Judge(task[op].record, task[op].key, charged)
      /\ \A o \in Ops \ {op} : task'[o] = task[o]
  BY <1>1, <1>2 DEF Tasks
<1>4. task[op].record.bytes \in Nat
  BY <1>2, LimitsAreNat DEF Records
<1>5. task'[op].judged = "ok" =>
         /\ task[op].record.key = task[op].key /\ task[op].record.intact
         /\ task[op].record.bytes <= task[op].limit
  BY <1>3 DEF Judge, Chargeable, charged
<1>6. task'[op].judged = "ok" => Sound(task'[op])
  BY <1>1, <1>2, <1>3, <1>4, <1>5, LimitsAreNat DEF Sound
<1>. QED
  BY <1>1, <1>2, <1>3, <1>6, StayKeepsClean

LEMMA FinishEncodingKeepsClean ==
    ASSUME CInv, CleanInv, NEW op \in Ops, FinishEncoding(op)
    PROVE  CleanInv'
<1>1. /\ task \in [Ops -> Tasks] /\ task[op].limit <= MaxEntryBytes
      /\ task[op].limit \in Nat
  BY DEF CInv, CacheTypeOK, CleanInv, Clean, Tasks
<1>2. PICK b \in PayloadBytes :
         /\ b <= task[op].limit
         /\ task' = [task EXCEPT ![op].step = "validating", ![op].judged = "ok",
                                 ![op].record = [key |-> task[op].key, bytes |-> b,
                                                 intact |-> TRUE]]
  BY DEF FinishEncoding
<1>3. /\ phase[op] = "running" /\ task[op].step = "encoding"
      /\ phase' = phase /\ mode' = mode
  BY DEF FinishEncoding, Running, queueVars
<1>4. task[op].key \in Keys
  BY <1>3 DEF CInv, TaskInv
<1>5. /\ task'[op].limit = task[op].limit /\ task'[op].key = task[op].key
      /\ task'[op].kind = task[op].kind /\ task'[op].verdict = task[op].verdict
      /\ task'[op].step = "validating"
      /\ task'[op].record = [key |-> task[op].key, bytes |-> b, intact |-> TRUE]
      /\ \A o \in Ops \ {op} : task'[o] = task[o]
  BY <1>1, <1>2 DEF Tasks
<1>6. [key |-> task[op].key, bytes |-> b, intact |-> TRUE] \in Records
  BY <1>4 DEF Records
<1>7. Sound(task'[op])
  BY <1>1, <1>2, <1>5, <1>6, LimitsAreNat DEF Sound
<1>8. task[op].kind # "read" => mode # "read-only"
  BY <1>3 DEF CleanInv, Clean
<1>. QED
  BY <1>1, <1>3, <1>5, <1>7, <1>8, StayKeepsClean

LEMMA StoreKeepsClean ==
    ASSUME CInv, CleanInv, NEW op \in Ops,
           StoreReads(op) \/ StoreWrites(op) \/ StoreDeletes(op)
    PROVE  CleanInv'
<1>1. task \in [Ops -> Tasks] /\ task[op].limit <= MaxEntryBytes
  BY DEF CInv, CacheTypeOK, CleanInv, Clean
<1>2. /\ phase[op] = "running" /\ phase' = phase /\ mode' = mode
      /\ \E judgement, record : Answer(op, judgement, record)
  BY DEF StoreReads, StoreWrites, StoreDeletes, Running, queueVars
<1>3. /\ task'[op].step = "answered" /\ task'[op].limit = task[op].limit
      /\ task'[op].verdict = task[op].verdict
      /\ \A o \in Ops \ {op} : task'[o] = task[o]
  BY <1>1, <1>2 DEF Answer, Tasks
<1>. QED
  BY <1>1, <1>2, <1>3, StayKeepsClean

LEMMA CallStoreWriteKeepsClean ==
    ASSUME CInv, CleanInv, NEW op \in Ops, CallStoreWrite(op)
    PROVE  CleanInv'
<1>1. task \in [Ops -> Tasks] /\ Clean(op)
  BY DEF CInv, CacheTypeOK, CleanInv
<1>2. /\ phase[op] = "running" /\ task[op].step = "validating"
      /\ task[op].judged = "ok" /\ task[op].kind # "read"
      /\ phase' = phase /\ mode' = mode
      /\ task' = [task EXCEPT ![op].step = "calling"]
  BY DEF CallStoreWrite, Validated, Running, At, queueVars
<1>3. /\ task'[op].step = "calling" /\ task'[op].limit = task[op].limit
      /\ task'[op].key = task[op].key /\ task'[op].record = task[op].record
      /\ task'[op].kind = task[op].kind /\ task'[op].verdict = task[op].verdict
      /\ \A o \in Ops \ {op} : task'[o] = task[o]
  BY <1>1, <1>2 DEF Tasks
<1>4. /\ Sound(task[op]) /\ mode # "read-only" /\ task[op].limit <= MaxEntryBytes
  BY <1>1, <1>2 DEF Clean
<1>5. Sound(task'[op])
  BY <1>3, <1>4 DEF Sound
<1>. QED
  BY <1>2, <1>3, <1>4, <1>5, StayKeepsClean

(* The steps of an operation that does not hold the turn.                  *)
LEMMA BeginKeepsClean ==
    ASSUME CInv, CleanInv, NEW op \in Ops, Begin(op)
    PROVE  CleanInv'
<1>1. /\ task \in [Ops -> Tasks] /\ phase \in [Ops -> Phases] /\ Clean(op)
  BY DEF CInv, CacheTypeOK, QueueTypeOK, CleanInv
<1>2. PICK step \in {"stopping", "keying"} : task' = [task EXCEPT ![op].step = step]
  BY DEF Begin, At
<1>3. /\ phase[op] = "queued" /\ phase' = [phase EXCEPT ![op] = "running"]
      /\ mode' = mode
  BY DEF Begin, Enter
<1>4. /\ task'[op].step = step /\ task'[op].limit = task[op].limit
      /\ task'[op].verdict = "none" /\ phase'[op] = "running"
      /\ \A o \in Ops \ {op} : task'[o] = task[o] /\ phase'[o] = phase[o]
  BY <1>1, <1>2, <1>3 DEF Tasks, Clean
<1>5. Clean(op)'
  BY <1>1, <1>4 DEF Clean
<1>. QED
  BY <1>3, <1>4, <1>5, OthersStayClean

LEMMA SubmitTaskKeepsClean ==
    ASSUME CInv, CleanInv, NEW op \in Ops, NEW s \in Sessions, SubmitTask(op, s)
    PROVE  CleanInv'
<1>1. /\ task \in [Ops -> Tasks] /\ phase \in [Ops -> Phases]
  BY DEF CInv, CacheTypeOK, QueueTypeOK
<1>2. /\ phase' = [phase EXCEPT ![op] = "queued"] /\ mode' = mode
  BY DEF SubmitTask, Submit
<1>3. PICK kind, key, record :
         \/ task' = [task EXCEPT ![op] = [NoTask EXCEPT !.kind = kind, !.key = key]]
         \/ task' = [task EXCEPT ![op] = [NoTask EXCEPT !.kind = kind, !.key = key,
                                                        !.record = record]]
  BY DEF SubmitTask
<1>4. /\ task'[op].step = "none" /\ task'[op].limit = 0 /\ task'[op].verdict = "none"
      /\ phase'[op] = "queued"
      /\ \A o \in Ops \ {op} : task'[o] = task[o] /\ phase'[o] = phase[o]
  BY <1>1, <1>2, <1>3 DEF NoTask
<1>5. Clean(op)'
  BY <1>4, LimitsAreNat DEF Clean
<1>. QED
  BY <1>2, <1>4, <1>5, OthersStayClean

LEMMA QueueOnlyKeepsClean ==
    ASSUME CInv, CleanInv, NEW op \in Ops, QueueOnly(op)
    PROVE  CleanInv'
<1>1. phase \in [Ops -> Phases] /\ Clean(op)
  BY DEF CInv, CacheTypeOK, QueueTypeOK, CleanInv
<1>2. /\ task' = task /\ mode' = mode
      /\ \/ phase' = phase
         \/ /\ phase[op] \in {"new", "queued"}
            /\ phase' = [phase EXCEPT ![op] = "settled"]
  BY DEF QueueOnly, sessionVars, Abort, RefuseAborted, AttachFails, TakeTurn, Acquire,
         CancelQueued, PassOn
<1>3. \A o \in Ops \ {op} : phase'[o] = phase[o]
  BY <1>1, <1>2
<1>4. Clean(op)'
  BY <1>1, <1>2 DEF Clean, Sound
<1>. QED
  BY <1>2, <1>3, <1>4, OthersStayClean

(* The steps that end an operation while it holds the turn.                *)
LEMMA EndsKeepClean ==
    ASSUME CInv, CleanInv, NEW op \in Ops,
           \/ StopAborted(op) \/ RefuseKey(op) \/ StopKeyed(op) \/ Bypass(op)
           \/ RefuseOperation(op) \/ RefuseEncode(op) \/ StopAnswered(op)
           \/ FinishMutation(op) \/ FinishMiss(op) \/ StopValidated(op)
           \/ StopEncoding(op) \/ FinishHit(op)
    PROVE  CleanInv'
<1>1. CASE FinishHit(op)
  <2>1. Sound(task[op])
    BY <1>1 DEF FinishHit, Validated, Running, CleanInv, Clean
  <2>. QED
    BY <1>1, <2>1, SettleKeepsClean DEF FinishHit, Verdicts
<1>2. CASE ~FinishHit(op)
  <2>1. task[op].judged \in Judgements
    BY DEF CInv, CacheTypeOK, Tasks
  <2>2. \E v \in Verdicts : Settle(op, v) /\ v # "hit"
    BY <1>2, <2>1 DEF StopAborted, RefuseKey, StopKeyed, Bypass, RefuseOperation,
       RefuseEncode, StopAnswered, FinishMutation, FinishMiss, StopValidated,
       StopEncoding, Verdicts, Judgements
  <2>3. mode' = mode
    BY <1>2 DEF StopAborted, RefuseKey, StopKeyed, Bypass, RefuseOperation,
       RefuseEncode, StopAnswered, FinishMutation, FinishMiss, StopValidated,
       StopEncoding
  <2>. QED
    BY <2>2, <2>3, SettleKeepsClean
<1>. QED
  BY <1>1, <1>2

-----------------------------------------------------------------------------
LEMMA CleanInit == CacheInit => CleanInv
<1>. SUFFICES ASSUME CacheInit, NEW op \in Ops PROVE Clean(op)
  BY DEF CleanInv
<1>1. task[op] = NoTask
  BY DEF CacheInit
<1>. QED
  BY <1>1, LimitsAreNat DEF Clean, NoTask

LEMMA CleanStep == CInv /\ CleanInv /\ [CacheNext]_cacheVars => CleanInv'
<1>. SUFFICES ASSUME CInv, CleanInv, [CacheNext]_cacheVars PROVE CleanInv'
  OBVIOUS
<1>1. CASE UNCHANGED cacheVars
  BY <1>1 DEF CleanInv, Clean, Sound, cacheVars, sessionVars, queueVars
<1>2. ASSUME NEW op \in Ops, Body(op) \/ External(op)
      PROVE  CleanInv'
  <2>1. CASE \/ CallRead(op) \/ CallDelete(op) \/ CallEncoder(op)
             \/ CallWrite(op) \/ CheckRead(op) \/ FinishEncoding(op)
             \/ StoreReads(op) \/ StoreWrites(op) \/ StoreDeletes(op)
             \/ CallStoreWrite(op)
    BY <2>1, CallsKeepClean, CheckReadKeepsClean, FinishEncodingKeepsClean,
       StoreKeepsClean, CallStoreWriteKeepsClean
  <2>2. CASE \/ StopAborted(op) \/ RefuseKey(op) \/ StopKeyed(op) \/ Bypass(op)
             \/ RefuseOperation(op) \/ RefuseEncode(op) \/ StopAnswered(op)
             \/ FinishMutation(op) \/ FinishMiss(op) \/ StopValidated(op)
             \/ StopEncoding(op) \/ FinishHit(op)
    BY <2>2, EndsKeepClean
  <2>. QED
    BY <1>2, <2>1, <2>2 DEF Body, External
<1>3. ASSUME NEW op \in Ops, QueueOnly(op) \/ Begin(op)
      PROVE  CleanInv'
  BY <1>3, QueueOnlyKeepsClean, BeginKeepsClean
<1>4. ASSUME NEW op \in Ops, NEW s \in Sessions, SubmitTask(op, s)
      PROVE  CleanInv'
  BY <1>4, SubmitTaskKeepsClean
<1>. QED
  BY <1>1, <1>2, <1>3, <1>4 DEF CacheNext

(* The second inductive invariant, relative to the first.                  *)
THEOREM CleanInvariant == CacheSpec => []CleanInv
  BY CacheInvariant, CleanInit, CleanStep, PTL DEF CacheSpec

-----------------------------------------------------------------------------
(* A hit is an intact record of the requested key within the entry limit,  *)
(* for any content of the store and any ceiling it ignores.                *)
THEOREM HitsAreIntact == CacheSpec => []HitIsIntact
<1>1. CleanInv => HitIsIntact
  BY DEF CleanInv, Clean, Sound, HitIsIntact
<1>. QED
  BY <1>1, CleanInvariant, PTL

(* What changes the records is a store call that was let through with a    *)
(* sound record, or a delete.                                              *)
LEMMA StoredIsSound ==
    ASSUME CInv, CleanInv, NEW op \in Ops, StoreWrites(op) \/ StoreDeletes(op),
           NEW k \in Keys, records'[k] # records[k]
    PROVE  /\ mode # "read-only"
           /\ \/ records'[k] = NoRecord
              \/ /\ records'[k] \in Records /\ records'[k].key = k
                 /\ records'[k].intact /\ records'[k].bytes <= MaxEntryBytes
<1>1. /\ task[op].step = "calling" /\ task[op].kind # "read" /\ Clean(op)
      /\ records \in [Keys -> Records \cup {NoRecord, MalformedRecord}]
  BY DEF StoreWrites, StoreDeletes, Running, CleanInv, CInv, CacheTypeOK
<1>2. mode # "read-only"
  BY <1>1 DEF Clean
<1>3. CASE StoreDeletes(op)
  <2>1. records' \in {records, [records EXCEPT ![task[op].key] = NoRecord]}
    BY <1>3 DEF StoreDeletes
  <2>2. records'[k] = NoRecord
    BY <1>1, <2>1
  <2>. QED
    BY <1>2, <2>2
<1>4. CASE StoreWrites(op)
  <2>1. Sound(task[op])
    BY <1>1, <1>4 DEF StoreWrites, Clean
  <2>2. records' \in {records, [records EXCEPT ![task[op].record.key] = task[op].record]}
    BY <1>4 DEF StoreWrites
  <2>3. records'[k] = task[op].record /\ task[op].record.key = k
    BY <1>1, <2>2
  <2>. QED
    BY <1>2, <2>1, <2>3 DEF Sound
<1>. QED
  BY <1>3, <1>4

LEMMA OnlyTheStoreChangesRecords ==
    ASSUME [CacheNext]_cacheVars, records' # records
    PROVE  \E op \in Ops : StoreWrites(op) \/ StoreDeletes(op)
<1>1. PICK op \in Ops :
         \/ QueueOnly(op) \/ (\E s \in Sessions : SubmitTask(op, s))
         \/ Begin(op) \/ Body(op) \/ External(op)
  BY DEF CacheNext, cacheVars, sessionVars
<1>2. Body(op) => UNCHANGED records
  BY DEF Body, StopAborted, RefuseKey, StopKeyed, Bypass, RefuseOperation,
     CallRead, CallDelete, CallWrite, CallEncoder, RefuseEncode, StopAnswered,
     FinishMutation, FinishMiss, CheckRead, StopValidated, FinishHit, CallStoreWrite
<1>3. QueueOnly(op) \/ (\E s \in Sessions : SubmitTask(op, s)) \/ Begin(op)
         => UNCHANGED records
  BY DEF QueueOnly, SubmitTask, Begin, sessionVars
<1>. QED
  BY <1>1, <1>2, <1>3 DEF External, StoreReads, StopEncoding, FinishEncoding

(* Sessions put only intact records that fit into the store, each under its *)
(* own key, and a read-only session changes nothing.                       *)
THEOREM StoreKeepsIntact == CacheSpec => StoreStaysIntact
<1>1. ASSUME CInv, CleanInv, [CacheNext]_cacheVars, NEW k \in Keys,
             records'[k] # records[k]
      PROVE  /\ mode # "read-only"
             /\ \/ records'[k] = NoRecord
                \/ /\ records'[k] \in Records /\ records'[k].key = k
                   /\ records'[k].intact /\ records'[k].bytes <= MaxEntryBytes
  <2>1. PICK op \in Ops : StoreWrites(op) \/ StoreDeletes(op)
    BY <1>1, OnlyTheStoreChangesRecords
  <2>. QED
    BY <1>1, <2>1, StoredIsSound
<1>2. CInv /\ CleanInv /\ [CacheNext]_cacheVars =>
         [\A k \in Keys :
             records'[k] # records[k] =>
                 /\ mode # "read-only"
                 /\ \/ records'[k] = NoRecord
                    \/ /\ records'[k] \in Records
                       /\ records'[k].key = k
                       /\ records'[k].intact
                       /\ records'[k].bytes <= MaxEntryBytes]_cacheVars
  BY <1>1
<1>. QED
  BY <1>2, CacheInvariant, CleanInvariant, PTL DEF CacheSpec, StoreStaysIntact

-----------------------------------------------------------------------------
(* A step concerns one operation: the others keep their task and phase.    *)
LEMMA OneOperationSteps ==
    ASSUME CInv, [CacheNext]_cacheVars, NEW op \in Ops,
           task'[op] # task[op] \/ phase'[op] # phase[op]
    PROVE  \/ QueueOnly(op) \/ (\E s \in Sessions : SubmitTask(op, s))
           \/ Begin(op) \/ Body(op) \/ External(op)
<1>1. task \in [Ops -> Tasks] /\ phase \in [Ops -> Phases]
  BY DEF CInv, CacheTypeOK, QueueTypeOK
<1>2. PICK o \in Ops :
         \/ QueueOnly(o) \/ (\E s \in Sessions : SubmitTask(o, s))
         \/ Begin(o) \/ Body(o) \/ External(o)
  BY DEF CacheNext, cacheVars, sessionVars, queueVars
<1>3. ASSUME o # op PROVE task'[op] = task[op] /\ phase'[op] = phase[op]
  <2>1. CASE QueueOnly(o)
    BY <1>1, <1>3, <2>1 DEF QueueOnly, sessionVars, Abort, RefuseAborted,
       AttachFails, TakeTurn, Acquire, CancelQueued, PassOn
  <2>2. CASE \E s \in Sessions : SubmitTask(o, s)
    BY <1>1, <1>3, <2>2 DEF SubmitTask, Submit
  <2>3. CASE Begin(o)
    BY <1>1, <1>3, <2>3 DEF Begin, At, Enter
  <2>4. CASE External(o)
    BY <1>1, <1>3, <2>4 DEF External, StoreReads, StoreWrites, StoreDeletes, Answer,
       StopEncoding, FinishEncoding, Settle, Exit, queueVars
  <2>5. CASE Body(o)
    BY <1>1, <1>3, <2>5 DEF Body, StopAborted, RefuseKey, StopKeyed, Bypass,
       RefuseOperation, CallRead, CallDelete, CallWrite, CallEncoder, RefuseEncode,
       StopAnswered, FinishMutation, FinishMiss, CheckRead, StopValidated, FinishHit,
       CallStoreWrite, Settle, At, Exit, queueVars
  <2>. QED
    BY <1>2, <2>1, <2>2, <2>3, <2>4, <2>5
<1>. QED
  BY <1>2, <1>3

(* The steps that open a call of the store look at the signal first.       *)
LEMMA CallersAreNotAborted ==
    ASSUME CInv, [CacheNext]_cacheVars, NEW op \in Ops,
           task[op].step # "calling", task'[op].step = "calling"
    PROVE  op \notin aborted
<1>1. task \in [Ops -> Tasks]
  BY DEF CInv, CacheTypeOK
<1>2. \/ QueueOnly(op) \/ (\E s \in Sessions : SubmitTask(op, s))
      \/ Begin(op) \/ Body(op) \/ External(op)
  BY OneOperationSteps
<1>3. QueueOnly(op) => task'[op].step # "calling"
  BY DEF QueueOnly, sessionVars
<1>4. (\E s \in Sessions : SubmitTask(op, s)) => task'[op].step = "none"
  BY <1>1 DEF SubmitTask, NoTask
<1>5. Begin(op) => task'[op].step \in {"stopping", "keying"}
  BY <1>1 DEF Begin, At, Tasks
<1>6. External(op) => task'[op].step \in {"answered", "ended", "validating"}
  BY <1>1 DEF External, StoreReads, StoreWrites, StoreDeletes, Answer,
     StopEncoding, FinishEncoding, Settle, Tasks
<1>7. CASE Body(op)
  <2>1. CASE CallRead(op) \/ CallDelete(op) \/ CallStoreWrite(op)
    BY <2>1 DEF CallRead, CallDelete, CallStoreWrite, Reserve, Keyed, Validated
  <2>2. CASE CallWrite(op) \/ CallEncoder(op) \/ CheckRead(op)
    BY <1>1, <2>2 DEF CallWrite, CallEncoder, CheckRead, Tasks
  <2>3. CASE \E v : Settle(op, v)
    BY <1>1, <2>3 DEF Settle, Tasks
  <2>. QED
    BY <1>7, <2>1, <2>2, <2>3 DEF Body, StopAborted, RefuseKey, StopKeyed, Bypass,
       RefuseOperation, RefuseEncode, StopAnswered, FinishMutation, FinishMiss,
       StopValidated, FinishHit
<1>. QED
  BY <1>2, <1>3, <1>4, <1>5, <1>6, <1>7

(* Once the signal has fired the operation opens no store call any more.   *)
THEOREM AbortedCallNobody == CacheSpec => NoCallAfterAbort
<1>1. CInv /\ [CacheNext]_cacheVars =>
         [\A op \in aborted :
             task[op].step # "calling" => task'[op].step # "calling"]_cacheVars
  <2>. SUFFICES ASSUME CInv, [CacheNext]_cacheVars, NEW op \in aborted,
                       task[op].step # "calling"
                PROVE  task'[op].step # "calling"
    OBVIOUS
  <2>1. op \in Ops
    BY SignalledAssumption DEF CInv, CacheTypeOK, QueueTypeOK
  <2>. QED
    BY <2>1, CallersAreNotAborted
<1>. QED
  BY <1>1, CacheInvariant, PTL DEF CacheSpec, NoCallAfterAbort

(* What an operation aborted before it settles may end with.               *)
LEMMA AbortedEndings ==
    ASSUME CInv, CleanInv, [CacheNext]_cacheVars, NEW op \in Ops, op \in aborted,
           phase[op] # "settled", phase'[op] = "settled"
    PROVE  task'[op].verdict \in {"none", "aborted", "invalid", "limit"}
<1>1. task \in [Ops -> Tasks] /\ phase \in [Ops -> Phases] /\ Clean(op)
  BY DEF CInv, CacheTypeOK, QueueTypeOK, CleanInv
<1>2. \/ QueueOnly(op) \/ (\E s \in Sessions : SubmitTask(op, s))
      \/ Begin(op) \/ Body(op) \/ External(op)
  BY OneOperationSteps
<1>3. CASE QueueOnly(op)
  <2>1. /\ task' = task
        /\ phase' = phase \/ phase[op] \in {"new", "queued"}
    BY <1>3 DEF QueueOnly, sessionVars, Abort, RefuseAborted, AttachFails, TakeTurn,
       Acquire, CancelQueued, PassOn
  <2>. QED
    BY <1>1, <2>1 DEF Clean
<1>4. CASE (\E s \in Sessions : SubmitTask(op, s)) \/ Begin(op)
  BY <1>1, <1>4 DEF SubmitTask, Submit, Begin, Enter
<1>5. CASE Body(op) \/ External(op)
  <2>1. ~UNCHANGED queueVars
    BY DEF queueVars
  <2>2. \E v \in {"aborted", "invalid", "limit"} : Settle(op, v)
    BY <1>5, <2>1 DEF Body, External, StopAborted, RefuseKey, StopKeyed, Bypass,
       RefuseOperation, CallRead, CallDelete, CallWrite, CallEncoder, RefuseEncode,
       StopAnswered, FinishMutation, FinishMiss, CheckRead, StopValidated, FinishHit,
       CallStoreWrite, StoreReads, StoreWrites, StoreDeletes, StopEncoding,
       FinishEncoding, Keyed, Reserve, Answered, Validated
  <2>. QED
    BY <1>1, <2>2 DEF Settle, Tasks
<1>. QED
  BY <1>2, <1>3, <1>4, <1>5

(* An operation aborted before it settles is never reported as a success.  *)
THEOREM AbortedFail == CacheSpec => AbortedNeverSucceeds
<1>1. CInv /\ CleanInv /\ [CacheNext]_cacheVars =>
         [\A op \in aborted :
             phase[op] # "settled" /\ phase'[op] = "settled"
                 => task'[op].verdict \in {"none", "aborted", "invalid", "limit"}]_cacheVars
  <2>. SUFFICES ASSUME CInv, CleanInv, [CacheNext]_cacheVars, NEW op \in aborted,
                       phase[op] # "settled", phase'[op] = "settled"
                PROVE  task'[op].verdict \in {"none", "aborted", "invalid", "limit"}
    OBVIOUS
  <2>1. op \in Ops
    BY SignalledAssumption DEF CInv, CacheTypeOK, QueueTypeOK
  <2>. QED
    BY <2>1, AbortedEndings
<1>. QED
  BY <1>1, CacheInvariant, CleanInvariant, PTL DEF CacheSpec, AbortedNeverSucceeds

(* Once its signal has fired, an operation calls nobody and does not        *)
(* succeed, at whichever of its awaits the signal fires.                    *)
THEOREM AbortHeeded == CacheSpec => AbortIsHeeded
  BY AbortedCallNobody, AbortedFail DEF AbortIsHeeded

-----------------------------------------------------------------------------
(***************************************************************************)
(* A sum over a finite set is the number of its units.  The sum of the     *)
(* model picks its elements in an order of its own; units are counted in   *)
(* none, so what FiniteSetTheorems knows of cardinalities is known of sums.*)
(* No induction rule that takes a predicate is needed: the subsets of a    *)
(* finite set at which an equation fails have a smallest one, because the  *)
(* order of strict subsets is well founded.                                *)
(***************************************************************************)
\* As many pairs as f says for each element of S.
Units(f, S) == {u \in S \X Nat : u[2] \in 1 .. f[u[1]]}

\* A family of subsets of a finite set has a member none of whose strict subsets
\* is in it.
LEMMA SmallestCounterexample ==
  ASSUME NEW S, IsFiniteSet(S), NEW T \in SUBSET SUBSET S, T # {}
  PROVE \E s \in T : \A t \in T : ~(t \subseteq s /\ t # s)
<1>1. T \subseteq FiniteSubsetsOf(S)
  BY FS_Subset DEF FiniteSubsetsOf
<1>2. \E s \in T : \A t \in T : <<t, s>> \notin StrictSubsetOrdering(S)
  BY <1>1, FS_StrictSubsetOrderingWellFounded, WFMin
<1> QED
  BY <1>2 DEF StrictSubsetOrdering

\* Nothing has no units.
LEMMA UnitsEmpty == ASSUME NEW f PROVE Units(f, {}) = {}
  BY DEF Units

\* One element more has as many units more as f says.
LEMMA UnitsRemove ==
  ASSUME NEW f, NEW S, \A s \in S : f[s] \in Nat, NEW x \in S,
         IsFiniteSet(Units(f, S \ {x}))
  PROVE /\ IsFiniteSet(Units(f, S))
        /\ Cardinality(Units(f, S)) = f[x] + Cardinality(Units(f, S \ {x}))
<1> DEFINE A == {x} \X (1 .. f[x])
           B == Units(f, S \ {x})
<1>1. /\ IsFiniteSet({x}) /\ Cardinality({x}) = 1
      /\ IsFiniteSet(1 .. f[x]) /\ Cardinality(1 .. f[x]) = f[x]
  <2>1. f[x] \in Nat
    OBVIOUS
  <2>2. IsFiniteSet(1 .. f[x]) /\ Cardinality(1 .. f[x]) = f[x]
    BY <2>1, FS_Interval
  <2> QED
    BY <2>2, FS_Singleton
<1>2. IsFiniteSet(A) /\ Cardinality(A) = f[x]
  <2>1. /\ IsFiniteSet({x} \X (1 .. f[x]))
        /\ Cardinality({x} \X (1 .. f[x])) = 1 * f[x]
    BY <1>1, FS_Product
  <2> QED
    BY <2>1
<1>3. A \cap B = {} /\ A \cup B = Units(f, S)
  BY DEF Units
<1>4. Cardinality(B) \in Nat
  BY FS_CardinalityType
<1> HIDE DEF A, B
<1>5. /\ IsFiniteSet(A \cup B)
      /\ Cardinality(A \cup B)
            = Cardinality(A) + Cardinality(B) - Cardinality(A \cap B)
  BY <1>2, FS_Union DEF B
<1>6. Cardinality(A \cap B) = 0
  BY <1>3, FS_EmptySet
<1>7. f[x] \in Nat
  OBVIOUS
<1>8. /\ IsFiniteSet(Units(f, S))
      /\ Cardinality(Units(f, S)) = Cardinality(A) + Cardinality(B) - Cardinality(A \cap B)
  BY <1>3, <1>5, Zenon
<1>9. Cardinality(Units(f, S)) = f[x] + Cardinality(B)
  BY <1>2, <1>4, <1>6, <1>7, <1>8
<1> QED
  BY <1>8, <1>9, Zenon DEF B

\* A finite set has finitely many units.
LEMMA UnitsFinite ==
  ASSUME NEW f, NEW S, IsFiniteSet(S), \A s \in S : f[s] \in Nat
  PROVE IsFiniteSet(Units(f, S)) /\ Cardinality(Units(f, S)) \in Nat
<1> DEFINE T == {s \in SUBSET S : ~IsFiniteSet(Units(f, s))}
<1>1. ASSUME T # {} PROVE FALSE
  <2>1. PICK s \in T : \A t \in T : ~(t \subseteq s /\ t # s)
    <3>1. T \in SUBSET SUBSET S
      OBVIOUS
    <3> HIDE DEF T
    <3> QED
      BY <1>1, <3>1, SmallestCounterexample
  <2>2. s # {}
    BY UnitsEmpty, FS_EmptySet
  <2>3. PICK x \in s : TRUE
    BY <2>2
  <2>4. IsFiniteSet(Units(f, s \ {x}))
    BY <2>1
  <2> QED
    BY <2>4, UnitsRemove
<1> QED
  BY <1>1, FS_CardinalityType

\* The sum is the number of units.
LEMMA SumIsUnits ==
  ASSUME NEW f, NEW S, IsFiniteSet(S), \A s \in S : f[s] \in Nat
  PROVE MapThenSumSet(LAMBDA s : f[s], S) = Cardinality(Units(f, S))
<1> DEFINE ch(s) == CHOOSE x \in s : TRUE
           next(g) == [s \in SUBSET S |-> IF s = {} THEN 0 ELSE f[ch(s)] + g[s \ {ch(s)}]]
           h == [s \in SUBSET S |-> Cardinality(Units(f, s))]
<1>1. MapThenSumSet(LAMBDA s : f[s], S) = (CHOOSE g : g = next(g))[S]
  BY DEF MapThenSumSet, MapThenFoldSet
<1>2. ASSUME NEW s \in SUBSET S, s # {}
      PROVE /\ ch(s) \in s
            /\ Cardinality(Units(f, s)) = f[ch(s)] + Cardinality(Units(f, s \ {ch(s)}))
  <2>1. ch(s) \in s
    BY <1>2
  <2>2. IsFiniteSet(s \ {ch(s)})
    BY FS_Subset
  <2> HIDE DEF ch
  <2>3. IsFiniteSet(Units(f, s \ {ch(s)}))
    BY <2>2, UnitsFinite
  <2> QED
    BY <2>1, <2>3, UnitsRemove
<1> HIDE DEF ch
<1>3. h = next(h)
  BY <1>2, UnitsEmpty, FS_EmptySet
<1>4. ASSUME NEW g, g = next(g) PROVE g[S] = Cardinality(Units(f, S))
  <2> DEFINE T == {s \in SUBSET S : g[s] # Cardinality(Units(f, s))}
  <2>1. ASSUME T # {} PROVE FALSE
    <3>1. PICK s \in T : \A t \in T : ~(t \subseteq s /\ t # s)
      <4>1. T \in SUBSET SUBSET S
        OBVIOUS
      <4> HIDE DEF T
      <4> QED
        BY <2>1, <4>1, SmallestCounterexample
    <3>2. g[s] = IF s = {} THEN 0 ELSE f[ch(s)] + g[s \ {ch(s)}]
      BY <1>4
    <3>3. s # {}
      BY <3>1, <3>2, UnitsEmpty, FS_EmptySet
    <3>4. g[s \ {ch(s)}] = Cardinality(Units(f, s \ {ch(s)}))
      BY <3>1, <3>3, <1>2
    <3> QED
      BY <3>1, <3>2, <3>3, <3>4, <1>2
  <2> QED
    BY <2>1
<1> HIDE DEF next, h
<1>5. (CHOOSE g : g = next(g)) = next(CHOOSE g : g = next(g))
  BY <1>3
<1> QED
  BY <1>1, <1>4, <1>5

(* One summand changes by no more than what is paid does: the sum stays    *)
(* within it.                                                              *)
LEMMA CostStep ==
  ASSUME NEW S, NEW f \in [S -> Nat], NEW g \in [S -> Nat], NEW x \in S,
         \A y \in S \ {x} : g[y] = f[y],
         NEW a \in Nat, NEW b \in Nat, g[x] + a <= f[x] + b,
         IsFiniteSet(Units(f, S)), Cardinality(Units(f, S)) <= a
  PROVE  IsFiniteSet(Units(g, S)) /\ Cardinality(Units(g, S)) <= b
<1>1. Units(f, S \ {x}) \subseteq Units(f, S)
  BY DEF Units
<1>2. IsFiniteSet(Units(f, S \ {x}))
  BY <1>1, FS_Subset
<1>3. Units(g, S \ {x}) = Units(f, S \ {x})
  BY DEF Units
<1>4. (\A s \in S : f[s] \in Nat) /\ (\A s \in S : g[s] \in Nat)
  OBVIOUS
<1>5. Cardinality(Units(f, S)) = f[x] + Cardinality(Units(f, S \ {x}))
  BY <1>2, <1>4, UnitsRemove
<1>6. /\ IsFiniteSet(Units(g, S))
      /\ Cardinality(Units(g, S)) = g[x] + Cardinality(Units(f, S \ {x}))
  BY <1>2, <1>3, <1>4, UnitsRemove
<1>7. Cardinality(Units(f, S \ {x})) \in Nat /\ f[x] \in Nat /\ g[x] \in Nat
  BY <1>2, FS_CardinalityType
<1> QED
  BY <1>5, <1>6, <1>7

\* The operations whose record a session has been charged for, as bytes read or
\* as bytes written: it is charged before the record reaches the store or a caller.
ReadOwed(op) ==
    LET t == task[op]
    IN t.kind = "read" /\ (t.verdict = "hit" \/ (t.step = "validating" /\ t.judged = "ok"))

WriteOwed(op) ==
    LET t == task[op]
    IN /\ t.kind \in {"write", "encode"}
       /\ \/ t.step \in {"calling", "answered"}
          \/ t.step = "validating" /\ t.judged = "ok"
          \/ t.verdict = "written" \/ t.judged = "error"

\* What the step of an operation says about its verdict, its judgement, and the
\* record it is charged for.
Told(op) ==
    LET t == task[op]
    IN /\ t.step \in {"none", "stopping", "keying", "encoding"} => t.judged = "ok"
       /\ t.step = "encoding" => t.kind = "encode"
       /\ phase[op] \in {"new", "queued"} => t.step = "none"
       /\ t.step # "ended" => t.verdict = "none"
       /\ t.verdict = "hit" => t.kind = "read"
       /\ ReadOwed(op) \/ WriteOwed(op) => t.record \in Records

\* What every operation costs a session.
ReadCost(s) ==
    [op \in Ops |-> IF session[op] = s /\ ReadOwed(op) THEN task[op].record.bytes ELSE 0]
WriteCost(s) ==
    [op \in Ops |-> IF session[op] = s /\ WriteOwed(op) THEN task[op].record.bytes ELSE 0]

\* Operations without end may be submitted; finitely many of them cost anything,
\* and together no more than what is paid.
Covered(cost, paid) ==
    /\ IsFiniteSet(Units(cost, Ops))
    /\ Cardinality(Units(cost, Ops)) <= paid

\* A session was charged for every byte it let through.
PaidInv ==
    /\ \A op \in Ops : Told(op)
    /\ \A s \in Sessions :
          Covered(ReadCost(s), readBytes[s]) /\ Covered(WriteCost(s), writeBytes[s])
    /\ IsFiniteSet({op \in Ops : phase[op] # "new"})

-----------------------------------------------------------------------------
LEMMA CostTypes ==
    ASSUME \A op \in Ops : Told(op)
    PROVE  \A s : ReadCost(s) \in [Ops -> Nat] /\ WriteCost(s) \in [Ops -> Nat]
<1>1. ASSUME NEW op \in Ops, ReadOwed(op) \/ WriteOwed(op)
      PROVE  task[op].record.bytes \in Nat
  BY <1>1, LimitsAreNat DEF Told, Records
<1>. QED
  BY <1>1 DEF ReadCost, WriteCost

\* It is enough to look at the operation that takes the step.
LEMMA PaidStepOf ==
    ASSUME CInv, CInv', PaidInv, NEW op \in Ops, Told(op)', phase'[op] # "new",
           \A o \in Ops \ {op} : /\ task'[o] = task[o] /\ phase'[o] = phase[o]
                                 /\ session'[o] = session[o],
           \A s \in Sessions :
               /\ ReadCost(s)'[op] + readBytes[s] <= ReadCost(s)[op] + readBytes'[s]
               /\ WriteCost(s)'[op] + writeBytes[s] <= WriteCost(s)[op] + writeBytes'[s]
    PROVE  PaidInv'
<1>1. ASSUME NEW o \in Ops PROVE Told(o)'
  <2>1. CASE o # op
    <3>1. Told(o) /\ task'[o] = task[o] /\ phase'[o] = phase[o]
      BY <2>1 DEF PaidInv
    <3>. QED
      BY <3>1 DEF Told, ReadOwed, WriteOwed
  <2>. QED
    BY <2>1
<1>2. ASSUME NEW s \in Sessions
      PROVE  Covered(ReadCost(s), readBytes[s])' /\ Covered(WriteCost(s), writeBytes[s])'
  <2>1. /\ readBytes[s] \in Nat /\ readBytes'[s] \in Nat
        /\ writeBytes[s] \in Nat /\ writeBytes'[s] \in Nat
    BY DEF CInv, CacheTypeOK
  <2>2. /\ ReadCost(s) \in [Ops -> Nat] /\ WriteCost(s) \in [Ops -> Nat]
    BY CostTypes DEF PaidInv
  <2>3. /\ ReadCost(s)' \in [Ops -> Nat] /\ WriteCost(s)' \in [Ops -> Nat]
    <3>1. ASSUME NEW o \in Ops, (ReadOwed(o) \/ WriteOwed(o))'
          PROVE  task'[o].record.bytes \in Nat
      BY <1>1, <3>1, LimitsAreNat DEF Told, Records
    <3>. QED
      BY <3>1 DEF ReadCost, WriteCost
  <2>4. \A o \in Ops \ {op} : /\ ReadCost(s)'[o] = ReadCost(s)[o]
                              /\ WriteCost(s)'[o] = WriteCost(s)[o]
    BY DEF ReadCost, WriteCost, ReadOwed, WriteOwed
  <2>5. /\ ReadCost(s)'[op] + readBytes[s] <= ReadCost(s)[op] + readBytes'[s]
        /\ WriteCost(s)'[op] + writeBytes[s] <= WriteCost(s)[op] + writeBytes'[s]
    OBVIOUS
  <2>6. Covered(ReadCost(s), readBytes[s]) /\ Covered(WriteCost(s), writeBytes[s])
    BY DEF PaidInv
  <2>. HIDE DEF ReadCost, WriteCost
  <2>7. Covered(ReadCost(s)', readBytes'[s])
    BY <2>1, <2>2, <2>3, <2>4, <2>5, <2>6, CostStep DEF Covered
  <2>8. Covered(WriteCost(s)', writeBytes'[s])
    BY <2>1, <2>2, <2>3, <2>4, <2>5, <2>6, CostStep DEF Covered
  <2>. QED
    BY <2>7, <2>8 DEF Covered
<1>3. IsFiniteSet({o \in Ops : phase[o] # "new"}')
  <2>1. {o \in Ops : phase[o] # "new"}' = {o \in Ops : phase[o] # "new"} \cup {op}
        \/ {o \in Ops : phase[o] # "new"}' = {o \in Ops : phase[o] # "new"}
    OBVIOUS
  <2>2. IsFiniteSet({o \in Ops : phase[o] # "new"})
    BY DEF PaidInv
  <2>. QED
    BY <2>1, <2>2, FS_AddElement
<1>. QED
  BY <1>1, <1>2, <1>3 DEF PaidInv

\* A step of a running operation to its next await, at which it is charged r
\* bytes read and w bytes written.
LEMMA StayKeepsPaid ==
    ASSUME CInv, CInv', PaidInv, NEW op \in Ops, phase[op] = "running",
           UNCHANGED queueVars, Told(op)',
           \A o \in Ops \ {op} : task'[o] = task[o],
           NEW r \in Nat, NEW w \in Nat,
           readBytes' = [readBytes EXCEPT ![session[op]] = @ + r],
           writeBytes' = [writeBytes EXCEPT ![session[op]] = @ + w],
           ReadOwed(op)' => \/ ReadOwed(op) /\ task'[op].record = task[op].record
                            \/ task'[op].record.bytes = r,
           WriteOwed(op)' => \/ WriteOwed(op) /\ task'[op].record = task[op].record
                             \/ task'[op].record.bytes = w
    PROVE  PaidInv'
<1>1. phase' = phase /\ session' = session
  BY DEF queueVars
<1>2. ASSUME NEW s \in Sessions
      PROVE  /\ ReadCost(s)'[op] + readBytes[s] <= ReadCost(s)[op] + readBytes'[s]
             /\ WriteCost(s)'[op] + writeBytes[s] <= WriteCost(s)[op] + writeBytes'[s]
  <2>1. readBytes \in [Sessions -> Nat] /\ writeBytes \in [Sessions -> Nat]
    BY DEF CInv, CacheTypeOK
  <2>2. Told(op) /\ Told(op)'
    BY DEF PaidInv
  <2>3. /\ ReadOwed(op) \/ WriteOwed(op) => task[op].record.bytes \in Nat
        /\ (ReadOwed(op) \/ WriteOwed(op))' => task'[op].record.bytes \in Nat
    BY <2>2, LimitsAreNat DEF Told, Records
  <2>4. /\ ReadCost(s)[op] = IF session[op] = s /\ ReadOwed(op)
                             THEN task[op].record.bytes ELSE 0
        /\ WriteCost(s)[op] = IF session[op] = s /\ WriteOwed(op)
                              THEN task[op].record.bytes ELSE 0
    BY DEF ReadCost, WriteCost
  <2>5. /\ ReadCost(s)'[op] = IF session[op] = s /\ ReadOwed(op)'
                              THEN task'[op].record.bytes ELSE 0
        /\ WriteCost(s)'[op] = IF session[op] = s /\ WriteOwed(op)'
                               THEN task'[op].record.bytes ELSE 0
    BY <1>1 DEF ReadCost, WriteCost
  <2>. HIDE DEF ReadCost, WriteCost, ReadOwed, WriteOwed
  <2>6. CASE session[op] = s
    BY <2>1, <2>3, <2>4, <2>5, <2>6
  <2>7. CASE session[op] # s
    BY <2>1, <2>4, <2>5, <2>7
  <2>. QED
    BY <2>6, <2>7
<1>. QED
  BY <1>1, <1>2, PaidStepOf

\* A step that settles its operation, which delivers what is paid for.
LEMMA SettleKeepsPaid ==
    ASSUME CInv, CInv', PaidInv, NEW op \in Ops, NEW v, Settle(op, v),
           UNCHANGED <<readBytes, writeBytes>>,
           v = "hit" => ReadOwed(op), v = "written" => WriteOwed(op)
    PROVE  PaidInv'
<1>1. /\ phase' = [phase EXCEPT ![op] = "settled"] /\ session' = session
      /\ task' = [task EXCEPT ![op].step = "ended", ![op].verdict = v]
  BY DEF Settle, Exit
<1>2. task \in [Ops -> Tasks] /\ phase \in [Ops -> Phases] /\ Told(op)
  BY DEF CInv, CacheTypeOK, QueueTypeOK, PaidInv
<1>3. /\ task'[op].step = "ended" /\ task'[op].verdict = v
      /\ task'[op].kind = task[op].kind /\ task'[op].record = task[op].record
      /\ task'[op].judged = task[op].judged /\ phase'[op] = "settled"
  BY <1>1, <1>2 DEF Tasks
<1>4. \A o \in Ops \ {op} : task'[o] = task[o] /\ phase'[o] = phase[o]
  BY <1>1, <1>2
<1>5. (ReadOwed(op)' => ReadOwed(op)) /\ (WriteOwed(op)' => WriteOwed(op))
  BY <1>3 DEF ReadOwed, WriteOwed
<1>6. Told(op)'
  <2>1. v = "hit" => task[op].kind = "read"
    BY DEF ReadOwed
  <2>2. (ReadOwed(op) \/ WriteOwed(op))' => task[op].record \in Records
    BY <1>2, <1>5 DEF Told
  <2>. QED
    BY <1>3, <2>1, <2>2 DEF Told
<1>7. ASSUME NEW s \in Sessions
      PROVE  /\ ReadCost(s)'[op] + readBytes[s] <= ReadCost(s)[op] + readBytes'[s]
             /\ WriteCost(s)'[op] + writeBytes[s] <= WriteCost(s)[op] + writeBytes'[s]
  <2>1. readBytes[s] \in Nat /\ writeBytes[s] \in Nat
    BY DEF CInv, CacheTypeOK
  <2>2. ReadOwed(op) \/ WriteOwed(op) => task[op].record.bytes \in Nat
    BY <1>2, LimitsAreNat DEF Told, Records
  <2>4. /\ ReadCost(s)[op] = IF session[op] = s /\ ReadOwed(op)
                             THEN task[op].record.bytes ELSE 0
        /\ WriteCost(s)[op] = IF session[op] = s /\ WriteOwed(op)
                              THEN task[op].record.bytes ELSE 0
    BY DEF ReadCost, WriteCost
  <2>5. /\ ReadCost(s)'[op] = IF session[op] = s /\ ReadOwed(op)'
                              THEN task[op].record.bytes ELSE 0
        /\ WriteCost(s)'[op] = IF session[op] = s /\ WriteOwed(op)'
                               THEN task[op].record.bytes ELSE 0
    BY <1>1, <1>3 DEF ReadCost, WriteCost
  <2>. QED
    BY <1>5, <2>1, <2>2, <2>4, <2>5
<1>. QED
  BY <1>1, <1>3, <1>4, <1>6, <1>7, PaidStepOf

\* The steps that end an operation.
LEMMA EndsKeepPaid ==
    ASSUME CInv, CInv', CleanInv, PaidInv, NEW op \in Ops,
           \/ StopAborted(op) \/ RefuseKey(op) \/ StopKeyed(op) \/ Bypass(op)
           \/ RefuseOperation(op) \/ RefuseEncode(op) \/ StopAnswered(op)
           \/ FinishMutation(op) \/ FinishMiss(op) \/ StopValidated(op)
           \/ StopEncoding(op) \/ FinishHit(op)
    PROVE  PaidInv'
<1>1. task[op].judged \in Judgements /\ task[op].kind \in Kinds
  BY DEF CInv, CacheTypeOK, Tasks
<1>2. UNCHANGED <<readBytes, writeBytes>>
  BY DEF StopAborted, RefuseKey, StopKeyed, Bypass, RefuseOperation, RefuseEncode,
     StopAnswered, FinishMutation, FinishMiss, StopValidated, StopEncoding, FinishHit,
     Budgets
<1>3. CASE FinishHit(op)
  <2>1. Settle(op, "hit") /\ ReadOwed(op)
    BY <1>3 DEF FinishHit, Validated, Running, ReadOwed
  <2>. QED
    BY <1>2, <2>1, SettleKeepsPaid
<1>4. CASE FinishMutation(op)
  <2>1. \/ Settle(op, "deleted")
        \/ Settle(op, "written") /\ WriteOwed(op)
    BY <1>1, <1>4 DEF FinishMutation, Answered, Running, WriteOwed, Kinds
  <2>. QED
    BY <1>2, <2>1, SettleKeepsPaid
<1>5. CASE ~FinishHit(op) /\ ~FinishMutation(op)
  <2>1. \E v : Settle(op, v) /\ v # "hit" /\ v # "written"
    BY <1>1, <1>5 DEF StopAborted, RefuseKey, StopKeyed, Bypass, RefuseOperation,
       RefuseEncode, StopAnswered, FinishMiss, StopValidated, StopEncoding, Judgements
  <2>. QED
    BY <1>2, <2>1, SettleKeepsPaid
<1>. QED
  BY <1>3, <1>4, <1>5

LEMMA NothingCharged ==
    ASSUME CInv
    PROVE  \A s : /\ readBytes = [readBytes EXCEPT ![s] = @ + 0]
                  /\ writeBytes = [writeBytes EXCEPT ![s] = @ + 0]
  BY DEF CInv, CacheTypeOK

LEMMA CallsKeepPaid ==
    ASSUME CInv, CInv', PaidInv, NEW op \in Ops,
           CallRead(op) \/ CallDelete(op) \/ CallEncoder(op)
    PROVE  PaidInv'
<1>1. task \in [Ops -> Tasks] /\ Told(op) /\ task[op].step = "keying"
      /\ phase[op] = "running"
  BY DEF CInv, CacheTypeOK, PaidInv, CallRead, CallDelete, CallEncoder, Reserve, Keyed,
     Running
<1>2. /\ UNCHANGED <<queueVars, readBytes, writeBytes>>
      /\ \A o \in Ops \ {op} : task'[o] = task[o]
  BY <1>1 DEF CallRead, CallDelete, CallEncoder, At
<1>3. /\ task'[op].kind = task[op].kind /\ task'[op].judged = task[op].judged
      /\ task'[op].verdict = task[op].verdict
      /\ \/ task'[op].step = "calling" /\ task[op].kind \in {"read", "delete"}
         \/ task'[op].step = "encoding" /\ task[op].kind = "encode"
  BY <1>1 DEF CallRead, CallDelete, CallEncoder, At, Tasks, Reserve
<1>4. ~ReadOwed(op)' /\ ~WriteOwed(op)'
  BY <1>1, <1>3 DEF ReadOwed, WriteOwed, Told
<1>5. Told(op)'
  BY <1>1, <1>2, <1>3, <1>4 DEF Told, queueVars
<1>. QED
  BY <1>1, <1>2, <1>4, <1>5, NothingCharged, StayKeepsPaid

LEMMA CallWriteKeepsPaid ==
    ASSUME CInv, CInv', PaidInv, NEW op \in Ops, CallWrite(op)
    PROVE  PaidInv'
<1>1. /\ task \in [Ops -> Tasks] /\ Told(op) /\ task[op].step = "keying"
      /\ phase[op] = "running" /\ task[op].kind = "write" /\ task[op].key \in Keys
  BY ReservedOps DEF CInv, CacheTypeOK, PaidInv, CallWrite, Reserve, Keyed, Running
<1>2. task[op].record \in Records /\ task[op].record.bytes \in Nat
  BY <1>1, LimitsAreNat DEF CInv, TaskInv, Records
<1>. DEFINE charged == Chargeable(task[op].record, WriteLimit(op),
                                  MaxTotalWriteBytes, writeBytes[session[op]])
            spent == IF charged THEN task[op].record.bytes ELSE 0
<1>3. /\ UNCHANGED <<queueVars, readBytes>>
      /\ \A o \in Ops \ {op} : task'[o] = task[o]
      /\ writeBytes' = [writeBytes EXCEPT ![session[op]] = @ + spent]
      /\ spent \in Nat
  BY <1>1, <1>2 DEF CallWrite
<1>4. /\ task'[op].kind = "write" /\ task'[op].step = "validating"
      /\ task'[op].judged = Judge(task[op].record, task[op].key, charged)
      /\ task'[op].verdict = task[op].verdict /\ task'[op].record = task[op].record
  BY <1>1 DEF CallWrite, Tasks
<1>5. /\ ~ReadOwed(op)'
      /\ WriteOwed(op)' => task'[op].record.bytes = spent
  BY <1>1, <1>4 DEF ReadOwed, WriteOwed, Told, Judge
<1>. HIDE DEF charged, spent
<1>6. Told(op)'
  BY <1>1, <1>2, <1>3, <1>4 DEF Told, queueVars
<1>. QED
  BY <1>1, <1>3, <1>5, <1>6, NothingCharged, StayKeepsPaid

LEMMA CheckReadKeepsPaid ==
    ASSUME CInv, CInv', PaidInv, NEW op \in Ops, CheckRead(op)
    PROVE  PaidInv'
<1>1. /\ task \in [Ops -> Tasks] /\ Told(op) /\ task[op].step = "answered"
      /\ phase[op] = "running" /\ task[op].kind = "read" /\ task[op].record \in Records
      /\ task[op].record.bytes \in Nat
  BY LimitsAreNat DEF CInv, CacheTypeOK, PaidInv, CheckRead, Answered, Running, Records
<1>. DEFINE charged == Chargeable(task[op].record, task[op].limit,
                                  MaxTotalReadBytes, readBytes[session[op]])
            spent == IF charged THEN task[op].record.bytes ELSE 0
<1>3. /\ UNCHANGED <<queueVars, writeBytes>>
      /\ \A o \in Ops \ {op} : task'[o] = task[o]
      /\ readBytes' = [readBytes EXCEPT ![session[op]] = @ + spent]
      /\ spent \in Nat
  BY <1>1 DEF CheckRead
<1>4. /\ task'[op].kind = "read" /\ task'[op].step = "validating"
      /\ task'[op].judged = Judge(task[op].record, task[op].key, charged)
      /\ task'[op].verdict = task[op].verdict /\ task'[op].record = task[op].record
  BY <1>1 DEF CheckRead, Tasks
<1>5. /\ ~WriteOwed(op)'
      /\ ReadOwed(op)' => task'[op].record.bytes = spent
  BY <1>1, <1>4 DEF ReadOwed, WriteOwed, Told, Judge
<1>. HIDE DEF charged, spent
<1>6. Told(op)'
  BY <1>1, <1>3, <1>4 DEF Told, queueVars
<1>. QED
  BY <1>1, <1>3, <1>5, <1>6, NothingCharged, StayKeepsPaid

LEMMA FinishEncodingKeepsPaid ==
    ASSUME CInv, CInv', PaidInv, NEW op \in Ops, FinishEncoding(op)
    PROVE  PaidInv'
<1>1. /\ task \in [Ops -> Tasks] /\ Told(op) /\ task[op].step = "encoding"
      /\ phase[op] = "running" /\ task[op].kind = "encode" /\ task[op].key \in Keys
  BY DEF CInv, CacheTypeOK, PaidInv, FinishEncoding, Running, Told, TaskInv
<1>2. PICK b \in PayloadBytes :
         /\ writeBytes' = [writeBytes EXCEPT ![session[op]] = @ + b]
         /\ task' = [task EXCEPT ![op].step = "validating", ![op].judged = "ok",
                                 ![op].record = [key |-> task[op].key, bytes |-> b,
                                                 intact |-> TRUE]]
  BY DEF FinishEncoding
<1>3. /\ UNCHANGED <<queueVars, readBytes>> /\ b \in Nat
      /\ \A o \in Ops \ {op} : task'[o] = task[o]
  BY <1>1, <1>2, LimitsAreNat DEF FinishEncoding
<1>4. /\ task'[op].kind = "encode" /\ task'[op].step = "validating"
      /\ task'[op].verdict = task[op].verdict
      /\ task'[op].record = [key |-> task[op].key, bytes |-> b, intact |-> TRUE]
  BY <1>1, <1>2 DEF Tasks
<1>5. task'[op].record.bytes = b /\ task'[op].record \in Records
  BY <1>1, <1>4 DEF Records
<1>6. ~ReadOwed(op)'
  BY <1>4 DEF ReadOwed
<1>7. Told(op)'
  BY <1>1, <1>3, <1>4, <1>5 DEF Told, queueVars
<1>. QED
  BY <1>1, <1>2, <1>3, <1>5, <1>6, <1>7, NothingCharged, StayKeepsPaid

LEMMA StoreKeepsPaid ==
    ASSUME CInv, CInv', PaidInv, NEW op \in Ops,
           StoreReads(op) \/ StoreWrites(op) \/ StoreDeletes(op)
    PROVE  PaidInv'
<1>1. /\ task \in [Ops -> Tasks] /\ Told(op) /\ task[op].step = "calling"
      /\ phase[op] = "running"
  BY DEF CInv, CacheTypeOK, PaidInv, StoreReads, StoreWrites, StoreDeletes, Running
<1>2. /\ UNCHANGED <<queueVars, readBytes, writeBytes>>
      /\ \E judgement, record : Answer(op, judgement, record)
  BY DEF StoreReads, StoreWrites, StoreDeletes, Budgets
<1>3. /\ task'[op].step = "answered" /\ task'[op].kind = task[op].kind
      /\ task'[op].verdict = task[op].verdict
      /\ \A o \in Ops \ {op} : task'[o] = task[o]
  BY <1>1, <1>2 DEF Answer, Tasks
<1>4. ~ReadOwed(op)'
  BY <1>1, <1>3 DEF ReadOwed, Told
<1>5. WriteOwed(op)' => WriteOwed(op) /\ task'[op].record = task[op].record
  <2>1. CASE StoreWrites(op)
    BY <1>1, <2>1 DEF StoreWrites, Answer, WriteOwed, Tasks
  <2>2. CASE StoreReads(op) \/ StoreDeletes(op)
    BY <1>3, <2>2 DEF StoreReads, StoreDeletes, WriteOwed
  <2>. QED
    BY <2>1, <2>2
<1>6. Told(op)'
  BY <1>1, <1>2, <1>3, <1>4, <1>5 DEF Told, queueVars
<1>. QED
  BY <1>1, <1>2, <1>3, <1>4, <1>5, <1>6, NothingCharged, StayKeepsPaid

LEMMA CallStoreWriteKeepsPaid ==
    ASSUME CInv, CInv', PaidInv, NEW op \in Ops, CallStoreWrite(op)
    PROVE  PaidInv'
<1>1. /\ task \in [Ops -> Tasks] /\ Told(op) /\ task[op].step = "validating"
      /\ task[op].judged = "ok" /\ phase[op] = "running" /\ task[op].kind # "read"
  BY DEF CInv, CacheTypeOK, PaidInv, CallStoreWrite, Validated, Running
<1>2. /\ UNCHANGED <<queueVars, readBytes, writeBytes>>
      /\ task'[op].step = "calling" /\ task'[op].kind = task[op].kind
      /\ task'[op].judged = "ok" /\ task'[op].record = task[op].record
      /\ task'[op].verdict = task[op].verdict
      /\ \A o \in Ops \ {op} : task'[o] = task[o]
  BY <1>1 DEF CallStoreWrite, At, Tasks, Budgets
<1>3. ~ReadOwed(op)' /\ (WriteOwed(op)' => WriteOwed(op))
  BY <1>1, <1>2 DEF ReadOwed, WriteOwed
<1>4. Told(op)'
  BY <1>1, <1>2, <1>3 DEF Told, queueVars
<1>. QED
  BY <1>1, <1>2, <1>3, <1>4, NothingCharged, StayKeepsPaid

\* The steps of an operation that does not hold the turn: it owes nothing.
LEMMA IdleKeepsPaid ==
    ASSUME CInv, CInv', PaidInv, NEW op \in Ops,
           UNCHANGED <<readBytes, writeBytes>>,
           Told(op), Told(op)', phase'[op] # "new",
           task[op].step = "none" /\ task'[op].step \in {"none", "stopping", "keying"},
           \A o \in Ops \ {op} : /\ task'[o] = task[o] /\ phase'[o] = phase[o]
                                 /\ session'[o] = session[o]
    PROVE  PaidInv'
<1>1. /\ ~ReadOwed(op) /\ ~WriteOwed(op) /\ ~ReadOwed(op)' /\ ~WriteOwed(op)'
  BY DEF Told, ReadOwed, WriteOwed
<1>2. ASSUME NEW s \in Sessions
      PROVE  /\ ReadCost(s)'[op] + readBytes[s] <= ReadCost(s)[op] + readBytes'[s]
             /\ WriteCost(s)'[op] + writeBytes[s] <= WriteCost(s)[op] + writeBytes'[s]
  <2>1. /\ ReadCost(s)[op] = 0 /\ WriteCost(s)[op] = 0
        /\ ReadCost(s)'[op] = 0 /\ WriteCost(s)'[op] = 0
    BY <1>1 DEF ReadCost, WriteCost
  <2>2. readBytes[s] \in Nat /\ writeBytes[s] \in Nat
    BY DEF CInv, CacheTypeOK
  <2>. QED
    BY <2>1, <2>2
<1>. QED
  BY <1>2, PaidStepOf

LEMMA BeginKeepsPaid ==
    ASSUME CInv, CInv', PaidInv, NEW op \in Ops, Begin(op)
    PROVE  PaidInv'
<1>1. /\ task \in [Ops -> Tasks] /\ phase \in [Ops -> Phases] /\ Told(op)
      /\ phase[op] = "queued"
  BY DEF CInv, CacheTypeOK, QueueTypeOK, PaidInv, Begin, Enter
<1>2. PICK step \in {"stopping", "keying"} : task' = [task EXCEPT ![op].step = step]
  BY DEF Begin, At
<1>3. /\ phase' = [phase EXCEPT ![op] = "running"] /\ session' = session
      /\ UNCHANGED <<readBytes, writeBytes>>
  BY DEF Begin, Enter, Budgets
<1>4. /\ task[op].step = "none" /\ task'[op].step = step
      /\ task'[op].judged = task[op].judged /\ task'[op].verdict = task[op].verdict
      /\ task'[op].kind = task[op].kind /\ phase'[op] = "running"
      /\ \A o \in Ops \ {op} : task'[o] = task[o] /\ phase'[o] = phase[o]
  BY <1>1, <1>2, <1>3 DEF Tasks, Told
<1>5. Told(op)'
  BY <1>1, <1>4 DEF Told, ReadOwed, WriteOwed
<1>. QED
  BY <1>1, <1>3, <1>4, <1>5, IdleKeepsPaid

LEMMA SubmitTaskKeepsPaid ==
    ASSUME CInv, CInv', PaidInv, NEW op \in Ops, NEW s \in Sessions, SubmitTask(op, s)
    PROVE  PaidInv'
<1>1. /\ task \in [Ops -> Tasks] /\ phase \in [Ops -> Phases]
      /\ session \in [Ops -> Sessions \cup {NoSession}] /\ Told(op) /\ phase[op] = "new"
  BY DEF CInv, CacheTypeOK, QueueTypeOK, PaidInv, SubmitTask, Submit, TakeTurn
<1>2. /\ phase' = [phase EXCEPT ![op] = "queued"]
      /\ session' = [session EXCEPT ![op] = s]
      /\ UNCHANGED <<readBytes, writeBytes>>
  BY DEF SubmitTask, Submit, TakeTurn, Budgets
<1>3. PICK kind, key, record :
         \/ task' = [task EXCEPT ![op] = [NoTask EXCEPT !.kind = kind, !.key = key]]
         \/ task' = [task EXCEPT ![op] = [NoTask EXCEPT !.kind = kind, !.key = key,
                                                        !.record = record]]
  BY DEF SubmitTask
<1>4. /\ task[op].step = "none" /\ task'[op].step = "none" /\ task'[op].judged = "ok"
      /\ task'[op].verdict = "none" /\ phase'[op] = "queued"
      /\ \A o \in Ops \ {op} : /\ task'[o] = task[o] /\ phase'[o] = phase[o]
                               /\ session'[o] = session[o]
  BY <1>1, <1>2, <1>3 DEF NoTask, Told
<1>5. Told(op)'
  BY <1>4 DEF Told, ReadOwed, WriteOwed
<1>. QED
  BY <1>1, <1>2, <1>4, <1>5, IdleKeepsPaid

LEMMA QueueOnlyKeepsPaid ==
    ASSUME CInv, CInv', PaidInv, NEW op \in Ops, QueueOnly(op)
    PROVE  PaidInv'
<1>1. /\ phase \in [Ops -> Phases] /\ session \in [Ops -> Sessions \cup {NoSession}]
      /\ Told(op) /\ task' = task /\ UNCHANGED <<readBytes, writeBytes>>
  BY DEF CInv, CacheTypeOK, QueueTypeOK, PaidInv, QueueOnly, sessionVars
<1>2. CASE phase' = phase /\ session' = session
  BY <1>1, <1>2 DEF PaidInv, Told, ReadCost, WriteCost, ReadOwed, WriteOwed, Covered
<1>3. CASE ~(phase' = phase /\ session' = session)
  <2>1. /\ phase[op] \in {"new", "queued"}
        /\ phase' = [phase EXCEPT ![op] = "settled"]
        /\ \A o \in Ops \ {op} : session'[o] = session[o]
    BY <1>1, <1>3 DEF QueueOnly, Abort, RefuseAborted, AttachFails, TakeTurn, Acquire,
       CancelQueued, PassOn
  <2>2. Told(op)' /\ task[op].step = "none" /\ phase'[op] = "settled"
    BY <1>1, <2>1 DEF Told, ReadOwed, WriteOwed
  <2>. QED
    BY <1>1, <2>1, <2>2, IdleKeepsPaid
<1>. QED
  BY <1>2, <1>3

\* Nothing has been let through at first.
LEMMA PaidInit == CacheInit => PaidInv
<1>. SUFFICES ASSUME CacheInit PROVE PaidInv
  OBVIOUS
<1>1. \A op \in Ops : task[op] = NoTask /\ phase[op] = "new"
  BY DEF CacheInit, QueueInit
<1>2. \A op \in Ops : ~ReadOwed(op) /\ ~WriteOwed(op)
  BY <1>1 DEF ReadOwed, WriteOwed, NoTask
<1>3. \A op \in Ops : Told(op)
  BY <1>1, <1>2 DEF Told, NoTask
<1>4. ASSUME NEW s \in Sessions
      PROVE  Covered(ReadCost(s), readBytes[s]) /\ Covered(WriteCost(s), writeBytes[s])
  <2>1. Units(ReadCost(s), Ops) = {} /\ Units(WriteCost(s), Ops) = {}
    BY <1>2 DEF Units, ReadCost, WriteCost
  <2>2. readBytes[s] = 0 /\ writeBytes[s] = 0
    BY DEF CacheInit
  <2>. QED
    BY <2>1, <2>2, FS_EmptySet DEF Covered
<1>5. {op \in Ops : phase[op] # "new"} = {}
  BY <1>1
<1>. QED
  BY <1>3, <1>4, <1>5, FS_EmptySet DEF PaidInv

\* Every step keeps the accounts.
LEMMA PaidStep == CInv /\ CInv' /\ CleanInv /\ PaidInv /\ [CacheNext]_cacheVars => PaidInv'
<1>. SUFFICES ASSUME CInv, CInv', CleanInv, PaidInv, [CacheNext]_cacheVars PROVE PaidInv'
  OBVIOUS
<1>1. CASE UNCHANGED cacheVars
  BY <1>1 DEF PaidInv, Told, ReadCost, WriteCost, ReadOwed, WriteOwed, Covered, cacheVars,
     sessionVars, queueVars
<1>2. ASSUME NEW op \in Ops, Body(op) \/ External(op)
      PROVE  PaidInv'
  <2>1. CASE \/ CallRead(op) \/ CallDelete(op) \/ CallEncoder(op)
             \/ CallWrite(op) \/ CheckRead(op) \/ FinishEncoding(op)
             \/ StoreReads(op) \/ StoreWrites(op) \/ StoreDeletes(op)
             \/ CallStoreWrite(op)
    BY <2>1, CallsKeepPaid, CallWriteKeepsPaid, CheckReadKeepsPaid,
       FinishEncodingKeepsPaid, StoreKeepsPaid, CallStoreWriteKeepsPaid
  <2>2. CASE \/ StopAborted(op) \/ RefuseKey(op) \/ StopKeyed(op) \/ Bypass(op)
             \/ RefuseOperation(op) \/ RefuseEncode(op) \/ StopAnswered(op)
             \/ FinishMutation(op) \/ FinishMiss(op) \/ StopValidated(op)
             \/ StopEncoding(op) \/ FinishHit(op)
    BY <2>2, EndsKeepPaid
  <2>. QED
    BY <1>2, <2>1, <2>2 DEF Body, External
<1>3. ASSUME NEW op \in Ops, QueueOnly(op) \/ Begin(op)
      PROVE  PaidInv'
  BY <1>3, QueueOnlyKeepsPaid, BeginKeepsPaid
<1>4. ASSUME NEW op \in Ops, NEW s \in Sessions, SubmitTask(op, s)
      PROVE  PaidInv'
  BY <1>4, SubmitTaskKeepsPaid
<1>. QED
  BY <1>1, <1>2, <1>3, <1>4 DEF CacheNext

(* The inductive invariant of the accounts: the cost of the operations of a  *)
(* session, those in flight included, never exceeds its counters, although   *)
(* an operation is charged at one step and delivers at another.              *)
THEOREM PaidInvariant == CacheSpec => []PaidInv
<1>1. CInv /\ CleanInv /\ PaidInv /\ [CacheNext]_cacheVars => PaidInv'
  BY CInvStep, PaidStep
<1>. QED
  BY <1>1, CacheInvariant, CleanInvariant, PaidInit, PTL DEF CacheSpec

\* The sum of the model is the number of units.
LEMMA BytesAreUnits ==
    ASSUME NEW ops \in SUBSET Ops, IsFiniteSet(ops),
           \A op \in ops : task[op].record.bytes \in Nat
    PROVE  BytesOf(ops) =
              Cardinality(Units([op \in ops |-> task[op].record.bytes], ops))
<1>. DEFINE f == [op \in ops |-> task[op].record.bytes]
            one(s) == CHOOSE x \in s : TRUE
            sum(g) == [s \in SUBSET ops |->
                          IF s = {} THEN 0 ELSE f[one(s)] + g[s \ {one(s)}]]
            bytes(g) == [s \in SUBSET ops |->
                            IF s = {} THEN 0
                            ELSE task[one(s)].record.bytes + g[s \ {one(s)}]]
<1>1. MapThenSumSet(LAMBDA op : f[op], ops) = (CHOOSE g : g = sum(g))[ops]
  BY DEF MapThenSumSet, MapThenFoldSet
<1>2. BytesOf(ops) = (CHOOSE g : g = bytes(g))[ops]
  BY DEF MapThenSumSet, MapThenFoldSet, BytesOf
<1>3. ASSUME NEW g PROVE sum(g) = bytes(g)
  OBVIOUS
<1>4. \A op \in ops : f[op] \in Nat
  OBVIOUS
<1>. HIDE DEF sum, bytes, f
<1>5. (CHOOSE g : g = sum(g)) = (CHOOSE g : g = bytes(g))
  BY <1>3
<1>6. BytesOf(ops) = Cardinality(Units(f, ops))
  BY <1>1, <1>2, <1>4, <1>5, SumIsUnits
<1>. QED
  BY <1>6 DEF f

\* What a set of operations of a session carries is part of its cost.
LEMMA BytesWithin ==
    ASSUME CInv, NEW cost \in [Ops -> Nat], NEW paid \in Nat, Covered(cost, paid),
           IsFiniteSet({op \in Ops : phase[op] # "new"}), NEW ops \in SUBSET Ops,
           \A op \in ops : phase[op] # "new" /\ cost[op] = task[op].record.bytes
    PROVE  BytesOf(ops) <= paid
<1>1. IsFiniteSet(ops)
  <2>1. ops \subseteq {op \in Ops : phase[op] # "new"}
    OBVIOUS
  <2>. QED
    BY <2>1, FS_Subset
<1>2. BytesOf(ops) = Cardinality(Units([op \in ops |-> task[op].record.bytes], ops))
  <2>1. \A op \in ops : task[op].record.bytes \in Nat
    OBVIOUS
  <2>. QED
    BY <1>1, <2>1, BytesAreUnits
<1>3. Units([op \in ops |-> task[op].record.bytes], ops) \subseteq Units(cost, Ops)
  BY DEF Units
<1>4. /\ Cardinality(Units([op \in ops |-> task[op].record.bytes], ops)) \in Nat
      /\ Cardinality(Units(cost, Ops)) \in Nat
      /\ Cardinality(Units([op \in ops |-> task[op].record.bytes], ops))
            <= Cardinality(Units(cost, Ops))
  BY <1>3, FS_Subset, FS_CardinalityType DEF Covered
<1>. QED
  BY <1>2, <1>4 DEF Covered

(* No byte is read or written without having been charged to the total of    *)
(* its session: hits against bytes read, puts (handed to the store, written, *)
(* or failed with an unknown outcome) against bytes written.                 *)
THEOREM BytesArePaid == CacheSpec => []EveryBytePaid
<1>1. CInv /\ PaidInv => EveryBytePaid
  <2>. SUFFICES ASSUME CInv, PaidInv, NEW s \in Sessions
                PROVE  LET mine == {op \in Ops : session[op] = s}
                           hits == {op \in mine : task[op].verdict = "hit"}
                           puts == {op \in mine :
                                       /\ task[op].kind \in {"write", "encode"}
                                       /\ \/ task[op].step \in {"calling", "answered"}
                                          \/ task[op].verdict = "written"
                                          \/ task[op].judged = "error"}
                       IN BytesOf(hits) <= readBytes[s] /\ BytesOf(puts) <= writeBytes[s]
    BY DEF EveryBytePaid
  <2>. DEFINE hits == {op \in {o \in Ops : session[o] = s} : task[op].verdict = "hit"}
              puts == {op \in {o \in Ops : session[o] = s} :
                          /\ task[op].kind \in {"write", "encode"}
                          /\ \/ task[op].step \in {"calling", "answered"}
                             \/ task[op].verdict = "written"
                             \/ task[op].judged = "error"}
  <2>1. \A op \in Ops : Told(op) /\ (phase[op] = "new" => task[op] = NoTask)
    BY DEF PaidInv, CInv, TaskInv
  <2>2. /\ \A op \in hits : ReadOwed(op) /\ session[op] = s
        /\ \A op \in puts : WriteOwed(op) /\ session[op] = s
    BY <2>1 DEF Told, ReadOwed, WriteOwed
  <2>3. \A op \in hits \cup puts : phase[op] # "new"
    BY <2>1 DEF NoTask
  <2>4. /\ \A op \in hits : ReadCost(s)[op] = task[op].record.bytes
        /\ \A op \in puts : WriteCost(s)[op] = task[op].record.bytes
    BY <2>2 DEF ReadCost, WriteCost
  <2>5. /\ ReadCost(s) \in [Ops -> Nat] /\ WriteCost(s) \in [Ops -> Nat]
        /\ readBytes[s] \in Nat /\ writeBytes[s] \in Nat
        /\ Covered(ReadCost(s), readBytes[s]) /\ Covered(WriteCost(s), writeBytes[s])
        /\ IsFiniteSet({op \in Ops : phase[op] # "new"})
    BY CostTypes DEF PaidInv, CInv, CacheTypeOK
  <2>6. hits \in SUBSET Ops /\ puts \in SUBSET Ops
    OBVIOUS
  <2>. HIDE DEF hits, puts
  <2>7. BytesOf(hits) <= readBytes[s]
    BY <2>3, <2>4, <2>5, <2>6, BytesWithin
  <2>8. BytesOf(puts) <= writeBytes[s]
    BY <2>3, <2>4, <2>5, <2>6, BytesWithin
  <2>. QED
    BY <2>7, <2>8 DEF hits, puts
<1>. QED
  BY <1>1, CacheInvariant, PaidInvariant, PTL
===============================================================================
