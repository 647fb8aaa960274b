----------------------------- MODULE SerialTurns -----------------------------
(***************************************************************************)
(* What a queue of turns promises its callers, without the promises and    *)
(* the abort signals it is made of: in every session one operation at a    *)
(* time holds the turn, turns are granted first come first served, and an  *)
(* operation may give up waiting without disturbing the others.            *)
(* TurnQueue implements this specification.                                *)
(***************************************************************************)
EXTENDS Naturals

CONSTANTS Ops,       \* operations, each submitted at most once
          Sessions,  \* sessions, each with a queue of its own
          NoSession  \* the session of an operation not submitted yet

VARIABLES
    status,    \* "outside", "waiting", "holding" or "left", for each operation
    session,   \* the session an operation was submitted to
    place      \* the place of an operation in the queue of its session; 0: none

serialVars == <<status, session, place>>

Fellows(op) == {o \in Ops : o # op /\ place[o] > 0 /\ session[o] = session[op]}

SerialInit ==
    /\ status = [op \in Ops |-> "outside"]
    /\ session = [op \in Ops |-> NoSession]
    /\ place = [op \in Ops |-> 0]

\* A new arrival takes a place behind everyone who came before it.  It may
\* also leave at once, its listener having failed, and keep only the place.
Arrive(op, s) ==
    /\ status[op] = "outside"
    /\ session' = [session EXCEPT ![op] = s]
    /\ place' = [place EXCEPT ![op] = place'[op]]
    /\ place'[op] \in Nat \ {0}
    /\ \A o \in Ops \ {op} : session[o] = s => place[o] < place'[op]
    /\ status' \in {[status EXCEPT ![op] = st] : st \in {"waiting", "left"}}

TurnAway(op) ==
    /\ status[op] = "outside"
    /\ status' = [status EXCEPT ![op] = "left"]
    /\ UNCHANGED <<session, place>>

GiveUp(op) ==
    /\ status[op] = "waiting"
    /\ status' = [status EXCEPT ![op] = "left"]
    /\ UNCHANGED <<session, place>>

\* First come, first served, and one at a time.
Grant(op) ==
    /\ status[op] = "waiting"
    /\ \A o \in Fellows(op) : status[o] # "holding"
    /\ \A o \in Fellows(op) : place[o] < place[op] => status[o] = "left"
    /\ status' = [status EXCEPT ![op] = "holding"]
    /\ UNCHANGED <<session, place>>

Finish(op) ==
    /\ status[op] = "holding"
    /\ status' = [status EXCEPT ![op] = "left"]
    /\ UNCHANGED <<session, place>>

SerialNext ==
    \E op \in Ops :
        \/ \E s \in Sessions : Arrive(op, s)
        \/ TurnAway(op)
        \/ GiveUp(op)
        \/ Grant(op)
        \/ Finish(op)

SerialSpec == SerialInit /\ [][SerialNext]_serialVars
=============================================================================
