------------------------- MODULE EvaluatorLifecycle -------------------------
(***************************************************************************)
(* One Evaluator (src/src/evaluator.ts), the native shapes its kernel      *)
(* holds, and the evaluations that run on it.                              *)
(*                                                                         *)
(* The code runs on one thread: a step is what runs between two awaits.    *)
(* An evaluation without a signal runs in the call itself.  One with a     *)
(* signal yields to the host before each output and after the last one.    *)
(* On an evaluator with a private artifact cache, an output whose node is  *)
(* a box also awaits the cache.  An imported-body evaluation awaits its    *)
(* resources and then runs to its end.  Wherever an evaluation waits, the  *)
(* host may abort it, start others, and dispose of results and of the      *)
(* evaluator.                                                              *)
(*                                                                         *)
(* An evaluation makes at most one shape for a node, so a shape is named   *)
(* by its evaluation and its node.                                         *)
(***************************************************************************)
EXTENDS Integers, Sequences, FiniteSets

CONSTANTS Evaluations,   \* calls of evaluate and evaluateImportedBody
          Signalled,     \* those that are given an abort signal
          Imported,      \* those that are calls of evaluateImportedBody
          Nodes,         \* solid features
          Needs,         \* Needs[o] is the set of nodes output o depends on
          Direct,        \* Direct[o] is its own node when that is a box
          NoNode,        \* and NoNode when it is not
          ImportedNodes  \* the nodes of an imported-body document

ASSUME ConstantsAssumption ==
    /\ IsFiniteSet(Evaluations)
    /\ Signalled \subseteq Evaluations
    /\ Imported \subseteq Evaluations
    /\ NoNode \notin Nodes
    /\ Needs \in Seq(SUBSET Nodes) /\ Needs # <<>>
    /\ Direct \in [DOMAIN Needs -> Nodes \cup {NoNode}]
    /\ \A o \in DOMAIN Needs : Direct[o] # NoNode => Needs[o] = {Direct[o]}
    /\ ImportedNodes \subseteq Nodes

VARIABLES disposed,       \* Evaluator.#disposed
          cacheActive,    \* Evaluator.#artifactCacheEvaluationActive
          suspended,      \* Evaluator.#suspendedEvaluations
          importing,      \* Evaluator.#activeImportedBodyEvaluations
          kernel,         \* the kernel the evaluator was created with
          mode,           \* the mode of its private cache, "none" without one
          kernelDisposed, \* kernel.dispose() has run
          shape,          \* the kernel's shapes: none, live, freed
          stage,          \* where each evaluation stands
          output,         \* the output an evaluation is at
          created,        \* createdShapes of an evaluation, by node
          aborted         \* the evaluations whose signal is aborted

guards == <<disposed, cacheActive, suspended, importing>>
fixed == <<kernel, mode>>
vars == <<guards, fixed, kernelDisposed, shape, stage, output, created, aborted>>

Waits == {"key", "read", "decode", "delete", "write"}   \* on the cache
InFlight == {"yield", "import"} \cup Waits
Stages == {"idle", "refused", "failed", "result", "released"} \cup InFlight

Modes == {"none", "read-write", "read-only", "write-only"}

Shapes == Evaluations \X Nodes
Of(e, nodes) == {e} \X nodes
Last == Len(Needs)
Private == IF mode = "none" THEN {} ELSE Evaluations \ Imported

Init ==
    /\ disposed = FALSE /\ cacheActive = FALSE
    /\ suspended = 0 /\ importing = 0
    /\ kernel \in {"manifold", "occt"}
    /\ mode \in Modes
    /\ mode # "none" => kernel = "occt"
    /\ kernelDisposed = FALSE
    /\ shape = [s \in Shapes |-> "none"]
    /\ stage = [e \in Evaluations |-> "idle"]
    /\ output = [e \in Evaluations |-> 1]
    /\ created = [e \in Evaluations |-> {}]
    /\ aborted = {}

-----------------------------------------------------------------------------
(* The kernel.                                                             *)

\* OCCT refuses to work once it is disposed of; Manifold does not.
Usable == kernel = "occt" => ~kernelDisposed

Make(table, made) == [s \in Shapes |-> IF s \in made THEN "live" ELSE table[s]]

\* disposeShape of each of gone; a shape already disposed of is left alone.
DisposeShapes(table, gone) ==
    [s \in Shapes |-> IF s \in gone /\ table[s] = "live" THEN "freed" ELSE table[s]]

-----------------------------------------------------------------------------
(* How an evaluation ends.  left is the number of suspended evaluations     *)
(* without this one; made are the nodes whose shapes this step made.        *)

\* Mutation: the flag is reset on the way out of a success only.
LeaveFlagged(e) ==
    /\ cacheActive' = cacheActive
    /\ importing' = IF stage[e] = "import" THEN importing - 1 ELSE importing

\* The finally blocks of evaluate and evaluateImportedBody.
Leave(e) ==
    /\ cacheActive' = (cacheActive /\ e \notin Private)
    /\ importing' = IF stage[e] = "import" THEN importing - 1 ELSE importing

\* Mutation: a shape is registered only once its status was found good.
FailUnregistered(e, made, left) ==
    /\ created' = [created EXCEPT ![e] = @ \cup made]
    /\ shape' = DisposeShapes(Make(shape, Of(e, made)), Of(e, created[e]))
    /\ stage' = [stage EXCEPT ![e] = "failed"]
    /\ suspended' = left
    /\ Leave(e)
    /\ UNCHANGED <<disposed, fixed, kernelDisposed, output, aborted>>

Fail(e, made, left) ==
    /\ created' = [created EXCEPT ![e] = @ \cup made]
    /\ shape' = DisposeShapes(Make(shape, Of(e, made)), Of(e, created[e] \cup made))
    /\ stage' = [stage EXCEPT ![e] = "failed"]
    /\ suspended' = left
    /\ Leave(e)
    /\ UNCHANGED <<disposed, fixed, kernelDisposed, output, aborted>>

Keep(e, made) ==
    /\ created' = [created EXCEPT ![e] = @ \cup made]
    /\ shape' = Make(shape, Of(e, made))
    /\ UNCHANGED <<disposed, fixed, kernelDisposed, aborted>>

Succeed(e, made, left) ==
    /\ Keep(e, made)
    /\ stage' = [stage EXCEPT ![e] = "result"]
    /\ suspended' = left
    /\ Leave(e)
    /\ UNCHANGED output

-----------------------------------------------------------------------------
(* The loop over the outputs.                                              *)

\* Must output o await the cache, given the nodes that have shapes?
Prepared(e, o, have) == e \in Private /\ Direct[o] \notin have \cup {NoNode}

\* The output at which an evaluation that is at o waits next.
NextPause(e, o, have) ==
    LET due(p) == have \cup UNION {Needs[i] : i \in o .. p - 1}
        pauses == {p \in o + 1 .. Last : Prepared(e, p, due(p))}
    IN  IF e \in Signalled THEN o + 1
        ELSE IF pauses = {} THEN Last + 1
        ELSE CHOOSE p \in pauses : \A q \in pauses : p <= q

Await(e, what, left) ==
    /\ stage' = [stage EXCEPT ![e] = what]
    /\ suspended' = IF what = "yield" THEN left + 1 ELSE left
    /\ cacheActive' = (cacheActive \/ e \in Private)
    /\ UNCHANGED importing

\* evaluateNode for output o and the outputs up to the next pause.
EvaluateOutputs(e, o, made, left) ==
    LET have == created[e] \cup made
        p == NextPause(e, o, have)
        due == (UNION {Needs[i] : i \in o .. p - 1}) \ have
    IN  \/ \E part \in SUBSET due :
              (part # {} => Usable) /\ Fail(e, made \cup part, left)
        \/ /\ due # {} => Usable
           /\ IF p > Last /\ e \notin Signalled
              THEN Succeed(e, made \cup due, left)
              ELSE /\ Keep(e, made \cup due)
                   /\ output' = [output EXCEPT ![e] = p]
                   /\ Await(e, IF e \in Signalled THEN "yield" ELSE "key", left)

\* One pass of the loop, after its yield.
EvaluateFrom(e, o, left) ==
    IF Prepared(e, o, created[e])
    THEN \/ Fail(e, {}, left)
         \/ Keep(e, {}) /\ Await(e, "key", left) /\ UNCHANGED output
    ELSE EvaluateOutputs(e, o, {}, left)

\* Evaluator.evaluate
Evaluate(e) ==
    /\ e \notin Imported /\ stage[e] = "idle"
    /\ IF disposed \/ (e \in Private /\ cacheActive)
       THEN /\ stage' = [stage EXCEPT ![e] = "refused"]
            /\ UNCHANGED <<guards, fixed, kernelDisposed, shape, output, created, aborted>>
       ELSE \/ Fail(e, {}, suspended)
            \/ /\ e \in Signalled
               /\ Keep(e, {}) /\ Await(e, "yield", suspended) /\ UNCHANGED output
            \/ e \notin Signalled /\ EvaluateFrom(e, 1, suspended)

\* The end of #yieldToHost and the code up to the next await.
Resume(e) ==
    /\ stage[e] = "yield"
    /\ LET left == suspended - 1 IN
         IF e \in aborted THEN Fail(e, {}, left)
         ELSE IF output[e] > Last THEN Succeed(e, {}, left)
         ELSE EvaluateFrom(e, output[e], left)

-----------------------------------------------------------------------------
(* prepareDirectCachedBox: the answer to each await, and what follows it.   *)
(* Every answer may be a failure; after an abort it is one.                 *)

\* Mutation: no ensureLive after the cache answers.
AnsweredUnchecked(e, what) == stage[e] = what

Answered(e, what) == stage[e] = what /\ e \notin aborted

Go(e, what) == Keep(e, {}) /\ Await(e, what, suspended) /\ UNCHANGED output

Box(e) == {Direct[output[e]]}

\* kernel.box, and its encodeAndWrite when the entry is to be stored.
Build(e, shouldWrite) ==
    \/ Fail(e, {}, suspended)
    \/ Usable /\ Fail(e, Box(e), suspended)
    \/ /\ Usable /\ shouldWrite
       /\ Keep(e, Box(e)) /\ Await(e, "write", suspended) /\ UNCHANGED output
    \/ /\ Usable /\ ~shouldWrite
       /\ EvaluateOutputs(e, output[e], Box(e), suspended)

\* Mutation: a failure that comes after the abort is swallowed.
CacheFailsUnlessAborted(e) ==
    stage[e] \in Waits /\ e \notin aborted /\ Fail(e, {}, suspended)

CacheFails(e) == stage[e] \in Waits /\ Fail(e, {}, suspended)

KeyCreated(e) ==
    /\ Answered(e, "key")
    /\ \/ Go(e, "read")
       \/ Build(e, FALSE)       \* the box is not eligible

ReadAnswers(e) ==
    /\ Answered(e, "read")
    /\ \/ mode = "read-write" /\ Go(e, "delete")         \* an invalid entry
       \/ mode # "write-only" /\ Go(e, "decode")         \* a hit
       \/ Build(e, mode # "read-only")                   \* a miss

\* Mutation: the abort is looked at before the decoded shape is registered.
DecodedUnregistered(e) ==
    /\ stage[e] = "decode" /\ Usable
    /\ IF e \in aborted
       THEN FailUnregistered(e, Box(e), suspended)
       ELSE EvaluateOutputs(e, output[e], Box(e), suspended)

\* The decoded shape is registered before the abort is looked at.
Decoded(e) ==
    /\ stage[e] = "decode" /\ Usable
    /\ IF e \in aborted THEN Fail(e, Box(e), suspended)
       ELSE EvaluateOutputs(e, output[e], Box(e), suspended)

DecodeFails(e) == Answered(e, "decode") /\ mode = "read-write" /\ Go(e, "delete")

DeleteAnswers(e) == Answered(e, "delete") /\ Build(e, TRUE)

WriteAnswers(e) ==
    Answered(e, "write") /\ EvaluateOutputs(e, output[e], {}, suspended)

-----------------------------------------------------------------------------
(* Imported bodies.                                                        *)

EvaluateImportedBody(e) ==
    /\ e \in Imported /\ stage[e] = "idle"
    /\ IF disposed
       THEN /\ stage' = [stage EXCEPT ![e] = "refused"]
            /\ UNCHANGED <<guards, fixed, kernelDisposed, shape, output, created, aborted>>
       ELSE \/ Fail(e, {}, suspended)
            \/ /\ stage' = [stage EXCEPT ![e] = "import"]
               /\ importing' = importing + 1
               /\ UNCHANGED <<disposed, cacheActive, suspended, fixed,
                              kernelDisposed, shape, output, created, aborted>>

\* The resources are there or refused; the bodies are imported in one go.
ResourcesArrive(e) ==
    /\ stage[e] = "import"
    /\ \/ \E part \in SUBSET ImportedNodes :
             /\ part # {} => Usable /\ e \notin aborted
             /\ Fail(e, part, suspended)
       \/ Usable /\ e \notin aborted /\ Succeed(e, ImportedNodes, suspended)

-----------------------------------------------------------------------------
(* The host.                                                               *)

Abort(e) ==
    /\ e \in Signalled \ aborted /\ stage[e] \in InFlight \cup {"idle"}
    /\ aborted' = aborted \cup {e}
    /\ UNCHANGED <<guards, fixed, kernelDisposed, shape, stage, output, created>>

\* EvaluatedDesign.dispose: every shape once, whatever a release throws.
DisposeResult(e) ==
    /\ stage[e] = "result"
    /\ stage' = [stage EXCEPT ![e] = "released"]
    /\ shape' = DisposeShapes(shape, Of(e, created[e]))
    /\ UNCHANGED <<guards, fixed, kernelDisposed, output, created, aborted>>

\* Mutation: a private evaluation does not hold the disposal up.
DisposeWhileCached == ~disposed /\ suspended = 0 /\ importing = 0

DisposeAllowed == ~disposed /\ ~cacheActive /\ suspended = 0 /\ importing = 0

\* May kernel.dispose throw after it has released everything?
KernelMayThrow ==
    IF kernel = "occt" THEN ~kernelDisposed ELSE \E s \in Shapes : shape[s] = "live"

\* Evaluator.dispose.  #disposed is set last, so not when the kernel throws.
DisposeEvaluator ==
    /\ DisposeAllowed
    /\ shape' = DisposeShapes(shape, Shapes)
    /\ kernelDisposed' = TRUE
    /\ \E thrown \in BOOLEAN :
          (thrown => KernelMayThrow) /\ disposed' = ~thrown
    /\ UNCHANGED <<cacheActive, suspended, importing, fixed, stage, output,
                   created, aborted>>

Advance(e) ==
    \/ Resume(e) \/ CacheFails(e) \/ KeyCreated(e) \/ ReadAnswers(e)
    \/ Decoded(e) \/ DecodeFails(e) \/ DeleteAnswers(e) \/ WriteAnswers(e)
    \/ ResourcesArrive(e)

Next ==
    \/ \E e \in Evaluations :
          \/ Evaluate(e) \/ EvaluateImportedBody(e)
          \/ Advance(e) \/ Abort(e) \/ DisposeResult(e)
    \/ DisposeEvaluator

Spec == Init /\ [][Next]_vars

\* Timers fire and the cache and the resolver answer, so an evaluation that
\* waits goes on.  The host is not obliged to do anything.
FairSpec == Spec /\ \A e \in Evaluations : WF_vars(Advance(e))

-----------------------------------------------------------------------------
(* Properties.                                                             *)

TypeOK ==
    /\ disposed \in BOOLEAN /\ cacheActive \in BOOLEAN /\ kernelDisposed \in BOOLEAN
    /\ suspended \in 0 .. Cardinality(Signalled)
    /\ importing \in 0 .. Cardinality(Imported)
    /\ kernel \in {"manifold", "occt"} /\ mode \in Modes
    /\ shape \in [Shapes -> {"none", "live", "freed"}]
    /\ stage \in [Evaluations -> Stages]
    /\ output \in [Evaluations -> 1 .. Last + 1]
    /\ created \in [Evaluations -> SUBSET Nodes]
    /\ aborted \subseteq Signalled

\* Every shape the kernel still holds belongs to an evaluation under way or
\* to a result that is not disposed of: whatever fails or is aborted, at
\* whichever await, nothing leaks (the catch of #evaluateOnce,
\* registerAcquiredShape, EvaluationOwner.dispose).
NoShapeLeaks ==
    \A e \in Evaluations, n \in Nodes :
        shape[<<e, n>>] = "live" =>
            n \in created[e] /\ stage[e] \in InFlight \cup {"result"}

\* An evaluation under way finds every shape it has made alive when it goes
\* on: no disposal of the evaluator and no other evaluation's clean-up takes
\* them away while it waits (the guards of Evaluator.dispose).
InFlightShapesLive ==
    \A e \in Evaluations : stage[e] \in InFlight =>
        \A n \in created[e] : shape[<<e, n>>] = "live"

\* Until the kernel is disposed of, a result keeps all its shapes, whatever
\* happens to the other evaluations and results of the same kernel.
ResultsKeepShapes ==
    \A e \in Evaluations : stage[e] = "result" /\ ~kernelDisposed =>
        \A n \in created[e] : shape[<<e, n>>] = "live"

\* No shape is freed while it is in use.
ShapesOutliveUse == InFlightShapesLive /\ ResultsKeepShapes

\* A disposed evaluator has nothing under way and its kernel holds nothing,
\* and that stays so.
DisposedIsQuiet ==
    disposed => /\ kernelDisposed
                /\ \A e \in Evaluations : stage[e] \notin InFlight
                /\ \A s \in Shapes : shape[s] # "live"

\* The guards of dispose say what they are meant to say, so they neither let
\* a disposal through nor forbid it for ever once everything has settled.
GuardsCountWhatRuns ==
    /\ suspended = Cardinality({e \in Evaluations : stage[e] = "yield"})
    /\ importing = Cardinality({e \in Evaluations : stage[e] = "import"})
    /\ cacheActive <=> \E e \in Private : stage[e] \in InFlight

\* Two evaluations never use the bound cache at the same time.
PrivateNeverOverlaps ==
    \A e, f \in Private :
        stage[e] \in InFlight /\ stage[f] \in InFlight => e = f

\* The guards are exact and keep private evaluations apart.
GuardsAreSound == GuardsCountWhatRuns /\ PrivateNeverOverlaps

\* Once its signal is aborted an evaluation under way does nothing but fail.
AbortEndsEvaluation ==
    [][\A e \in aborted : stage[e] \in InFlight =>
          stage'[e] \in {stage[e], "failed"}]_vars

\* Every evaluation settles: they are called once each, so the time comes when
\* none is under way any more.
EveryEvaluationSettles ==
    <>[](\A e \in Evaluations : stage[e] \notin InFlight)
=============================================================================
