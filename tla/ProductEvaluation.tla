-------------------------- MODULE ProductEvaluation --------------------------
(***************************************************************************)
(* One staged evaluation of a document-v7 design, and the native shapes it *)
(* makes (src/src/evaluator.ts and                                         *)
(* src/src/internal/document-v7-local-assembly-evaluation.ts).             *)
(*                                                                         *)
(* A product evaluation resolves external documents and geometry resources *)
(* through one resource session and then executes its batches one after    *)
(* the other, each a graph of solids, under one shape-ownership            *)
(* transaction.  The children it collects, one per batch, are what its     *)
(* result owns.  A part or body-set evaluation is the same with a single   *)
(* graph, no session of its own and no transaction.                        *)
(*                                                                         *)
(* The kernel is the application's.  It may throw, return a shape that is  *)
(* invalid, and break its contract by returning a shape it has returned    *)
(* before.  The application may abort inside every call of the kernel and  *)
(* at every await; the graph, the batch and the product evaluation are     *)
(* three async functions, so there is an await after each return.          *)
(***************************************************************************)
EXTENDS Integers, Sequences

CONSTANTS Shapes,  \* the native shapes a kernel can make
          Plan     \* Plan[b] is the number of nodes of batch b, in graph order

ASSUME PlanAssumption == Plan \in Seq(Nat) /\ Plan # <<>>

VARIABLES kind,             \* "product", or "single" for parts and body sets
          stage,            \* where the evaluation stands
          batch,            \* the batch executed, or the next one
          node,             \* the node of its graph that is next
          createdShapes,    \* createdShapeList of that graph
          children,         \* the shapes of each child, in the order executed
          childrenDisposed, \* their owners are disposed of
          ownedShapes,      \* the transaction's ownedShapes
          active,           \* the transaction's active flag
          session,          \* the resource session: none, open, disposed
          acquired,         \* the shapes the kernel has made
          released,         \* those handed to disposeShape
          overReleased,     \* those handed to it more than once
          aborted,          \* the signal
          result            \* none, success, failure

kernelVars == <<acquired, released, overReleased>>
transaction == <<ownedShapes, active>>
owners == <<children, childrenDisposed>>
vars == <<kind, stage, batch, node, createdShapes, owners, transaction,
          session, kernelVars, aborted, result>>

Awaits == {"documents", "geometry", "graphFailed", "graphReturned",
           "batchFailed", "batchReturned"}
Executing == {"graph", "acquired"}
Stages == {"start", "begin", "done"} \cup Awaits \cup Executing

\* A single evaluation executes one graph.
Batches == IF kind = "product" THEN 1 .. Len(Plan) ELSE {1}
Elements(s) == {s[i] : i \in DOMAIN s}
Owned(family) == UNION Elements(family)

Init ==
    /\ kind \in {"product", "single"}
    /\ stage = "start"
    /\ batch = 1 /\ node = 1
    /\ createdShapes = <<>>
    /\ children = <<>> /\ childrenDisposed = FALSE
    /\ ownedShapes = {} /\ active = FALSE
    /\ session = "none"
    /\ acquired = {} /\ released = {} /\ overReleased = {}
    /\ aborted = FALSE
    /\ result = "none"

-----------------------------------------------------------------------------
(* Disposal.                                                               *)

\* The shapes that several members of the family hold.
Shared(family) ==
    {s \in Owned(family) : \E i, j \in DOMAIN family :
        i # j /\ s \in family[i] /\ s \in family[j]}

\* disposeShape of every shape of every member, whatever it throws.
DisposeEach(family) ==
    /\ released' = released \cup Owned(family)
    /\ overReleased' =
          overReleased \cup Shared(family) \cup (released \cap Owned(family))
    /\ UNCHANGED acquired

\* A list of shapes as a family.
AsFamily(list) == [i \in DOMAIN list |-> {list[i]}]

\* The children that are not disposed of: dispose() of an owner is idempotent.
LiveChildren == IF childrenDisposed THEN <<>> ELSE children

\* Mutation: the resource session is left open when documents or geometry fail.
FinishUnlessResolving(outcome) ==
    /\ result' = outcome
    /\ stage' = "done"
    /\ session' = IF session = "open" /\ children # <<>> THEN "disposed" ELSE session

\* The evaluation returns; its finally block disposes of the session.
Finish(outcome) ==
    /\ result' = outcome
    /\ stage' = "done"
    /\ session' = IF session = "open" THEN "disposed" ELSE session

\* cleanupChildren, or the dispose() of the owner of them all, then a failure.
FailWith(family) ==
    /\ DisposeEach(LiveChildren \o family)
    /\ childrenDisposed' = TRUE
    /\ createdShapes' = <<>>
    /\ Finish("failure")

\* The shapes of a child are the set its EvaluationOwner was given.
CreatedSet == Elements(createdShapes)

-----------------------------------------------------------------------------
(* Before the kernel is called.                                            *)

\* Capturing, planning and, for a single evaluation, the kernel's preflight.
\* A product evaluation opens its resource session.  It waits for documents if
\* it has external components; a single one waits for resources if it has any.
Prepare ==
    /\ stage = "start"
    /\ UNCHANGED <<kind, batch, node, createdShapes, owners, transaction,
                   kernelVars, aborted>>
    /\ \/ Finish("failure")
       \/ /\ ~aborted
          /\ session' = IF kind = "product" THEN "open" ELSE "none"
          /\ stage' \in IF kind = "product" THEN {"documents", "geometry"}
                                            ELSE {"geometry", "begin"}
          /\ UNCHANGED result

\* The external documents arrive or do not.  Then they are admitted, expanded,
\* prepared and preflighted, and the geometry of all batches is asked for.
ResolveDocuments ==
    /\ stage = "documents"
    /\ UNCHANGED <<kind, batch, node, createdShapes, owners, transaction,
                   kernelVars, aborted>>
    /\ \/ Finish("failure")
       \/ ~aborted /\ stage' = "geometry" /\ UNCHANGED <<session, result>>

\* Mutation: the session is not given the signal.
ResolveGeometryUnlessAborted ==
    /\ stage = "geometry"
    /\ ~aborted
    /\ UNCHANGED <<kind, batch, node, createdShapes, owners, transaction,
                   kernelVars, aborted>>
    /\ \/ Finish("failure")
       \/ stage' = "begin" /\ UNCHANGED <<session, result>>

ResolveGeometry ==
    /\ stage = "geometry"
    /\ UNCHANGED <<kind, batch, node, createdShapes, owners, transaction,
                   kernelVars, aborted>>
    /\ \/ Finish("failure")
       \/ ~aborted /\ stage' = "begin" /\ UNCHANGED <<session, result>>

\* Resources of the batch may be missing.  A transaction executes one batch
\* at a time.
BeginBatch ==
    /\ stage = "begin"
    /\ UNCHANGED <<kind, batch, children, ownedShapes, aborted>>
    /\ \/ /\ kind = "product"
          /\ FailWith(<<>>)
          /\ UNCHANGED <<node, active>>
       \/ /\ ~active
          /\ active' = (kind = "product")
          /\ node' = 1
          /\ createdShapes' = <<>>
          /\ stage' = "graph"
          /\ UNCHANGED <<childrenDisposed, kernelVars, session, result>>

-----------------------------------------------------------------------------
(* The solid graph of one batch.                                           *)

\* Mutation: the shape that is refused is disposed of with the others.
GraphFailsReleasing(refused) ==
    /\ DisposeEach(AsFamily(createdShapes) \o AsFamily(refused))
    /\ createdShapes' = <<>>
    /\ stage' = "graphFailed"
    /\ UNCHANGED <<kind, batch, node, owners, transaction, session, aborted, result>>

\* failAfterCleanup; the shape that is refused, if any, is another's.
GraphFails(refused) ==
    /\ DisposeEach(AsFamily(createdShapes))
    /\ createdShapes' = <<>>
    /\ stage' = "graphFailed"
    /\ UNCHANGED <<kind, batch, node, owners, transaction, session, aborted, result>>

\* Owned by an earlier batch of the transaction, or by an earlier node.
Refused(s) == s \in ownedShapes \/ s \in CreatedSet

\* Mutation: an abort is noticed after the call only.
MayCallUnchecked == stage = "graph" /\ node <= Plan[batch]

MayCall == stage = "graph" /\ node <= Plan[batch] /\ ~aborted

\* The kernel returns a shape, one it has just made or, breaking its contract,
\* one it has returned before.
ReturnShape(s) ==
    /\ MayCall
    /\ IF Refused(s)
       THEN GraphFails(<<s>>)
       ELSE /\ acquired' = acquired \cup {s}
            /\ createdShapes' = Append(createdShapes, s)
            /\ stage' = "acquired"
            /\ UNCHANGED <<kind, batch, node, owners, transaction, session,
                           released, overReleased, aborted, result>>

\* It throws, or an abort is found before the call.
StopGraph ==
    /\ stage = "graph"
    /\ node <= Plan[batch] \/ aborted
    /\ GraphFails(<<>>)

\* The boundary after the call, then validation of the shape.
ValidateShape ==
    /\ stage = "acquired"
    /\ \/ GraphFails(<<>>)
       \/ /\ ~aborted
          /\ node' = node + 1
          /\ stage' = "graph"
          /\ UNCHANGED <<kind, batch, createdShapes, owners, transaction,
                         session, kernelVars, aborted, result>>

GraphSucceeds ==
    /\ stage = "graph"
    /\ node > Plan[batch]
    /\ ~aborted
    /\ stage' = "graphReturned"
    /\ UNCHANGED <<kind, batch, node, createdShapes, owners, transaction,
                   session, kernelVars, aborted, result>>

-----------------------------------------------------------------------------
(* After the await of the graph: executePreparedProductGeometryOutputsV7,  *)
(* executePreparedPartOutputsV7 and evaluateBodySetOutputsV7.              *)

\* The finally block lowers the flag on every way out.
LeaveTransaction == active' = FALSE

\* A failed graph has cleaned up.
GraphFailureReturns ==
    /\ stage = "graphFailed"
    /\ LeaveTransaction
    /\ UNCHANGED <<kind, batch, node, ownedShapes, children, aborted>>
    /\ \/ /\ kind = "single"
          /\ Finish("failure")
          /\ UNCHANGED <<createdShapes, childrenDisposed, kernelVars>>
       \/ /\ kind = "product"
          /\ stage' = "batchFailed"
          /\ UNCHANGED <<createdShapes, childrenDisposed, kernelVars, session, result>>

\* An abort, at this await or before the return, or a late construction error.
BatchFails ==
    /\ stage = "graphReturned"
    /\ LeaveTransaction
    /\ UNCHANGED <<kind, batch, node, ownedShapes, children, aborted>>
    /\ \/ kind = "single" /\ FailWith(AsFamily(createdShapes))
       \/ /\ kind = "product"
          /\ DisposeEach(AsFamily(createdShapes))
          /\ createdShapes' = <<>>
          /\ stage' = "batchFailed"
          /\ UNCHANGED <<childrenDisposed, session, result>>

\* The shapes join the transaction, so that later batches cannot have them.
BatchSucceeds ==
    /\ stage = "graphReturned"
    /\ ~aborted
    /\ LeaveTransaction
    /\ UNCHANGED <<kind, batch, node, childrenDisposed, kernelVars, aborted>>
    /\ \/ /\ kind = "single"
          /\ children' = <<CreatedSet>>
          /\ createdShapes' = <<>>
          /\ Finish("success")
          /\ UNCHANGED ownedShapes
       \/ /\ kind = "product"
          /\ ownedShapes' = ownedShapes \cup CreatedSet
          /\ stage' = "batchReturned"
          /\ UNCHANGED <<children, createdShapes, session, result>>

-----------------------------------------------------------------------------
(* After the await of the batch: the product evaluation.                   *)

BatchFailureReturns ==
    /\ stage = "batchFailed"
    /\ FailWith(<<>>)
    /\ UNCHANGED <<kind, batch, node, children, transaction, aborted>>

\* An abort at this await disposes of the batch and of every child.  So does a
\* view that cannot be mapped to its selection: by then it is the last child.
DropBatch ==
    /\ stage = "batchReturned"
    /\ FailWith(<<CreatedSet>>)
    /\ UNCHANGED <<kind, batch, node, children, transaction, aborted>>

\* Mutation: the children of the last batch alone are given to the owner.
CollectLatestChild ==
    /\ stage = "batchReturned"
    /\ ~aborted
    /\ children' = IF batch = Len(Plan) THEN <<CreatedSet>>
                                       ELSE Append(children, CreatedSet)
    /\ createdShapes' = <<>>
    /\ UNCHANGED <<kind, node, transaction, kernelVars, aborted, childrenDisposed>>
    /\ \/ /\ batch < Len(Plan)
          /\ batch' = batch + 1
          /\ stage' = "begin"
          /\ UNCHANGED <<session, result>>
       \/ /\ batch = Len(Plan)
          /\ Finish("success")
          /\ UNCHANGED batch

\* The batch becomes a child and its views are mapped.  After the last batch
\* the outputs are assembled under the owner of all children.
CollectChild ==
    /\ stage = "batchReturned"
    /\ ~aborted
    /\ children' = Append(children, CreatedSet)
    /\ createdShapes' = <<>>
    /\ UNCHANGED <<kind, node, transaction, kernelVars, aborted, childrenDisposed>>
    /\ \/ /\ batch < Len(Plan)
          /\ batch' = batch + 1
          /\ stage' = "begin"
          /\ UNCHANGED <<session, result>>
       \/ /\ batch = Len(Plan)
          /\ Finish("success")
          /\ UNCHANGED batch

-----------------------------------------------------------------------------
(* The application.                                                        *)

Abort ==
    /\ ~aborted
    /\ stage # "done"
    /\ aborted' = TRUE
    /\ UNCHANGED <<kind, stage, batch, node, createdShapes, owners,
                   transaction, session, kernelVars, result>>

\* dispose() of the result, which may be called again.
DisposeResult ==
    /\ result = "success"
    /\ DisposeEach(LiveChildren)
    /\ childrenDisposed' = TRUE
    /\ UNCHANGED <<kind, stage, batch, node, createdShapes, children,
                   transaction, session, aborted, result>>

\* What runs on the thread without waiting for anyone.
Continue ==
    \/ Prepare \/ BeginBatch
    \/ \E s \in Shapes : ReturnShape(s)
    \/ StopGraph \/ ValidateShape \/ GraphSucceeds
    \/ GraphFailureReturns \/ BatchFails \/ BatchSucceeds
    \/ BatchFailureReturns \/ DropBatch \/ CollectChild

Resolve == ResolveDocuments \/ ResolveGeometry

Next == Continue \/ Resolve \/ Abort \/ DisposeResult

Spec == Init /\ [][Next]_vars

\* The resolver may never answer; but the session settles once its signal is
\* aborted.
FairSpec == Spec /\ WF_vars(Continue) /\ WF_vars(aborted /\ Resolve)

-----------------------------------------------------------------------------
(* Properties.                                                             *)

TypeOK ==
    /\ kind \in {"product", "single"}
    /\ stage \in Stages
    /\ batch \in Batches
    /\ node \in Nat
    /\ createdShapes \in Seq(Shapes)
    /\ children \in Seq(SUBSET Shapes) /\ childrenDisposed \in BOOLEAN
    /\ ownedShapes \subseteq Shapes /\ active \in BOOLEAN
    /\ session \in {"none", "open", "disposed"}
    /\ acquired \subseteq Shapes
    /\ released \subseteq Shapes /\ overReleased \subseteq Shapes
    /\ aborted \in BOOLEAN
    /\ result \in {"none", "success", "failure"}

\* Whatever fails, wherever an abort lands and whatever the kernel returns
\* twice, no shape is disposed of more than once: "every failure disposes each
\* distinct acquired shape exactly once".
ReleasedOnce == overReleased = {}

\* A failed evaluation leaves nothing behind: every shape of every batch is
\* disposed of, the transaction is inactive, the session is closed.
FailureFreesEverything ==
    result = "failure" =>
        released = acquired /\ ~active /\ session # "open"

\* A result owns every shape the evaluation made; they all live until the
\* result is disposed of, and none does afterwards.
ResultOwnsItsShapes ==
    result = "success" =>
        /\ Owned(children) = acquired
        /\ released = IF childrenDisposed THEN acquired ELSE {}

\* While a batch is executed, and until the evaluation gives up, the shapes of
\* all earlier batches live: not even a graph that fails because the kernel
\* returned one of them disposes of it.
EarlierBatchesSurvive ==
    stage # "done" => Owned(children) \cap released = {}

\* A shape is disposed of once, and not while an earlier batch counts on it.
ReleasedOnceAndLate == ReleasedOnce /\ EarlierBatchesSurvive

\* After an abort the kernel makes no further shape, no further resource is
\* asked for, and the evaluation does not succeed: there is a boundary after
\* every await and after every call that can abort.
NothingStartsAfterAbort ==
    [][aborted => /\ acquired' = acquired
                  /\ stage' \in {"documents", "geometry", "begin"} => stage' = stage
                  /\ result' = "success" => result = "success"]_vars

\* An evaluation that is aborted ends, even if its resolver never answers.
AbortedEvaluationEnds == aborted ~> stage = "done"
=============================================================================
