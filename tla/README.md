# invariantCAD in TLA+

invariantCAD is a TypeScript library for parametric solid modelling. A design is
an immutable document; an evaluator turns it into native shapes of a geometry
kernel (Manifold or Open CASCADE, both WASM) and hands out results that own
those shapes. The program runs on one JavaScript thread. Its hard part is not
parallelism but what happens *between two awaits*: application code, other
calls, abort signals, timers, and disposals.

This directory holds TLA+ models of those parts, the TLC configurations that
check them on small instances, and proofs of the most important facts for every
instance. Source paths below are relative to the package's `src/`.

## 1. Inventory

| Component | State it keeps | Operations | What is hard | Correct when | Here |
|---|---|---|---|---|---|
| Turn queue of a cache session (`artifact-cache.ts`, `#exclusive`) | `#tail`, a chain of promises | submit, acquire, cancel in the queue, release | cancellations that must be prompt and must not let others overtake | mutual exclusion, submission order, turns released in order, nobody stranded | `TurnQueue`, `SerialTurns` |
| Artifact-cache session (`artifact-cache.ts`, `internal/artifact-cache-session-access.ts`) | three counters, four limits, a mode | read, write, delete, encode-and-write, sibling sessions | limits computed before an await and charged after it; aborts at any await; a store that may hold or return anything | limits kept, bytes paid for, only intact records delivered and stored, no call after an abort | `ArtifactCacheSession` |
| Disposable worker operation (`internal/disposable-worker-operation.ts`) | the first outcome, a timer chain, the worker's handle | start, result, abort, timeout, termination | four racing outcomes, a synchronous `start()`, half-usable handles, delays beyond `setTimeout` | the first outcome wins, the worker is terminated once and before the caller learns of it, the caller always learns | `DisposableWorker` |
| Resource resolution session (`internal/document-v7-resource-resolution-session.ts`, `resource-resolution.ts`) | generation, kept entries, counters, buffers | resolve, clear, dispose, readers | clear and dispose while a resolver is awaited; wiping buffers that readers share | all or nothing, counters match, no reader sees wiped bytes, no buffer forgotten | `ResourceSession`, `VerifiedStore` |
| Evaluator (`evaluator.ts`, `internal/evaluator-artifact-cache-candidate.ts`), shape ownership of the kernels (`manifold-kernel.ts`, `occt-kernel.ts`) | `#disposed`, an active flag, two counts, created shapes, live shapes | evaluate, evaluateImportedBody, dispose, dispose of a result | disposals, aborts and other evaluations at every yield; failures after shapes were made | no shape leaks, none vanishes under its user, an abort ends in failure, a disposed evaluator is quiet | `EvaluatorLifecycle` |
| Document-v7 evaluations: shape ownership (`evaluator.ts`, `internal/document-v7-local-assembly-evaluation.ts`) | a transaction that spans the batches of a product, children, created shapes, a resource session | evaluate a part, a body set or a product; dispose of the result | one batch of several failing, aborts inside the kernel and at every await, a kernel that returns a shape again | every shape is released once or owned by the result; an aborted evaluation ends | `ProductEvaluation` |
| Document-v7 evaluations: what is active (same file) | a stack, a queue, what is charged towards eight limits | walk through nested and external assemblies | recursion, inherited and named configurations, suppression, the same walk written twice | exactly the active parts in order, or a failure with a cause | `AssemblyTraversal` |
| Document-v7 evaluations: planning (same file) | batches under construction, their names, result tables | resolve, prepare, charge, execute, assemble | outputs called like nodes they do not refer to; geometry wanted many times | no plan fails for a reason of its own; everybody gets the view of his own part; shared geometry is paid for once | `ProductPlan` |
| Design impact (`design-impact.ts`) | worklists, edges, reasons | analyse changes of a document | cycles of parameters, overrides, several origins of one impact, an order of work that must not matter | the report is exact, and its reasons lead back to a change | `DesignImpact` |
| Loading of the OCCT runtime (`occt-runtime-node.ts`, `occt-runtime-browser.ts`) | waiters, timers, a port, the hook thread's two maps | load; install, acknowledge, cancel | overlapping loads, late or missing answers, a thread that hangs | each import finds its own source; nothing is left behind; no load waits for ever for the thread | `LoaderHook` |
| Attestation (`internal/occt-runtime-attestation.ts`) | none | manifest, digests, captured options | text and bytes | — | one outcome of `LoaderHook` |
| Validation, hashing, identity renames, topology lineage (`validation.ts`, `feature-hashes*.ts`, `internal/document-v7-identity-renames.ts`, `topology-*.ts`) | none, or local | functions | boundaries | agree with a definition | not modelled, see section 7 |
| Authoring, parsing, schema, exporters, mass properties, conformance, command line, solver and feature geometry | none, or local | functions | numbers and text | — | not modelled: conversions and floating point |

How they interact: an evaluator with a private binding makes a *sibling* cache
session per evaluation; the session calls an application's store and the
kernel's codec under its turn. `evaluateImportedBody` and the document-v7
evaluations call the application's resource resolver, through a resource
session where one is kept. A product evaluation first walks its assemblies, has
the external documents it met resolved and walks on behind them, then plans one
batch of geometry per document and configuration, and executes the batches one
after the other under one ownership transaction. Worker adapters run whole evaluations in a disposable
worker. Everything the application supplies (store, encoder, resolver, signal,
worker) is called back from the middle of an operation and may call the
library again.

## 2. Plan

Done, in order of importance: `TurnQueue`, its abstract specification
`SerialTurns`, `ArtifactCacheSession` (which extends the queue), `DisposableWorker`,
`ResourceSession` and its abstract specification `VerifiedStore`,
`EvaluatorLifecycle`; then `ProductEvaluation`, `AssemblyTraversal`
and `ProductPlan` (which extends the traversal), `DesignImpact` and `LoaderHook`.
The safety properties of all of them are proved.

What would come next:

1. One more abstract specification: an ideal cache (a hit is what was last written)
   for sessions over an honest store.
2. Validation's cycle check and the dependency closure of feature hashes against
   reference definitions.

## 3. The modules and the code

An action is what the event loop runs without interruption: the code between two
awaits, or between a callback and its return. Each module's comments name the
code; `PROJECT.json` lists the lines of every definition.

**TurnQueue** models `#exclusive`. An operation takes a turn (`Submit`), waits
in a race between its predecessor's release (`Acquire`) and its signal
(`Abort`, `CancelQueued`), runs (`Enter`), and releases (`Exit`). A cancelled
operation settles at once but passes its turn on only after its predecessor
(`PassOn`); so does one whose `addEventListener` throws (`AttachFails`). The
promises are the variables `phase` (the caller's), `race`, `released` and
`pred`; `tail` is the session's `#tail`. `place` counts turns: it is history
for the properties and the refinement.

**SerialTurns** is the abstract specification: per session a first-come-
first-served lock which a waiting operation may give up. `TurnQueue` maps an
operation to `waiting` while its race may still be won, to `holding` while it
runs and to `left` afterwards, even while its turn is still owed.

**ArtifactCacheSession** extends the queue: what an operation does between
`Enter` and `Exit`, one action per stretch between awaits: key normalization
and its digest, admission against the limits, the store call, judging the
answer, digest validation, encoding, and the write that follows. Store and encoder are external:
the store starts with any contents (intact, corrupt, oversized, misrouted,
malformed), ignores byte ceilings at will and fails with or without having done
its work. Sibling sessions share `records` and `mode` only.

**DisposableWorker** is one call of `runDisposableWorkerOperation`. `worker`
says which parts of the handle are usable; `start()` is a phase in which time
passes and the caller may abort but no timer fires; timers form a chain of at
most `MaxTimerDelay` each.

**ResourceSession** has one record of variables per call (`stage`, `pending`,
`current`, `temporary`, `answer`) and the session's own (`generation`,
`entries`, `count`, `bytes`). A buffer is named by the call that copied it and
its key; wiping adds it to `wiped`. `clear` and `dispose` raise the generation,
which `Stale` notices after each await.

**VerifiedStore** is the abstract specification of that session: what is there under
which commitment, whether the store is open, and how each call ended. A call is one
step of it, taken when the session commits or gives up (`Store` in
`ResourceSession` maps the entries to their commitments and forgets the buffers).

**EvaluatorLifecycle** has the evaluator's four guard variables under their
meaning, the kernel's shape table (`shape`), and for every evaluation its stage,
its output index and its registry `created`. A public evaluation without a
signal is one action; one with a signal stops at `yield` before each output and
after the last; on an evaluator with a private cache a box output goes through
`key`, `read`, `decode`, `delete`, `write`. Registration and liveness are
separate variables, so that a shape which exists but is not registered is a
leak. The synchronous evaluation of an output's nodes is one step which makes
all missing shapes or fails after any part of them. The kernel is Manifold,
which goes on working after `dispose`, or OCCT, which refuses to; only the
latter may have a private cache, bound before the first evaluation or never.

**ProductEvaluation** is one body-set, part or product evaluation. `stage` names the
await or call it is at; the three nested async functions (graph, batch, product)
each have an await of their own after they return, where an abort may land
(`graphReturned`, `batchReturned`, ...). The kernel is the application's:
`ReturnShape` may return any shape, also one it has returned before; what the
transaction or the graph knows is refused and left alone. `DisposeEach` models the
owners, which dispose of each distinct shape of a family.

**AssemblyTraversal** is a product evaluation before any geometry: `world` is all it
is given. An action is one round of the code's loop: take the next instance, charge
it, refuse it, note a part or go into an assembly; then the documents it met are
admitted, and the assemblies found behind the boundary are walked by the second copy
of the loop, which the code has for them. Placements can be evaluated or they cannot.
`requested` is the selection without repetitions, as `captureOutputs` leaves it.
The definition the walk is compared with lists the active positions by the length of
their paths, up to `PathBound`; the walk goes no deeper than the limit on the depth.

**ProductPlan** extends it: it resolves every occurrence to a component, gathers one
batch per document and configuration, names its selections, charges bodies and
distinct solids, executes and hands out views. Names matter here, and only here:
a name is a text with or without the mark that no authored name can have.

**DesignImpact** is the analysis of changes, context by context (the base, then each
configuration that has an effect), with the worklist of parameters, the materials
and the worklist of nodes. Names are not ordered, so TLC takes the worklists'
elements in every order. The properties refer to `Follow`, the least set which is closed
under "reads": a definition without any worklist.

**LoaderHook** is `loadAttestedOcctRuntime` on three kinds of host: with a hook thread
(`toThread` and `toMain` are the two directions of the port, `bySpecifier` and `byUrl`
the thread's maps), with synchronous hooks, and with Blob URLs. The hook's own source
text, which runs on the thread, is modelled as well. The import itself is the host's: it
asks for the specifier, then for the URL, and may fail at any point.

## 4. What the runs check

| Run (configuration) | Question | Bounds |
|---|---|---|
| `queue_safety` (`TurnQueue.cfg`) | turns are released in order; the queue implements `SerialTurns`, mutual exclusion included; cancellation is prompt although the holder hangs | 4 operations, one without a signal, 2 sessions; no fairness for the holder |
| `cache_one_session` | hits and stored records are intact and paid for; aborts at every await | 2 cancellable operations of any kind, 2 keys, 2 sizes, any store contents |
| `cache_siblings` | limits | 3 operations without signals, 2 sessions, one key, limits that two operations reach |
| `cache_settles` | every operation settles | 2 operations, fair |
| `disposable_worker` | the six properties of a call | timeouts served by 1, 1 (full), 2 and 3 timers; `start()` up to 4 ticks; timers 1 tick late |
| `resource_session` | the session implements `VerifiedStore`, counters, readers, buffers; calls settle, after an abort even if the resolver hangs | 2 calls, 2 keys, 2 commitments, 2 clears, 1 dispose; requests that overlap, conflict, exceed the limits |
| `evaluator` | leaks, ownership, disposal, aborts, no overlap on the cache; every evaluation settles | Manifold and OCCT, without and with a cache in each mode; 2 signalled and 1 plain evaluation, 1 import; 4 outputs over 3 nodes: a box, a feature of it and a second one, that second one, a third box |
| `product_evaluation` | ownership of shapes, aborts; an aborted evaluation ends | a batch of two nodes and one of one; 4 shapes, which the kernel may return again |
| `assembly_traversal` | exactly the active parts, or a cause | 15342 calls: two root instances from 9 templates and 8 unusable ones, assemblies within and behind the boundary, selections of outputs, each limit tight at 0 to 5 |
| `product_plan` | plans are executable, views are one's own, shared geometry is paid for once | 4668 calls: outputs called like nodes they do or do not refer to, here and in the external document, tight limits |
| `design_impact` | the report is exact, its reasons lead to changes | 6264 documents with changes: graphs of 3 parameters with at most one reference per definition, cycles included; 2 materials, 4 nodes, 2 configurations |
| `loader_hook` | imports find their source, nothing is left behind, no load hangs with the thread | 3 loads on each kind of host |

Each property of a run is broken by a mutant of the code it is about: the
operators marked *Mutation* restate one definition with a plausible bug.

Why the bounds are enough: a queue needs a holder, a cancelled operation behind it
and a third behind that one, and a fourth for two in a row; sessions only
interact through the store, so two show it. The limits are small enough that
the operations at hand reach and exceed each of them. Resource calls never
overlap, so two calls give every pair of consecutive states a reader can
outlive. Three shapes per evaluation give a failure after a success; four
evaluations give an overlap, a disposal and a survivor. A second batch is what a
first one can be harmed by; four shapes are enough for three nodes and one that
is returned again. The worlds of the three modules of functions are chosen by
kind: each reference, configuration, suppression and refusal occurs alone and
under another of its kind, each limit is met and exceeded by one. Three loads are
two that wait together and one that is elsewhere. The generation of a
resource session, the time in the worker module and the number of calls are
bounded by constants (`MaxClears`, `MaxStartTime`, `Lateness`, the sets of
operations); calls are made at most once each.

Symmetry is used in safety runs only, over operations of equal rights.

Deadlock is not checked: each system stops when its finitely many calls have
settled. That nothing stops earlier is what the liveness properties show.

### Fairness

- Continuations of the event loop are weakly fair: a promise that is settled
  eventually runs its reactions.
- Store, encoder and resolver are weakly fair where the code has no way out
  (`cache_settles`, `evaluator`). Where it has one, an abort, they are not
  (`queue_safety`, `resource_session`, `product_evaluation`): there the property is
  about calls that are aborted or do not wait for the application.
- Timers fire and time passes (`disposable_worker`), and so does
  `#yieldToHost`, a `setTimeout` of 0. The termination adapter answers: the
  code waits for it without a deadline, as its documentation says. The
  worker's result is not fair: the timeout covers it.
- `loader_hook`: digests end and the timeout fires. Neither the hook thread nor an
  import is fair, and nothing is claimed of the import: the code gives it no deadline.
- The host owes nothing: no submission, abort, clear or disposal is fair.

### Assumptions about the runtime

Two consecutive promise reactions of which the first enqueues the second run
without host code in between; so the end of `#yieldToHost`, its `finally` and
the code up to the next await are one step, and a call's `finally` is one step
with its settling. JavaScript intrinsics are intact.
Digests do not collide; corruption of a record is a flag.
No application code that is called synchronously in the middle of a step (a
custom solver, an accessor) disposes of the evaluator. Withdrawing a hook, a Blob
URL or a source does not throw; the code ignores it if it does.

## 5. What is proved

`ArtifactCacheSessionProofs` begins with the queue, for all sets of operations and
sessions. The invariant `QInv`
has six parts: the types; that only placed operations queue (`UnplacedInv`);
that the tail is the newest turn (`TailInv`); that turns form a chain without
gaps, whose places are unique (`ChainInv`); that whoever holds or has released
a turn has everyone before it released (`OrderInv`); and how the caller's promise
and the race relate (`StageInv`). Mutual exclusion alone is not inductive: that
the predecessor is released says nothing of older turns unless every release
was in order. The key lemma `EarlierReleased` draws that conclusion. From it:
`QueueTypeCorrect`, `OneAtATimeHolds`, `NoOvertakingHolds`,
`ReleasedInOrderHolds`, and the refinement `QueueImplementsSerialTurns`.

Then the session, for all keys, sizes and limits.
`CacheImplementsQueue`: every step of a session is a step of the queue or leaves
it alone, so `QInv` holds here. `WithinLimits` is not inductive: the encoder is
awaited between computing what it may produce and charging it. The invariant
`CInv` therefore adds `PromiseInv` (what the encoder was promised is still left)
and `TaskInv` (what a task's step says of its fields); `PromiseInv` survives the
steps of others because of mutual exclusion. Results: `CacheTypeCorrect`,
`WithinLimitsHolds`.

The same module has a second invariant on top of `CInv`. `CleanInv` says of each operation that a record which passed judgement is sound
(intact, within the entry limit, under its own key) and stays so on its way to
the store or the caller; that what is about to mutate the store was let through
by the mode; and that an operation still in the queue has no verdict yet. It
rests on `CInv` for the sort of a task's record and key. Every step is one of
four kinds: it settles its operation, goes on to its next await, starts a turn,
or touches the queue only. The two properties about aborts also need
`OneOperationSteps`: a step changes the task and phase of one operation. Results:
`HitsAreIntact`, `StoreKeepsIntact`, `AbortHeeded`.

A third invariant is about sums. `EveryBytePaid` is not inductive: it counts hits,
but a session is charged when a record is read, steps before it is delivered; and it
counts a write whose outcome is unknown for ever. `PaidInv` says that what the
operations of a session let through or have *in hand* (`ReadOwed`, `WriteOwed`) costs
no more than the counters say. Operations may be without number, so only the
finitely many submitted ones cost anything. Results: `PaidInvariant`, `BytesArePaid`.

How sums are proved about: the sum over a finite set equals the number of its
*units*, the pairs of an element and a number from 1 to its value (`SumIsUnits`). The
library's facts about cardinalities then do what induction over the set would
do. `SumIsUnits` itself needs no induction rule that takes a predicate: if the equation
failed on some subsets, one of them would be smallest, for strict inclusion is well
founded on finite sets. These lemmas stand in this module, in
`ResourceSessionProofs` and in `AssemblyTraversalProofs`.

`ThreadProofs` has the proofs of `DisposableWorker` and those of `LoaderHook`: neither
uses the other, but both work with a thread of their own. First `DisposableWorker`, for
all timeouts, timer limits, durations of `start()` and latenesses. `WInv` adds to the state properties: before `start()` has
returned only an abort counts (`EarlyInv`, for `SlowStartFails`); an armed timer
and the rest it leaves reach the deadline (`TimerInv`, for `TimeoutIsNotEarly`: a
late timer only makes the sum larger); the termination follows the outcome and
the promise the termination (`TerminationInv`). Results: `CallTypeCorrect`,
`TerminatedFirst`, `OutcomeReported`, `NeverEarly`, `AllObserved`,
`FirstOutcomeWins`, `SlowStartsFail`.

Then `LoaderHook`, for any finite set of loads and queues of any length. `LoadInv`
follows the installation of one load: it is under way to the thread, or its answer
is under way back, or neither, and it is sent once; no cancel is under way while the
library still needs the source, and when it does not, one follows the installation.
Neither half of `SourcesServeOneLoad` is inductive without that: an acknowledged
source is still there because its cancel has not been sent, and a late one goes
because its cancel is behind it. `HostInv` keeps the three kinds of host apart and
ties the port to the waiters. What a queue contains, contains once, and contains
behind something else is carried through `Tail` and `\o` by lemmas about
sequences. Results: `HookTypes`, `EachSourceServesItsLoad`.

`ResourceSessionProofs`, for all calls, keys, contents and limits. `RInv` is the
conjunction of the state properties, `TypeInv` (the types without the two
counters), `CallInv` (a call in flight holds only buffers of keys it was missing,
nobody wipes them, and until the generation changes nobody else adds an entry for
these keys) and `EntriesInv` (a kept entry is an unwiped buffer of a call that has
ended). That a live reader's buffers are not wiped is inductive only with the
last two: wiping takes the buffers of the failing call or all kept ones, and in
the second case the generation rises. The refinement needs one thing more,
`AskedInv`: while a call that may still succeed is in flight, the entries are those
its request was checked against, for the call alone may change them until the
generation does. Hence what is committed completes the request, and the commit is
the one moment at which the store serves it; all other steps refuse, drop, close or
stutter. Results: `CallsAreSerial`, `ReadersAreIntact`, `BuffersAreWiped`,
`DisposedIsEmpty`, `SessionIsAStore`.

That the two counters are exact (`CountersMatchEntries`) needs more than the entries:
a call is admitted against the counters when it starts and adds to them when it
commits, awaits later. `AccountInv` says that the counters are the number and the
bytes of the kept pairs of key and commitment, and that what a call in flight is
missing still fits *together with* what is kept, unless it has become stale. Clearing
zeroes the counters and makes every call stale, so nothing is counted against them
that was admitted before. Results: `TypeCorrect`, whose last parts are the
counters, and `CountersAreExact`.

`EvaluatorLifecycleProofs`, for any finite set of evaluations and any nodes and
outputs. The invariant `EInv` is the conjunction of the module's state
properties, a weaker type part (`TypeInv`) and `WhereInv`: only an evaluation
with a signal yields, only a private one awaits the cache, at an output that is
a box. None of the properties is inductive alone: that no shape vanishes under
an evaluation that waits needs the guards of `dispose` to count exactly what is
under way; that count needs private evaluations never to overlap, since the
flag they share is lowered by whichever ends first; and that needs the flag to
be exact. Three lemmas say what ending in failure, ending in success and going
on to wait do to `EInv`; every action is one of these after some branching.
Results: `Typed`, `NothingLeaks`, `ShapesOutliveTheirUse`, `GuardsHold`,
`DisposedStaysQuiet`, `AbortIsFinal`.

`ProductEvaluationProofs`, for any plan and any set of shapes. The invariant `IInv`
accounts for every shape: it is released, in the making, or owned by exactly one
live child (`Accounted`, `Apart`), and says what each stage may have in hand and that
the transaction knows the shapes of all earlier batches (`ByStage`). That a shape is
never released twice needs all of it: a batch may fail because the kernel returned
an earlier shape, and only the transaction's knowledge keeps that one apart. The
lemmas about families of sets say that disposing of each distinct member counts
a shape once if the family is disjoint. Results: `Preserved`, `ReleasesAreDue`,
`FailuresAreClean`, `ResultsOwnShapes`, `AbortIsHeeded`.

`DesignImpactProofs`, for any document and any changes. The worklists compute
the least closed set `Follow`: while a context is searched, the roots are found, what
is found is affected, and whatever is found is still queued or has its consumers found
(`OriginInv`); when the queue is empty the found set is closed, hence contains all that
is affected. The order of work does not occur in this, so it does not matter. Two
origins are searched at once and a parameter is visited again when the second
arrives (`SearchInv`, twice); the nodes have an invariant of the same form. A context
without an effect reads what the base reads (`RelevantSuffice`), so it may be left
out. That reasons lead back although those on cycles are dropped rests on
`CausesCover`: the edges along which a parameter was first reached are kept, and
they alone lead from the roots to everything. Results: `ImpactExact`, `BlameExact`,
`ReasonsLead`.

`AssemblyTraversalProofs`, for any documents, requests and limits, has two results. The
first: when the traversal succeeds, the occurrences are exactly the active
parts, each once and in the order of their paths (`OccurrencesAreTheActiveParts`). The
definition it is compared with knows no stack: it lists the active positions level by
level. A path leads to one position at most (`UniquePosition`), by induction on its
length; the induction is over a set of naturals that contains 0 and each successor
(`ByInduction`), which needs no rule that takes a predicate. The invariant `PlacesInv`
has three parts. `WalkPlaces`: each frame stands at an open position, each occurrence
and each queued assembly is at its own, and every active part has been found, is in or
behind what is queued, or is ahead of a frame. `WalkOrder`: what was found comes before
what is ahead, and that before what is queued; this is why nothing is found twice.
`SelectedPlaces`: the same of the outputs that are finished, whose external assemblies
are expanded or not yet. Popping a frame loses no part because nothing below an
assembly is beyond its last instance; expanding a queued assembly in place keeps the
order because all its parts are below its path. That the occurrences are as many as the active
parts follows from a bijection between the places of the list and the parts.

The second, `FailuresHaveCauses`, says that the traversal fails exactly when it should, and
that the limit it names is exceeded. The totals it is compared with are sums over the
active product, and nothing in the code adds up a product: the two copies of the walk
count as they go. So the invariant says of what is counted so far that it is a sum as well.
A position is a *place*, once for each requested output (`Places`); `Passed` are the places
that the walk, with its frames and its occurrences yet to be expanded, will not come to
again, and `Entered` are the assemblies among them that it went into.
While nothing has failed, `CausesInv` holds: each counter is the sum over what was passed,
or entered (`ChargedInv`); no counter is over its limit (`WithinInv`); what was passed is not
at fault, unless that shows only when the external documents are there (`FaultsInv`); and
the request is sound as far as it was looked at (`OutputsInv`). Together with
`TraversalInv` and `AccountedInv` this is inductive: a visit passes exactly one place, because a path leads to one position and what the frame skips, being suppressed,
leads to none (`VisitPasses`, `VisitCosts`); going into an assembly, here or behind the
boundary, passes none and enters one; to pop a frame or to collect an output does neither.
When an action refuses, the counter it found over its limit is the sum over a set of places,
which is at most the total (`OverLimit`), or the position it stands at is at fault
(`Cause`). When the traversal succeeds, nothing is still to come, so every place is passed
and every assembly entered: the totals are the counters (`EndsWithin`), and no position is
at fault (`EndsEvaluable`). Sums are numbers of units (`SumIsUnits`), as in
`ArtifactCacheSessionProofs`. `TraversalIsAccountedFor` is the invariant.

`ProductPlanProofs` extends it and has three results. The first, `NoFaultOfItsOwn`, says
that the code never reports a fault of its own. Three places in the code could: two selections of a batch with one name, a batch with more selections
than the kernel admits, and an output or occurrence whose result is missing. None
of this is visible before the last stages, so `ProductInv` follows an occurrence all
the way. `WalkInv` holds during the traversal: the frames, lists and selections are
well formed (`StackInv`, `ListsInv`, `SelectedInv`), and an occurrence that was met is
*counted*, under the key of its part or, if it is still to be expanded, with its
document (`CountersInv`). `PlanInv` holds from then on: whatever is
resolved has a component in some batch under construction, and whatever is not is
still to come (`ResolutionInv`); the keys of an external batch are the components
it makes, under names that differ because an authored name cannot have the mark
(`ExternalInv`); prepared batches are those and the local ones (`BatchesInv`);
executed ones have left a result for each of their keys (`ResultsInv`). That a
batch has no more selections than the limits on contextual parts and
on outputs together allow is shown by an injection from its selections into the
counted parts and the selected outputs. `ProductInvariant` is the
invariant: the walk, the plan, or a failure that is not the code's own.

The second, `EveryViewIsTheRightOne`, says that each result is also the right one. It
takes the places of the traversal through the stages of the plan. `OwnersInv`: each
occurrence of the plan is at a part and, once resolved, knows its node, and no part is
without an occurrence; a part directly behind the boundary is what its output refers to
(`DirectNode`), because no assembly leads to itself and so only an instance that crosses
can have led there. `CalledInv`: every component of an external batch is called as its
selection and has its node; here the two origins of names are told apart, since a plain
name that is an output stands for what the output refers to and any other for itself
(`NodeCalled`). `OwnViewsInv`: a view depends on nothing but its component. With
`ProductInv`, `OwnedInv` of these is inductive.

The third, `EverySolidIsPaidForOnce`, is about what the batches cost. Nothing is counted as a
part that is not active or selected (`AccountedInv`, from the places of the traversal), every
component of an external batch is that of an active part, and no two batches have one
document and configuration (`PreparedInv`); so what the batches make is
what is wanted (`WantedIsMade`; one half is from `OwnersInv`, as no part lost its occurrence), and a
batch that is charged makes nothing that one before it makes (`SpentInv`).

The proofs assume only what the modules' `ASSUME`s say: `NoTurn` is no operation,
`NoSession` no session, the operations with a signal are operations, limits and
sizes are naturals, timeouts and timer delays are positive, the supplied records
are records, the calls of an evaluator and the loads are finitely many, a request is a finite set of
keys with their commitments, no entry is `NoEntry`, an output that is a box
needs that box and nothing else, a plan has at least one batch, requested outputs and instances of an assembly are finite
lists, limits are naturals, no path is longer than `PathBound` if it
is within the limit on the depth, no node is called `Nothing`, a component is a part or an
assembly, has finitely many placement operations and, if it is external, is of another
document (`WorldsAssumption`: the code resolves it from a resource, and the
types of the document admit nothing else), an output refers to some kind of node and what is not an assembly has finitely
many bodies (`BodiesAssumption`), and what is changed
or overridden in a document exists, which validation checks before. TLC evaluates
them in every run.

## 6. Only model-checked

- All liveness (`PromptCancellation`, `EveryTaskSettles`, `CallSettles`,
  `EveryCallSettles`, `EveryEvaluationSettles`, `AbortedEvaluationEnds`,
  `InstallationSettles`): proofs of it under fairness are out of this prover's reach.

Every invariant and every action property that a run checks is stated by a theorem.

## 7. Not modelled

- What features, sketches and measurements compute: native code and floating
  point. An evaluation's feature graph is the set of nodes an output needs. This is
  most of `evaluator.ts`, `occt-kernel.ts`, `manifold-kernel.ts`, `solver.ts`, the
  protocols of profiles and paths, the OCCT facade and the measurements: their
  control is a chain of checks of numbers on one thread, and the clean-up that
  matters is in `EvaluatorLifecycle` and `ProductEvaluation`.
- Texts: diagnostics, formats, canonical hashing, schemas, the parsing of
  manifests. A diagnostic is its class. Validation and authoring are long lists of
  such checks over one immutable document, without steps that could interleave.
- Identity renames and the capture of runtime intrinsics: tables of members, which a
  model would only restate.
- Topology resolution: its matching depends on numeric tolerances throughout.
- Malformed arguments and damaged intrinsics, which end a call before it
  changes state, are not told apart from other refusals.
- Feature hashes and the cycle check of validation are bounded algorithms that could
  be modelled; they are in the plan of section 2.
- Tests, tools and the command line: no state of the library's own. The repository's
  scripts and the conformance audits are maintainers' tooling.
