----------------------------- MODULE ProductPlan -----------------------------
(* evaluateProductDocumentCoreV7 once it knows what is active: it plans one   *)
(* batch of geometry for every document and configuration, with one selection *)
(* for every part and every direct output that is wanted of it, pays for all  *)
(* batches before any is executed, and hands the views that come back to the   *)
(* occurrences and outputs that asked for them.                               *)
(*                                                                            *)
(* Everything is found again by name, and the names have two origins: the      *)
(* outputs and the nodes of a document.  Nothing keeps an output from having   *)
(* the name of a node that it does not refer to.                               *)
(*                                                                            *)
(* Nodes have here the set of bodies that they are made of.  Batches are       *)
(* executed by a kernel that succeeds (ProductEvaluation has one that fails),  *)
(* and sorted in some order, as names have none.                               *)
EXTENDS AssemblyTraversal

\* An output refers to a node of some kind, and whatever is not an assembly has
\* finitely many bodies.
ASSUME BodiesAssumption ==
    \A w \in Worlds : \A d \in DOMAIN w.documents :
        /\ \A name \in DOMAIN w.documents[d].outputs :
              w.documents[d].outputs[name].kind # Nothing
        /\ \A n \in DOMAIN w.documents[d].nodes :
              w.documents[d].nodes[n].kind # "assembly" =>
                  IsFiniteSet(w.documents[d].nodes[n].bodies)

VARIABLES
    external,       \* the batches of external documents under construction
    batches,        \* the prepared batches, in their order
    batchIndex,     \* the batch to charge or to execute
    spent,          \* the bodies and the distinct solids paid for
    nativeResults,  \* name and configuration -> view
    partResults,    \* component and configuration -> view
    products        \* the outputs of the result

planVars == <<external, batches, batchIndex, spent, nativeResults, partResults,
              products>>
allVars == <<vars, planVars>>

\* A selection is named by an output or a node, or by a node behind a mark that
\* no authored name can have.
Plain(name) == [text |-> name, marked |-> FALSE]
Marked(name) == [text |-> name, marked |-> TRUE]

\* A map after the entries of another one have been set in it, and after one has.
Updated(f, entries) ==
    [x \in DOMAIN f \cup DOMAIN entries |-> IF Has(entries, x) THEN entries[x] ELSE f[x]]

With(f, x, value) == Updated(f, [y \in {x} |-> value])

RefusePlan(reason) == Refuse(reason) /\ UNCHANGED planVars

PlanInit ==
    /\ Init
    /\ external = <<>> /\ batches = <<>> /\ batchIndex = 0
    /\ spent = [bodies |-> 0, solids |-> 0]
    /\ nativeResults = <<>> /\ partResults = <<>> /\ products = <<>>

Traverse == Next /\ UNCHANGED planVars

BeginPlan ==
    /\ stage = "traversed"
    /\ stage' = "resolve" /\ outputIndex' = 1
    /\ queue' = selectedOrder[1].occurrences
    /\ UNCHANGED <<world, failure, selectedOrder, occurrences, stack, charged>>
    /\ UNCHANGED planVars

-----------------------------------------------------------------------------
(* The component of every occurrence, and the batch it belongs to.          *)

\* What results are found by; the kind follows from document and output.
ComponentKey(o) ==
    [document |-> o.document, output |-> o.output, kind |-> o.kind, node |-> o.node,
     configuration |-> o.configuration]

\* Mutation: a batch for every output of an external document.
BatchKeyOfOutput(o) == <<o.document, o.configuration, o.output>>

BatchKey(o) == <<o.document, o.configuration>>

\* Mutation: also if there is an output of that name.
LeafNameUnmarked(d, node) == Plain(node)

\* The selection of a part behind an external assembly is named by the part.
LeafName(d, node) ==
    IF Has(Document(d).outputs, node) THEN Marked(node) ELSE Plain(node)

\* The batch with one more occurrence of the selection of this name.
WithOccurrence(batch, name, o) ==
    LET before == IF Has(batch.keys, name) THEN batch.keys[name] ELSE {}
    IN [document |-> o.document, configuration |-> o.configuration,
        nodes |-> With(batch.nodes, name, o.node),
        keys |-> With(batch.keys, name, before \cup {ComponentKey(o)})]

EmptyBatch == [nodes |-> <<>>, keys |-> <<>>]

Resolving == stage = "resolve" /\ queue # <<>>

ResolveLocal ==
    /\ Resolving /\ Head(queue).source = "local"
    /\ occurrences' = Append(occurrences, Head(queue))
    /\ queue' = Tail(queue)
    /\ UNCHANGED <<world, stage, failure, selectedOrder, outputIndex, stack, charged>>
    /\ UNCHANGED planVars

ResolveExternal ==
    /\ Resolving /\ Head(queue).source = "external"
    /\ LET o == Head(queue)
           d == o.document
           known == Has(Document(d).outputs, o.output)
           usable == /\ known /\ Sound(d, o.output)
                     /\ Document(d).outputs[o.output].kind = o.kind
           resolved == IF o.kind = "part"
                       THEN [o EXCEPT !.node = Document(d).outputs[o.output].node]
                       ELSE o
           name == IF o.kind = "part" THEN Plain(o.output) ELSE LeafName(d, o.node)
           key == BatchKey(o)
           batch == IF Has(external, key) THEN external[key] ELSE EmptyBatch
           why == FirstFailing(<<
               <<"output", ~known>>,
               <<"unsupported", ~usable>>,
               <<"configuration", ~KnownConfiguration(d, o.configuration)>> >>)
       IN IF why # "none"
          THEN RefusePlan(why)
          ELSE /\ occurrences' = Append(occurrences, resolved)
               /\ external' = With(external, key, WithOccurrence(batch, name, resolved))
               /\ queue' = Tail(queue)
               /\ UNCHANGED <<world, stage, failure, selectedOrder, outputIndex, stack,
                              charged, batches, batchIndex, spent, nativeResults,
                              partResults, products>>

FinishResolution == FinishOutput("resolve", "prepare") /\ UNCHANGED planVars

-----------------------------------------------------------------------------
(* The batches, those of the evaluated document first.                      *)

DirectOutputs == {o \in Range(selectedOrder) : o.kind # "assembly"}

\* The parts of the evaluated document that are wanted in configuration c.
LocalParts(c) ==
    {key[3] : key \in {k \in charged.parts : k[1] = "local" /\ k[4] = c}}

LocalContexts ==
    {key[4] : key \in {k \in charged.parts : k[1] = "local"}}
        \cup {world.configuration : o \in DirectOutputs}

\* Mutation: also if a selected output of that name is something else.
PartNameUnmarked(node) == Plain(node)

\* The name of the selection of a part, in any configuration.
PartName(node) ==
    IF \E o \in DirectOutputs : o.name = node /\ o.node # node
    THEN Marked(node) ELSE Plain(node)

PartSelections(c) ==
    {[name |-> PartName(n), node |-> n, kind |-> "part"] : n \in LocalParts(c)}

DirectSelections(c) ==
    IF c # world.configuration THEN {}
    ELSE {[name |-> Plain(o.name), node |-> o.node, kind |-> o.kind] :
            o \in DirectOutputs}

Bodies(d, selections) ==
    MapThenSumSet(LAMBDA s : Cardinality(Document(d).nodes[s.node].bodies), selections)

Solids(d, selections) ==
    Cardinality(UNION {Document(d).nodes[s.node].bodies : s \in selections})

\* prepareProductGeometryOutputsV7.  The limit on its selections is the sum of
\* the one on parts and the one on outputs.
Prepare(d, c, selections, keys, ambiguous) ==
    LET why == FirstFailing(<<
            <<"internal", ambiguous>>,
            <<"selections", Cardinality(selections) >
                            Limit("maxContextualParts") + Limit("maxSelectedOutputs")>>,
            <<"internal", selections = {}>>,
            <<"maxPartBodies", Bodies(d, selections) > Limit("maxPartBodies")>>,
            <<"maxDistinctSolids", Solids(d, selections) > Limit("maxDistinctSolids")>>,
            <<"configuration", ~KnownConfiguration(d, c)>> >>)
    IN IF why # "none"
       THEN RefusePlan(why)
       ELSE /\ batches' = Append(batches, [document |-> d, configuration |-> c,
                                           selections |-> selections, keys |-> keys])
            /\ UNCHANGED <<vars, external, batchIndex, spent, nativeResults,
                           partResults, products>>

Prepared(d, c) ==
    \E k \in DOMAIN batches : batches[k].document = d /\ batches[k].configuration = c

PrepareLocal ==
    /\ stage = "prepare"
    /\ \E c \in LocalContexts :
          /\ ~Prepared(Root, c)
          /\ Prepare(Root, c, PartSelections(c) \cup DirectSelections(c), <<>>,
                     \E s \in PartSelections(c), t \in DirectSelections(c) :
                         s.name = t.name /\ s # t)

ExternalPrepared(batch) == \E k \in DOMAIN batches : batches[k].keys = batch.keys

PrepareExternal ==
    /\ stage = "prepare"
    /\ \A c \in LocalContexts : Prepared(Root, c)
    /\ \E key \in DOMAIN external :
          LET batch == external[key]
          IN /\ ~ExternalPrepared(batch)
             /\ Prepare(batch.document, batch.configuration,
                        {[name |-> name, node |-> batch.nodes[name], kind |-> "part"] :
                            name \in DOMAIN batch.nodes},
                        batch.keys, FALSE)

FinishPreparation ==
    /\ stage = "prepare"
    /\ \A c \in LocalContexts : Prepared(Root, c)
    /\ \A key \in DOMAIN external : ExternalPrepared(external[key])
    /\ stage' = "charge" /\ batchIndex' = 1
    /\ UNCHANGED <<world, failure, selectedOrder, outputIndex, queue, occurrences, stack,
                   charged, external, batches, spent, nativeResults, partResults,
                   products>>

-----------------------------------------------------------------------------
(* Paying for the batches and executing them.                               *)

Batch == batches[batchIndex]

Remaining == batchIndex <= Len(batches)

ChargeBatch ==
    /\ stage = "charge" /\ Remaining
    /\ LET bodies == spent.bodies + Bodies(Batch.document, Batch.selections)
           solids == spent.solids + Solids(Batch.document, Batch.selections)
           why == FirstFailing(<<
               <<"maxPartBodies", bodies > Limit("maxPartBodies")>>,
               <<"maxDistinctSolids", solids > Limit("maxDistinctSolids")>> >>)
       IN IF why # "none"
          THEN RefusePlan(why)
          ELSE /\ spent' = [bodies |-> bodies, solids |-> solids]
               /\ batchIndex' = batchIndex + 1
               /\ UNCHANGED <<vars, external, batches, nativeResults, partResults,
                              products>>

BeginExecution ==
    /\ stage = "charge" /\ ~Remaining
    /\ stage' = "execute" /\ batchIndex' = 1
    /\ UNCHANGED <<world, failure, selectedOrder, outputIndex, queue, occurrences, stack,
                   charged, external, batches, spent, nativeResults, partResults,
                   products>>

\* What the kernel made of selection s, known by its name.
View(batch, s) ==
    [document |-> batch.document, configuration |-> batch.configuration,
     node |-> s.node, kind |-> s.kind, name |-> s.name]

Renamed(view, node) == [view EXCEPT !.name = Plain(node)]

NativeResults(batch) ==
    [k \in {<<s.name, batch.configuration>> : s \in batch.selections} |->
        View(batch, CHOOSE s \in batch.selections : s.name = k[1])]

LocalKey(node, c) ==
    [document |-> Root, output |-> Nothing, kind |-> "part", node |-> node,
     configuration |-> c]

\* Direct part outputs are views of their own.
LocalResults(batch) ==
    LET leaves == {s \in batch.selections : s.kind = "part" /\ s.name = PartName(s.node)}
    IN [k \in {LocalKey(s.node, batch.configuration) : s \in leaves} |->
           Renamed(View(batch, CHOOSE s \in leaves : s.node = k.node), k.node)]

\* All components of a selection get its view, those behind an assembly as a
\* view that is named by the part.
ExternalResults(batch) ==
    LET selection(k) == CHOOSE s \in batch.selections : k \in batch.keys[s.name]
    IN [k \in UNION Range(batch.keys) |->
           IF k.kind = "assembly" THEN Renamed(View(batch, selection(k)), k.node)
           ELSE View(batch, selection(k))]

ExecuteBatch ==
    /\ stage = "execute" /\ Remaining
    /\ IF Batch.document = Root
       THEN /\ nativeResults' = Updated(nativeResults, NativeResults(Batch))
            /\ partResults' = Updated(partResults, LocalResults(Batch))
       ELSE /\ partResults' = Updated(partResults, ExternalResults(Batch))
            /\ UNCHANGED nativeResults
    /\ batchIndex' = batchIndex + 1
    /\ UNCHANGED <<vars, external, batches, spent, products>>

-----------------------------------------------------------------------------
(* The result.                                                              *)

NativeKey(o) == <<Plain(o.name), world.configuration>>

\* A result that the plan does not account for.
Unavailable(o) ==
    IF o.kind = "assembly"
    THEN \E j \in DOMAIN o.occurrences :
            ~Has(partResults, ComponentKey(o.occurrences[j]))
    ELSE \/ ~Has(nativeResults, NativeKey(o))
         \/ nativeResults[NativeKey(o)].kind # o.kind
         \/ nativeResults[NativeKey(o)].node # o.node

Product(o) ==
    IF o.kind = "assembly"
    THEN [j \in DOMAIN o.occurrences |->
            [path |-> o.occurrences[j].path,
             view |-> partResults[ComponentKey(o.occurrences[j])]]]
    ELSE <<[path |-> <<>>, view |-> nativeResults[NativeKey(o)]]>>

Assemble ==
    /\ stage = "execute" /\ ~Remaining
    /\ IF \E o \in Range(selectedOrder) : Unavailable(o)
       THEN RefusePlan("internal")
       ELSE /\ stage' = "done"
            /\ products' = [k \in DOMAIN selectedOrder |-> Product(selectedOrder[k])]
            /\ UNCHANGED <<world, failure, selectedOrder, outputIndex, queue,
                           occurrences, stack, charged, external, batches, batchIndex,
                           spent, nativeResults, partResults>>

PlanNext ==
    \/ Traverse \/ BeginPlan
    \/ ResolveLocal \/ ResolveExternal \/ FinishResolution
    \/ PrepareLocal \/ PrepareExternal \/ FinishPreparation
    \/ ChargeBatch \/ BeginExecution \/ ExecuteBatch \/ Assemble

PlanSpec == PlanInit /\ [][PlanNext]_allVars

-----------------------------------------------------------------------------
\* What the code reports as a fault of its own does not happen: no two
\* selections of a batch get the same name, the sum of the two limits is enough
\* for every batch, none is empty, and every result is found again.
NoInternalFailure == failure \notin {"internal", "selections"}

\* Every active part occurs with the view of its own node, document and
\* configuration, whatever the outputs are called, and so does every direct
\* output; and each view goes by the authored name it was asked for by.
EveryViewIsItsOwn ==
    stage = "done" => \A k \in DOMAIN products :
        LET name == world.requested[k]
            seen == Range(products[k])
        IN IF k \notin AssemblyOutputs
           THEN seen = {[path |-> <<>>, view |->
                   [document |-> Root, configuration |-> world.configuration,
                    node |-> Document(Root).outputs[name].node,
                    kind |-> Document(Root).outputs[name].kind, name |-> Plain(name)]]}
           ELSE seen = {[path |-> p.path, view |->
                   [document |-> p.document, configuration |-> p.configuration,
                    node |-> p.node, kind |-> "part",
                    name |-> IF KeyOf(p)[1] = "external" THEN Plain(p.output)
                             ELSE Plain(p.node)]] :
                            p \in {q \in Active(k) : q.kind = "part"}}

\* Every solid of a document is paid for and made once in a configuration,
\* however many occurrences, outputs and assemblies lead to it.
GeometryIsPaidOnce ==
    stage = "execute" =>
        LET parts == {<<p.document, p.configuration, p.node>> :
                         p \in {q \in Everything : q.kind = "part"}}
            direct == {<<Root, world.configuration, o.node>> : o \in DirectOutputs}
        IN spent.solids = Cardinality(UNION
               {{<<x[1], x[2], solid>> : solid \in Document(x[1]).nodes[x[3]].bodies} :
                    x \in parts \cup direct})
=============================================================================
