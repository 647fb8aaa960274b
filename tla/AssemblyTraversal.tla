-------------------------- MODULE AssemblyTraversal --------------------------
(* evaluateProductDocumentCoreV7 before any geometry is prepared: it walks  *)
(* the assemblies among the requested outputs depth first with a stack of   *)
(* its own, charging every limit as it goes, admits the external documents  *)
(* it met, and then walks on through the assemblies it found behind them.   *)
(*                                                                          *)
(* A world is everything the function is given.  Its documents are validated *)
(* ones, except that nothing promises that components are not recursive or   *)
(* that an external document has what is expected of it.  Transforms and     *)
(* expressions are left out: a placement can be evaluated or it cannot.  The *)
(* abort signal is left to ProductEvaluation: the only await in between is    *)
(* the one that resolves the documents.                                      *)
EXTENDS Integers, Sequences, FiniteSets, FiniteSetsExt, Functions

CONSTANTS
    Worlds,      \* what the function may be called with, as described above
    Root,        \* the document that is evaluated
    Base,        \* the effective configuration null
    PathBound    \* longest occurrence path the properties look at

Nothing == "nothing"

LimitNames == {"maxSelectedOutputs", "maxActiveOccurrences", "maxPlacementOperations",
    "maxExternalDocuments", "maxAssemblyDepth", "maxScannedInstances",
    "maxOccurrencePathSegments", "maxContextualParts"}

\* Requests, instances and placements are arrays, and a limit is a natural number.
\* A component is a part or an assembly, and a document has those of other documents
\* from resources, never from itself by name.  A name of a node is never nothing, and
\* the paths that the properties look at are as long as the limit lets them get.
ValidInstances(instances) ==
    /\ instances \in Seq(Range(instances))
    /\ \A i \in DOMAIN instances :
          /\ instances[i].kind \in {"part", "assembly"} /\ instances[i].placement \in Nat
          /\ instances[i].source = "external" => instances[i].resource # Root

ASSUME WorldsAssumption ==
    /\ PathBound \in Nat
    /\ \A w \in Worlds :
          /\ Root \in DOMAIN w.documents
          /\ w.requested \in Seq(Range(w.requested))
          /\ \A name \in LimitNames : w.limits[name] \in Nat
          /\ w.limits["maxAssemblyDepth"] <= PathBound
          /\ \A d \in DOMAIN w.documents : \A n \in DOMAIN w.documents[d].nodes :
                /\ n # Nothing
                /\ w.documents[d].nodes[n].kind = "assembly" =>
                      ValidInstances(w.documents[d].nodes[n].instances)

VARIABLES
    world,          \* the call
    stage,
    failure,        \* why it failed, or "none"
    selectedOrder,  \* the selected outputs; assemblies with their occurrences
    outputIndex,    \* the output whose external assemblies are expanded
    queue,          \* its occurrences that are still to be looked at
    occurrences,    \* the occurrence list under construction
    stack,          \* the assemblies the walk is inside of
    charged         \* what counts towards the limits so far

vars == <<world, stage, failure, selectedOrder, outputIndex, queue, occurrences,
          stack, charged>>

Has(f, x) == x \in DOMAIN f

Limit(name) == world.limits[name]

Document(d) == world.documents[d]

\* The kind of node n of document d, or nothing if there is no such node.
KindOf(d, n) ==
    IF Has(Document(d).nodes, n) THEN Document(d).nodes[n].kind ELSE Nothing

InstancesOf(d, n) == Document(d).nodes[n].instances

KnownConfiguration(d, c) == c = Base \/ Has(Document(d).configurations, c)

\* configuredSuppression(...) ?? instance.suppressed
Suppressed(d, n, c, i) ==
    IF c # Base /\ Has(Document(d).configurations[c], <<n, i>>)
    THEN Document(d).configurations[c][<<n, i>>]
    ELSE InstancesOf(d, n)[i].suppressed

\* Mutation: what is inherited is the configuration of the evaluation.
EffectiveConfigurationOfRoot(instance, parent) ==
    CASE instance.mode = "inherit" -> world.configuration
      [] instance.mode = "base" -> Base
      [] instance.mode = "named" -> instance.configuration

EffectiveConfiguration(instance, parent) ==
    CASE instance.mode = "inherit" -> parent
      [] instance.mode = "base" -> Base
      [] instance.mode = "named" -> instance.configuration

IsExternal(instance) == instance.source = "external"

\* The first of the checks, which are made in this order, that fails.
FirstFailing(checks) ==
    LET failing == {k \in DOMAIN checks : checks[k][2]}
    IN IF failing = {} THEN "none" ELSE checks[Min(failing)][1]

Refuse(reason) ==
    /\ stage' = "failed"
    /\ failure' = reason
    /\ UNCHANGED <<world, selectedOrder, outputIndex, queue, occurrences, stack,
                   charged>>

-----------------------------------------------------------------------------
(* The counters, and what a step adds to them.                             *)

NothingCharged ==
    [scanned |-> 0, active |-> 0, placements |-> 0, segments |-> 0,
     parts |-> {}, documents |-> {}]

LocalPart(node, c) == <<"local", Root, node, c>>
ExternalPart(d, output, c) == <<"external", d, output, c>>
ExternalLeaf(d, node, c) == <<"leaf", d, node, c>>

\* The limits, in the order in which a visit looks at them.
Exceeded(after, name) ==
    CASE name = "maxActiveOccurrences" -> after.active > Limit(name)
      [] name = "maxPlacementOperations" -> after.placements > Limit(name)
      [] name = "maxExternalDocuments" ->
            Cardinality(after.documents) > Limit(name)
      [] name = "maxScannedInstances" -> after.scanned > Limit(name)
      [] name = "maxOccurrencePathSegments" -> after.segments > Limit(name)
      [] name = "maxContextualParts" -> Cardinality(after.parts) > Limit(name)

-----------------------------------------------------------------------------
Init ==
    /\ world \in Worlds
    /\ stage = "begin" /\ failure = "none"
    /\ selectedOrder = <<>> /\ outputIndex = 0
    /\ queue = <<>> /\ occurrences = <<>> /\ stack = <<>>
    /\ charged = NothingCharged

Begin ==
    /\ stage = "begin"
    /\ LET why == FirstFailing(<<
            <<"configuration", ~KnownConfiguration(Root, world.configuration)>>,
            <<"maxSelectedOutputs",
              Len(world.requested) > Limit("maxSelectedOutputs")>>,
            <<"output", world.requested = <<>>>> >>)
       IN IF why # "none"
          THEN Refuse(why)
          ELSE /\ stage' = "select"
               /\ UNCHANGED <<world, failure, selectedOrder, outputIndex, queue,
                              occurrences, stack, charged>>

-----------------------------------------------------------------------------
(* The requested outputs, one after the other.                             *)

Name == world.requested[Len(selectedOrder) + 1]

Reference == Document(Root).outputs[Name]

Selecting == stage = "select" /\ Len(selectedOrder) < Len(world.requested)

\* The reference of output d.outputs[name] is to a node of the kind it says.
Sound(d, name) ==
    LET reference == Document(d).outputs[name]
    IN KindOf(d, reference.node) = reference.kind

IsAssemblyOutput(d, name) ==
    Document(d).outputs[name].kind = "assembly" /\ Sound(d, name)

Selection(items) == [name |-> Name, node |-> Reference.node,
                     kind |-> Reference.kind, occurrences |-> items]

\* A solid, a body set or a part, which a product may have as an output.
SelectDirect ==
    /\ Selecting
    /\ Has(Document(Root).outputs, Name) => ~IsAssemblyOutput(Root, Name)
    /\ LET known == Has(Document(Root).outputs, Name)
           usable == known /\ world.mode = "product" /\ Sound(Root, Name)
           after == IF usable /\ Reference.kind = "part"
                    THEN [charged EXCEPT !.parts = @ \cup
                            {LocalPart(Reference.node, world.configuration)}]
                    ELSE charged
           why == FirstFailing(<<
               <<"output", ~known>>,
               <<"unsupported", ~usable>>,
               <<"maxContextualParts", Exceeded(after, "maxContextualParts")>> >>)
       IN IF why # "none"
          THEN Refuse(why)
          ELSE /\ selectedOrder' = Append(selectedOrder, Selection(<<>>))
               /\ charged' = after
               /\ UNCHANGED <<world, stage, failure, outputIndex, queue,
                              occurrences, stack>>

\* Mutation: a frame remembers no assembly but its own.
FrameOfItself(d, output, n, c, path, ancestry, depth) ==
    [document |-> d, output |-> output, node |-> n, configuration |-> c,
     path |-> path, ancestry |-> {n}, depth |-> depth, next |-> 1]

\* The frame of assembly node n of document d, which is entered for an output
\* of a document that is external unless output is nothing.
Frame(d, output, n, c, path, ancestry, depth) ==
    [document |-> d, output |-> output, node |-> n, configuration |-> c,
     path |-> path, ancestry |-> ancestry \cup {n}, depth |-> depth, next |-> 1]

Scanning(d, n) == [charged EXCEPT !.scanned = @ + Len(InstancesOf(d, n))]

StartAssembly ==
    /\ Selecting
    /\ Has(Document(Root).outputs, Name) /\ IsAssemblyOutput(Root, Name)
    /\ LET after == Scanning(Root, Reference.node)
           why == FirstFailing(<<
               <<"maxAssemblyDepth", Limit("maxAssemblyDepth") < 1>>,
               <<"maxScannedInstances", Exceeded(after, "maxScannedInstances")>> >>)
       IN IF why # "none"
          THEN Refuse(why)
          ELSE /\ stage' = "walk"
               /\ stack' = <<Frame(Root, Nothing, Reference.node,
                                   world.configuration, <<>>, {}, 1)>>
               /\ charged' = after
               /\ UNCHANGED <<world, failure, selectedOrder, outputIndex, queue,
                              occurrences>>

FinishAssembly ==
    /\ stage = "walk" /\ stack = <<>>
    /\ selectedOrder' = Append(selectedOrder, Selection(occurrences))
    /\ occurrences' = <<>>
    /\ stage' = "select"
    /\ UNCHANGED <<world, failure, outputIndex, queue, stack, charged>>

-----------------------------------------------------------------------------
(* One turn of the loop: the next instance of the assembly on top.         *)

Top == stack[Len(stack)]

Advanced == [stack EXCEPT ![Len(stack)] = [Top EXCEPT !.next = Top.next + 1]]

Instances == InstancesOf(Top.document, Top.node)

Instance == Instances[Top.next]

\* The walk is inside an assembly.
Walking == stage \in {"walk", "expand"} /\ stack # <<>>

Pop ==
    /\ Walking /\ Top.next > Len(Instances)
    /\ stack' = SubSeq(stack, 1, Len(stack) - 1)
    /\ UNCHANGED <<world, stage, failure, selectedOrder, outputIndex, queue,
                   occurrences, charged>>

\* There is an instance to visit, and it is not suppressed.
Visiting ==
    /\ Walking /\ Top.next <= Len(Instances)
    /\ ~Suppressed(Top.document, Top.node, Top.configuration, Top.next)

SkipSuppressed ==
    /\ Walking /\ Top.next <= Len(Instances)
    /\ Suppressed(Top.document, Top.node, Top.configuration, Top.next)
    /\ stack' = Advanced
    /\ UNCHANGED <<world, stage, failure, selectedOrder, outputIndex, queue,
                   occurrences, charged>>

IsLocal(kind) ==
    /\ ~IsExternal(Instance)
    /\ Instance.kind = kind
    /\ KindOf(Top.document, Instance.node) = kind

Configuration == EffectiveConfiguration(Instance, Top.configuration)

Path == Append(Top.path, Top.next)

\* An assembly nested in the one on top, here or behind the boundary.
Nests == IsLocal("assembly") \/ (IsExternal(Instance) /\ Instance.kind = "assembly")

PartKeys ==
    IF IsExternal(Instance)
    THEN IF Instance.kind = "part"
         THEN {ExternalPart(Instance.resource, Instance.output, Configuration)}
         ELSE {}
    ELSE IF ~IsLocal("part") THEN {}
    ELSE IF Top.document = Root THEN {LocalPart(Instance.node, Configuration)}
    ELSE {ExternalLeaf(Top.document, Instance.node, Configuration)}

AfterVisit ==
    [scanned |-> IF IsLocal("assembly")
                 THEN Scanning(Top.document, Instance.node).scanned
                 ELSE charged.scanned,
     active |-> charged.active + 1,
     placements |-> charged.placements + Instance.placement,
     segments |-> IF PartKeys # {} THEN charged.segments + Len(Path)
                                   ELSE charged.segments,
     parts |-> charged.parts \cup PartKeys,
     documents |-> IF IsExternal(Instance)
                   THEN charged.documents \cup {Instance.resource}
                   ELSE charged.documents]

\* A counter that a visit leaves alone is within its limit already.
Refusal ==
    LET Over(name) == <<name, Exceeded(AfterVisit, name)>>
    IN FirstFailing(<<
        Over("maxActiveOccurrences"),
        Over("maxPlacementOperations"),
        <<"boundary", IsExternal(Instance) /\ Top.document # Root>>,
        <<"unsupported", ~IsExternal(Instance) /\ ~IsLocal("part")
                                               /\ ~IsLocal("assembly")>>,
        <<"placement", ~Instance.placeable>>,
        Over("maxExternalDocuments"),
        <<"recursion", IsLocal("assembly") /\ Instance.node \in Top.ancestry>>,
        <<"maxAssemblyDepth", Nests /\ Top.depth + 1 > Limit("maxAssemblyDepth")>>,
        <<"configuration", IsLocal("assembly")
                           /\ ~KnownConfiguration(Top.document, Configuration)>>,
        Over("maxScannedInstances"),
        Over("maxOccurrencePathSegments"),
        Over("maxContextualParts") >>)

\* An occurrence: of a part of the evaluated document, of a part output of an
\* external one, of an assembly output of an external one that is still to be
\* expanded, or of a part that such an assembly was found to contain.
Occurrence ==
    [source |-> IF IsExternal(Instance) \/ Top.document # Root
                THEN "external" ELSE "local",
     document |-> IF IsExternal(Instance) THEN Instance.resource ELSE Top.document,
     output |-> IF IsExternal(Instance) THEN Instance.output ELSE Top.output,
     kind |-> IF Top.document # Root THEN "assembly" ELSE Instance.kind,
     node |-> IF IsExternal(Instance) THEN Nothing ELSE Instance.node,
     path |-> Path,
     configuration |-> Configuration,
     depth |-> Top.depth + 1]

RefuseVisit ==
    /\ Visiting /\ Refusal # "none"
    /\ Refuse(Refusal)

\* A local assembly is entered ...
Enter ==
    /\ Visiting /\ Refusal = "none" /\ IsLocal("assembly")
    /\ stack' = Append(Advanced,
                       Frame(Top.document, Top.output, Instance.node, Configuration,
                             Path, Top.ancestry, Top.depth + 1))
    /\ charged' = AfterVisit
    /\ UNCHANGED <<world, stage, failure, selectedOrder, outputIndex, queue,
                   occurrences>>

\* ... and anything else becomes an occurrence.
Collect ==
    /\ Visiting /\ Refusal = "none" /\ ~IsLocal("assembly")
    /\ occurrences' = Append(occurrences, Occurrence)
    /\ stack' = Advanced
    /\ charged' = AfterVisit
    /\ UNCHANGED <<world, stage, failure, selectedOrder, outputIndex, queue>>

-----------------------------------------------------------------------------
(* External documents.                                                     *)

\* All of them are resolved and admitted before any is looked into.
AdmitDocuments ==
    /\ stage = "select" /\ Len(selectedOrder) = Len(world.requested)
    /\ IF \E d \in charged.documents : ~Has(world.documents, d)
       THEN Refuse("resource")
       ELSE /\ stage' = "expand"
            /\ outputIndex' = 1
            /\ queue' = selectedOrder[1].occurrences
            /\ UNCHANGED <<world, failure, selectedOrder, occurrences, stack,
                           charged>>

Unexpanded(occurrence) ==
    occurrence.source = "external" /\ occurrence.kind = "assembly"

Expanding == stage = "expand" /\ stack = <<>>

KeepOccurrence ==
    /\ Expanding /\ queue # <<>> /\ ~Unexpanded(Head(queue))
    /\ occurrences' = Append(occurrences, Head(queue))
    /\ queue' = Tail(queue)
    /\ UNCHANGED <<world, stage, failure, selectedOrder, outputIndex, stack, charged>>

EnterExternal ==
    /\ Expanding /\ queue # <<>> /\ Unexpanded(Head(queue))
    /\ LET o == Head(queue)
           d == o.document
           known == Has(Document(d).outputs, o.output)
           node == Document(d).outputs[o.output].node
           usable == known /\ IsAssemblyOutput(d, o.output)
           resolvable == KnownConfiguration(d, o.configuration)
           why == FirstFailing(<<
               <<"output", ~known>>,
               <<"unsupported", ~usable>>,
               <<"configuration", ~resolvable>>,
               <<"maxScannedInstances",
                 usable /\ Exceeded(Scanning(d, node), "maxScannedInstances")>> >>)
       IN IF why # "none"
          THEN Refuse(why)
          ELSE /\ stack' = <<Frame(d, o.output, node, o.configuration, o.path, {},
                                   o.depth)>>
               /\ charged' = Scanning(d, node)
               /\ queue' = Tail(queue)
               /\ UNCHANGED <<world, stage, failure, selectedOrder, outputIndex,
                              occurrences>>

\* The end of a pass over the selected outputs, which rewrites the occurrences
\* of one after the other; a direct output has none.
FinishOutput(pass, next) ==
    /\ stage = pass /\ stack = <<>> /\ queue = <<>>
    /\ selectedOrder' = [selectedOrder EXCEPT ![outputIndex].occurrences = occurrences]
    /\ occurrences' = <<>>
    /\ IF outputIndex < Len(selectedOrder)
       THEN /\ outputIndex' = outputIndex + 1
            /\ queue' = selectedOrder[outputIndex + 1].occurrences
            /\ UNCHANGED stage
       ELSE stage' = next /\ UNCHANGED <<outputIndex, queue>>
    /\ UNCHANGED <<world, failure, stack, charged>>

FinishExpansion == FinishOutput("expand", "traversed")

Next ==
    \/ Begin \/ SelectDirect \/ StartAssembly \/ FinishAssembly
    \/ Pop \/ SkipSuppressed \/ RefuseVisit \/ Enter \/ Collect
    \/ AdmitDocuments \/ KeepOccurrence \/ EnterExternal \/ FinishExpansion

Spec == Init /\ [][Next]_vars

-----------------------------------------------------------------------------
(* What the documents mean, without a stack: the positions that the paths   *)
(* of instances lead to, starting at the assembly of a requested output.    *)

AssemblyOutputs ==
    {k \in DOMAIN world.requested :
        /\ Has(Document(Root).outputs, world.requested[k])
        /\ IsAssemblyOutput(Root, world.requested[k])}

StartOf(k) ==
    LET node == Document(Root).outputs[world.requested[k]].node
    IN [document |-> Root, node |-> node, kind |-> "assembly", output |-> Nothing,
        path |-> <<>>, configuration |-> world.configuration, operations |-> 0,
        through |-> {node}, bad |-> FALSE]

\* The node that an instance in document d stands for, or nothing.
Meant(instance, d) ==
    LET declared ==
            IF ~IsExternal(instance) THEN instance
            ELSE IF Has(Document(d).outputs, instance.output)
            THEN Document(d).outputs[instance.output]
            ELSE [kind |-> Nothing, node |-> Nothing]
    IN IF declared.kind = instance.kind /\ KindOf(d, declared.node) = instance.kind
       THEN declared.node ELSE Nothing

\* Where instance i of position p leads to.  It is bad if it cannot be placed,
\* stands for nothing, comes back to an assembly it is inside of, has an
\* unknown configuration or crosses a second boundary; parts behind a boundary
\* and parts' configurations are not looked at yet.
Target(p, i) ==
    LET instance == InstancesOf(p.document, p.node)[i]
        crosses == IsExternal(instance)
        d == IF crosses THEN instance.resource ELSE p.document
        there == Has(world.documents, d)
        node == IF there THEN Meant(instance, d) ELSE Nothing
        c == CASE instance.mode = "inherit" -> p.configuration
               [] instance.mode = "base" -> Base
               [] instance.mode = "named" -> instance.configuration
    IN [document |-> d, node |-> node, kind |-> instance.kind,
        output |-> IF crosses THEN instance.output ELSE p.output,
        path |-> Append(p.path, i), configuration |-> c,
        operations |-> instance.placement,
        through |-> (IF crosses THEN {} ELSE p.through) \cup {node},
        bad |-> \/ ~instance.placeable \/ ~there
                \/ crosses /\ p.document # Root
                \/ node = Nothing /\ ~(crosses /\ instance.kind = "part")
                \/ ~crosses /\ node \in p.through
                \/ instance.kind = "assembly" /\ ~KnownConfiguration(d, c)]

Inside(p) ==
    IF p.kind # "assembly" \/ p.bad THEN {}
    ELSE {Target(p, i) : i \in
            {j \in DOMAIN InstancesOf(p.document, p.node) :
                ~Suppressed(p.document, p.node, p.configuration, j)}}

\* Everything active in requested output k.
Active(k) ==
    LET level[n \in 0 .. PathBound] ==
            IF n = 0 THEN {StartOf(k)} ELSE UNION {Inside(p) : p \in level[n - 1]}
    IN UNION {level[n] : n \in 1 .. PathBound}

Everything == UNION {Active(k) : k \in AssemblyOutputs}

\* A position counts once for each requested output that it is active in.
Places == UNION {{k} \X Active(k) : k \in AssemblyOutputs}

Sum(amount) == MapThenSumSet(LAMBDA x : amount[x], DOMAIN amount)

KeyOf(p) ==
    IF p.document = Root THEN LocalPart(p.node, p.configuration)
    ELSE IF p.through = {p.node}   \* directly behind the boundary
    THEN ExternalPart(p.document, p.output, p.configuration)
    ELSE ExternalLeaf(p.document, p.node, p.configuration)

DirectParts ==
    {LocalPart(Document(Root).outputs[name].node, world.configuration) :
        name \in {n \in Range(world.requested) :
                    /\ Has(Document(Root).outputs, n)
                    /\ Document(Root).outputs[n].kind = "part"
                    /\ Sound(Root, n) /\ world.mode = "product"}}

\* What the places and the requested assemblies themselves count for; an assembly is
\* scanned if it can be entered.
Ones == [x \in Places |-> 1]
Operations == [x \in Places |-> x[2].operations]
Segments == [x \in Places |-> IF x[2].kind = "part" THEN Len(x[2].path) ELSE 0]

Scanned(p) == Len(InstancesOf(p.document, p.node))
Scans == [x \in Places |->
             IF x[2].kind = "assembly" /\ ~x[2].bad THEN Scanned(x[2]) ELSE 0]
StartScans == [k \in AssemblyOutputs |-> Scanned(StartOf(k))]

ExternalDocuments == {p.document : p \in Everything} \ {Root}

ContextualParts ==
    DirectParts \cup {KeyOf(p) : p \in {q \in Everything : q.kind = "part"}}

\* How deep the assemblies are that would be entered.
Depths == {1 : k \in AssemblyOutputs}
    \cup {Len(p.path) + 1 : p \in {q \in Everything : q.kind = "assembly"}}

Total(name) ==
    CASE name = "maxSelectedOutputs" -> Len(world.requested)
      [] name = "maxActiveOccurrences" -> Sum(Ones)
      [] name = "maxPlacementOperations" -> Sum(Operations)
      [] name = "maxExternalDocuments" -> Cardinality(ExternalDocuments)
      [] name = "maxAssemblyDepth" -> Max({0} \cup Depths)
      [] name = "maxScannedInstances" -> Sum(StartScans) + Sum(Scans)
      [] name = "maxOccurrencePathSegments" -> Sum(Segments)
      [] name = "maxContextualParts" -> Cardinality(ContextualParts)

\* Nothing is wrong with the requested outputs or with anything active in them.
Evaluable ==
    /\ world.requested # <<>> /\ KnownConfiguration(Root, world.configuration)
    /\ \A k \in DOMAIN world.requested :
          /\ Has(Document(Root).outputs, world.requested[k])
          /\ Sound(Root, world.requested[k])
          /\ world.mode = "product" \/ k \in AssemblyOutputs
    /\ \A p \in Everything : ~p.bad

-----------------------------------------------------------------------------
\* The traversal fails if, and only if, something active cannot be evaluated or
\* a total over everything active exceeds its limit; and if it blames a limit,
\* that is one that is exceeded.  What is suppressed costs nothing.
FailsForCause ==
    /\ stage \in {"traversed", "failed"} =>
          (stage = "traversed" <=>
              Evaluable /\ \A name \in LimitNames : Total(name) <= Limit(name))
    /\ failure \in LimitNames => Total(failure) > Limit(failure)

\* Paths are compared as in a depth-first walk.
Before(p, q) ==
    \E n \in DOMAIN p \cap DOMAIN q :
        p[n] < q[n] /\ \A m \in 1 .. n - 1 : p[m] = q[m]

\* The occurrences of an output are its active parts, in the order of a
\* depth-first walk, also where an external assembly was expanded in place;
\* each has the document, part, output and configuration its path leads to.
OccurrencesAreActiveParts ==
    stage = "traversed" => \A k \in AssemblyOutputs :
        LET found == selectedOrder[k].occurrences
            parts == {p \in Active(k) : p.kind = "part"}
        IN /\ Len(found) = Cardinality(parts)
           /\ \A j \in 1 .. Len(found) - 1 : Before(found[j].path, found[j + 1].path)
           /\ \A j \in DOMAIN found : \E p \in parts :
                 /\ found[j].path = p.path
                 /\ found[j].document = p.document
                 /\ found[j].configuration = p.configuration
                 /\ found[j].output = p.output
                 /\ found[j].node \in {p.node, Nothing}
=============================================================================
