--------------------------- MODULE ProductPlanProofs ---------------------------
(***************************************************************************)
(* Proofs about ProductPlan, for any documents, selections and limits.     *)
(*                                                                         *)
(* First, what the code would report as a fault of its own does not        *)
(* happen: an occurrence is met and counted, is found or expanded into     *)
(* what is found, is resolved to a component that a batch will make, and   *)
(* the batch makes it.  Then the views: an occurrence stays at its part    *)
(* while it is resolved, a selection is called as the components that are  *)
(* to get its view, and so everything gets its own.  Last, the geometry:   *)
(* what is prepared is what is wanted, and each batch is another one.      *)
(***************************************************************************)
EXTENDS ProductPlan, AssemblyTraversalProofs

-----------------------------------------------------------------------------
(* The invariant of the plan, and the components of the occurrences.        *)
\* A found occurrence whose component belongs to a batch.
Resolved(o) ==
    /\ Found(o)
    /\ o.source = "external" =>
          /\ Has(external, BatchKey(o))
          /\ \E name \in DOMAIN external[BatchKey(o)].keys :
                ComponentKey(o) \in external[BatchKey(o)].keys[name]

\* Where the occurrences are: those of the outputs up to this one are resolved.
ResolutionInv ==
    /\ stack = <<>> /\ Listed(queue) /\ Listed(occurrences)
    /\ AllSelected /\ RequestInv
    /\ stage = "resolve" =>
          /\ outputIndex \in DOMAIN selectedOrder
          /\ \A o \in Range(queue) : Found(o)
          /\ \A o \in Range(occurrences) : Resolved(o)
          /\ \A k \in DOMAIN selectedOrder :
                \A o \in Range(selectedOrder[k].occurrences) :
                   IF k < outputIndex THEN Resolved(o) ELSE Found(o)
    /\ stage \in {"prepare", "charge", "execute"} =>
          \A k \in DOMAIN selectedOrder :
             \A o \in Range(selectedOrder[k].occurrences) : Resolved(o)

\* What the part with this selection name was counted as.
NameKey(d, c, name) ==
    IF ~name.marked /\ Has(Document(d).outputs, name.text)
    THEN ExternalPart(d, name.text, c) ELSE ExternalLeaf(d, name.text, c)

\* A selection name that stands for a counted part.
CountedName(d, c, name) ==
    /\ name = [text |-> name.text, marked |-> name.marked] /\ name.marked \in BOOLEAN
    /\ name.marked => Has(Document(d).outputs, name.text)
    /\ NameKey(d, c, name) \in charged.parts

\* A batch of an external document in its place: every name stands for a counted part.
IsPlanned(key, b) ==
    /\ key = <<b.document, b.configuration>> /\ b.document # Root
    /\ DOMAIN b.nodes = DOMAIN b.keys /\ DOMAIN b.keys # {}
    /\ \A name \in DOMAIN b.nodes : CountedName(b.document, b.configuration, name)

\* All batches of external documents are.
ExternalInv == \A key \in DOMAIN external : IsPlanned(key, external[key])

\* A prepared batch; one of the evaluated document has exactly the wanted selections.
IsBatch(b) ==
    /\ b = [document |-> b.document, configuration |-> b.configuration,
            selections |-> b.selections, keys |-> b.keys]
    /\ b.document = Root =>
          /\ b.selections = PartSelections(b.configuration)
                               \cup DirectSelections(b.configuration)
          /\ b.keys = <<>>

\* Every wanted batch is prepared.
AllPrepared ==
    /\ \A c \in LocalContexts : Prepared(Root, c)
    /\ \A key \in DOMAIN external : ExternalPrepared(external[key])

\* What the batches are, and when all of them are there.
BatchesInv ==
    /\ Listed(batches)
    /\ \A b \in Range(batches) : IsBatch(b)
    /\ stage = "resolve" => batches = <<>>
    /\ stage \in {"charge", "execute"} => AllPrepared

\* The results of batch b are there.
Executed(b) ==
    IF b.document = Root
    THEN /\ DOMAIN NativeResults(b) \subseteq DOMAIN nativeResults
         /\ DOMAIN LocalResults(b) \subseteq DOMAIN partResults
    ELSE UNION Range(b.keys) \subseteq DOMAIN partResults

\* Native results are views of selections of the evaluated document, and the batches
\* before the current one are executed.
ResultsInv ==
    /\ batchIndex \in Nat /\ (stage \in {"charge", "execute"} => batchIndex # 0)
    /\ stage = "resolve" => nativeResults = <<>>
    /\ \A k \in DOMAIN nativeResults :
          \E b \in Range(batches) : \E s \in b.selections :
             /\ b.document = Root /\ k = <<s.name, b.configuration>>
             /\ nativeResults[k] = View(b, s)
    /\ stage = "execute" =>
          \A j \in DOMAIN batches : j < batchIndex => Executed(batches[j])

\* The inductive invariant of the plan.
PlanInv ==
    /\ stage \in {"resolve", "prepare", "charge", "execute", "done"}
    /\ failure = "none"
    /\ CountersInv /\ SelectedInv /\ ResolutionInv
    /\ ExternalInv /\ BatchesInv /\ ResultsInv

\* Nothing is planned while the traversal runs.
Unplanned == external = <<>> /\ batches = <<>> /\ batchIndex = 0 /\ nativeResults = <<>>

\* The plan begins with what the traversal found.
LEMMA BeginPlanKeepsPlan ==
    ASSUME world \in Worlds, WalkInv, Unplanned, BeginPlan
    PROVE  PlanInv'
<1>1. /\ stage = "traversed" /\ stage' = "resolve" /\ outputIndex' = 1
      /\ queue' = selectedOrder[1].occurrences
      /\ UNCHANGED <<world, failure, selectedOrder, occurrences, stack, charged>>
      /\ UNCHANGED planVars
  BY DEF BeginPlan
<1>2. /\ CountersInv /\ SelectedInv /\ ListsInv /\ failure = "none"
  BY DEF WalkInv
<1>3. /\ AllSelected /\ RequestInv
      /\ stack = <<>> /\ queue = <<>> /\ occurrences = <<>>
      /\ \A k \in DOMAIN selectedOrder :
            \A o \in Range(selectedOrder[k].occurrences) : Found(o)
  BY <1>1, <1>2 DEF ListsInv
<1>4. DOMAIN selectedOrder = 1 .. Len(selectedOrder) /\ 1 \in DOMAIN selectedOrder
  <2>1. Len(world.requested) \in Nat /\ Len(world.requested) # 0
    BY <1>3, Worldly, Lists DEF RequestInv
  <2>2. DOMAIN selectedOrder = 1 .. Len(selectedOrder)
    BY <1>2, Lists DEF SelectedInv
  <2>. QED
    BY <1>3, <2>1, <2>2 DEF AllSelected
<1>5. CountersInv' /\ SelectedInv'
  BY <1>1, <1>2, Zenon DEF CountersInv, SelectedInv, Limit, KindOf, Document
<1>6. ResolutionInv'
  <2>1. Listed(queue')
    BY <1>1, <1>2, <1>4 DEF SelectedInv
  <2>2. \A o : Found(o) => Found(o)'
    BY <1>1, CountsGrow
  <2>3. \A k \in DOMAIN selectedOrder : ~(k < 1)
    BY <1>4
  <2>. QED
    BY <1>1, <1>3, <1>4, <2>1, <2>2, <2>3, EmptyList
       DEF ResolutionInv, AllSelected, RequestInv, Limit
<1>7. ExternalInv' /\ BatchesInv' /\ ResultsInv'
  BY <1>1, EmptyList DEF Unplanned, planVars, ExternalInv, BatchesInv, ResultsInv
<1>. QED
  BY <1>1, <1>2, <1>5, <1>6, <1>7 DEF PlanInv

\* What the batches, their results and the selections say depends on nothing else.
LEMMA PlanUndisturbed ==
    ASSUME UNCHANGED <<world, charged, batches, batchIndex, nativeResults, partResults>>,
           stage' = stage, stage = "resolve", BatchesInv, ResultsInv
    PROVE  BatchesInv' /\ ResultsInv'
  BY EmptyList DEF BatchesInv, ResultsInv

\* A local occurrence is its own component.
LEMMA ResolveLocalKeepsPlan ==
    ASSUME world \in Worlds, PlanInv, ResolveLocal
    PROVE  PlanInv'
<1>1. /\ stage = "resolve" /\ queue # <<>> /\ Head(queue).source = "local"
      /\ occurrences' = Append(occurrences, Head(queue))
      /\ queue' = Tail(queue)
      /\ UNCHANGED <<world, stage, failure, selectedOrder, outputIndex, stack, charged>>
      /\ UNCHANGED planVars
  BY DEF ResolveLocal, Resolving
<1>2. /\ CountersInv /\ SelectedInv /\ ResolutionInv /\ ExternalInv
      /\ BatchesInv /\ ResultsInv /\ failure = "none"
  BY DEF PlanInv
<1>3. PICK o : o = Head(queue)
  OBVIOUS
<1>4. Listed(queue) /\ Listed(occurrences)
  BY <1>2 DEF ResolutionInv
<1>5. /\ Listed(queue') /\ Range(queue') \subseteq Range(queue) /\ o \in Range(queue)
  BY <1>1, <1>3, <1>4, ListTail
<1>6. Resolved(o)
  BY <1>1, <1>2, <1>3, <1>5 DEF ResolutionInv, Resolved
<1>7. Listed(occurrences') /\ Range(occurrences') = Range(occurrences) \cup {o}
  BY <1>1, <1>3, <1>4, ListAppend
<1>8. \A p : (Found(p) => Found(p)') /\ (Resolved(p) => Resolved(p)')
  <2>1. ASSUME NEW p PROVE (Found(p) => Found(p)') /\ (Resolved(p) => Resolved(p)')
    <3>1. Found(p) => Found(p)'
      BY <1>1, CountsGrow
    <3>. QED
      BY <1>1, <3>1 DEF Resolved, planVars, ComponentKey, BatchKey, Has
  <2>. QED
    BY <2>1
<1>9. ResolutionInv'
  BY <1>1, <1>2, <1>5, <1>6, <1>7, <1>8
     DEF ResolutionInv, AllSelected, RequestInv, Limit
<1>10. CountersInv' /\ SelectedInv'
  BY <1>1, <1>2, Zenon DEF CountersInv, SelectedInv, Limit, KindOf, Document
<1>11. ExternalInv'
  BY <1>1, <1>2 DEF ExternalInv, IsPlanned, CountedName, NameKey, planVars, Document
<1>12. BatchesInv' /\ ResultsInv'
  BY <1>1, <1>2, PlanUndisturbed DEF planVars
<1>. QED
  BY <1>1, <1>2, <1>9, <1>10, <1>11, <1>12 DEF PlanInv

\* The batch after another occurrence: none is lost, and its name counts for a part.
LEMMA OccurrencePlanned ==
    ASSUME NEW batch, NEW name, NEW o, NEW key,
           key = BatchKey(o), o.document # Root,
           \/ batch = EmptyBatch
           \/ IsPlanned(key, batch),
           CountedName(o.document, o.configuration, name)
    PROVE  LET after == WithOccurrence(batch, name, o)
           IN /\ IsPlanned(key, after)
              /\ name \in DOMAIN after.keys /\ ComponentKey(o) \in after.keys[name]
              /\ \A n \in DOMAIN batch.keys :
                    n \in DOMAIN after.keys /\ batch.keys[n] \subseteq after.keys[n]
<1> DEFINE before == IF Has(batch.keys, name) THEN batch.keys[name] ELSE {}
           after == WithOccurrence(batch, name, o)
<1>1. PICK added : added = before \cup {ComponentKey(o)}
  OBVIOUS
<1>2. PICK nodes : nodes = With(batch.nodes, name, o.node)
  OBVIOUS
<1>3. PICK keys : keys = With(batch.keys, name, added)
  OBVIOUS
<1>4. after = [document |-> o.document, configuration |-> o.configuration,
               nodes |-> nodes, keys |-> keys]
  BY <1>1, <1>2, <1>3 DEF WithOccurrence
<1>5. DOMAIN nodes = DOMAIN batch.nodes \cup {name}
  BY <1>2 DEF With, Updated
<1>6. /\ DOMAIN keys = DOMAIN batch.keys \cup {name} /\ keys[name] = added
      /\ \A n \in DOMAIN batch.keys : n # name => keys[n] = batch.keys[n]
  BY <1>3 DEF With, Updated, Has
<1>7. DOMAIN batch.nodes = DOMAIN batch.keys
  BY DEF EmptyBatch, IsPlanned
<1>8. \A n \in DOMAIN batch.nodes : CountedName(o.document, o.configuration, n)
  <2>1. CASE batch = EmptyBatch
    BY <2>1 DEF EmptyBatch
  <2>2. CASE IsPlanned(key, batch)
    BY <2>2 DEF IsPlanned, BatchKey
  <2>. QED
    BY <2>1, <2>2
<1>. HIDE DEF after, before
<1>9. IsPlanned(key, after)
  BY <1>4, <1>5, <1>6, <1>7, <1>8 DEF IsPlanned, BatchKey
<1>10. name \in DOMAIN after.keys /\ ComponentKey(o) \in after.keys[name]
  BY <1>1, <1>4, <1>6
<1>11. \A n \in DOMAIN batch.keys :
          n \in DOMAIN after.keys /\ batch.keys[n] \subseteq after.keys[n]
  BY <1>1, <1>4, <1>6 DEF before, Has
<1>. QED
  BY <1>9, <1>10, <1>11 DEF after

\* An external occurrence gets a component in a batch, under a name that stands for
\* the part it was counted as.
LEMMA ResolveExternalKeepsPlan ==
    ASSUME world \in Worlds, PlanInv, ResolveExternal
    PROVE  world' = world /\ (PlanInv' \/ Failed')
<1> DEFINE o == Head(queue)
           d == o.document
           known == Has(Document(d).outputs, o.output)
           usable == /\ known /\ Sound(d, o.output)
                     /\ Document(d).outputs[o.output].kind = o.kind
           resolved == IF o.kind = "part"
                       THEN [o EXCEPT !.node = Document(d).outputs[o.output].node]
                       ELSE o
           name == IF o.kind = "part" THEN Plain(o.output) ELSE LeafName(d, o.node)
           key == BatchKey(o)
           batch == IF Has(external, key) THEN external[key] ELSE EmptyBatch
           checks == <<
               <<"output", ~known>>,
               <<"unsupported", ~usable>>,
               <<"configuration", ~KnownConfiguration(d, o.configuration)>> >>
<1>1. stage = "resolve" /\ queue # <<>> /\ o.source = "external"
  BY DEF ResolveExternal, Resolving
<1>2. /\ DOMAIN checks = 1 .. 3
      /\ \A k \in 1 .. 3 : Fine(checks[k][1]) /\ checks[k][1] # "none"
      /\ checks[1][2] <=> ~known
  <2>1. DOMAIN checks = 1 .. 3
    OBVIOUS
  <2>2. /\ checks[1][1] = "output" /\ checks[2][1] = "unsupported"
        /\ checks[3][1] = "configuration"
    OBVIOUS
  <2>3. checks[1][2] <=> ~known
    OBVIOUS
  <2> HIDE DEF checks
  <2>. QED
    BY <2>1, <2>2, <2>3 DEF Fine
<1>3. \/ FirstFailing(checks) # "none" /\ Refuse(FirstFailing(checks))
      \/ /\ FirstFailing(checks) = "none"
         /\ occurrences' = Append(occurrences, resolved)
         /\ external' = With(external, key, WithOccurrence(batch, name, resolved))
         /\ queue' = Tail(queue)
         /\ UNCHANGED <<world, stage, failure, selectedOrder, outputIndex, stack,
                        charged, batches, batchIndex, spent, nativeResults,
                        partResults, products>>
  BY DEF ResolveExternal, RefusePlan
<1> HIDE DEF checks
<1>4. \/ FirstFailing(checks) = "none" /\ \A k \in 1 .. 3 : ~checks[k][2]
      \/ Fine(FirstFailing(checks)) /\ FirstFailing(checks) # "none"
  BY <1>2, FirstFailingCheck
<1>5. CASE FirstFailing(checks) # "none"
  BY <1>3, <1>4, <1>5, RefuseFails
<1>6. CASE FirstFailing(checks) = "none"
  <2>1. known
    BY <1>2, <1>4, <1>6
  <2>2. PICK p, n, after :
           p = resolved /\ n = name /\ after = WithOccurrence(batch, n, p)
    OBVIOUS
  <2>3. /\ occurrences' = Append(occurrences, p)
        /\ external' = With(external, key, after)
        /\ queue' = Tail(queue)
        /\ UNCHANGED <<world, stage, failure, selectedOrder, outputIndex, stack,
                       charged, batches, batchIndex, spent, nativeResults,
                       partResults, products>>
    BY <1>3, <1>6, <2>2
  <2>4. /\ CountersInv /\ SelectedInv /\ ResolutionInv /\ ExternalInv
        /\ BatchesInv /\ ResultsInv /\ failure = "none"
    BY DEF PlanInv
  <2>5. Listed(queue) /\ Listed(occurrences)
    BY <2>4 DEF ResolutionInv
  <2>6. /\ Listed(queue') /\ Range(queue') \subseteq Range(queue) /\ o \in Range(queue)
    BY <1>1, <2>3, <2>5, ListTail
  <2>7. Found(o)
    BY <1>1, <2>4, <2>6 DEF ResolutionInv
  <2>8. PICK node : p = [source |-> o.source, document |-> o.document,
                         output |-> o.output, kind |-> o.kind, node |-> node,
                         path |-> o.path, configuration |-> o.configuration,
                         depth |-> o.depth]
                    /\ (o.kind # "part" => node = o.node)
    <3>1. o = [source |-> o.source, document |-> o.document, output |-> o.output,
               kind |-> o.kind, node |-> o.node, path |-> o.path,
               configuration |-> o.configuration, depth |-> o.depth]
      BY <2>7 DEF Found, IsOccurrence
    <3>2. CASE o.kind = "part"
      <4>1. PICK m : p = [o EXCEPT !.node = m]
        BY <2>2, <3>2
      <4> HIDE DEF o
      <4>2. p = [source |-> o.source, document |-> o.document, output |-> o.output,
                 kind |-> o.kind, node |-> m, path |-> o.path,
                 configuration |-> o.configuration, depth |-> o.depth]
        BY <3>1, <4>1
      <4>. QED
        BY <3>2, <4>2
    <3>3. CASE o.kind # "part"
      BY <2>2, <3>1, <3>3
    <3>. QED
      BY <3>2, <3>3
  <2>9. /\ p.source = "external" /\ p.document = d /\ p.output = o.output
        /\ p.kind = o.kind /\ p.configuration = o.configuration
        /\ (o.kind # "part" => p.node = o.node)
        /\ d # Root /\ o.kind \in {"part", "assembly"}
    <3>1. IsOccurrence(o)
      BY <2>7 DEF Found
    <3> HIDE DEF o
    <3>. QED
      BY <1>1, <2>8, <3>1 DEF IsOccurrence
  <2>10. Found(p)
    <3>1. IsOccurrence(o) /\ PartKey(o) \in charged.parts
      BY <2>7 DEF Found
    <3>2. PartKey(p) = PartKey(o)
      BY <1>1, <2>9 DEF PartKey
    <3>3. IsOccurrence(p)
      BY <1>1, <2>8, <2>9 DEF IsOccurrence
    <3>. QED
      BY <3>1, <3>2, <3>3 DEF Found
  <2>11. CountedName(p.document, p.configuration, n)
    <3>1. PartKey(o) \in charged.parts
      BY <2>7 DEF Found
    <3>2. CASE o.kind = "part"
      <4>1. n = [text |-> o.output, marked |-> FALSE]
        BY <2>2, <3>2 DEF Plain
      <4>2. NameKey(d, o.configuration, n) = PartKey(o)
        BY <1>1, <2>1, <3>2, <4>1 DEF NameKey, PartKey
      <4>. QED
        BY <2>9, <3>1, <4>1, <4>2 DEF CountedName
    <3>3. CASE o.kind # "part"
      <4>1. n = LeafName(d, o.node)
        BY <2>2, <3>3
      <4>2. PartKey(o) = ExternalLeaf(d, o.node, o.configuration)
        BY <1>1, <3>3 DEF PartKey
      <4>3. CASE Has(Document(d).outputs, o.node)
        <5>1. n = [text |-> o.node, marked |-> TRUE]
          BY <4>1, <4>3 DEF LeafName, Marked
        <5>2. NameKey(d, o.configuration, n) = PartKey(o)
          BY <4>2, <5>1 DEF NameKey
        <5>. QED
          BY <2>9, <3>1, <4>3, <5>1, <5>2 DEF CountedName
      <4>4. CASE ~Has(Document(d).outputs, o.node)
        <5>1. n = [text |-> o.node, marked |-> FALSE]
          BY <4>1, <4>4 DEF LeafName, Plain
        <5>2. NameKey(d, o.configuration, n) = PartKey(o)
          BY <4>2, <4>4, <5>1 DEF NameKey
        <5>. QED
          BY <2>9, <3>1, <4>4, <5>1, <5>2 DEF CountedName
      <4>. QED
        BY <4>3, <4>4
    <3>. QED
      BY <3>2, <3>3
  <2>12. key = BatchKey(p)
    BY <2>9 DEF BatchKey
  <2>13. batch = EmptyBatch \/ IsPlanned(key, batch)
    BY <2>4 DEF ExternalInv, Has
  <2>14. /\ IsPlanned(key, after)
         /\ n \in DOMAIN after.keys /\ ComponentKey(p) \in after.keys[n]
         /\ \A m \in DOMAIN batch.keys :
               m \in DOMAIN after.keys /\ batch.keys[m] \subseteq after.keys[m]
    <3>1. PICK b : b = batch
      OBVIOUS
    <3>2. PICK k : k = key
      OBVIOUS
    <3> HIDE DEF batch, key, o
    <3>. QED
      BY <2>2, <2>9, <2>11, <2>12, <2>13, <3>1, <3>2, OccurrencePlanned
  <2>15. /\ DOMAIN external' = DOMAIN external \cup {key} /\ external'[key] = after
         /\ \A k \in DOMAIN external : k # key => external'[k] = external[k]
    <3> HIDE DEF key
    <3>. QED
      BY <2>3 DEF With, Updated, Has
  <2>16. ExternalInv'
    <3>1. ASSUME NEW k \in DOMAIN external' PROVE IsPlanned(k, external'[k])
      BY <2>4, <2>14, <2>15 DEF ExternalInv
    <3>. QED
      BY <2>3, <3>1 DEF ExternalInv, IsPlanned, CountedName, NameKey, Document
  <2>17. \A x : (Found(x) => Found(x)') /\ (Resolved(x) => Resolved(x)')
    <3>1. ASSUME NEW x PROVE (Found(x) => Found(x)') /\ (Resolved(x) => Resolved(x)')
      <4>1. Found(x) => Found(x)'
        BY <2>3, CountsGrow
      <4>2. ASSUME Resolved(x), x.source = "external"
            PROVE  /\ Has(external', BatchKey(x))
                   /\ \E m \in DOMAIN external'[BatchKey(x)].keys :
                         ComponentKey(x) \in external'[BatchKey(x)].keys[m]
        <5>1. CASE BatchKey(x) = key
          <6>1. batch = external[key] /\ Has(external, key)
            BY <4>2, <5>1 DEF Resolved
          <6>. QED
            BY <2>14, <2>15, <4>2, <5>1, <6>1 DEF Resolved, Has
        <5>2. CASE BatchKey(x) # key
          BY <2>15, <4>2, <5>2 DEF Resolved, Has
        <5>. QED
          BY <5>1, <5>2
      <4>. QED
        BY <4>1, <4>2 DEF Resolved, ComponentKey, BatchKey
    <3>. QED
      BY <3>1
  <2>18. Resolved(p)'
    <3>1. Found(p)'
      BY <2>10, <2>17
    <3>2. Has(external', key) /\ ComponentKey(p) \in external'[key].keys[n]
          /\ n \in DOMAIN external'[key].keys
      BY <2>14, <2>15 DEF Has
    <3>. QED
      BY <2>12, <3>1, <3>2 DEF Resolved, ComponentKey, BatchKey
  <2>19. Listed(occurrences') /\ Range(occurrences') = Range(occurrences) \cup {p}
    BY <2>3, <2>5, ListAppend
  <2>20. ResolutionInv'
    <3> HIDE DEF o, d, key, batch
    <3>. QED
      BY <1>1, <2>3, <2>4, <2>6, <2>17, <2>18, <2>19
         DEF ResolutionInv, AllSelected, RequestInv, Limit
  <2>21. CountersInv' /\ SelectedInv'
    BY <2>3, <2>4, Zenon DEF CountersInv, SelectedInv, Limit, KindOf, Document
  <2>22. BatchesInv' /\ ResultsInv'
    BY <1>1, <2>3, <2>4, PlanUndisturbed
  <2>. QED
    BY <1>1, <2>3, <2>4, <2>16, <2>20, <2>21, <2>22 DEF PlanInv
<1>. QED
  BY <1>5, <1>6

\* The resolution goes on to the next output, or is over.
LEMMA ResolutionKeepsPlan ==
    ASSUME world \in Worlds, PlanInv, FinishResolution
    PROVE  PlanInv'
<1>1. /\ stage = "resolve" /\ stack = <<>> /\ queue = <<>>
      /\ selectedOrder' = [selectedOrder EXCEPT ![outputIndex].occurrences = occurrences]
      /\ occurrences' = <<>>
      /\ IF outputIndex < Len(selectedOrder)
         THEN /\ outputIndex' = outputIndex + 1
              /\ queue' = selectedOrder[outputIndex + 1].occurrences
              /\ UNCHANGED stage
         ELSE stage' = "prepare" /\ UNCHANGED <<outputIndex, queue>>
      /\ UNCHANGED <<world, failure, stack, charged>>
      /\ UNCHANGED planVars
  BY DEF FinishResolution, FinishOutput
<1>2. /\ CountersInv /\ SelectedInv /\ ResolutionInv /\ ExternalInv
      /\ BatchesInv /\ ResultsInv /\ failure = "none"
  BY DEF PlanInv
<1>3. /\ AllSelected /\ outputIndex \in DOMAIN selectedOrder /\ Listed(occurrences)
      /\ RequestInv
      /\ \A o \in Range(occurrences) : Resolved(o)
      /\ \A k \in DOMAIN selectedOrder :
            \A o \in Range(selectedOrder[k].occurrences) :
               IF k < outputIndex THEN Resolved(o) ELSE Found(o)
  BY <1>1, <1>2 DEF ResolutionInv
<1>4. /\ SelectedInv' /\ Len(selectedOrder') = Len(selectedOrder)
      /\ DOMAIN selectedOrder' = DOMAIN selectedOrder
      /\ DOMAIN selectedOrder = 1 .. Len(selectedOrder) /\ Len(selectedOrder) \in Nat
      /\ \A k \in DOMAIN selectedOrder :
            selectedOrder'[k].occurrences = IF k = outputIndex THEN occurrences
                                            ELSE selectedOrder[k].occurrences
  BY <1>1, <1>2, <1>3, OutputRewritten
<1>5. \A o : (Found(o) => Found(o)') /\ (Resolved(o) => Resolved(o)')
  <2>1. ASSUME NEW o PROVE (Found(o) => Found(o)') /\ (Resolved(o) => Resolved(o)')
    <3>1. Found(o) => Found(o)'
      BY <1>1, CountsGrow
    <3>. QED
      BY <1>1, <3>1 DEF Resolved, planVars, ComponentKey, BatchKey, Has
  <2>. QED
    BY <2>1
<1>6. CountersInv' /\ ExternalInv'
  BY <1>1, <1>2 DEF CountersInv, ExternalInv, IsPlanned, CountedName, NameKey, planVars,
                    Limit, KindOf, Document
<1>7. BatchesInv' /\ ResultsInv'
  BY <1>1, <1>2, EmptyList DEF BatchesInv, ResultsInv, planVars
<1>8. CASE outputIndex < Len(selectedOrder)
  <2>1. /\ outputIndex' = outputIndex + 1 /\ stage' = "resolve"
        /\ queue' = selectedOrder[outputIndex + 1].occurrences
    BY <1>1, <1>8
  <2>2. outputIndex + 1 \in DOMAIN selectedOrder /\ ~(outputIndex + 1 < outputIndex)
    BY <1>3, <1>4, <1>8
  <2>3. Listed(queue') /\ \A o \in Range(queue') : Found(o)
    BY <1>2, <1>3, <2>1, <2>2 DEF SelectedInv
  <2>4. ASSUME NEW k \in DOMAIN selectedOrder',
               NEW o \in Range(selectedOrder'[k].occurrences)
        PROVE  IF k < outputIndex' THEN Resolved(o)' ELSE Found(o)'
    <3>1. CASE k = outputIndex
      BY <1>3, <1>4, <1>5, <2>1, <3>1
    <3>2. CASE k # outputIndex
      BY <1>3, <1>4, <1>5, <2>1, <3>2
    <3>. QED
      BY <3>1, <3>2
  <2>5. ResolutionInv'
    BY <1>1, <1>3, <1>4, <1>5, <2>1, <2>2, <2>3, <2>4, EmptyList
       DEF ResolutionInv, RequestInv, Limit, AllSelected
  <2>. QED
    BY <1>1, <1>2, <1>4, <1>6, <1>7, <2>1, <2>5 DEF PlanInv
<1>9. CASE ~(outputIndex < Len(selectedOrder))
  <2>1. stage' = "prepare" /\ UNCHANGED <<outputIndex, queue>>
    BY <1>1, <1>9
  <2>2. ASSUME NEW k \in DOMAIN selectedOrder',
               NEW o \in Range(selectedOrder'[k].occurrences)
        PROVE  Resolved(o)'
    <3>1. CASE k = outputIndex
      BY <1>3, <1>4, <1>5, <3>1
    <3>2. CASE k # outputIndex
      <4>1. k < outputIndex
        BY <1>3, <1>4, <1>9, <3>2
      <4>. QED
        BY <1>3, <1>4, <1>5, <3>2, <4>1
    <3>. QED
      BY <3>1, <3>2
  <2>3. ResolutionInv'
    BY <1>1, <1>3, <1>4, <2>1, <2>2, EmptyList
       DEF ResolutionInv, RequestInv, Limit, AllSelected
  <2>. QED
    BY <1>1, <1>2, <1>4, <1>6, <1>7, <2>1, <2>3 DEF PlanInv
<1>. QED
  BY <1>8, <1>9

-----------------------------------------------------------------------------
(* The batches: they are unambiguous, small enough and not empty.           *)
\* A set that maps into another one without collisions is no larger.
LEMMA NoMoreThan ==
    ASSUME NEW S, NEW T, IsFiniteSet(T), NEW f \in [S -> T],
           \A x, y \in S : f[x] = f[y] => x = y
    PROVE  IsFiniteSet(S) /\ Cardinality(S) \in Nat /\ Cardinality(S) <= Cardinality(T)
<1>1. f \in Injection(S, T)
  BY DEF Injection, IsInjective
<1>2. IsFiniteSet(S) /\ Cardinality(S) <= Cardinality(T)
  BY <1>1, FS_Injection
<1>. QED
  BY <1>2, FS_CardinalityType

\* There are no more selections of parts of the document than parts ...
LEMMA PartSelectionsBound ==
    ASSUME CountersInv, NEW c
    PROVE  /\ IsFiniteSet(PartSelections(c)) /\ Cardinality(PartSelections(c)) \in Nat
           /\ Cardinality(PartSelections(c)) <= Cardinality(charged.parts)
<1> DEFINE Of(s, key) == key[1] = "local" /\ key[4] = c /\ key[3] = s.node
           f == [s \in PartSelections(c) |-> CHOOSE key \in charged.parts : Of(s, key)]
<1>1. ASSUME NEW s \in PartSelections(c)
      PROVE  f[s] \in charged.parts /\ Of(s, f[s])
  <2>1. PICK n \in LocalParts(c) : s = [name |-> PartName(n), node |-> n, kind |-> "part"]
    BY DEF PartSelections
  <2>2. PICK key \in charged.parts : Of(s, key)
    BY <2>1 DEF LocalParts
  <2>. QED
    BY <2>2
<1>2. ASSUME NEW s \in PartSelections(c), NEW t \in PartSelections(c), s.node = t.node
      PROVE  s = t
  BY <1>2 DEF PartSelections
<1>3. f \in [PartSelections(c) -> charged.parts]
  BY <1>1
<1>4. \A s, t \in PartSelections(c) : f[s] = f[t] => s = t
  BY <1>1, <1>2
<1>. HIDE DEF f
<1>. QED
  BY <1>3, <1>4, NoMoreThan DEF CountersInv

\* ... and no more of direct outputs than selected outputs.
LEMMA DirectSelectionsBound ==
    ASSUME SelectedInv, NEW c
    PROVE  /\ IsFiniteSet(DirectSelections(c)) /\ Cardinality(DirectSelections(c)) \in Nat
           /\ Cardinality(DirectSelections(c)) <= Len(selectedOrder)
<1> DEFINE As(k) == [name |-> Plain(selectedOrder[k].name), node |-> selectedOrder[k].node,
                     kind |-> selectedOrder[k].kind]
           f == [s \in DirectSelections(c) |-> CHOOSE k \in DOMAIN selectedOrder : s = As(k)]
<1>1. ASSUME NEW s \in DirectSelections(c)
      PROVE  f[s] \in DOMAIN selectedOrder /\ s = As(f[s])
  <2>1. PICK o \in Range(selectedOrder) :
           s = [name |-> Plain(o.name), node |-> o.node, kind |-> o.kind]
    BY DEF DirectSelections, DirectOutputs
  <2>2. PICK k \in DOMAIN selectedOrder : o = selectedOrder[k]
    BY DEF Range
  <2>3. s = As(k)
    BY <2>1, <2>2
  <2>4. f[s] = CHOOSE j \in DOMAIN selectedOrder : s = As(j)
    OBVIOUS
  <2> HIDE DEF As, f
  <2>. QED
    BY <2>2, <2>3, <2>4
<1>2. DOMAIN selectedOrder = 1 .. Len(selectedOrder) /\ Len(selectedOrder) \in Nat
  BY Lists DEF SelectedInv
<1>3. IsFiniteSet(1 .. Len(selectedOrder))
      /\ Cardinality(1 .. Len(selectedOrder)) = Len(selectedOrder)
  <2>1. PICK n \in Nat : n = Len(selectedOrder)
    BY <1>2, Zenon
  <2>2. IsFiniteSet(1 .. n) /\ Cardinality(1 .. n) = IF 1 > n THEN 0 ELSE n - 1 + 1
    BY FS_Interval
  <2>. QED
    BY <2>1, <2>2
<1>4. f = [s \in DirectSelections(c) |-> f[s]]
  OBVIOUS
<1>. HIDE DEF f, As
<1>6. f \in [DirectSelections(c) -> 1 .. Len(selectedOrder)]
  BY <1>1, <1>2, <1>4
<1>7. \A s, t \in DirectSelections(c) : f[s] = f[t] => s = t
  BY <1>1
<1>5. /\ IsFiniteSet(DirectSelections(c)) /\ Cardinality(DirectSelections(c)) \in Nat
      /\ Cardinality(DirectSelections(c)) <= Cardinality(1 .. Len(selectedOrder))
  BY <1>3, <1>6, <1>7, NoMoreThan
<1>. QED
  BY <1>3, <1>5

\* The limit on the selections of a batch is the sum of the two limits.
LEMMA LocalSelectionsFit ==
    ASSUME world \in Worlds, CountersInv, SelectedInv, RequestInv, NEW c
    PROVE  ~(Cardinality(PartSelections(c) \cup DirectSelections(c)) >
             Limit("maxContextualParts") + Limit("maxSelectedOutputs"))
<1>1. /\ IsFiniteSet(PartSelections(c)) /\ Cardinality(PartSelections(c)) \in Nat
      /\ Cardinality(PartSelections(c)) <= Cardinality(charged.parts)
  BY PartSelectionsBound
<1>2. /\ IsFiniteSet(DirectSelections(c)) /\ Cardinality(DirectSelections(c)) \in Nat
      /\ Cardinality(DirectSelections(c)) <= Len(selectedOrder)
  BY DirectSelectionsBound
<1>3. /\ Cardinality(charged.parts) \in Nat /\ Len(selectedOrder) \in Nat
      /\ Len(world.requested) \in Nat
      /\ Limit("maxContextualParts") \in Nat /\ Limit("maxSelectedOutputs") \in Nat
  BY Worldly, Lists, FS_CardinalityType DEF CountersInv, SelectedInv
<1>4. /\ Cardinality(charged.parts) <= Limit("maxContextualParts")
      /\ Len(selectedOrder) <= Len(world.requested)
      /\ Len(world.requested) <= Limit("maxSelectedOutputs")
  BY DEF CountersInv, SelectedInv, RequestInv
<1>5. PICK P, D : P = PartSelections(c) /\ D = DirectSelections(c)
  OBVIOUS
<1>6. Cardinality(P \cup D) = Cardinality(P) + Cardinality(D) - Cardinality(P \cap D)
  BY <1>1, <1>2, <1>5, FS_Union
<1>7. Cardinality(P \cap D) \in Nat
  <2>1. IsFiniteSet(P \cap D)
    BY <1>1, <1>5, FS_Intersection
  <2>. QED
    BY <2>1, FS_CardinalityType
<1>. QED
  BY <1>1, <1>2, <1>3, <1>4, <1>5, <1>6, <1>7

\* Names that count for the same part are the same.
LEMMA NamesDiffer ==
    ASSUME NEW d, NEW c, NEW m, NEW n, CountedName(d, c, m), CountedName(d, c, n),
           NameKey(d, c, m) = NameKey(d, c, n)
    PROVE  m = n
<1>1. /\ m = [text |-> m.text, marked |-> m.marked] /\ m.marked \in BOOLEAN
      /\ n = [text |-> n.text, marked |-> n.marked] /\ n.marked \in BOOLEAN
      /\ m.marked => Has(Document(d).outputs, m.text)
      /\ n.marked => Has(Document(d).outputs, n.text)
  BY DEF CountedName
<1>2. m.text = n.text
  BY DEF NameKey, ExternalPart, ExternalLeaf
<1>3. m.marked = n.marked
  <2>1. (~m.marked /\ Has(Document(d).outputs, m.text)) <=>
        (~n.marked /\ Has(Document(d).outputs, n.text))
    BY DEF NameKey, ExternalPart, ExternalLeaf
  <2>. QED
    BY <1>1, <1>2, <2>1
<1>. QED
  BY <1>1, <1>2, <1>3

\* The selections that PrepareExternal makes of a batch.
SelectionsOf(batch) ==
    {[name |-> name, node |-> batch.nodes[name], kind |-> "part"] :
        name \in DOMAIN batch.nodes}

\* A batch of an external document has no more selections than there are parts.
LEMMA ExternalSelectionsFit ==
    ASSUME world \in Worlds, CountersInv, NEW key, NEW batch, IsPlanned(key, batch)
    PROVE  /\ SelectionsOf(batch) # {} /\ IsFiniteSet(SelectionsOf(batch))
           /\ ~(Cardinality(SelectionsOf(batch)) >
                Limit("maxContextualParts") + Limit("maxSelectedOutputs"))
<1> DEFINE S == SelectionsOf(batch)
           f == [s \in S |-> NameKey(batch.document, batch.configuration, s.name)]
<1>1. ASSUME NEW s \in S
      PROVE  /\ CountedName(batch.document, batch.configuration, s.name)
             /\ s = [name |-> s.name, node |-> batch.nodes[s.name], kind |-> "part"]
  BY DEF SelectionsOf, IsPlanned
<1>2. f \in [S -> charged.parts]
  BY <1>1 DEF CountedName
<1>3. ASSUME NEW s \in S, NEW t \in S, f[s] = f[t] PROVE s = t
  <2>1. s.name = t.name
    BY <1>1, <1>3, NamesDiffer
  <2>. QED
    BY <1>1, <2>1
<1>4. S # {}
  BY DEF SelectionsOf, IsPlanned
<1>. HIDE DEF f, S
<1>5. /\ IsFiniteSet(S)
      /\ Cardinality(S) \in Nat /\ Cardinality(S) <= Cardinality(charged.parts)
  BY <1>2, <1>3, NoMoreThan DEF CountersInv
<1>6. /\ Cardinality(charged.parts) \in Nat
      /\ Cardinality(charged.parts) <= Limit("maxContextualParts")
      /\ Limit("maxContextualParts") \in Nat /\ Limit("maxSelectedOutputs") \in Nat
  BY Worldly, FS_CardinalityType DEF CountersInv
<1>. QED
  BY <1>4, <1>5, <1>6 DEF S

\* What the names of the selected outputs say about them.
LEMMA SelectedReferences ==
    ASSUME SelectedInv, NEW o \in Range(selectedOrder)
    PROVE  /\ o.node = Document(Root).outputs[o.name].node
           /\ o.kind = Document(Root).outputs[o.name].kind
           /\ o.name \in DOMAIN Document(Root).outputs /\ KindOf(Root, o.node) = o.kind
<1>1. PICK k \in DOMAIN selectedOrder : o = selectedOrder[k]
  BY DEF Range
<1>2. PICK r : r = Document(Root).outputs[world.requested[k]]
  OBVIOUS
<1>3. /\ o = [name |-> world.requested[k], node |-> r.node, kind |-> r.kind,
              occurrences |-> o.occurrences]
      /\ world.requested[k] \in DOMAIN Document(Root).outputs
      /\ KindOf(Root, r.node) = r.kind
  BY <1>1, <1>2 DEF SelectedInv
<1>4. o.name = world.requested[k] /\ o.node = r.node /\ o.kind = r.kind
  BY <1>3
<1>. QED
  BY <1>2, <1>3, <1>4

\* Selections of the same name are the same.
LEMMA SelectionsDiffer ==
    ASSUME CountersInv, SelectedInv, NEW c,
           NEW s \in PartSelections(c), NEW t \in DirectSelections(c), s.name = t.name
    PROVE  s = t
<1>1. PICK n \in LocalParts(c) : s = [name |-> PartName(n), node |-> n, kind |-> "part"]
  BY DEF PartSelections
<1>2. PICK o \in DirectOutputs :
         t = [name |-> Plain(o.name), node |-> o.node, kind |-> o.kind]
  BY DEF DirectSelections
<1>3. PartName(n) = Plain(o.name)
  BY <1>1, <1>2
<1>4. n = o.name /\ o.node = n
  BY <1>2, <1>3 DEF PartName, Plain, Marked
<1>5. KindOf(Root, n) = "part"
  BY DEF LocalParts, CountersInv
<1>6. KindOf(Root, o.node) = o.kind
  BY SelectedReferences DEF DirectOutputs
<1>. QED
  BY <1>1, <1>2, <1>3, <1>4, <1>5, <1>6

\* A batch whose selections are unambiguous, few enough and some is prepared, or it
\* is refused for a reason that is not the code's fault.
LEMMA PrepareSucceeds ==
    ASSUME NEW d, NEW c, NEW selections, NEW keys, NEW ambiguous,
           Prepare(d, c, selections, keys, ambiguous),
           ~ambiguous, selections # {},
           ~(Cardinality(selections) >
             Limit("maxContextualParts") + Limit("maxSelectedOutputs"))
    PROVE  \/ Failed' /\ world' = world
           \/ /\ batches' = Append(batches, [document |-> d, configuration |-> c,
                                             selections |-> selections, keys |-> keys])
              /\ UNCHANGED <<vars, external, batchIndex, spent, nativeResults,
                             partResults, products>>
<1> DEFINE checks == <<
            <<"internal", ambiguous>>,
            <<"selections", Cardinality(selections) >
                            Limit("maxContextualParts") + Limit("maxSelectedOutputs")>>,
            <<"internal", selections = {}>>,
            <<"maxPartBodies", Bodies(d, selections) > Limit("maxPartBodies")>>,
            <<"maxDistinctSolids", Solids(d, selections) > Limit("maxDistinctSolids")>>,
            <<"configuration", ~KnownConfiguration(d, c)>> >>
<1>1. DOMAIN checks = 1 .. 6
  OBVIOUS
<1>2. /\ checks[4][1] = "maxPartBodies" /\ checks[5][1] = "maxDistinctSolids"
      /\ checks[6][1] = "configuration"
  OBVIOUS
<1>3. /\ checks[1][2] <=> ambiguous
      /\ checks[2][2] <=> Cardinality(selections) >
                          Limit("maxContextualParts") + Limit("maxSelectedOutputs")
      /\ checks[3][2] <=> selections = {}
  OBVIOUS
<1>4. \/ FirstFailing(checks) # "none" /\ Refuse(FirstFailing(checks))
      \/ /\ batches' = Append(batches, [document |-> d, configuration |-> c,
                                        selections |-> selections, keys |-> keys])
         /\ UNCHANGED <<vars, external, batchIndex, spent, nativeResults,
                        partResults, products>>
  BY DEF Prepare, RefusePlan
<1> HIDE DEF checks
<1>5. FirstFailing(checks) = "none"
      \/ \E k \in 1 .. 6 : checks[k][2] /\ FirstFailing(checks) = checks[k][1]
  BY <1>1, FirstFailingCheck
<1>6. ASSUME FirstFailing(checks) # "none" PROVE Fine(FirstFailing(checks))
  <2>1. PICK k \in 1 .. 6 : checks[k][2] /\ FirstFailing(checks) = checks[k][1]
    BY <1>5, <1>6
  <2>2. k \in {4, 5, 6}
    BY <1>3, <2>1
  <2>. QED
    BY <1>2, <2>1, <2>2 DEF Fine
<1>. QED
  BY <1>4, <1>6, RefuseFails

\* Another batch of the right shape.
LEMMA BatchAdded ==
    ASSUME world \in Worlds, PlanInv, stage = "prepare",
           NEW d, NEW c, NEW selections, NEW keys,
           batches' = Append(batches, [document |-> d, configuration |-> c,
                                       selections |-> selections, keys |-> keys]),
           UNCHANGED <<vars, external, batchIndex, spent, nativeResults,
                       partResults, products>>,
           d = Root => /\ selections = PartSelections(c) \cup DirectSelections(c)
                       /\ keys = <<>>
    PROVE  PlanInv'
<1>1. /\ CountersInv /\ SelectedInv /\ ResolutionInv /\ ExternalInv
      /\ BatchesInv /\ ResultsInv /\ failure = "none"
  BY DEF PlanInv
<1>2. UNCHANGED <<world, stage, failure, selectedOrder, outputIndex, queue, occurrences,
                  stack, charged, external, batchIndex, nativeResults, partResults>>
  BY DEF vars
<1>3. PICK b : b = [document |-> d, configuration |-> c, selections |-> selections,
                    keys |-> keys]
  OBVIOUS
<1>4. IsBatch(b)
  BY <1>3 DEF IsBatch
<1>5. Listed(batches') /\ Range(batches') = Range(batches) \cup {b}
  BY <1>1, <1>3, ListAppend DEF BatchesInv
<1>6. \A x : IsBatch(x) => IsBatch(x)'
  BY <1>2 DEF IsBatch, PartSelections, DirectSelections, LocalParts, PartName, DirectOutputs
<1>7. BatchesInv'
  BY <1>1, <1>2, <1>4, <1>5, <1>6 DEF BatchesInv
<1>8. ResultsInv'
  BY <1>1, <1>2, <1>5 DEF ResultsInv, View
<1>9. CountersInv' /\ SelectedInv'
  BY <1>1, <1>2, Zenon DEF CountersInv, SelectedInv, Limit, KindOf, Document
<1>10. ExternalInv'
  BY <1>1, <1>2 DEF ExternalInv, IsPlanned, CountedName, NameKey, Document
<1>11. ResolutionInv'
  BY <1>1, <1>2, Zenon DEF ResolutionInv, AllSelected, RequestInv, Limit, Resolved, Found,
       PartKey, IsOccurrence, Has, BatchKey, ComponentKey
<1>. QED
  BY <1>1, <1>2, <1>7, <1>8, <1>9, <1>10, <1>11 DEF PlanInv

\* A batch of the evaluated document is prepared, or one of an external document.
LEMMA PrepareLocalKeepsPlan ==
    ASSUME world \in Worlds, PlanInv, PrepareLocal
    PROVE  world' = world /\ (PlanInv' \/ Failed')
<1>1. PICK c \in LocalContexts :
         Prepare(Root, c, PartSelections(c) \cup DirectSelections(c), <<>>,
                 \E s \in PartSelections(c), t \in DirectSelections(c) :
                     s.name = t.name /\ s # t)
  BY DEF PrepareLocal
<1>2. stage = "prepare"
  BY DEF PrepareLocal
<1>3. CountersInv /\ SelectedInv /\ RequestInv
  BY DEF PlanInv, ResolutionInv
<1>4. ~\E s \in PartSelections(c), t \in DirectSelections(c) : s.name = t.name /\ s # t
  BY <1>3, SelectionsDiffer
<1>5. PartSelections(c) \cup DirectSelections(c) # {}
  <2>1. CASE \E key \in charged.parts : key[1] = "local" /\ key[4] = c
    BY <2>1 DEF PartSelections, LocalParts
  <2>2. CASE c = world.configuration /\ DirectOutputs # {}
    BY <2>2 DEF DirectSelections
  <2>. QED
    BY <2>1, <2>2 DEF LocalContexts
<1>6. ~(Cardinality(PartSelections(c) \cup DirectSelections(c)) >
        Limit("maxContextualParts") + Limit("maxSelectedOutputs"))
  BY <1>3, LocalSelectionsFit
<1>7. PICK S, ambiguous, none :
         /\ S = PartSelections(c) \cup DirectSelections(c) /\ none = <<>>
         /\ ambiguous = \E s \in PartSelections(c), t \in DirectSelections(c) :
                           s.name = t.name /\ s # t
  OBVIOUS
<1>8. \/ Failed' /\ world' = world
      \/ /\ batches' = Append(batches, [document |-> Root, configuration |-> c,
                                        selections |-> S, keys |-> none])
         /\ UNCHANGED <<vars, external, batchIndex, spent, nativeResults,
                        partResults, products>>
  <2>1. Prepare(Root, c, S, none, ambiguous)
    BY <1>1, <1>7
  <2>2. ~ambiguous /\ S # {}
        /\ ~(Cardinality(S) > Limit("maxContextualParts") + Limit("maxSelectedOutputs"))
    BY <1>4, <1>5, <1>6, <1>7
  <2>. QED
    BY <2>1, <2>2, PrepareSucceeds
<1>9. ASSUME batches' = Append(batches, [document |-> Root, configuration |-> c,
                                         selections |-> S, keys |-> none]),
             UNCHANGED <<vars, external, batchIndex, spent, nativeResults,
                         partResults, products>>
      PROVE  world' = world /\ PlanInv'
  <2>1. PlanInv'
    BY <1>2, <1>7, <1>9, BatchAdded
  <2>. QED
    BY <1>9, <2>1 DEF vars
<1>. QED
  BY <1>8, <1>9

LEMMA PrepareExternalKeepsPlan ==
    ASSUME world \in Worlds, PlanInv, PrepareExternal
    PROVE  world' = world /\ (PlanInv' \/ Failed')
<1>1. PICK key \in DOMAIN external :
         Prepare(external[key].document, external[key].configuration,
                 SelectionsOf(external[key]), external[key].keys, FALSE)
  BY DEF PrepareExternal, SelectionsOf
<1>2. stage = "prepare"
  BY DEF PrepareExternal
<1>3. CountersInv /\ IsPlanned(key, external[key])
  BY DEF PlanInv, ExternalInv
<1>4. PICK d, c, S, keys, batch :
         /\ batch = external[key]
         /\ d = batch.document /\ c = batch.configuration
         /\ S = SelectionsOf(batch) /\ keys = batch.keys
  OBVIOUS
<1>5. /\ S # {}
      /\ ~(Cardinality(S) > Limit("maxContextualParts") + Limit("maxSelectedOutputs"))
  BY <1>3, <1>4, ExternalSelectionsFit
<1>6. \/ Failed' /\ world' = world
      \/ /\ batches' = Append(batches, [document |-> d, configuration |-> c,
                                        selections |-> S, keys |-> keys])
         /\ UNCHANGED <<vars, external, batchIndex, spent, nativeResults,
                        partResults, products>>
  <2>1. Prepare(d, c, S, keys, FALSE)
    BY <1>1, <1>4
  <2>. QED
    BY <1>5, <2>1, PrepareSucceeds
<1>7. d # Root
  BY <1>3, <1>4 DEF IsPlanned
<1>8. ASSUME batches' = Append(batches, [document |-> d, configuration |-> c,
                                         selections |-> S, keys |-> keys]),
             UNCHANGED <<vars, external, batchIndex, spent, nativeResults,
                         partResults, products>>
      PROVE  world' = world /\ PlanInv'
  <2>1. PlanInv'
    BY <1>2, <1>7, <1>8, BatchAdded
  <2>. QED
    BY <1>8, <2>1 DEF vars
<1>. QED
  BY <1>6, <1>8

-----------------------------------------------------------------------------
(* The results.                                                             *)
\* A step that changes the stage and leaves what the plan says alone.
LEMMA QuietPlan ==
    ASSUME PlanInv,
           UNCHANGED <<world, failure, selectedOrder, outputIndex, queue, occurrences,
                       stack, charged, external, batches>>,
           stage \in {"prepare", "charge", "execute"},
           stage' \in {"prepare", "charge", "execute", "done"},
           stage' \in {"charge", "execute"} => AllPrepared,
           ResultsInv'
    PROVE  PlanInv'
<1>1. /\ CountersInv /\ SelectedInv /\ ResolutionInv /\ ExternalInv
      /\ BatchesInv /\ failure = "none"
  BY DEF PlanInv
<1>2. CountersInv' /\ SelectedInv'
  BY <1>1, Zenon DEF CountersInv, SelectedInv, Limit, KindOf, Document
<1>3. ExternalInv'
  BY <1>1 DEF ExternalInv, IsPlanned, CountedName, NameKey, Document
<1>4. ResolutionInv'
  BY <1>1 DEF ResolutionInv, AllSelected, RequestInv, Limit, Resolved, Found,
       PartKey, IsOccurrence, Has, BatchKey, ComponentKey
<1>5. BatchesInv'
  <2>1. \A b : IsBatch(b) => IsBatch(b)'
    BY DEF IsBatch, PartSelections, DirectSelections, LocalParts, PartName, DirectOutputs
  <2>2. AllPrepared => AllPrepared'
    BY DEF AllPrepared, LocalContexts, DirectOutputs, Prepared, ExternalPrepared
  <2>. QED
    BY <1>1, <2>1, <2>2 DEF BatchesInv
<1>. QED
  BY <1>1, <1>2, <1>3, <1>4, <1>5 DEF PlanInv

\* Every batch is prepared, is paid for and is executed, one after the other.
LEMMA PreparationKeepsPlan ==
    ASSUME PlanInv, FinishPreparation
    PROVE  PlanInv' /\ world' = world
<1>1. /\ stage = "prepare" /\ stage' = "charge" /\ batchIndex' = 1 /\ AllPrepared
      /\ UNCHANGED <<world, failure, selectedOrder, outputIndex, queue, occurrences, stack,
                     charged, external, batches, spent, nativeResults, partResults,
                     products>>
  BY DEF FinishPreparation, AllPrepared
<1>2. ResultsInv
  BY DEF PlanInv
<1>3. ResultsInv'
  BY <1>1, <1>2 DEF ResultsInv, View
<1>. QED
  BY <1>1, <1>3, QuietPlan

LEMMA ChargeKeepsPlan ==
    ASSUME PlanInv, ChargeBatch
    PROVE  world' = world /\ (PlanInv' \/ Failed')
<1> DEFINE bodies == spent.bodies + Bodies(Batch.document, Batch.selections)
           solids == spent.solids + Solids(Batch.document, Batch.selections)
           checks == <<
               <<"maxPartBodies", bodies > Limit("maxPartBodies")>>,
               <<"maxDistinctSolids", solids > Limit("maxDistinctSolids")>> >>
<1>1. stage = "charge"
  BY DEF ChargeBatch
<1>2. /\ DOMAIN checks = 1 .. 2
      /\ \A k \in 1 .. 2 : Fine(checks[k][1]) /\ checks[k][1] # "none"
  <2>1. DOMAIN checks = 1 .. 2
    OBVIOUS
  <2>2. checks[1][1] = "maxPartBodies" /\ checks[2][1] = "maxDistinctSolids"
    OBVIOUS
  <2> HIDE DEF checks
  <2>. QED
    BY <2>1, <2>2 DEF Fine
<1>3. \/ FirstFailing(checks) # "none" /\ Refuse(FirstFailing(checks))
      \/ /\ batchIndex' = batchIndex + 1
         /\ UNCHANGED <<vars, external, batches, nativeResults, partResults, products>>
  BY DEF ChargeBatch, RefusePlan
<1> HIDE DEF checks
<1>4. FirstFailing(checks) # "none" => Fine(FirstFailing(checks))
  BY <1>2, FirstFailingCheck
<1>5. CASE FirstFailing(checks) # "none" /\ Refuse(FirstFailing(checks))
  BY <1>4, <1>5, RefuseFails
<1>6. CASE /\ batchIndex' = batchIndex + 1
           /\ UNCHANGED <<vars, external, batches, nativeResults, partResults, products>>
  <2>1. /\ batchIndex' = batchIndex + 1
        /\ UNCHANGED <<world, stage, failure, selectedOrder, outputIndex, queue,
                       occurrences, stack, charged, external, batches, nativeResults,
                       partResults>>
    BY <1>6 DEF vars
  <2>2. ResultsInv /\ AllPrepared
    BY <1>1 DEF PlanInv, BatchesInv
  <2>3. ResultsInv'
    BY <1>1, <2>1, <2>2 DEF ResultsInv, View
  <2>. QED
    BY <1>1, <2>1, <2>2, <2>3, QuietPlan
<1>. QED
  BY <1>3, <1>5, <1>6

LEMMA BeginExecutionKeepsPlan ==
    ASSUME PlanInv, BeginExecution
    PROVE  PlanInv' /\ world' = world
<1>1. /\ stage = "charge" /\ stage' = "execute" /\ batchIndex' = 1
      /\ UNCHANGED <<world, failure, selectedOrder, outputIndex, queue, occurrences, stack,
                     charged, external, batches, spent, nativeResults, partResults,
                     products>>
  BY DEF BeginExecution
<1>2. ResultsInv /\ AllPrepared /\ Listed(batches)
  BY <1>1 DEF PlanInv, BatchesInv
<1>3. \A j \in DOMAIN batches : ~(j < 1)
  BY <1>2, Lists
<1>4. ResultsInv'
  BY <1>1, <1>2, <1>3 DEF ResultsInv, View
<1>. QED
  BY <1>1, <1>2, <1>4, QuietPlan

LEMMA ExecuteKeepsPlan ==
    ASSUME PlanInv, ExecuteBatch
    PROVE  PlanInv' /\ world' = world
<1>1. /\ stage = "execute" /\ batchIndex <= Len(batches)
      /\ IF Batch.document = Root
         THEN /\ nativeResults' = Updated(nativeResults, NativeResults(Batch))
              /\ partResults' = Updated(partResults, LocalResults(Batch))
         ELSE /\ partResults' = Updated(partResults, ExternalResults(Batch))
              /\ UNCHANGED nativeResults
      /\ batchIndex' = batchIndex + 1
      /\ UNCHANGED <<world, stage, failure, selectedOrder, outputIndex, queue,
                     occurrences, stack, charged, external, batches>>
  BY DEF ExecuteBatch, vars, Remaining
<1>2. ResultsInv /\ AllPrepared /\ Listed(batches)
  BY <1>1 DEF PlanInv, BatchesInv
<1>3. PICK b : b = Batch
  OBVIOUS
<1>4. Len(batches) \in Nat /\ DOMAIN batches = 1 .. Len(batches)
  BY <1>2, Lists
<1>5. ASSUME batchIndex \in DOMAIN batches PROVE b \in Range(batches)
  BY <1>3, <1>5 DEF Range, Batch
<1>6. \/ /\ b.document = Root
         /\ nativeResults' = Updated(nativeResults, NativeResults(b))
         /\ partResults' = Updated(partResults, LocalResults(b))
      \/ /\ b.document # Root /\ nativeResults' = nativeResults
         /\ partResults' = Updated(partResults, ExternalResults(b))
  BY <1>1, <1>3
<1>7. /\ DOMAIN nativeResults \subseteq DOMAIN nativeResults'
      /\ DOMAIN partResults \subseteq DOMAIN partResults'
      /\ IF b.document = Root
         THEN /\ DOMAIN NativeResults(b) \subseteq DOMAIN nativeResults'
              /\ DOMAIN LocalResults(b) \subseteq DOMAIN partResults'
         ELSE DOMAIN ExternalResults(b) \subseteq DOMAIN partResults'
  BY <1>6 DEF Updated
<1>8. \A x : Executed(x) => Executed(x)'
  BY <1>1, <1>7 DEF Executed, NativeResults, LocalResults, PartName, DirectOutputs,
     LocalKey, View, Renamed
<1>9. Executed(b)'
  <2>2. DOMAIN ExternalResults(b) = UNION Range(b.keys)
    BY DEF ExternalResults
  <2>3. (DOMAIN NativeResults(b))' = DOMAIN NativeResults(b)
        /\ (DOMAIN LocalResults(b))' = DOMAIN LocalResults(b)
    BY <1>1 DEF NativeResults, LocalResults, PartName, DirectOutputs, LocalKey, View,
       Renamed
  <2>. QED
    BY <1>7, <2>2, <2>3 DEF Executed
<1>10. (\A j \in DOMAIN batches : j < batchIndex => Executed(batches[j]))'
  <2>1. SUFFICES ASSUME NEW j \in DOMAIN batches, j < batchIndex + 1
                 PROVE  Executed(batches[j])'
    BY <1>1
  <2>2. CASE j < batchIndex
    <3>1. PICK x : x = batches[j]
      OBVIOUS
    <3>2. Executed(x)
      BY <1>1, <1>2, <2>2, <3>1 DEF ResultsInv
    <3>. QED
      BY <1>1, <1>8, <3>1, <3>2
  <2>3. CASE j = batchIndex
    BY <1>1, <1>3, <1>9, <2>3 DEF Batch
  <2>. QED
    BY <1>2, <1>4, <2>1, <2>2, <2>3 DEF ResultsInv
<1>11. ASSUME NEW k \in DOMAIN nativeResults'
       PROVE  \E x \in Range(batches) : \E s \in x.selections :
                 /\ x.document = Root /\ k = <<s.name, x.configuration>>
                 /\ nativeResults'[k] = View(x, s)
  <2>1. CASE k \in DOMAIN nativeResults /\ nativeResults'[k] = nativeResults[k]
    BY <1>2, <2>1 DEF ResultsInv
  <2>2. CASE /\ b.document = Root /\ k \in DOMAIN NativeResults(b)
             /\ nativeResults'[k] = NativeResults(b)[k]
    <3>1. PICK s \in b.selections : k = <<s.name, b.configuration>>
      BY <2>2 DEF NativeResults
    <3>2. PICK t : t = CHOOSE x \in b.selections : x.name = k[1]
      OBVIOUS
    <3>3. t \in b.selections /\ t.name = k[1]
      BY <3>1, <3>2
    <3>4. NativeResults(b)[k] = View(b, t)
      BY <2>2, <3>2 DEF NativeResults
    <3>5. batchIndex \in DOMAIN batches
      <4>1. batchIndex \in Nat /\ batchIndex # 0
        BY <1>1, <1>2 DEF ResultsInv
      <4>. QED
        BY <1>1, <1>4, <4>1
    <3>. QED
      BY <1>5, <2>2, <3>1, <3>3, <3>4, <3>5
  <2>3. CASE b.document = Root
    <3>1. nativeResults' = Updated(nativeResults, NativeResults(b))
      BY <1>6, <2>3
    <3>2. IF k \in DOMAIN NativeResults(b)
          THEN nativeResults'[k] = NativeResults(b)[k]
          ELSE k \in DOMAIN nativeResults /\ nativeResults'[k] = nativeResults[k]
      BY <3>1 DEF Updated, Has
    <3>. QED
      BY <2>1, <2>2, <2>3, <3>2
  <2>4. CASE b.document # Root
    BY <1>6, <2>1, <2>4
  <2>. QED
    BY <2>3, <2>4
<1>12. ResultsInv'
  BY <1>1, <1>2, <1>10, <1>11 DEF ResultsInv, View
<1>. QED
  BY <1>1, <1>2, <1>12, QuietPlan

\* Every occurrence has the result of its component ...
LEMMA OccurrencesAvailable ==
    ASSUME PlanInv, stage = "execute", ~Remaining,
           NEW o, Resolved(o)
    PROVE  Has(partResults, ComponentKey(o))
<1>1. /\ AllPrepared /\ Listed(batches) /\ ResultsInv /\ ExternalInv
      /\ \A b \in Range(batches) : IsBatch(b)
  BY DEF PlanInv, BatchesInv
<1>2. \A j \in DOMAIN batches : Executed(batches[j]) /\ batches[j] \in Range(batches)
  <2>1. \A j \in DOMAIN batches : j < batchIndex
    <3>1. Len(batches) \in Nat /\ DOMAIN batches = 1 .. Len(batches) /\ batchIndex \in Nat
      BY <1>1, Lists DEF ResultsInv
    <3>. QED
      BY <3>1 DEF Remaining
  <2>. QED
    BY <1>1, <2>1 DEF ResultsInv, Range
<1>3. IsOccurrence(o) /\ PartKey(o) \in charged.parts
  BY DEF Resolved, Found
<1>4. CASE o.source = "local"
  <2>1. o.document = Root /\ o.output = Nothing /\ o.kind = "part"
    BY <1>3, <1>4 DEF IsOccurrence
  <2>2. PICK n, c : n = o.node /\ c = o.configuration
    OBVIOUS
  <2>3. LocalPart(n, c) \in charged.parts
    BY <1>3, <1>4, <2>2 DEF PartKey
  <2>4. c \in LocalContexts /\ n \in LocalParts(c)
    BY <2>3 DEF LocalContexts, LocalParts, LocalPart
  <2>5. PICK j \in DOMAIN batches :
           batches[j].document = Root /\ batches[j].configuration = c
    BY <1>1, <2>4 DEF AllPrepared, Prepared
  <2>6. PICK b : b = batches[j]
    OBVIOUS
  <2>7. /\ b.document = Root /\ b.configuration = c /\ IsBatch(b)
        /\ DOMAIN LocalResults(b) \subseteq DOMAIN partResults
    BY <1>1, <1>2, <2>5, <2>6 DEF Executed
  <2>8. PICK s : s = [name |-> PartName(n), node |-> n, kind |-> "part"]
    OBVIOUS
  <2>9. s \in b.selections
    BY <2>4, <2>7, <2>8 DEF IsBatch, PartSelections
  <2>10. s.kind = "part" /\ s.name = PartName(s.node) /\ s.node = n
    BY <2>8
  <2>11. LocalKey(n, c) \in DOMAIN LocalResults(b)
    BY <2>7, <2>9, <2>10 DEF LocalResults
  <2>12. ComponentKey(o) = LocalKey(n, c)
    BY <2>1, <2>2 DEF ComponentKey, LocalKey
  <2>. QED
    BY <2>7, <2>11, <2>12 DEF Has
<1>5. CASE o.source = "external"
  <2>1. PICK key : key = BatchKey(o)
    OBVIOUS
  <2>2. /\ key \in DOMAIN external
        /\ \E name \in DOMAIN external[key].keys : ComponentKey(o) \in external[key].keys[name]
    BY <1>5, <2>1 DEF Resolved, Has
  <2>3. PICK j \in DOMAIN batches : batches[j].keys = external[key].keys
    BY <1>1, <2>2 DEF AllPrepared, ExternalPrepared
  <2>4. PICK b : b = batches[j]
    OBVIOUS
  <2>5. DOMAIN b.keys # {}
    BY <2>2, <2>3, <2>4
  <2>6. b.document # Root
    <3>1. IsBatch(b)
      BY <1>1, <1>2, <2>4
    <3>. QED
      BY <2>5, <3>1 DEF IsBatch
  <2>7. UNION Range(b.keys) \subseteq DOMAIN partResults
    BY <1>2, <2>4, <2>6 DEF Executed
  <2>8. ComponentKey(o) \in UNION Range(b.keys)
    BY <2>2, <2>3, <2>4 DEF Range
  <2>. QED
    BY <2>7, <2>8 DEF Has
<1>. QED
  BY <1>3, <1>4, <1>5 DEF IsOccurrence

\* ... and every direct output the result of its own node.
LEMMA OutputsAvailable ==
    ASSUME PlanInv, stage = "execute", ~Remaining,
           NEW o \in DirectOutputs
    PROVE  /\ Has(nativeResults, NativeKey(o))
           /\ nativeResults[NativeKey(o)].kind = o.kind
           /\ nativeResults[NativeKey(o)].node = o.node
<1>1. /\ AllPrepared /\ Listed(batches) /\ ResultsInv /\ CountersInv /\ SelectedInv
      /\ \A b \in Range(batches) : IsBatch(b)
  BY DEF PlanInv, BatchesInv
<1>2. \A j \in DOMAIN batches : Executed(batches[j]) /\ batches[j] \in Range(batches)
  <2>1. \A j \in DOMAIN batches : j < batchIndex
    <3>1. Len(batches) \in Nat /\ DOMAIN batches = 1 .. Len(batches) /\ batchIndex \in Nat
      BY <1>1, Lists DEF ResultsInv
    <3>. QED
      BY <3>1 DEF Remaining
  <2>. QED
    BY <1>1, <2>1 DEF ResultsInv, Range
<1>3. PICK c : c = world.configuration
  OBVIOUS
<1>4. PICK t : t = [name |-> Plain(o.name), node |-> o.node, kind |-> o.kind]
  OBVIOUS
<1>5. c \in LocalContexts /\ t \in DirectSelections(c)
  BY <1>3, <1>4 DEF LocalContexts, DirectSelections
<1>6. PICK j \in DOMAIN batches :
         batches[j].document = Root /\ batches[j].configuration = c
  BY <1>1, <1>5 DEF AllPrepared, Prepared
<1>7. NativeKey(o) \in DOMAIN nativeResults
  <2>1. PICK b : b = batches[j]
    OBVIOUS
  <2>2. /\ b.document = Root /\ b.configuration = c /\ IsBatch(b)
        /\ DOMAIN NativeResults(b) \subseteq DOMAIN nativeResults
    BY <1>1, <1>2, <1>6, <2>1 DEF Executed
  <2>3. t \in b.selections
    BY <1>5, <2>2 DEF IsBatch
  <2>4. <<t.name, b.configuration>> \in DOMAIN NativeResults(b)
    BY <2>3 DEF NativeResults
  <2>5. NativeKey(o) = <<t.name, b.configuration>>
    BY <1>3, <1>4, <2>2 DEF NativeKey
  <2>. QED
    BY <2>2, <2>4, <2>5
<1>8. PICK b \in Range(batches) : \E s \in b.selections :
         /\ b.document = Root /\ NativeKey(o) = <<s.name, b.configuration>>
         /\ nativeResults[NativeKey(o)] = View(b, s)
  BY <1>1, <1>7 DEF ResultsInv
<1>9. PICK s \in b.selections :
         /\ b.document = Root /\ NativeKey(o) = <<s.name, b.configuration>>
         /\ nativeResults[NativeKey(o)] = View(b, s)
  BY <1>8
<1>10. s.name = Plain(o.name) /\ b.configuration = c
  BY <1>3, <1>9 DEF NativeKey
<1>11. s \in PartSelections(c) \cup DirectSelections(c)
  BY <1>1, <1>9, <1>10 DEF IsBatch
<1>12. s.node = o.node /\ s.kind = o.kind
  <2>1. CASE s \in PartSelections(c)
    <3>1. s = t
      BY <1>1, <1>4, <1>5, <1>10, <2>1, SelectionsDiffer
    <3>. QED
      BY <1>4, <3>1
  <2>2. CASE s \in DirectSelections(c)
    <3>1. PICK p \in DirectOutputs :
             s = [name |-> Plain(p.name), node |-> p.node, kind |-> p.kind]
      BY <2>2 DEF DirectSelections
    <3>2. p.name = o.name
      BY <1>10, <3>1 DEF Plain
    <3>3. p.node = o.node /\ p.kind = o.kind
      BY <1>1, <3>2, SelectedReferences DEF DirectOutputs
    <3>. QED
      BY <3>1, <3>3
  <2>. QED
    BY <1>11, <2>1, <2>2
<1>13. View(b, s).kind = s.kind /\ View(b, s).node = s.node
  BY DEF View
<1>. QED
  BY <1>7, <1>9, <1>12, <1>13 DEF Has

\* So the result can be assembled.
LEMMA AssembleKeepsPlan ==
    ASSUME PlanInv, Assemble
    PROVE  PlanInv' /\ world' = world
<1>1. stage = "execute" /\ ~Remaining
  BY DEF Assemble
<1>2. ASSUME NEW o \in Range(selectedOrder) PROVE ~Unavailable(o)
  <2>1. CASE o.kind = "assembly"
    <3>1. ASSUME NEW j \in DOMAIN o.occurrences
          PROVE  Has(partResults, ComponentKey(o.occurrences[j]))
      <4>1. Resolved(o.occurrences[j])
        BY <1>1 DEF PlanInv, ResolutionInv, Range
      <4>. QED
        BY <1>1, <4>1, OccurrencesAvailable
    <3>. QED
      BY <2>1, <3>1 DEF Unavailable
  <2>2. CASE o.kind # "assembly"
    <3>1. o \in DirectOutputs
      BY <2>2 DEF DirectOutputs
    <3>. QED
      BY <1>1, <2>2, <3>1, OutputsAvailable DEF Unavailable
  <2>. QED
    BY <2>1, <2>2
<1>3. /\ stage' = "done"
      /\ UNCHANGED <<world, failure, selectedOrder, outputIndex, queue,
                     occurrences, stack, charged, external, batches, batchIndex,
                     spent, nativeResults, partResults>>
  BY <1>2 DEF Assemble
<1>4. ResultsInv
  BY DEF PlanInv
<1>5. ResultsInv'
  BY <1>3, <1>4 DEF ResultsInv, View
<1>. QED
  BY <1>1, <1>3, <1>5, QuietPlan

-----------------------------------------------------------------------------
(* The views: whose part an occurrence of the plan is, and what it is given. *)
\* Occurrence o, as it was resolved, is at part q, whose node it knows.
Stands(q, o) == Same(q, o) /\ OfKind(q, o) /\ o.node = q.node

OwnPart(k, o) == k \in AssemblyOutputs /\ \E q \in Parts(k) : Stands(q, o)

\* Where the occurrences of the plan are: no part is lost, and each becomes its own.
OwnersInv ==
    /\ stage \in {"resolve", "prepare", "charge", "execute"} =>
          \A k \in DOMAIN selectedOrder :
             LET list == selectedOrder[k].occurrences
             IN /\ \A o \in Range(list) :
                      IF stage = "resolve" /\ ~(k < outputIndex)
                      THEN FoundAt(k, o) ELSE OwnPart(k, o)
                /\ k \in AssemblyOutputs => \A q \in Parts(k) : OnList(list, q.path)
    /\ stage = "resolve" =>
          /\ \A o \in Range(occurrences) : OwnPart(outputIndex, o)
          /\ \A o \in Range(queue) : FoundAt(outputIndex, o)
          /\ outputIndex \in AssemblyOutputs => \A q \in Parts(outputIndex) :
                OnList(occurrences, q.path) \/ OnList(queue, q.path)

\* The node that a selection of a batch of document d is called after.
NodeCalled(d, name) ==
    IF ~name.marked /\ Has(Document(d).outputs, name.text)
    THEN Document(d).outputs[name.text].node ELSE name.text

\* What the selection of a component is called.
CalledAs(key) ==
    IF key.kind = "part" THEN Plain(key.output) ELSE LeafName(key.document, key.node)

\* The components of each selection in a batch of document d in configuration c are
\* called as the selection, and have its node.
KeysCalled(d, c, keys) ==
    \A name \in DOMAIN keys : \A key \in keys[name] :
       /\ key.document = d /\ key.configuration = c
       /\ key.kind \in {"part", "assembly"}
       /\ CalledAs(key) = name /\ key.node = NodeCalled(d, name)

CalledInv ==
    /\ \A key \in DOMAIN external :
          LET b == external[key]
          IN /\ b.document # Root /\ DOMAIN b.nodes = DOMAIN b.keys
             /\ \A name \in DOMAIN b.nodes : b.nodes[name] = NodeCalled(b.document, name)
             /\ KeysCalled(b.document, b.configuration, b.keys)
    /\ \A b \in Range(batches) : b.document # Root =>
          /\ b.selections = {[name |-> name, node |-> NodeCalled(b.document, name),
                              kind |-> "part"] : name \in DOMAIN b.keys}
          /\ KeysCalled(b.document, b.configuration, b.keys)

\* The view that belongs to a component.
OwnView(key) ==
    [document |-> key.document, configuration |-> key.configuration, node |-> key.node,
     kind |-> "part",
     name |-> IF key.document = Root \/ key.kind = "assembly"
              THEN Plain(key.node) ELSE Plain(key.output)]

OwnViewsInv == \A key \in DOMAIN partResults : partResults[key] = OwnView(key)

ViewInv == OwnersInv /\ CalledInv /\ OwnViewsInv

\* All of it depends on the documents only.
LEMMA SameOwners ==
    ASSUME world' = world
    PROVE  /\ AssemblyOutputs' = AssemblyOutputs
           /\ \A k : Parts(k)' = Parts(k)
           /\ \A k, o : FoundAt(k, o)' <=> FoundAt(k, o)
           /\ \A k, o : OwnPart(k, o)' <=> OwnPart(k, o)
           /\ \A d, name : NodeCalled(d, name)' = NodeCalled(d, name)
           /\ \A d, c, keys : KeysCalled(d, c, keys)' <=> KeysCalled(d, c, keys)
<1>1. /\ AssemblyOutputs' = AssemblyOutputs
      /\ \A k : Parts(k)' = Parts(k)
      /\ \A k, o : FoundAt(k, o)' <=> FoundAt(k, o)
  BY SamePlaces
<1>2. \A d : Document(d)' = Document(d)
  BY DEF Document
<1>3. \A k, o : OwnPart(k, o)' <=> OwnPart(k, o)
  BY <1>1 DEF OwnPart, Stands, Same, OfKind, Direct
<1>4. \A d, name : NodeCalled(d, name)' = NodeCalled(d, name)
  BY <1>2 DEF NodeCalled, Has
<1>5. \A key : CalledAs(key)' = CalledAs(key)
  BY <1>2 DEF CalledAs, LeafName, Has
<1>6. \A d, c, keys : KeysCalled(d, c, keys)' <=> KeysCalled(d, c, keys)
  BY <1>4, <1>5 DEF KeysCalled
<1>. QED
  BY <1>1, <1>3, <1>4, <1>6

\* The plan begins with the parts that were found.
LEMMA BeginPlanKeepsViews ==
    ASSUME world \in Worlds, WalkInv, PlacesInv, Unplanned, partResults = <<>>, BeginPlan
    PROVE  ViewInv'
<1>1. /\ stage = "traversed" /\ stage' = "resolve" /\ outputIndex' = 1
      /\ queue' = selectedOrder[1].occurrences
      /\ UNCHANGED <<world, failure, selectedOrder, occurrences, stack, charged>>
      /\ UNCHANGED planVars
  BY DEF BeginPlan
<1>2. /\ AllSelected /\ RequestInv /\ Listed(selectedOrder) /\ occurrences = <<>>
  BY <1>1 DEF WalkInv, ListsInv, SelectedInv
<1>3. DOMAIN selectedOrder = 1 .. Len(selectedOrder) /\ 1 \in DOMAIN selectedOrder
  <2>1. Len(world.requested) \in Nat /\ Len(world.requested) # 0
    BY <1>2, Worldly, Lists DEF RequestInv
  <2>2. DOMAIN selectedOrder = 1 .. Len(selectedOrder)
    BY <1>2, Lists
  <2>. QED
    BY <1>2, <2>1, <2>2 DEF AllSelected
<1>4. ASSUME NEW k \in DOMAIN selectedOrder
      PROVE  /\ \A o \in Range(selectedOrder[k].occurrences) : FoundAt(k, o)
             /\ k \in AssemblyOutputs =>
                   \A q \in Parts(k) : OnList(selectedOrder[k].occurrences, q.path)
  <2>1. /\ \A o \in Range(selectedOrder[k].occurrences) : FoundAt(k, o)
        /\ k \in AssemblyOutputs =>
              \A q \in Parts(k) : Listing(selectedOrder[k].occurrences, q.path)
    BY <1>1 DEF PlacesInv, SelectedPlaces, Expanded
  <2>. QED
    BY <2>1, PartListed
<1>5. /\ AssemblyOutputs' = AssemblyOutputs
      /\ \A k : Parts(k)' = Parts(k)
      /\ \A k, o : FoundAt(k, o)' <=> FoundAt(k, o)
  BY <1>1, SameOwners
<1>6. OwnersInv'
  <2>1. \A k \in DOMAIN selectedOrder : ~(k < 1)
    BY <1>3
  <2>. QED
    BY <1>1, <1>2, <1>3, <1>4, <1>5, <2>1, EmptyList DEF OwnersInv, OnList
<1>7. CalledInv' /\ OwnViewsInv'
  BY <1>1, EmptyList DEF CalledInv, OwnViewsInv, Unplanned, planVars
<1>. QED
  BY <1>6, <1>7 DEF ViewInv

\* What the batches and their views say is left alone.
LEMMA QuietViews ==
    ASSUME CalledInv, OwnViewsInv, UNCHANGED <<world, external, batches, partResults>>
    PROVE  CalledInv' /\ OwnViewsInv'
<1>1. /\ \A d, name : NodeCalled(d, name)' = NodeCalled(d, name)
      /\ \A d, c, keys : KeysCalled(d, c, keys)' <=> KeysCalled(d, c, keys)
  BY SameOwners
<1>2. CalledInv'
  BY <1>1 DEF CalledInv
<1>. QED
  BY <1>2 DEF OwnViewsInv, OwnView

\* What is in a list is its head or in its tail.
LEMMA TailRange ==
    ASSUME NEW s, Listed(s), s # <<>>
    PROVE  Range(s) = {Head(s)} \cup Range(Tail(s))
<1>1. PICK S : s \in Seq(S)
  BY DEF Listed
<1>2. /\ Len(s) \in Nat /\ Len(s) # 0 /\ DOMAIN s = 1 .. Len(s)
      /\ Head(s) = s[1] /\ DOMAIN Tail(s) = 1 .. Len(s) - 1
      /\ \A k \in 1 .. Len(s) - 1 : Tail(s)[k] = s[k + 1]
  BY <1>1
<1>3. Range(s) \subseteq {Head(s)} \cup Range(Tail(s))
  <2>1. SUFFICES ASSUME NEW k \in 1 .. Len(s), k # 1
                 PROVE  \E j \in DOMAIN Tail(s) : Tail(s)[j] = s[k]
    BY <1>2 DEF Range
  <2>3. Len(s) \in Nat
    BY <1>2
  <2>4. PICK n : n = Len(s)
    OBVIOUS
  <2>2. k - 1 \in 1 .. Len(s) - 1 /\ (k - 1) + 1 = k
    BY <2>1, <2>3, <2>4
  <2>. QED
    BY <1>2, <2>2
<1>. QED
  BY <1>3, ListTail

\* One more occurrence of the current output is resolved: o becomes p.
LEMMA OwnerResolved ==
    ASSUME OwnersInv, stage = "resolve", Listed(queue), Listed(occurrences), queue # <<>>,
           NEW o, o = Head(queue), NEW p, OwnPart(outputIndex, p), p.path = o.path,
           occurrences' = Append(occurrences, p), queue' = Tail(queue),
           UNCHANGED <<world, stage, selectedOrder, outputIndex>>
    PROVE  OwnersInv'
<1>1. /\ Range(queue) = {o} \cup Range(queue')
      /\ Range(occurrences') = Range(occurrences) \cup {p}
  <2>1. Range(occurrences') = Range(occurrences) \cup {p}
    BY ListAppend
  <2>2. Range(queue) = {o} \cup Range(queue')
    BY TailRange
  <2>. QED
    BY <2>1, <2>2
<1>2. /\ AssemblyOutputs' = AssemblyOutputs
      /\ \A k : Parts(k)' = Parts(k)
      /\ \A k, x : FoundAt(k, x)' <=> FoundAt(k, x)
      /\ \A k, x : OwnPart(k, x)' <=> OwnPart(k, x)
  BY SameOwners
<1>3. \A k \in DOMAIN selectedOrder :
         LET list == selectedOrder[k].occurrences
         IN /\ \A x \in Range(list) :
                  IF stage = "resolve" /\ ~(k < outputIndex)
                  THEN FoundAt(k, x) ELSE OwnPart(k, x)
            /\ k \in AssemblyOutputs => \A q \in Parts(k) : OnList(list, q.path)
  BY DEF OwnersInv
<1>4. \A x \in Range(occurrences') : OwnPart(outputIndex, x)
  BY <1>1 DEF OwnersInv
<1>5. \A x \in Range(queue') : FoundAt(outputIndex, x)
  BY <1>1 DEF OwnersInv
<1>6. ASSUME outputIndex \in AssemblyOutputs, NEW q \in Parts(outputIndex)
      PROVE  OnList(occurrences', q.path) \/ OnList(queue', q.path)
  <2>1. OnList(occurrences, q.path) \/ OnList(queue, q.path)
    BY <1>6 DEF OwnersInv
  <2>. QED
    BY <1>1, <2>1 DEF OnList
<1>. QED
  BY <1>2, <1>3, <1>4, <1>5, <1>6 DEF OwnersInv, OnList

\* A local occurrence knows its node already.
LEMMA ResolveLocalKeepsViews ==
    ASSUME world \in Worlds, PlanInv, ViewInv, ResolveLocal
    PROVE  ViewInv'
<1>1. /\ stage = "resolve" /\ queue # <<>> /\ Head(queue).source = "local"
      /\ occurrences' = Append(occurrences, Head(queue))
      /\ queue' = Tail(queue)
      /\ UNCHANGED <<world, stage, failure, selectedOrder, outputIndex, stack, charged>>
      /\ UNCHANGED planVars
  BY DEF ResolveLocal, Resolving
<1>2. PICK o : o = Head(queue)
  OBVIOUS
<1>3. Listed(queue) /\ Listed(occurrences)
  BY DEF PlanInv, ResolutionInv
<1>4. o \in Range(queue)
  BY <1>1, <1>2, <1>3, ListTail
<1>5. Found(o) /\ FoundAt(outputIndex, o)
  BY <1>1, <1>4 DEF PlanInv, ResolutionInv, ViewInv, OwnersInv
<1>6. OwnPart(outputIndex, o)
  <2>1. o.document = Root
    BY <1>1, <1>2, <1>5 DEF Found, IsOccurrence
  <2>. QED
    BY <1>5, <2>1 DEF FoundAt, OwnPart, Stands, OfKind, Same
<1>7. OwnersInv'
  BY <1>1, <1>2, <1>3, <1>6, OwnerResolved DEF ViewInv
<1>8. CalledInv' /\ OwnViewsInv'
  BY <1>1, QuietViews DEF ViewInv, planVars
<1>. QED
  BY <1>7, <1>8 DEF ViewInv

\* A part directly behind the boundary is what its output refers to.
LEMMA DirectNode ==
    ASSUME world \in Worlds, NEW k \in AssemblyOutputs, NEW q \in Parts(k), Direct(q),
           NEW d \in DOMAIN world.documents, d = q.document, d # Root,
           Has(Document(d).outputs, q.output), Sound(d, q.output),
           Document(d).outputs[q.output].kind = "part"
    PROVE  q.node = Document(d).outputs[q.output].node
<1>1. PICK n \in 1 .. PathBound : q \in Level(k)[n]
  BY ActiveLevels DEF Parts
<1>2. PICK p \in Level(k)[n - 1] : \E i \in DOMAIN InstancesOf(p.document, p.node) :
          q = Target(p, i) /\ Open(p)
  BY <1>1, Parent
<1>3. PICK i : q = Target(p, i) /\ Open(p)
  BY <1>2
<1>4. p \in Reached(k)
  <2>1. n - 1 \in 0 .. PathBound
    BY WorldsAssumption
  <2>. QED
    BY <1>2, <2>1 DEF Reached
<1>5. p.node \in p.through /\ KindOf(p.document, p.node) = "assembly"
  BY <1>3, <1>4, ThroughItself, ReachedShape DEF OpenInv
<1>6. PICK instance : instance = InstancesOf(p.document, p.node)[i]
  OBVIOUS
<1>7. /\ q.document = (IF IsExternal(instance) THEN instance.resource ELSE p.document)
      /\ q.kind = instance.kind
      /\ q.output = (IF IsExternal(instance) THEN instance.output ELSE p.output)
      /\ q.node = (IF Has(world.documents, q.document)
                   THEN Meant(instance, q.document) ELSE Nothing)
      /\ q.through = (IF IsExternal(instance) THEN {} ELSE p.through) \cup {q.node}
  BY <1>3, <1>6, Zenon DEF Target
<1>8. q.node = Meant(instance, d) /\ instance.kind = "part"
  BY <1>7 DEF Has, Parts
<1>9. CASE IsExternal(instance)
  <2>1. PICK r : r = Document(d).outputs[q.output]
    OBVIOUS
  <2>2. r.kind = "part" /\ KindOf(d, r.node) = "part"
    BY <2>1 DEF Sound
  <2>3. Meant(instance, d) = r.node
    BY <1>7, <1>8, <1>9, <2>1, <2>2 DEF Meant
  <2>. QED
    BY <1>8, <2>1, <2>3
<1>10. CASE ~IsExternal(instance)
  <2>1. p.node = q.node /\ p.document = d
    BY <1>5, <1>7, <1>10 DEF Direct
  <2>2. KindOf(d, q.node) = "part" \/ q.node = Nothing
    BY <1>8, <1>10 DEF Meant
  <2>3. q.node # Nothing
    <3>1. p.node \in DOMAIN Document(d).nodes
      BY <1>5, <2>1 DEF KindOf, Has, Nothing
    <3>. QED
      BY <2>1, <3>1, WorldsAssumption DEF Document
  <2>. QED
    BY <1>5, <2>1, <2>2, <2>3
<1>. QED
  BY <1>9, <1>10

\* The components of a batch with one more occurrence are called as their selections.
LEMMA OccurrenceCalled ==
    ASSUME NEW batch, NEW name, NEW o, NEW d, NEW c, d = o.document, c = o.configuration,
           o.kind \in {"part", "assembly"},
           batch = EmptyBatch \/ (batch.document = d /\ batch.configuration = c),
           DOMAIN batch.nodes = DOMAIN batch.keys,
           \A n \in DOMAIN batch.nodes : batch.nodes[n] = NodeCalled(d, n),
           KeysCalled(d, c, batch.keys),
           CalledAs(ComponentKey(o)) = name, o.node = NodeCalled(d, name)
    PROVE  LET after == WithOccurrence(batch, name, o)
           IN /\ after.document = d /\ after.configuration = c
              /\ DOMAIN after.nodes = DOMAIN after.keys
              /\ \A n \in DOMAIN after.nodes : after.nodes[n] = NodeCalled(d, n)
              /\ KeysCalled(d, c, after.keys)
<1> DEFINE before == IF Has(batch.keys, name) THEN batch.keys[name] ELSE {}
           after == WithOccurrence(batch, name, o)
<1>1. PICK added : added = before \cup {ComponentKey(o)}
  OBVIOUS
<1>2. PICK nodes : nodes = With(batch.nodes, name, o.node)
  OBVIOUS
<1>3. PICK keys : keys = With(batch.keys, name, added)
  OBVIOUS
<1>4. after = [document |-> d, configuration |-> c, nodes |-> nodes, keys |-> keys]
  BY <1>1, <1>2, <1>3 DEF WithOccurrence
<1>5. /\ DOMAIN nodes = DOMAIN batch.nodes \cup {name} /\ nodes[name] = o.node
      /\ \A n \in DOMAIN batch.nodes : n # name => nodes[n] = batch.nodes[n]
  BY <1>2 DEF With, Updated, Has
<1>6. /\ DOMAIN keys = DOMAIN batch.keys \cup {name} /\ keys[name] = added
      /\ \A n \in DOMAIN batch.keys : n # name => keys[n] = batch.keys[n]
  BY <1>3 DEF With, Updated, Has
<1>7. PICK own : own = ComponentKey(o)
  OBVIOUS
<1>8. /\ own.document = d /\ own.configuration = c /\ own.node = o.node
      /\ own.kind \in {"part", "assembly"} /\ CalledAs(own) = name
  BY <1>7 DEF ComponentKey
<1>9. ASSUME NEW n \in DOMAIN keys, NEW key \in keys[n]
      PROVE  /\ key.document = d /\ key.configuration = c
             /\ key.kind \in {"part", "assembly"}
             /\ CalledAs(key) = n /\ key.node = NodeCalled(d, n)
  <2>1. CASE n \in DOMAIN batch.keys /\ key \in batch.keys[n]
    BY <2>1 DEF KeysCalled
  <2>2. CASE n = name /\ key = own
    BY <1>8, <2>2
  <2>. QED
    BY <1>1, <1>6, <1>7, <1>9, <2>1, <2>2 DEF Has
<1>. HIDE DEF after
<1>10. KeysCalled(d, c, after.keys)
  BY <1>4, <1>9 DEF KeysCalled
<1>11. DOMAIN after.nodes = DOMAIN after.keys
  BY <1>4, <1>5, <1>6
<1>12. \A n \in DOMAIN after.nodes : after.nodes[n] = NodeCalled(d, n)
  BY <1>4, <1>5
<1>. QED
  BY <1>4, <1>10, <1>11, <1>12 DEF after

\* A resolved occurrence: of the part its output refers to, or of its own.
LEMMA ResolvedExternal ==
    ASSUME world \in Worlds, NEW k, NEW o, FoundAt(k, o), Found(o), o.source = "external",
           NEW d, d = o.document,
           Has(Document(d).outputs, o.output), Sound(d, o.output),
           Document(d).outputs[o.output].kind = o.kind,
           NEW p, NEW node,
           node = IF o.kind = "part" THEN Document(d).outputs[o.output].node ELSE o.node,
           p = [source |-> o.source, document |-> o.document, output |-> o.output,
                kind |-> o.kind, node |-> node, path |-> o.path,
                configuration |-> o.configuration, depth |-> o.depth],
           NEW name,
           name = IF o.kind = "part" THEN Plain(o.output) ELSE LeafName(d, o.node)
    PROVE  /\ OwnPart(k, p)
           /\ CalledAs(ComponentKey(p)) = name /\ node = NodeCalled(d, name)
<1>1. /\ d # Root /\ k \in AssemblyOutputs /\ d \in DOMAIN world.documents
      /\ o.kind \in {"part", "assembly"}
  BY DEF Found, FoundAt, IsOccurrence
<1>2. PICK q \in Parts(k) : Same(q, o) /\ OfKind(q, o)
  BY DEF FoundAt
<1>3. /\ p.document = d /\ p.output = o.output /\ p.kind = o.kind /\ p.node = node
      /\ p.path = o.path /\ p.configuration = o.configuration
  OBVIOUS
<1>4. q.document = d /\ q.output = o.output
  BY <1>2 DEF Same
<1>5. q.node = node
  <2>1. CASE o.kind = "part"
    <3>1. Direct(q)
      BY <1>1, <1>2, <1>4, <2>1 DEF OfKind
    <3>2. q.node = Document(d).outputs[q.output].node
      BY <1>1, <1>4, <2>1, <3>1, DirectNode
    <3>. QED
      BY <1>4, <2>1, <3>2
  <2>2. CASE o.kind # "part"
    BY <1>2, <2>2 DEF OfKind
  <2>. QED
    BY <2>1, <2>2
<1>6. OwnPart(k, p)
  <2>1. Same(q, p) /\ OfKind(q, p)
    BY <1>2, <1>3, <1>5 DEF Same, OfKind
  <2>. QED
    BY <1>1, <1>3, <1>5, <2>1 DEF OwnPart, Stands
<1>7. PICK key : key = ComponentKey(p)
  OBVIOUS
<1>8. key.kind = o.kind /\ key.output = o.output /\ key.document = d /\ key.node = node
  BY <1>3, <1>7 DEF ComponentKey
<1>9. CASE o.kind = "part"
  <2>1. CalledAs(key) = name
    BY <1>8, <1>9 DEF CalledAs
  <2>2. name.text = o.output /\ ~name.marked
    BY <1>9 DEF Plain
  <2>3. NodeCalled(d, name) = node
    BY <1>9, <2>2 DEF NodeCalled
  <2>. QED
    BY <1>6, <1>7, <2>1, <2>3
<1>10. CASE o.kind # "part"
  <2>1. CalledAs(key) = name
    BY <1>8, <1>10 DEF CalledAs
  <2>2. name.text = node /\ (name.marked \/ ~Has(Document(d).outputs, node))
    BY <1>10 DEF LeafName, Plain, Marked
  <2>3. NodeCalled(d, name) = node
    BY <2>2 DEF NodeCalled
  <2>. QED
    BY <1>6, <1>7, <2>1, <2>3
<1>. QED
  BY <1>9, <1>10

\* What is resolved was checked for what it can be refused for.
LEMMA ExternalResolves ==
    ASSUME ResolveExternal, stage' # "failed"
    PROVE  LET o == Head(queue)
               d == o.document
               resolved == IF o.kind = "part"
                           THEN [o EXCEPT !.node = Document(d).outputs[o.output].node]
                           ELSE o
               name == IF o.kind = "part" THEN Plain(o.output) ELSE LeafName(d, o.node)
               key == BatchKey(o)
               batch == IF Has(external, key) THEN external[key] ELSE EmptyBatch
           IN /\ stage = "resolve" /\ queue # <<>> /\ o.source = "external"
              /\ Has(Document(d).outputs, o.output) /\ Sound(d, o.output)
              /\ Document(d).outputs[o.output].kind = o.kind
              /\ occurrences' = Append(occurrences, resolved)
              /\ external' = With(external, key, WithOccurrence(batch, name, resolved))
              /\ queue' = Tail(queue)
              /\ UNCHANGED <<world, stage, selectedOrder, outputIndex, batches, partResults>>
<1> DEFINE o == Head(queue)
           d == o.document
           known == Has(Document(d).outputs, o.output)
           usable == /\ known /\ Sound(d, o.output)
                     /\ Document(d).outputs[o.output].kind = o.kind
           resolved == IF o.kind = "part"
                       THEN [o EXCEPT !.node = Document(d).outputs[o.output].node]
                       ELSE o
           name == IF o.kind = "part" THEN Plain(o.output) ELSE LeafName(d, o.node)
           key == BatchKey(o)
           batch == IF Has(external, key) THEN external[key] ELSE EmptyBatch
           checks == <<
               <<"output", ~known>>,
               <<"unsupported", ~usable>>,
               <<"configuration", ~KnownConfiguration(d, o.configuration)>> >>
<1>1. stage = "resolve" /\ queue # <<>> /\ o.source = "external"
  BY DEF ResolveExternal, Resolving
<1>2. \/ FirstFailing(checks) # "none" /\ stage' = "failed"
      \/ /\ FirstFailing(checks) = "none"
         /\ occurrences' = Append(occurrences, resolved)
         /\ external' = With(external, key, WithOccurrence(batch, name, resolved))
         /\ queue' = Tail(queue)
         /\ UNCHANGED <<world, stage, selectedOrder, outputIndex, batches, partResults>>
  BY DEF ResolveExternal, RefusePlan, Refuse
<1>3. DOMAIN checks = 1 .. 3
  OBVIOUS
<1>4. checks[2][2] <=> ~usable
  OBVIOUS
<1>5. /\ checks[1][1] # "none" /\ checks[2][1] # "none" /\ checks[3][1] # "none"
  OBVIOUS
<1>6. /\ occurrences' = Append(occurrences, resolved)
      /\ external' = With(external, key, WithOccurrence(batch, name, resolved))
      /\ queue' = Tail(queue)
      /\ UNCHANGED <<world, stage, selectedOrder, outputIndex, batches, partResults>>
      /\ FirstFailing(checks) = "none"
  BY <1>2
<1>7. usable
  <2> HIDE DEF checks
  <2>1. \A k \in DOMAIN checks : checks[k][1] # "none"
    BY <1>3, <1>5
  <2>2. ~checks[2][2]
    BY <1>3, <1>6, <2>1, FirstFailingCheck
  <2>. QED
    BY <1>4, <2>2
<1>. QED
  BY <1>1, <1>6, <1>7

LEMMA ResolveExternalKeepsViews ==
    ASSUME world \in Worlds, PlanInv, ViewInv, ResolveExternal, stage' # "failed"
    PROVE  ViewInv'
<1>1. PICK o, d, name, key, batch :
         /\ o = Head(queue) /\ d = o.document /\ key = BatchKey(o)
         /\ name = (IF o.kind = "part" THEN Plain(o.output) ELSE LeafName(d, o.node))
         /\ batch = (IF Has(external, key) THEN external[key] ELSE EmptyBatch)
  OBVIOUS
<1>2. PICK p : p = IF o.kind = "part"
                   THEN [o EXCEPT !.node = Document(d).outputs[o.output].node]
                   ELSE o
  OBVIOUS
<1>3. /\ stage = "resolve" /\ queue # <<>> /\ o.source = "external"
      /\ Has(Document(d).outputs, o.output) /\ Sound(d, o.output)
      /\ Document(d).outputs[o.output].kind = o.kind
      /\ occurrences' = Append(occurrences, p)
      /\ external' = With(external, key, WithOccurrence(batch, name, p))
      /\ queue' = Tail(queue)
      /\ UNCHANGED <<world, stage, selectedOrder, outputIndex, batches, partResults>>
  BY <1>1, <1>2, ExternalResolves
<1>4. Listed(queue) /\ Listed(occurrences)
  BY DEF PlanInv, ResolutionInv
<1>5. o \in Range(queue)
  BY <1>1, <1>3, <1>4, ListTail
<1>6. Found(o) /\ FoundAt(outputIndex, o)
  BY <1>3, <1>5 DEF PlanInv, ResolutionInv, ViewInv, OwnersInv
<1>7. PICK node : node = IF o.kind = "part" THEN Document(d).outputs[o.output].node ELSE o.node
  OBVIOUS
<1>8. p = [source |-> o.source, document |-> o.document, output |-> o.output,
           kind |-> o.kind, node |-> node, path |-> o.path,
           configuration |-> o.configuration, depth |-> o.depth]
  <2>1. o = [source |-> o.source, document |-> o.document, output |-> o.output,
             kind |-> o.kind, node |-> o.node, path |-> o.path,
             configuration |-> o.configuration, depth |-> o.depth]
    BY <1>6 DEF Found, IsOccurrence
  <2>2. CASE o.kind = "part"
    <3>1. p = [o EXCEPT !.node = node]
      BY <1>2, <1>7, <2>2
    <3>. QED
      BY <2>1, <3>1
  <2>3. CASE o.kind # "part"
    BY <1>2, <1>7, <2>1, <2>3
  <2>. QED
    BY <2>2, <2>3
<1>9. /\ OwnPart(outputIndex, p)
      /\ CalledAs(ComponentKey(p)) = name /\ node = NodeCalled(d, name)
  <2>1. /\ Has(Document(d).outputs, o.output) /\ Sound(d, o.output)
        /\ Document(d).outputs[o.output].kind = o.kind /\ o.source = "external"
        /\ d = o.document
        /\ name = IF o.kind = "part" THEN Plain(o.output) ELSE LeafName(d, o.node)
    BY <1>1, <1>3
  <2>. QED
    BY <1>6, <1>7, <1>8, <2>1, ResolvedExternal
<1>10. /\ p.path = o.path /\ p.node = node /\ p.document = d
       /\ p.configuration = o.configuration /\ p.kind \in {"part", "assembly"}
  <2>1. o.kind \in {"part", "assembly"}
    BY <1>3, <1>6 DEF Found, IsOccurrence
  <2>. QED
    BY <1>1, <1>8, <2>1
<1>11. OwnersInv'
  <2>1. OwnersInv
    BY DEF ViewInv
  <2>. QED
    BY <1>1, <1>3, <1>4, <1>9, <1>10, <2>1, OwnerResolved
<1>12. PICK after : after = WithOccurrence(batch, name, p)
  OBVIOUS
<1>13. d # Root
  BY <1>1, <1>3, <1>6 DEF Found, IsOccurrence
<1>14. PICK c : c = o.configuration
  OBVIOUS
<1>15. /\ after.document = d /\ after.configuration = c
       /\ DOMAIN after.nodes = DOMAIN after.keys
       /\ \A n \in DOMAIN after.nodes : after.nodes[n] = NodeCalled(d, n)
       /\ KeysCalled(d, c, after.keys)
  <2>1. CASE ~Has(external, key)
    <3>1. batch = EmptyBatch
      BY <1>1, <2>1
    <3>2. DOMAIN batch.nodes = {} /\ DOMAIN batch.keys = {}
      BY <3>1 DEF EmptyBatch
    <3>3. KeysCalled(d, c, batch.keys)
      BY <3>2 DEF KeysCalled
    <3>. QED
      BY <1>9, <1>10, <1>12, <1>14, <3>1, <3>2, <3>3, OccurrenceCalled
  <2>2. CASE Has(external, key)
    <3>1. batch = external[key] /\ key \in DOMAIN external
      BY <1>1, <2>2 DEF Has
    <3>2. key = <<batch.document, batch.configuration>>
      BY <3>1 DEF PlanInv, ExternalInv, IsPlanned
    <3>3. batch.document = d /\ batch.configuration = c
      BY <1>1, <1>14, <3>2 DEF BatchKey
    <3>4. /\ DOMAIN batch.nodes = DOMAIN batch.keys
          /\ \A n \in DOMAIN batch.nodes : batch.nodes[n] = NodeCalled(d, n)
          /\ KeysCalled(d, c, batch.keys)
      BY <3>1, <3>3 DEF ViewInv, CalledInv
    <3>. QED
      BY <1>9, <1>10, <1>12, <1>14, <3>3, <3>4, OccurrenceCalled
  <2>. QED
    BY <2>1, <2>2
<1>16. /\ DOMAIN external' = DOMAIN external \cup {key} /\ external'[key] = after
       /\ \A x \in DOMAIN external : x # key => external'[x] = external[x]
  BY <1>3, <1>12 DEF With, Updated, Has
<1>17. /\ \A x, n : NodeCalled(x, n)' = NodeCalled(x, n)
       /\ \A x, y, keys : KeysCalled(x, y, keys)' <=> KeysCalled(x, y, keys)
  BY <1>3, SameOwners
<1>18. CalledInv'
  <2>1. ASSUME NEW x \in DOMAIN external', NEW b, b = external'[x]
        PROVE  /\ b.document # Root /\ DOMAIN b.nodes = DOMAIN b.keys
               /\ \A n \in DOMAIN b.nodes : b.nodes[n] = NodeCalled(b.document, n)
               /\ KeysCalled(b.document, b.configuration, b.keys)
    <3>1. CASE x = key
      BY <1>13, <1>15, <1>16, <2>1, <3>1
    <3>2. CASE x # key
      BY <1>16, <2>1, <3>2 DEF ViewInv, CalledInv
    <3>. QED
      BY <3>1, <3>2
  <2>2. \A b \in Range(batches) : b.document # Root =>
          /\ b.selections = {[name |-> n, node |-> NodeCalled(b.document, n),
                              kind |-> "part"] : n \in DOMAIN b.keys}
          /\ KeysCalled(b.document, b.configuration, b.keys)
    BY DEF ViewInv, CalledInv
  <2>. QED
    BY <1>3, <1>17, <2>1, <2>2 DEF CalledInv
<1>19. OwnViewsInv'
  BY <1>3 DEF ViewInv, OwnViewsInv, OwnView
<1>. QED
  BY <1>11, <1>18, <1>19 DEF ViewInv

\* The owners of an output's occurrences are known when it is finished.
LEMMA ResolutionKeepsViews ==
    ASSUME world \in Worlds, PlanInv, ViewInv, FinishResolution
    PROVE  ViewInv'
<1>1. /\ stage = "resolve" /\ stack = <<>> /\ queue = <<>>
      /\ selectedOrder' = [selectedOrder EXCEPT ![outputIndex].occurrences = occurrences]
      /\ occurrences' = <<>>
      /\ IF outputIndex < Len(selectedOrder)
         THEN /\ outputIndex' = outputIndex + 1
              /\ queue' = selectedOrder[outputIndex + 1].occurrences
              /\ UNCHANGED stage
         ELSE stage' = "prepare" /\ UNCHANGED <<outputIndex, queue>>
      /\ UNCHANGED <<world, failure, stack, charged>>
      /\ UNCHANGED planVars
  BY DEF FinishResolution, FinishOutput
<1>2. /\ SelectedInv /\ AllSelected /\ outputIndex \in DOMAIN selectedOrder
      /\ Listed(occurrences)
  BY <1>1 DEF PlanInv, ResolutionInv
<1>3. /\ Len(selectedOrder') = Len(selectedOrder)
      /\ DOMAIN selectedOrder' = DOMAIN selectedOrder
      /\ DOMAIN selectedOrder = 1 .. Len(selectedOrder) /\ Len(selectedOrder) \in Nat
      /\ \A k \in DOMAIN selectedOrder :
            selectedOrder'[k].occurrences = IF k = outputIndex THEN occurrences
                                            ELSE selectedOrder[k].occurrences
  BY <1>1, <1>2, OutputRewritten
<1>4. /\ AssemblyOutputs' = AssemblyOutputs
      /\ \A k : Parts(k)' = Parts(k)
      /\ \A k, x : FoundAt(k, x)' <=> FoundAt(k, x)
      /\ \A k, x : OwnPart(k, x)' <=> OwnPart(k, x)
  BY <1>1, SameOwners
<1>5. ASSUME NEW k \in DOMAIN selectedOrder, NEW list, list = selectedOrder'[k].occurrences
      PROVE  /\ \A o \in Range(list) :
                   IF ~(k < outputIndex + 1) THEN FoundAt(k, o) ELSE OwnPart(k, o)
             /\ k \in AssemblyOutputs => \A q \in Parts(k) : OnList(list, q.path)
  <2>1. CASE k = outputIndex
    <3>1. list = occurrences /\ k < outputIndex + 1
      BY <1>2, <1>3, <1>5, <2>1
    <3>2. Range(queue) = {}
      BY <1>1, EmptyList
    <3>. QED
      BY <1>1, <2>1, <3>1, <3>2 DEF ViewInv, OwnersInv, OnList
  <2>2. CASE k # outputIndex
    <3>1. list = selectedOrder[k].occurrences /\ (k < outputIndex <=> k < outputIndex + 1)
      BY <1>2, <1>3, <1>5, <2>2
    <3>. QED
      BY <1>1, <3>1 DEF ViewInv, OwnersInv
  <2>. QED
    BY <2>1, <2>2
<1>6. OwnersInv'
  <2>1. CASE outputIndex < Len(selectedOrder)
    <3>1. PICK n : n = outputIndex + 1
      OBVIOUS
    <3>2. /\ stage' = "resolve" /\ outputIndex' = n /\ n \in DOMAIN selectedOrder
          /\ n # outputIndex /\ ~(n < n)
          /\ queue' = selectedOrder'[n].occurrences
      BY <1>1, <1>2, <1>3, <2>1, <3>1
    <3>3. /\ \A o \in Range(queue') : FoundAt(n, o)
          /\ n \in AssemblyOutputs => \A q \in Parts(n) : OnList(queue', q.path)
      BY <1>5, <3>1, <3>2
    <3>4. Range(occurrences') = {}
      BY <1>1, EmptyList
    <3>. QED
      BY <1>3, <1>4, <1>5, <3>1, <3>2, <3>3, <3>4 DEF OwnersInv, OnList
  <2>2. CASE ~(outputIndex < Len(selectedOrder))
    <3>1. stage' = "prepare"
      BY <1>1, <2>2
    <3>2. \A k \in DOMAIN selectedOrder : k < outputIndex + 1
      BY <1>2, <1>3, <2>2
    <3>. QED
      BY <1>3, <1>4, <1>5, <3>1, <3>2 DEF OwnersInv, OnList
  <2>. QED
    BY <2>1, <2>2
<1>7. CalledInv' /\ OwnViewsInv'
  BY <1>1, QuietViews DEF ViewInv, planVars
<1>. QED
  BY <1>6, <1>7 DEF ViewInv

\* One more prepared batch; one of an external document is called as its parts are.
LEMMA BatchKeepsViews ==
    ASSUME ViewInv, Listed(batches),
           NEW b, batches' = Append(batches, b),
           UNCHANGED <<world, stage, selectedOrder, outputIndex, queue, occurrences,
                       external, partResults>>,
           b.document # Root =>
              /\ b.selections = {[name |-> name, node |-> NodeCalled(b.document, name),
                                  kind |-> "part"] : name \in DOMAIN b.keys}
              /\ KeysCalled(b.document, b.configuration, b.keys)
    PROVE  ViewInv'
<1>1. Range(batches') = Range(batches) \cup {b}
  BY ListAppend
<1>2. /\ AssemblyOutputs' = AssemblyOutputs
      /\ \A k : Parts(k)' = Parts(k)
      /\ \A k, x : FoundAt(k, x)' <=> FoundAt(k, x)
      /\ \A k, x : OwnPart(k, x)' <=> OwnPart(k, x)
      /\ \A d, name : NodeCalled(d, name)' = NodeCalled(d, name)
      /\ \A d, c, keys : KeysCalled(d, c, keys)' <=> KeysCalled(d, c, keys)
  BY SameOwners
<1>3. OwnersInv'
  BY <1>2 DEF ViewInv, OwnersInv, OnList
<1>4. CalledInv'
  BY <1>1, <1>2 DEF ViewInv, CalledInv
<1>5. OwnViewsInv'
  BY DEF ViewInv, OwnViewsInv, OwnView
<1>. QED
  BY <1>3, <1>4, <1>5 DEF ViewInv

\* A preparation that does not fail adds the batch.
LEMMA Prepares ==
    ASSUME NEW d, NEW c, NEW selections, NEW keys, NEW ambiguous,
           Prepare(d, c, selections, keys, ambiguous), stage' # "failed"
    PROVE  /\ batches' = Append(batches, [document |-> d, configuration |-> c,
                                          selections |-> selections, keys |-> keys])
           /\ UNCHANGED <<world, stage, selectedOrder, outputIndex, queue, occurrences,
                          external, partResults>>
BY DEF Prepare, RefusePlan, Refuse, vars

LEMMA PrepareKeepsViews ==
    ASSUME PlanInv, ViewInv, PrepareLocal \/ PrepareExternal, stage' # "failed"
    PROVE  ViewInv'
<1>1. Listed(batches)
  BY DEF PlanInv, BatchesInv
<1>2. CASE PrepareLocal
  <2>1. PICK c, S, none, ambiguous : none = <<>> /\ Prepare(Root, c, S, none, ambiguous)
    BY <1>2 DEF PrepareLocal
  <2>2. PICK b : b = [document |-> Root, configuration |-> c, selections |-> S, keys |-> none]
    OBVIOUS
  <2>3. /\ batches' = Append(batches, b)
        /\ UNCHANGED <<world, stage, selectedOrder, outputIndex, queue, occurrences,
                       external, partResults>>
    BY <2>1, <2>2, Prepares
  <2>4. b.document = Root
    BY <2>2
  <2>. QED
    BY <1>1, <2>3, <2>4, BatchKeepsViews
<1>3. CASE PrepareExternal
  <2>1. PICK key \in DOMAIN external :
           Prepare(external[key].document, external[key].configuration,
                   SelectionsOf(external[key]), external[key].keys, FALSE)
    BY <1>3 DEF PrepareExternal, SelectionsOf
  <2>2. PICK d, c, S, keys, batch :
           /\ batch = external[key]
           /\ d = batch.document /\ c = batch.configuration
           /\ S = SelectionsOf(batch) /\ keys = batch.keys
    OBVIOUS
  <2>3. PICK b : b = [document |-> d, configuration |-> c, selections |-> S, keys |-> keys]
    OBVIOUS
  <2>4. /\ batches' = Append(batches, b)
        /\ UNCHANGED <<world, stage, selectedOrder, outputIndex, queue, occurrences,
                       external, partResults>>
    <3>1. Prepare(d, c, S, keys, FALSE)
      BY <2>1, <2>2
    <3>2. /\ batches' = Append(batches, [document |-> d, configuration |-> c,
                                         selections |-> S, keys |-> keys])
          /\ UNCHANGED <<world, stage, selectedOrder, outputIndex, queue, occurrences,
                         external, partResults>>
      BY <3>1, Prepares
    <3>. QED
      BY <2>3, <3>2
  <2>5. /\ DOMAIN batch.nodes = DOMAIN keys /\ KeysCalled(d, c, keys)
        /\ \A name \in DOMAIN keys : batch.nodes[name] = NodeCalled(d, name)
    BY <2>2 DEF ViewInv, CalledInv
  <2>6. S = {[name |-> name, node |-> NodeCalled(d, name), kind |-> "part"] :
                name \in DOMAIN keys}
    BY <2>2, <2>5 DEF SelectionsOf
  <2>7. /\ b.document = d /\ b.configuration = c /\ b.selections = S /\ b.keys = keys
    BY <2>3
  <2>. QED
    BY <1>1, <2>4, <2>5, <2>6, <2>7, BatchKeepsViews
<1>. QED
  BY <1>2, <1>3

\* Batches are finished, paid for and executed without the occurrences being changed.
LEMMA QuietOwners ==
    ASSUME OwnersInv, stage \in {"prepare", "charge", "execute"}, stage' # "resolve",
           UNCHANGED <<world, selectedOrder>>
    PROVE  OwnersInv'
<1>1. /\ AssemblyOutputs' = AssemblyOutputs
      /\ \A k : Parts(k)' = Parts(k)
      /\ \A k, x : OwnPart(k, x)' <=> OwnPart(k, x)
  BY SameOwners
<1>. QED
  BY <1>1 DEF OwnersInv, OnList

LEMMA ChargeKeepsViews ==
    ASSUME ViewInv, FinishPreparation \/ ChargeBatch \/ BeginExecution, stage' # "failed"
    PROVE  ViewInv'
<1>1. /\ stage \in {"prepare", "charge", "execute"} /\ stage' # "resolve"
      /\ UNCHANGED <<world, selectedOrder, external, batches, partResults>>
  BY DEF FinishPreparation, ChargeBatch, BeginExecution, RefusePlan, Refuse, vars
<1>. QED
  BY <1>1, QuietOwners, QuietViews DEF ViewInv

\* What a batch of the evaluated document gives its parts is their own view.
LEMMA LocalViews ==
    ASSUME NEW b, b.document = Root, NEW key \in DOMAIN LocalResults(b)
    PROVE  LocalResults(b)[key] = OwnView(key)
<1>1. PICK leaves : leaves = {s \in b.selections : s.kind = "part" /\ s.name = PartName(s.node)}
  OBVIOUS
<1>2. PICK s \in leaves : key = LocalKey(s.node, b.configuration)
  BY <1>1 DEF LocalResults
<1>3. PICK t : t = CHOOSE x \in leaves : x.node = key.node
  OBVIOUS
<1>4. key.node = s.node /\ key.document = Root /\ key.configuration = b.configuration
  BY <1>2 DEF LocalKey
<1>5. t \in leaves /\ t.node = key.node
  BY <1>3, <1>4
<1>6. LocalResults(b)[key] = Renamed(View(b, t), key.node)
  BY <1>1, <1>3 DEF LocalResults
<1>. QED
  BY <1>1, <1>4, <1>5, <1>6 DEF Renamed, View, OwnView

\* What a batch of an external document gives them is, too.
LEMMA ExternalViews ==
    ASSUME NEW b, b.document # Root,
           b.selections = {[name |-> name, node |-> NodeCalled(b.document, name),
                            kind |-> "part"] : name \in DOMAIN b.keys},
           KeysCalled(b.document, b.configuration, b.keys),
           NEW key \in UNION Range(b.keys)
    PROVE  ExternalResults(b)[key] = OwnView(key)
<1>1. PICK n \in DOMAIN b.keys : key \in b.keys[n]
  BY DEF Range
<1>2. PICK s : s = CHOOSE x \in b.selections : key \in b.keys[x.name]
  OBVIOUS
<1>3. s \in b.selections /\ key \in b.keys[s.name]
  <2>1. PICK x : x = [name |-> n, node |-> NodeCalled(b.document, n), kind |-> "part"]
    OBVIOUS
  <2>2. x \in b.selections /\ x.name = n
    BY <2>1
  <2>. QED
    BY <1>1, <1>2, <2>2
<1>4. PICK name \in DOMAIN b.keys :
         s = [name |-> name, node |-> NodeCalled(b.document, name), kind |-> "part"]
  BY <1>3
<1>5. /\ s.name = name /\ s.node = NodeCalled(b.document, name) /\ s.kind = "part"
  BY <1>4
<1>6. /\ key.document = b.document /\ key.configuration = b.configuration
      /\ key.kind \in {"part", "assembly"}
      /\ CalledAs(key) = name /\ key.node = s.node
  BY <1>3, <1>5 DEF KeysCalled
<1>7. ExternalResults(b)[key] = IF key.kind = "assembly" THEN Renamed(View(b, s), key.node)
                                ELSE View(b, s)
  BY <1>2 DEF ExternalResults
<1>8. CASE key.kind = "assembly"
  BY <1>5, <1>6, <1>7, <1>8 DEF Renamed, View, OwnView
<1>9. CASE key.kind = "part"
  <2>1. name = Plain(key.output)
    BY <1>6, <1>9 DEF CalledAs
  <2>. QED
    BY <1>5, <1>6, <1>7, <1>9, <2>1 DEF View, OwnView
<1>. QED
  BY <1>6, <1>8, <1>9

LEMMA ExecuteKeepsViews ==
    ASSUME PlanInv, ViewInv, ExecuteBatch
    PROVE  ViewInv'
<1>1. /\ stage = "execute" /\ stage' = "execute" /\ batchIndex <= Len(batches)
      /\ \/ Batch.document = Root /\ partResults' = Updated(partResults, LocalResults(Batch))
         \/ /\ Batch.document # Root
            /\ partResults' = Updated(partResults, ExternalResults(Batch))
      /\ UNCHANGED <<world, selectedOrder, external, batches>>
  BY DEF ExecuteBatch, vars, Remaining
<1>2. Listed(batches) /\ batchIndex \in Nat \ {0}
  BY <1>1 DEF PlanInv, BatchesInv, ResultsInv
<1>3. PICK b : b = Batch
  OBVIOUS
<1>4. b \in Range(batches)
  <2>1. Len(batches) \in Nat /\ DOMAIN batches = 1 .. Len(batches)
    BY <1>2, Lists
  <2>2. batchIndex \in DOMAIN batches
    BY <1>1, <1>2, <2>1
  <2>. QED
    BY <1>3, <2>2 DEF Batch, Range
<1>5. OwnersInv'
  BY <1>1, QuietOwners DEF ViewInv
<1>6. CalledInv'
  <2>1. /\ \A d, name : NodeCalled(d, name)' = NodeCalled(d, name)
        /\ \A d, c, keys : KeysCalled(d, c, keys)' <=> KeysCalled(d, c, keys)
    BY <1>1, SameOwners
  <2>. QED
    BY <1>1, <2>1 DEF ViewInv, CalledInv
<1>7. PICK results :
         /\ partResults' = Updated(partResults, results)
         /\ \A key \in DOMAIN results : results[key] = OwnView(key)
  <2>1. CASE b.document = Root
    BY <1>1, <1>3, <2>1, LocalViews
  <2>2. CASE b.document # Root
    <3>1. /\ b.selections = {[name |-> name, node |-> NodeCalled(b.document, name),
                              kind |-> "part"] : name \in DOMAIN b.keys}
          /\ KeysCalled(b.document, b.configuration, b.keys)
      BY <1>4, <2>2 DEF ViewInv, CalledInv
    <3>2. DOMAIN ExternalResults(b) = UNION Range(b.keys)
      BY DEF ExternalResults
    <3>3. \A key \in DOMAIN ExternalResults(b) : ExternalResults(b)[key] = OwnView(key)
      BY <2>2, <3>1, <3>2, ExternalViews
    <3>. QED
      BY <1>1, <1>3, <2>2, <3>3
  <2>. QED
    BY <2>1, <2>2
<1>8. OwnViewsInv'
  <2>1. \A key : OwnView(key)' = OwnView(key)
    BY DEF OwnView
  <2>2. \A key \in DOMAIN partResults' : partResults'[key] = OwnView(key)
    BY <1>7 DEF Updated, Has, ViewInv, OwnViewsInv
  <2>. QED
    BY <2>1, <2>2 DEF OwnViewsInv
<1>. QED
  BY <1>5, <1>6, <1>8 DEF ViewInv

\* The view of a direct output is its own.
LEMMA OutputViews ==
    ASSUME PlanInv, stage = "execute", ~Remaining, NEW o \in DirectOutputs
    PROVE  nativeResults[NativeKey(o)] =
              [document |-> Root, configuration |-> world.configuration, node |-> o.node,
               kind |-> o.kind, name |-> Plain(o.name)]
<1>1. /\ NativeKey(o) \in DOMAIN nativeResults
      /\ nativeResults[NativeKey(o)].kind = o.kind
      /\ nativeResults[NativeKey(o)].node = o.node
  BY OutputsAvailable DEF Has
<1>2. PICK b \in Range(batches) : \E s \in b.selections :
         /\ b.document = Root /\ NativeKey(o) = <<s.name, b.configuration>>
         /\ nativeResults[NativeKey(o)] = View(b, s)
  BY <1>1 DEF PlanInv, ResultsInv
<1>3. PICK s \in b.selections :
         /\ b.document = Root /\ NativeKey(o) = <<s.name, b.configuration>>
         /\ nativeResults[NativeKey(o)] = View(b, s)
  BY <1>2
<1>4. s.name = Plain(o.name) /\ b.configuration = world.configuration
  BY <1>3 DEF NativeKey
<1>5. s.node = o.node /\ s.kind = o.kind
  BY <1>1, <1>3 DEF View
<1>. QED
  BY <1>3, <1>4, <1>5 DEF View

\* The view of a part, as it is asked for.
PartView(p) ==
    [document |-> p.document, configuration |-> p.configuration, node |-> p.node,
     kind |-> "part",
     name |-> IF KeyOf(p)[1] = "external" THEN Plain(p.output) ELSE Plain(p.node)]

\* An occurrence of the plan has the view of the part it is at.
LEMMA OccurrenceViews ==
    ASSUME OwnViewsInv, NEW o, Found(o), Has(partResults, ComponentKey(o)),
           NEW q, Stands(q, o)
    PROVE  partResults[ComponentKey(o)] = PartView(q)
<1>1. PICK key : key = ComponentKey(o)
  OBVIOUS
<1>2. partResults[key] = OwnView(key)
  BY <1>1 DEF OwnViewsInv, Has
<1>3. /\ key.document = q.document /\ key.configuration = q.configuration
      /\ key.node = q.node /\ key.output = q.output /\ key.kind = o.kind
  BY <1>1 DEF ComponentKey, Stands, Same
<1>4. /\ o.kind \in {"part", "assembly"}
      /\ q.document # Root => IF o.kind = "part" THEN Direct(q) ELSE ~Direct(q)
  BY DEF Found, IsOccurrence, Stands, OfKind
<1>5. KeyOf(q)[1] = "external" <=> q.document # Root /\ Direct(q)
  BY DEF KeyOf, Direct, LocalPart, ExternalPart, ExternalLeaf
<1>6. (q.document = Root \/ o.kind = "assembly") <=> ~(KeyOf(q)[1] = "external")
  BY <1>4, <1>5
<1>. QED
  BY <1>1, <1>2, <1>3, <1>6 DEF OwnView, PartView

\* The result has the view of every active part and of every direct output.
LEMMA AssembleKeepsViews ==
    ASSUME world \in Worlds, PlanInv, ViewInv, Assemble
    PROVE  EveryViewIsItsOwn'
<1>1. stage = "execute" /\ ~Remaining /\ world' = world
  BY AssembleKeepsPlan DEF Assemble
<1>2. products' = [k \in DOMAIN selectedOrder |-> Product(selectedOrder[k])]
  <2>1. failure' = "none"
    BY AssembleKeepsPlan DEF PlanInv
  <2>. QED
    BY <2>1 DEF Assemble, RefusePlan, Refuse
<1>3. /\ SelectedInv /\ AllSelected
      /\ \A k \in DOMAIN selectedOrder : \A o \in Range(selectedOrder[k].occurrences) :
            Resolved(o)
  BY <1>1 DEF PlanInv, ResolutionInv
<1>4. /\ \A k : AssemblyOutputs' = AssemblyOutputs /\ Parts(k)' = Parts(k)
      /\ \A d : Document(d)' = Document(d)
  BY <1>1, SameOwners DEF Document
<1>5. ASSUME NEW k \in DOMAIN selectedOrder, NEW o, o = selectedOrder[k],
             NEW name, name = world.requested[k]
      PROVE  IF k \notin AssemblyOutputs
             THEN Range(Product(o)) = {[path |-> <<>>, view |->
                     [document |-> Root, configuration |-> world.configuration,
                      node |-> Document(Root).outputs[name].node,
                      kind |-> Document(Root).outputs[name].kind, name |-> Plain(name)]]}
             ELSE Range(Product(o)) = {[path |-> q.path, view |-> PartView(q)] :
                                         q \in Parts(k)}
  <2>1. /\ name \in DOMAIN Document(Root).outputs
        /\ o = [name |-> name, node |-> Document(Root).outputs[name].node,
                kind |-> Document(Root).outputs[name].kind,
                occurrences |-> o.occurrences]
        /\ KindOf(Root, Document(Root).outputs[name].node) =
              Document(Root).outputs[name].kind
    BY <1>3, <1>5 DEF SelectedInv
  <2>2. PICK node, kind : /\ node = Document(Root).outputs[name].node
                          /\ kind = Document(Root).outputs[name].kind
    OBVIOUS
  <2>3. o.name = name /\ o.node = node /\ o.kind = kind
    BY <2>1, <2>2
  <2>4. k \in DOMAIN world.requested
    <3>1. Listed(selectedOrder) /\ Listed(world.requested)
      BY <1>3, Worldly DEF SelectedInv
    <3>. QED
      BY <1>3, <3>1, Lists DEF AllSelected
  <2>5. k \in AssemblyOutputs <=> kind = "assembly"
    BY <1>5, <2>1, <2>2, <2>4 DEF AssemblyOutputs, IsAssemblyOutput, Sound, Has
  <2>6. CASE kind # "assembly"
    <3>1. o \in DirectOutputs
      BY <1>5, <2>3, <2>6 DEF DirectOutputs, Range
    <3>2. PICK v : v = nativeResults[NativeKey(o)]
      OBVIOUS
    <3>3. v = [document |-> Root, configuration |-> world.configuration, node |-> node,
               kind |-> kind, name |-> Plain(name)]
      BY <1>1, <2>3, <3>1, <3>2, OutputViews
    <3>4. Product(o) = <<[path |-> <<>>, view |-> v]>>
      BY <2>3, <2>6, <3>2 DEF Product
    <3>5. Range(Product(o)) = {[path |-> <<>>, view |-> v]}
      BY <3>4 DEF Range
    <3>. QED
      BY <2>2, <2>5, <2>6, <3>3, <3>5
  <2>7. CASE kind = "assembly"
    <3>1. PICK list : list = o.occurrences
      OBVIOUS
    <3>2. Product(o) = [j \in DOMAIN list |-> [path |-> list[j].path,
                                              view |-> partResults[ComponentKey(list[j])]]]
      BY <2>3, <2>7, <3>1 DEF Product
    <3>3. /\ \A u \in Range(list) : OwnPart(k, u) /\ Resolved(u)
          /\ \A q \in Parts(k) : OnList(list, q.path)
      BY <1>1, <1>3, <1>5, <2>5, <2>7, <3>1 DEF ViewInv, OwnersInv
    <3>4. ASSUME NEW u \in Range(list), NEW q \in Parts(k), Stands(q, u)
          PROVE  partResults[ComponentKey(u)] = PartView(q) /\ u.path = q.path
      <4>1. Resolved(u) /\ Found(u)
        BY <3>3 DEF Resolved
      <4>2. Has(partResults, ComponentKey(u))
        BY <1>1, <4>1, OccurrencesAvailable
      <4>. QED
        BY <3>4, <4>1, <4>2, OccurrenceViews DEF ViewInv, Stands, Same
    <3>5. ASSUME NEW x \in Range(Product(o))
          PROVE  \E q \in Parts(k) : x = [path |-> q.path, view |-> PartView(q)]
      <4>1. PICK j \in DOMAIN list : x = [path |-> list[j].path,
                                         view |-> partResults[ComponentKey(list[j])]]
        BY <3>2 DEF Range
      <4>2. PICK u \in Range(list) : u = list[j]
        BY DEF Range
      <4>3. PICK q \in Parts(k) : Stands(q, u)
        BY <3>3 DEF OwnPart
      <4>. QED
        BY <3>4, <4>1, <4>2, <4>3
    <3>6. ASSUME NEW q \in Parts(k)
          PROVE  [path |-> q.path, view |-> PartView(q)] \in Range(Product(o))
      <4>1. PICK u \in Range(list) : u.path = q.path
        BY <3>3 DEF OnList
      <4>2. PICK r \in Parts(k) : Stands(r, u)
        BY <3>3 DEF OwnPart
      <4>3. r = q
        <5>1. r.path = q.path
          BY <4>1, <4>2 DEF Stands, Same
        <5>. QED
          BY <2>5, <2>7, <5>1, PartsReached, UniquePosition
      <4>4. PICK j \in DOMAIN list : u = list[j]
        BY DEF Range
      <4>5. /\ j \in DOMAIN Product(o)
            /\ Product(o)[j] = [path |-> q.path, view |-> PartView(q)]
        BY <3>2, <3>4, <4>2, <4>3, <4>4
      <4>. QED
        BY <4>5 DEF Range
    <3>7. Range(Product(o)) = {[path |-> q.path, view |-> PartView(q)] : q \in Parts(k)}
      BY <3>5, <3>6
    <3>. QED
      BY <2>5, <2>7, <3>7
  <2>. QED
    BY <2>6, <2>7
<1>6. DOMAIN products' = DOMAIN selectedOrder
      /\ \A k \in DOMAIN selectedOrder : products'[k] = Product(selectedOrder[k])
  BY <1>2
<1>7. ASSUME NEW k \in DOMAIN products', NEW name, name = world'.requested[k],
             NEW seen, seen = Range(products'[k])
      PROVE  IF k \notin AssemblyOutputs'
             THEN seen = {[path |-> <<>>, view |->
                     [document |-> Root, configuration |-> world'.configuration,
                      node |-> Document(Root)'.outputs[name].node,
                      kind |-> Document(Root)'.outputs[name].kind, name |-> Plain(name)]]}
             ELSE seen = {[path |-> q.path, view |-> PartView(q)] : q \in Parts(k)'}
  <2>1. PICK o : o = selectedOrder[k]
    OBVIOUS
  <2>2. seen = Range(Product(o)) /\ k \in DOMAIN selectedOrder
    BY <1>6, <1>7, <2>1
  <2>. QED
    BY <1>1, <1>4, <1>5, <1>7, <2>1, <2>2
<1>. QED
  BY <1>7 DEF EveryViewIsItsOwn, PartView, Parts

-----------------------------------------------------------------------------
(* Altogether.                                                              *)
\* The inductive invariant of the whole function.
ProductInv ==
    world \in Worlds /\ ((WalkInv /\ Unplanned) \/ PlanInv \/ Failed)

\* It holds of every call, is kept by every step, and by a step of nothing.
LEMMA ProductInvInit == PlanInit => ProductInv
<1>. SUFFICES ASSUME PlanInit PROVE ProductInv
  OBVIOUS
<1>1. /\ world \in Worlds /\ stage = "begin" /\ failure = "none"
      /\ selectedOrder = <<>> /\ queue = <<>> /\ occurrences = <<>> /\ stack = <<>>
      /\ charged = NothingCharged
      /\ external = <<>> /\ batches = <<>> /\ batchIndex = 0 /\ nativeResults = <<>>
  BY DEF PlanInit, Init
<1>2. Unplanned
  BY <1>1 DEF Unplanned
<1>3. WalkInv
  BY WalkBegins DEF PlanInit
<1>. QED
  BY <1>1, <1>2, <1>3 DEF ProductInv

LEMMA ProductInvStep ==
    ASSUME ProductInv, PlanNext
    PROVE  ProductInv'
<1>1. world \in Worlds
  BY DEF ProductInv
<1>2. ASSUME Traverse PROVE ProductInv'
  <2>1. Next /\ (Unplanned => Unplanned')
    BY <1>2 DEF Traverse, planVars, Unplanned
  <2>2. CASE WalkInv /\ Unplanned
    BY <1>1, <2>1, <2>2, WalkStep DEF ProductInv
  <2>3. CASE PlanInv
    BY <2>1, <2>3, WalkIsOver DEF PlanInv, ResolutionInv
  <2>4. CASE Failed
    BY <2>1, <2>4, WalkIsOver DEF Failed
  <2>. QED
    BY <2>2, <2>3, <2>4 DEF ProductInv
<1>3. ASSUME BeginPlan PROVE ProductInv'
  <2>1. stage = "traversed" /\ world' = world
    BY <1>3 DEF BeginPlan
  <2>2. WalkInv /\ Unplanned
    BY <2>1 DEF ProductInv, PlanInv, Failed
  <2>. QED
    BY <1>1, <1>3, <2>1, <2>2, BeginPlanKeepsPlan DEF ProductInv
<1>4. stage \in {"resolve", "prepare", "charge", "execute"} => PlanInv
  BY DEF ProductInv, WalkInv, Failed
<1>5. ASSUME ResolveLocal PROVE ProductInv'
  BY <1>1, <1>4, <1>5, ResolveLocalKeepsPlan DEF ProductInv, ResolveLocal, Resolving
<1>6. ASSUME ResolveExternal PROVE ProductInv'
  BY <1>1, <1>4, <1>6, ResolveExternalKeepsPlan DEF ProductInv, ResolveExternal, Resolving
<1>7. ASSUME FinishResolution PROVE ProductInv'
  BY <1>1, <1>4, <1>7, ResolutionKeepsPlan DEF ProductInv, FinishResolution, FinishOutput
<1>8. ASSUME PrepareLocal PROVE ProductInv'
  BY <1>1, <1>4, <1>8, PrepareLocalKeepsPlan DEF ProductInv, PrepareLocal
<1>9. ASSUME PrepareExternal PROVE ProductInv'
  BY <1>1, <1>4, <1>9, PrepareExternalKeepsPlan DEF ProductInv, PrepareExternal
<1>10. ASSUME FinishPreparation PROVE ProductInv'
  BY <1>1, <1>4, <1>10, PreparationKeepsPlan DEF ProductInv, FinishPreparation
<1>11. ASSUME ChargeBatch PROVE ProductInv'
  BY <1>1, <1>4, <1>11, ChargeKeepsPlan DEF ProductInv, ChargeBatch
<1>12. ASSUME BeginExecution PROVE ProductInv'
  BY <1>1, <1>4, <1>12, BeginExecutionKeepsPlan DEF ProductInv, BeginExecution
<1>13. ASSUME ExecuteBatch PROVE ProductInv'
  BY <1>1, <1>4, <1>13, ExecuteKeepsPlan DEF ProductInv, ExecuteBatch
<1>14. ASSUME Assemble PROVE ProductInv'
  BY <1>1, <1>4, <1>14, AssembleKeepsPlan DEF ProductInv, Assemble
<1>. QED
  BY <1>2, <1>3, <1>5, <1>6, <1>7, <1>8, <1>9, <1>10, <1>11, <1>12, <1>13, <1>14
     DEF PlanNext

LEMMA ProductInvStutter ==
    ASSUME ProductInv, UNCHANGED allVars
    PROVE  ProductInv'
<1>1. UNCHANGED <<world, stage, failure, selectedOrder, outputIndex, queue, occurrences,
                  stack, charged, external, batches, batchIndex, nativeResults,
                  partResults>>
  BY DEF allVars, vars, planVars
<1>2. world' \in Worlds
  BY <1>1 DEF ProductInv
<1>3. CASE WalkInv /\ Unplanned
  <2>1. Unplanned'
    BY <1>1, <1>3 DEF Unplanned
  <2>2. WalkInv'
    BY <1>1, <1>3, WalkStutter DEF vars
  <2>. QED
    BY <1>2, <1>3, <2>1, <2>2 DEF ProductInv
<1>4. CASE PlanInv
  <2>1. CountersInv' /\ SelectedInv' /\ ExternalInv'
    BY <1>1, <1>4, Zenon DEF PlanInv, CountersInv, SelectedInv, ExternalInv, IsPlanned,
       CountedName, NameKey, Limit, KindOf, Document
  <2>2. ResolutionInv'
    <3>1. \A o : (Found(o) => Found(o)') /\ (Resolved(o) => Resolved(o)')
      BY <1>1 DEF Resolved, Found, PartKey, IsOccurrence, Has, BatchKey, ComponentKey
    <3>. QED
      BY <1>1, <1>4, <3>1 DEF PlanInv, ResolutionInv, AllSelected, RequestInv, Limit
  <2>3. BatchesInv'
    <3>1. \A b : IsBatch(b) => IsBatch(b)'
      BY <1>1 DEF IsBatch, PartSelections, DirectSelections, LocalParts, PartName,
         DirectOutputs
    <3>2. AllPrepared => AllPrepared'
      BY <1>1 DEF AllPrepared, LocalContexts, DirectOutputs, Prepared, ExternalPrepared
    <3>. QED
      BY <1>1, <1>4, <3>1, <3>2 DEF PlanInv, BatchesInv
  <2>4. ResultsInv'
    <3>1. \A b : Executed(b) => Executed(b)'
      BY <1>1 DEF Executed, NativeResults, LocalResults, PartName, DirectOutputs,
         LocalKey, View, Renamed
    <3>. QED
      BY <1>1, <1>4, <3>1 DEF PlanInv, ResultsInv, View
  <2>. QED
    BY <1>1, <1>2, <1>4, <2>1, <2>2, <2>3, <2>4 DEF ProductInv, PlanInv
<1>5. CASE Failed
  BY <1>1, <1>2, <1>5 DEF ProductInv, Failed, Fine
<1>. QED
  BY <1>3, <1>4, <1>5 DEF ProductInv

\* The invariant holds of every call with any documents, requests and limits.
THEOREM ProductInvariant == PlanSpec => []ProductInv
<1>1. ProductInv /\ [PlanNext]_allVars => ProductInv'
  BY ProductInvStep, ProductInvStutter
<1>. QED
  BY <1>1, ProductInvInit, PTL DEF PlanSpec

\* evaluateProductDocumentCoreV7 never reports a fault of its own: no two selections of
\* a batch get the same name, the sum of the two limits is enough for every batch, none
\* is empty, and every result that the occurrences and outputs ask for is there.
THEOREM NoFaultOfItsOwn == PlanSpec => []NoInternalFailure
<1>1. ProductInv => NoInternalFailure
  BY DEF ProductInv, WalkInv, PlanInv, Failed, Fine, NoInternalFailure
<1>. QED
  BY <1>1, ProductInvariant, PTL

\* The invariant of the views: what was found is in its place, what is planned is of
\* the part that it was found at, and the result has what belongs to it.
OwnedInv ==
    /\ stage \in {"begin", "select", "walk", "expand", "traversed"} =>
          PlacesInv /\ partResults = <<>>
    /\ stage \in {"resolve", "prepare", "charge", "execute"} => ViewInv
    /\ EveryViewIsItsOwn

LEMMA OwnedInvInit == PlanInit => OwnedInv
<1>. SUFFICES ASSUME PlanInit PROVE OwnedInv
  OBVIOUS
<1>1. stage = "begin" /\ partResults = <<>> /\ selectedOrder = <<>> /\ queue = <<>>
  BY DEF PlanInit, Init
<1>2. PlacesInv
  BY <1>1 DEF PlacesInv, SelectedPlaces
<1>. QED
  BY <1>1, <1>2 DEF OwnedInv, EveryViewIsItsOwn

LEMMA OwnedInvStep ==
    ASSUME ProductInv, OwnedInv, PlanNext
    PROVE  OwnedInv'
<1>1. world \in Worlds
  BY DEF ProductInv
<1>2. stage \in {"resolve", "prepare", "charge", "execute"} => PlanInv /\ ViewInv
  BY DEF ProductInv, WalkInv, Failed, OwnedInv
<1>3. stage' = "failed" => OwnedInv'
  BY DEF OwnedInv, EveryViewIsItsOwn
<1>4. ViewInv' /\ stage' \in {"resolve", "prepare", "charge", "execute"} => OwnedInv'
  BY DEF OwnedInv, EveryViewIsItsOwn
<1>5. CASE Traverse /\ stage' # "failed"
  <2>1. Next /\ partResults' = partResults
    BY <1>5 DEF Traverse, planVars
  <2>2. WalkInv /\ PlacesInv /\ partResults = <<>>
    BY <2>1, WalkIsOver DEF ProductInv, OwnedInv, WalkInv, PlanInv, Failed
  <2>3. PlacesInv'
    BY <1>1, <1>5, <2>1, <2>2, PlacesStep
  <2>4. stage' \in {"begin", "select", "walk", "expand", "traversed"}
    BY <1>1, <1>5, <2>1, <2>2, WalkStep DEF WalkInv, Failed
  <2>. QED
    BY <2>1, <2>2, <2>3, <2>4 DEF OwnedInv, EveryViewIsItsOwn
<1>6. CASE BeginPlan
  <2>1. stage = "traversed" /\ stage' = "resolve"
    BY <1>6 DEF BeginPlan
  <2>2. WalkInv /\ Unplanned /\ PlacesInv /\ partResults = <<>>
    BY <2>1 DEF ProductInv, PlanInv, Failed, OwnedInv
  <2>. QED
    BY <1>1, <1>4, <1>6, <2>1, <2>2, BeginPlanKeepsViews
<1>7. CASE ResolveLocal
  BY <1>1, <1>2, <1>4, <1>7, ResolveLocalKeepsViews DEF ResolveLocal, Resolving
<1>8. CASE ResolveExternal /\ stage' # "failed"
  <2>1. stage = "resolve" /\ stage' = "resolve"
    BY <1>8, ExternalResolves
  <2>. QED
    BY <1>1, <1>2, <1>4, <1>8, <2>1, ResolveExternalKeepsViews
<1>9. CASE FinishResolution
  BY <1>1, <1>2, <1>4, <1>9, ResolutionKeepsViews DEF FinishResolution, FinishOutput
<1>10. CASE (PrepareLocal \/ PrepareExternal) /\ stage' # "failed"
  <2>1. stage = "prepare" /\ stage' = "prepare"
    BY <1>10 DEF PrepareLocal, PrepareExternal, Prepare, RefusePlan, Refuse, vars
  <2>. QED
    BY <1>2, <1>4, <1>10, <2>1, PrepareKeepsViews
<1>11. CASE (FinishPreparation \/ ChargeBatch \/ BeginExecution) /\ stage' # "failed"
  <2>1. /\ stage \in {"prepare", "charge"} /\ stage' \in {"charge", "execute"}
    BY <1>11 DEF FinishPreparation, ChargeBatch, BeginExecution, RefusePlan, Refuse, vars
  <2>. QED
    BY <1>2, <1>4, <1>11, <2>1, ChargeKeepsViews
<1>12. CASE ExecuteBatch
  <2>1. stage = "execute" /\ stage' = "execute"
    BY <1>12 DEF ExecuteBatch, vars
  <2>. QED
    BY <1>2, <1>4, <1>12, <2>1, ExecuteKeepsViews
<1>13. CASE Assemble
  <2>1. PlanInv /\ ViewInv
    BY <1>2, <1>13 DEF Assemble
  <2>2. EveryViewIsItsOwn'
    BY <1>1, <1>13, <2>1, AssembleKeepsViews
  <2>3. stage' \in {"failed", "done"}
    BY <1>13 DEF Assemble, RefusePlan, Refuse
  <2>. QED
    BY <2>2, <2>3 DEF OwnedInv
<1>. QED
  BY <1>3, <1>5, <1>6, <1>7, <1>8, <1>9, <1>10, <1>11, <1>12, <1>13 DEF PlanNext

LEMMA OwnedInvStutter ==
    ASSUME OwnedInv, UNCHANGED allVars
    PROVE  OwnedInv'
<1>1. UNCHANGED <<world, stage, failure, selectedOrder, outputIndex, queue, occurrences,
                  stack, charged, external, batches, partResults, products>>
  BY DEF allVars, vars, planVars
<1>2. PlacesInv => PlacesInv'
  BY <1>1, PlacesStutter DEF vars
<1>3. /\ AssemblyOutputs' = AssemblyOutputs
      /\ \A k : Parts(k)' = Parts(k)
      /\ \A k, x : FoundAt(k, x)' <=> FoundAt(k, x)
      /\ \A k, x : OwnPart(k, x)' <=> OwnPart(k, x)
  BY <1>1, SameOwners
<1>4. ViewInv => ViewInv'
  <2>1. OwnersInv => OwnersInv'
    BY <1>1, <1>3 DEF OwnersInv, OnList
  <2>. QED
    BY <1>1, <2>1, QuietViews DEF ViewInv
<1>5. EveryViewIsItsOwn => EveryViewIsItsOwn'
  BY <1>1, <1>3 DEF EveryViewIsItsOwn, Parts, KeyOf, Document
<1>. QED
  BY <1>1, <1>2, <1>4, <1>5 DEF OwnedInv

\* When evaluateProductDocumentCoreV7 returns, every active part has the view of its own
\* node, document and configuration, and so has every direct output, and each goes by
\* the authored name it was asked for by: the two ways of naming a selection, by output
\* and by node, are told apart in every batch, and nothing is lost or exchanged between
\* the traversal, the batches and the results.
THEOREM EveryViewIsTheRightOne == PlanSpec => []EveryViewIsItsOwn
<1>1. OwnedInv /\ ProductInv /\ [PlanNext]_allVars => OwnedInv'
  BY OwnedInvStep, OwnedInvStutter
<1>2. OwnedInv => EveryViewIsItsOwn
  BY DEF OwnedInv
<1>. QED
  BY <1>1, <1>2, OwnedInvInit, ProductInvariant, PTL DEF PlanSpec

-----------------------------------------------------------------------------
(* The geometry: what is counted is active, what is prepared is wanted, each   *)
(* batch is for another document or configuration, and so a solid is paid for  *)
(* as often as it is made.                                                     *)
\* The solids of part x[3] of document x[1] in configuration x[2].
SolidsOf(x) == {<<x[1], x[2], solid>> : solid \in Document(x[1]).nodes[x[3]].bodies}

\* The solids that a batch makes.
Made(b) == UNION {SolidsOf(<<b.document, b.configuration, s.node>>) : s \in b.selections}

\* A component of an active part.
OfActivePart(key) ==
    /\ key.document \in DOMAIN world.documents /\ KindOf(key.document, key.node) = "part"
    /\ \E p \in Everything :
          /\ p.kind = "part" /\ p.document = key.document
          /\ p.configuration = key.configuration /\ p.node = key.node

\* Every selection of an external batch has components, of active parts.
KeysOwned(keys) ==
    \A name \in DOMAIN keys : keys[name] # {} /\ \A key \in keys[name] : OfActivePart(key)

\* The batches of external documents are those under construction, there is no other one
\* of the same document and configuration, and none is without end.
PreparedInv ==
    /\ \A key \in DOMAIN external : KeysOwned(external[key].keys)
    /\ \A b \in Range(batches) : b.document # Root =>
          LET key == <<b.document, b.configuration>>
          IN key \in DOMAIN external /\ external[key].keys = b.keys
    /\ \A i, j \in DOMAIN batches :
          /\ batches[i].document = batches[j].document
          /\ batches[i].configuration = batches[j].configuration
          => i = j
    /\ \A b \in Range(batches) : IsFiniteSet(b.selections)

\* What the batches before batch n make.
MadeBefore(n) == UNION {Made(batches[j]) : j \in {i \in DOMAIN batches : i < n}}

\* What was made by all of them.
MadeByAll == UNION {Made(b) : b \in Range(batches)}

\* What is paid for, as the batches are charged one after the other.
SpentInv ==
    /\ stage \in {"resolve", "prepare"} => spent.solids = 0
    /\ stage = "charge" => /\ IsFiniteSet(MadeBefore(batchIndex))
                           /\ spent.solids = Cardinality(MadeBefore(batchIndex))
    /\ stage = "execute" => spent.solids = Cardinality(MadeByAll)

\* The invariant of the geometry.
GeometryInv ==
    /\ AccountedInv
    /\ stage \in {"begin", "select", "walk", "expand", "traversed"} => spent.solids = 0
    /\ stage \in {"resolve", "prepare", "charge", "execute"} => PreparedInv /\ SpentInv

\* The parts and bodies that are wanted: those that are active, and the direct outputs.
Wanted ==
    {<<p.document, p.configuration, p.node>> : p \in {q \in Everything : q.kind = "part"}}
        \cup {<<Root, world.configuration, o.node>> : o \in DirectOutputs}

\* All of it depends on the documents only.
LEMMA SameParts ==
    ASSUME world' = world
    PROVE  /\ Everything' = Everything /\ DirectParts' = DirectParts
           /\ ContextualParts' = ContextualParts
           /\ \A x : SolidsOf(x)' = SolidsOf(x)
           /\ \A b : Made(b)' = Made(b)
           /\ \A key : OfActivePart(key)' <=> OfActivePart(key)
           /\ \A keys : KeysOwned(keys)' <=> KeysOwned(keys)
<1>1. \A d : Document(d)' = Document(d)
  BY DEF Document
<1>2. \A d, n : KindOf(d, n)' = KindOf(d, n)
  BY <1>1 DEF KindOf, Has
<1>3. /\ Everything' = Everything /\ DirectParts' = DirectParts
      /\ ContextualParts' = ContextualParts
  BY SameEverything
<1>4. \A x : SolidsOf(x)' = SolidsOf(x)
  BY <1>1 DEF SolidsOf
<1>5. \A b : Made(b)' = Made(b)
  BY <1>4 DEF Made
<1>6. \A key : OfActivePart(key)' <=> OfActivePart(key)
  BY <1>2, <1>3 DEF OfActivePart
<1>7. \A keys : KeysOwned(keys)' <=> KeysOwned(keys)
  BY <1>6 DEF KeysOwned
<1>. QED
  BY <1>3, <1>4, <1>5, <1>6, <1>7

\* What is not an assembly has finitely many bodies.
LEMMA Bodied ==
    ASSUME world \in Worlds, NEW d \in DOMAIN world.documents, NEW n,
           KindOf(d, n) \notin {"assembly", Nothing}
    PROVE  IsFiniteSet(Document(d).nodes[n].bodies)
BY BodiesAssumption DEF KindOf, Has, Document

\* Every selected output that is not an assembly refers to something with bodies.
LEMMA DirectBodied ==
    ASSUME world \in Worlds, SelectedInv, NEW o \in DirectOutputs
    PROVE  IsFiniteSet(Document(Root).nodes[o.node].bodies)
<1>1. o \in Range(selectedOrder) /\ o.kind # "assembly"
  BY DEF DirectOutputs
<1>2. /\ o.kind = Document(Root).outputs[o.name].kind
      /\ o.name \in DOMAIN Document(Root).outputs /\ KindOf(Root, o.node) = o.kind
  BY <1>1, SelectedReferences
<1>3. o.kind # Nothing /\ Root \in DOMAIN world.documents
  BY <1>2, Worldly, BodiesAssumption DEF Document
<1>. QED
  BY <1>1, <1>2, <1>3, Bodied

\* A local part that is counted is active or selected.
LEMMA LocalWanted ==
    ASSUME SelectedInv, AllSelected, AccountedInv, Listed(world.requested),
           NEW c, NEW n \in LocalParts(c)
    PROVE  <<Root, c, n>> \in Wanted
<1>1. PICK key \in charged.parts : key[1] = "local" /\ key[4] = c /\ key[3] = n
  BY DEF LocalParts
<1>2. CASE key \in DirectParts
  <2>1. PICK name \in Range(world.requested) :
           /\ Has(Document(Root).outputs, name)
           /\ Document(Root).outputs[name].kind = "part"
           /\ key = LocalPart(Document(Root).outputs[name].node, world.configuration)
    BY <1>2 DEF DirectParts
  <2>2. PICK j \in DOMAIN world.requested : world.requested[j] = name
    BY DEF Range
  <2>3. j \in DOMAIN selectedOrder
    BY Lists DEF SelectedInv, AllSelected
  <2>4. PICK o, r : o = selectedOrder[j] /\ r = Document(Root).outputs[name]
    OBVIOUS
  <2>5. o = [name |-> name, node |-> r.node, kind |-> r.kind, occurrences |-> o.occurrences]
    BY <2>2, <2>3, <2>4 DEF SelectedInv
  <2>6. o.node = r.node /\ o.kind = "part"
    BY <2>1, <2>4, <2>5
  <2>7. o \in DirectOutputs
    BY <2>3, <2>4, <2>6 DEF DirectOutputs, Range
  <2>8. c = world.configuration /\ n = o.node
    BY <1>1, <2>1, <2>4, <2>6 DEF LocalPart
  <2>. QED
    BY <2>7, <2>8 DEF Wanted
<1>3. CASE key \notin DirectParts
  <2>1. PICK p \in Everything : p.kind = "part" /\ key = KeyOf(p)
    BY <1>3 DEF AccountedInv, ContextualParts
  <2>2. p.document = Root /\ p.node = n /\ p.configuration = c
    BY <1>1, <2>1 DEF KeyOf, LocalPart, ExternalPart, ExternalLeaf
  <2>. QED
    BY <2>1, <2>2 DEF Wanted
<1>. QED
  BY <1>2, <1>3

\* What is selected in a batch is wanted, and has bodies.
LEMMA SelectionWanted ==
    ASSUME world \in Worlds, PlanInv, CalledInv, AccountedInv, PreparedInv,
           NEW b \in Range(batches), NEW s \in b.selections
    PROVE  /\ <<b.document, b.configuration, s.node>> \in Wanted
           /\ IsFiniteSet(Document(b.document).nodes[s.node].bodies)
<1>1. /\ CountersInv /\ SelectedInv /\ AllSelected /\ IsBatch(b)
      /\ Root \in DOMAIN world.documents /\ Listed(world.requested)
  BY Worldly DEF PlanInv, ResolutionInv, BatchesInv
<1>2. PICK d, c : d = b.document /\ c = b.configuration
  OBVIOUS
<1>3. CASE d = Root
  <2>1. s \in PartSelections(c) \cup DirectSelections(c)
    BY <1>1, <1>2, <1>3 DEF IsBatch
  <2>2. CASE s \in PartSelections(c)
    <3>1. s.node \in LocalParts(c)
      BY <2>2 DEF PartSelections
    <3>2. KindOf(Root, s.node) = "part"
      BY <1>1, <3>1 DEF LocalParts, CountersInv
    <3>3. IsFiniteSet(Document(Root).nodes[s.node].bodies)
      BY <1>1, <3>2, Bodied DEF Nothing
    <3>. QED
      BY <1>1, <1>2, <1>3, <3>1, <3>3, LocalWanted
  <2>3. CASE s \in DirectSelections(c)
    <3>1. PICK o \in DirectOutputs : s.node = o.node /\ c = world.configuration
      BY <2>3 DEF DirectSelections
    <3>. QED
      BY <1>1, <1>2, <1>3, <3>1, DirectBodied DEF Wanted
  <2>. QED
    BY <2>1, <2>2, <2>3
<1>4. CASE d # Root
  <2>1. PICK name \in DOMAIN b.keys : s.node = NodeCalled(d, name)
    BY <1>2, <1>4 DEF CalledInv
  <2>2. b.keys[name] # {} /\ \A key \in b.keys[name] : OfActivePart(key)
    BY <1>2, <1>4 DEF PreparedInv, KeysOwned
  <2>3. PICK key : key \in b.keys[name] /\ OfActivePart(key)
    BY <2>2
  <2>4. key.document = d /\ key.configuration = c /\ key.node = s.node
    BY <1>2, <1>4, <2>1, <2>3 DEF CalledInv, KeysCalled
  <2>5. IsFiniteSet(Document(d).nodes[s.node].bodies)
    BY <2>3, <2>4, Bodied DEF OfActivePart, Nothing
  <2>6. <<d, c, s.node>> \in Wanted
    BY <2>3, <2>4 DEF OfActivePart, Wanted
  <2>. QED
    BY <1>2, <2>5, <2>6
<1>. QED
  BY <1>3, <1>4

\* What is wanted is selected in a batch, when all of them are prepared.
LEMMA WantedSelected ==
    ASSUME world \in Worlds, PlanInv, ViewInv, stage = "execute", NEW x \in Wanted
    PROVE  \E b \in Range(batches) : \E s \in b.selections :
              x = <<b.document, b.configuration, s.node>>
<1>1. /\ SelectedInv /\ ResolutionInv /\ AllPrepared /\ Listed(batches) /\ AllSelected
      /\ \A b \in Range(batches) : IsBatch(b)
      /\ OwnersInv /\ CalledInv
  BY DEF PlanInv, ResolutionInv, BatchesInv, ViewInv
<1>2. ASSUME NEW c \in LocalContexts
      PROVE  \E b \in Range(batches) :
                /\ b.document = Root /\ b.configuration = c
                /\ b.selections = PartSelections(c) \cup DirectSelections(c)
  <2>1. PICK j \in DOMAIN batches : batches[j].document = Root /\ batches[j].configuration = c
    BY <1>1 DEF AllPrepared, Prepared
  <2>2. PICK b : b = batches[j]
    OBVIOUS
  <2>3. b \in Range(batches)
    BY <2>2 DEF Range
  <2>. QED
    BY <1>1, <2>1, <2>2, <2>3 DEF IsBatch
<1>3. ASSUME NEW o \in DirectOutputs, x = <<Root, world.configuration, o.node>>
      PROVE  \E b \in Range(batches) : \E s \in b.selections :
                x = <<b.document, b.configuration, s.node>>
  <2>1. world.configuration \in LocalContexts
    BY DEF LocalContexts
  <2>2. PICK b \in Range(batches) :
           /\ b.document = Root /\ b.configuration = world.configuration
           /\ DirectSelections(world.configuration) \subseteq b.selections
    BY <1>2, <2>1
  <2>3. PICK s : s = [name |-> Plain(o.name), node |-> o.node, kind |-> o.kind]
    OBVIOUS
  <2>4. s \in DirectSelections(world.configuration) /\ s.node = o.node
    BY <2>3 DEF DirectSelections
  <2>. QED
    BY <1>3, <2>2, <2>4
<1>4. ASSUME NEW p \in Everything, p.kind = "part",
             x = <<p.document, p.configuration, p.node>>
      PROVE  \E b \in Range(batches) : \E s \in b.selections :
                x = <<b.document, b.configuration, s.node>>
  <2>1. PICK k \in AssemblyOutputs : p \in Parts(k)
    BY <1>4 DEF Everything, Parts
  <2>2. k \in DOMAIN selectedOrder
    <3>1. k \in DOMAIN world.requested /\ Listed(world.requested)
      BY Worldly DEF AssemblyOutputs
    <3>. QED
      BY <1>1, <3>1, Lists DEF SelectedInv, AllSelected
  <2>3. PICK list : list = selectedOrder[k].occurrences
    OBVIOUS
  <2>4. /\ OnList(list, p.path)
        /\ \A o \in Range(list) : OwnPart(k, o) /\ Resolved(o)
    BY <1>1, <2>1, <2>2, <2>3 DEF OwnersInv, ResolutionInv
  <2>5. PICK o \in Range(list) : o.path = p.path
    BY <2>4 DEF OnList
  <2>6. PICK q \in Parts(k) : Same(q, o) /\ OfKind(q, o) /\ o.node = q.node
    BY <2>4 DEF OwnPart, Stands
  <2>7. q = p
    BY <2>1, <2>5, <2>6, PartsReached, UniquePosition DEF Same
  <2>8. /\ o.document = p.document /\ o.configuration = p.configuration /\ o.node = p.node
    BY <2>6, <2>7 DEF Same
  <2>9. /\ Resolved(o) /\ Found(o) /\ IsOccurrence(o)
    BY <2>4 DEF Resolved, Found
  <2>10. CASE o.source = "local"
    <3>1. o.document = Root /\ LocalPart(o.node, o.configuration) \in charged.parts
      BY <2>9, <2>10 DEF Found, IsOccurrence, PartKey
    <3>2. PICK key : key \in charged.parts /\ key = <<"local", Root, o.node, o.configuration>>
      BY <3>1 DEF LocalPart
    <3>3. key[1] = "local" /\ key[3] = o.node /\ key[4] = o.configuration
      BY <3>2
    <3>4. o.node \in LocalParts(o.configuration) /\ o.configuration \in LocalContexts
      BY <3>2, <3>3 DEF LocalParts, LocalContexts
    <3>5. PICK b \in Range(batches) :
             /\ b.document = Root /\ b.configuration = o.configuration
             /\ PartSelections(o.configuration) \subseteq b.selections
      BY <1>2, <3>4
    <3>6. PICK s : s = [name |-> PartName(o.node), node |-> o.node, kind |-> "part"]
      OBVIOUS
    <3>7. s \in PartSelections(o.configuration) /\ s.node = o.node
      BY <3>4, <3>6 DEF PartSelections
    <3>. QED
      BY <1>4, <2>8, <3>1, <3>5, <3>7
  <2>11. CASE o.source = "external"
    <3>1. PICK key : key = BatchKey(o)
      OBVIOUS
    <3>2. PICK own : own = ComponentKey(o)
      OBVIOUS
    <3>3. PICK name \in DOMAIN external[key].keys : own \in external[key].keys[name]
      BY <2>9, <2>11, <3>1, <3>2 DEF Resolved
    <3>4. key \in DOMAIN external
      BY <2>9, <2>11, <3>1 DEF Resolved, Has
    <3>5. PICK j \in DOMAIN batches : batches[j].keys = external[key].keys
      BY <1>1, <3>4 DEF AllPrepared, ExternalPrepared
    <3>6. PICK b : b = batches[j]
      OBVIOUS
    <3>7. b \in Range(batches) /\ name \in DOMAIN b.keys /\ own \in b.keys[name]
      BY <3>3, <3>5, <3>6 DEF Range
    <3>8. b.document # Root
      <4>1. SUFFICES ASSUME b.keys = <<>> PROVE FALSE
        BY <1>1, <3>7 DEF IsBatch
      <4>. QED
        BY <3>7, <4>1
    <3>9. /\ own.document = b.document /\ own.configuration = b.configuration
          /\ own.node = NodeCalled(b.document, name)
      BY <1>1, <3>7, <3>8 DEF CalledInv, KeysCalled
    <3>10. PICK s : s = [name |-> name, node |-> NodeCalled(b.document, name), kind |-> "part"]
      OBVIOUS
    <3>11. s \in b.selections /\ s.node = own.node
      BY <1>1, <3>7, <3>8, <3>9, <3>10 DEF CalledInv
    <3>12. own.document = o.document /\ own.configuration = o.configuration /\ own.node = o.node
      BY <3>2 DEF ComponentKey
    <3>. QED
      BY <1>4, <2>8, <3>7, <3>9, <3>11, <3>12
  <2>. QED
    BY <2>9, <2>10, <2>11 DEF IsOccurrence
<1>. QED
  BY <1>3, <1>4 DEF Wanted

\* A batch makes as many solids as its selections are charged for.
LEMMA MadeCount ==
    ASSUME NEW b, IsFiniteSet(b.selections),
           \A s \in b.selections : IsFiniteSet(Document(b.document).nodes[s.node].bodies)
    PROVE  /\ IsFiniteSet(Made(b))
           /\ Cardinality(Made(b)) = Solids(b.document, b.selections)
<1> DEFINE of == [s \in b.selections |-> Document(b.document).nodes[s.node].bodies]
           B == UNION {Document(b.document).nodes[s.node].bodies : s \in b.selections}
           triple == [solid \in B |-> <<b.document, b.configuration, solid>>]
           solid == [x \in Made(b) |-> x[3]]
<1>1. IsFiniteSet(B)
  <2>1. \A T \in {of[s] : s \in b.selections} : IsFiniteSet(T)
    OBVIOUS
  <2>2. IsFiniteSet({of[s] : s \in b.selections})
    BY FiniteImage
  <2>3. B = UNION {of[s] : s \in b.selections}
    OBVIOUS
  <2> HIDE DEF of, B
  <2>. QED
    BY <2>1, <2>2, <2>3, FS_UNION
<1>2. Made(b) = {<<b.document, b.configuration, y>> : y \in B}
  <2>1. ASSUME NEW x \in Made(b) PROVE x \in {<<b.document, b.configuration, y>> : y \in B}
    BY DEF Made, SolidsOf
  <2>2. ASSUME NEW y \in B PROVE <<b.document, b.configuration, y>> \in Made(b)
    BY DEF Made, SolidsOf
  <2>. QED
    BY <2>1, <2>2
<1>. HIDE DEF B
<1>3. triple \in [B -> Made(b)] /\ \A x, y \in B : triple[x] = triple[y] => x = y
  BY <1>2
<1>4. solid \in [Made(b) -> B] /\ \A x, y \in Made(b) : solid[x] = solid[y] => x = y
  BY <1>2
<1>. HIDE DEF triple, solid
<1>5. /\ IsFiniteSet(Made(b)) /\ Cardinality(Made(b)) \in Nat
      /\ Cardinality(Made(b)) <= Cardinality(B)
  BY <1>1, <1>4, NoMoreThan
<1>6. Cardinality(B) \in Nat /\ Cardinality(B) <= Cardinality(Made(b))
  BY <1>3, <1>5, NoMoreThan
<1>7. Cardinality(Made(b)) = Cardinality(B)
  BY <1>5, <1>6
<1>. QED
  BY <1>5, <1>7 DEF B, Solids

\* Another batch, of a document and configuration that have none yet.
LEMMA BatchIsOther ==
    ASSUME PreparedInv, Listed(batches), NEW b, batches' = Append(batches, b),
           UNCHANGED <<world, external>>,
           \A j \in DOMAIN batches :
              ~(batches[j].document = b.document /\ batches[j].configuration = b.configuration),
           b.document # Root =>
              LET key == <<b.document, b.configuration>>
              IN key \in DOMAIN external /\ external[key].keys = b.keys,
           IsFiniteSet(b.selections)
    PROVE  PreparedInv'
<1>1. \A keys : KeysOwned(keys)' <=> KeysOwned(keys)
  BY SameParts
<1>2. Listed(batches') /\ Range(batches') = Range(batches) \cup {b}
  BY ListAppend
<1>3. PICK n \in Nat : n = Len(batches)
  BY Lists
<1>4. /\ DOMAIN batches = 1 .. n /\ DOMAIN batches' = 1 .. n + 1 /\ batches'[n + 1] = b
      /\ \A j \in 1 .. n : batches'[j] = batches[j]
  BY <1>3, ListAppend, Lists
<1>5. ASSUME NEW i \in DOMAIN batches', NEW j \in DOMAIN batches',
             batches'[i].document = batches'[j].document,
             batches'[i].configuration = batches'[j].configuration
      PROVE  i = j
  <2>1. CASE i = n + 1
    <3>1. ~(j \in 1 .. n)
      BY <1>4, <1>5, <2>1
    <3>. QED
      BY <1>4, <2>1, <3>1
  <2>2. CASE j = n + 1
    <3>1. ~(i \in 1 .. n)
      BY <1>4, <1>5, <2>2
    <3>. QED
      BY <1>4, <2>2, <3>1
  <2>3. CASE i \in 1 .. n /\ j \in 1 .. n
    BY <1>4, <1>5, <2>3 DEF PreparedInv
  <2>. QED
    BY <1>4, <2>1, <2>2, <2>3
<1>6. /\ \A key \in DOMAIN external : KeysOwned(external[key].keys)
      /\ \A x \in Range(batches) : x.document # Root =>
            LET key == <<x.document, x.configuration>>
            IN key \in DOMAIN external /\ external[key].keys = x.keys
      /\ \A x \in Range(batches) : IsFiniteSet(x.selections)
  BY DEF PreparedInv
<1>. QED
  BY <1>1, <1>2, <1>5, <1>6 DEF PreparedInv

\* The component that an external occurrence is resolved to is that of an active part.
LEMMA ResolvedComponent ==
    ASSUME CountersInv, NEW k, NEW o, FoundAt(k, o), Found(o), o.source = "external",
           NEW d, d = o.document, Sound(d, o.output),
           Document(d).outputs[o.output].kind = o.kind,
           NEW node,
           node = IF o.kind = "part" THEN Document(d).outputs[o.output].node ELSE o.node,
           NEW p, OwnPart(k, p), p.document = d, p.node = node,
           p.configuration = o.configuration
    PROVE  OfActivePart(ComponentKey(p))
<1>1. PICK key : key = ComponentKey(p)
  OBVIOUS
<1>2. key.document = d /\ key.configuration = o.configuration /\ key.node = node
  BY <1>1 DEF ComponentKey
<1>3. d \in DOMAIN world.documents /\ k \in AssemblyOutputs
  BY DEF FoundAt
<1>4. KindOf(d, node) = "part"
  <2>1. CASE o.kind = "part"
    BY <2>1 DEF Sound
  <2>2. CASE o.kind # "part"
    <3>1. ExternalLeaf(d, o.node, o.configuration) \in charged.parts
      BY <2>2 DEF Found, PartKey
    <3>2. PICK leaf \in charged.parts : leaf = <<"leaf", d, o.node, o.configuration>>
      BY <3>1 DEF ExternalLeaf
    <3>3. leaf[1] = "leaf" /\ leaf[2] = d /\ leaf[3] = o.node
      BY <3>2
    <3>. QED
      BY <2>2, <3>3 DEF CountersInv
  <2>. QED
    BY <2>1, <2>2
<1>5. PICK q \in Parts(k) : Same(q, p) /\ p.node = q.node
  BY DEF OwnPart, Stands
<1>6. /\ q \in Everything /\ q.kind = "part" /\ q.document = d
      /\ q.configuration = o.configuration /\ q.node = node
  BY <1>3, <1>5 DEF Parts, Everything, Same
<1>7. OfActivePart(key)
  BY <1>2, <1>3, <1>4, <1>6 DEF OfActivePart
<1>. QED
  BY <1>1, <1>7

LEMMA ResolveExternalKeepsGeometry ==
    ASSUME world \in Worlds, PlanInv, ViewInv, PreparedInv, ResolveExternal,
           stage' # "failed"
    PROVE  PreparedInv'
<1>1. PICK o, d, name, key, batch :
         /\ o = Head(queue) /\ d = o.document /\ key = BatchKey(o)
         /\ name = (IF o.kind = "part" THEN Plain(o.output) ELSE LeafName(d, o.node))
         /\ batch = (IF Has(external, key) THEN external[key] ELSE EmptyBatch)
  OBVIOUS
<1>2. PICK p : p = IF o.kind = "part"
                   THEN [o EXCEPT !.node = Document(d).outputs[o.output].node]
                   ELSE o
  OBVIOUS
<1>3. /\ stage = "resolve" /\ queue # <<>> /\ o.source = "external"
      /\ Has(Document(d).outputs, o.output) /\ Sound(d, o.output)
      /\ Document(d).outputs[o.output].kind = o.kind
      /\ external' = With(external, key, WithOccurrence(batch, name, p))
      /\ UNCHANGED <<world, batches>>
  BY <1>1, <1>2, ExternalResolves
<1>4. Listed(queue) /\ batches = <<>> /\ CountersInv
  BY <1>3 DEF PlanInv, ResolutionInv, BatchesInv
<1>5. o \in Range(queue)
  BY <1>1, <1>3, <1>4, ListTail
<1>6. Found(o) /\ FoundAt(outputIndex, o)
  BY <1>3, <1>5 DEF PlanInv, ResolutionInv, ViewInv, OwnersInv
<1>7. PICK node : node = IF o.kind = "part" THEN Document(d).outputs[o.output].node ELSE o.node
  OBVIOUS
<1>8. p = [source |-> o.source, document |-> o.document, output |-> o.output,
           kind |-> o.kind, node |-> node, path |-> o.path,
           configuration |-> o.configuration, depth |-> o.depth]
  <2>1. o = [source |-> o.source, document |-> o.document, output |-> o.output,
             kind |-> o.kind, node |-> o.node, path |-> o.path,
             configuration |-> o.configuration, depth |-> o.depth]
    BY <1>6 DEF Found, IsOccurrence
  <2>2. CASE o.kind = "part"
    <3>1. p = [o EXCEPT !.node = node]
      BY <1>2, <1>7, <2>2
    <3>. QED
      BY <2>1, <3>1
  <2>3. CASE o.kind # "part"
    BY <1>2, <1>7, <2>1, <2>3
  <2>. QED
    BY <2>2, <2>3
<1>9. OwnPart(outputIndex, p)
  <2>1. /\ Has(Document(d).outputs, o.output) /\ Sound(d, o.output)
        /\ Document(d).outputs[o.output].kind = o.kind /\ o.source = "external"
        /\ d = o.document
        /\ name = IF o.kind = "part" THEN Plain(o.output) ELSE LeafName(d, o.node)
    BY <1>1, <1>3
  <2>. QED
    BY <1>6, <1>7, <1>8, <2>1, ResolvedExternal
<1>10. p.node = node /\ p.document = d /\ p.configuration = o.configuration
  BY <1>1, <1>8
<1>11. PICK own : own = ComponentKey(p)
  OBVIOUS
<1>12. OfActivePart(own)
  BY <1>1, <1>3, <1>4, <1>6, <1>7, <1>9, <1>10, <1>11, ResolvedComponent
<1>13. PICK before, after :
          /\ before = (IF Has(batch.keys, name) THEN batch.keys[name] ELSE {})
          /\ after = WithOccurrence(batch, name, p)
  OBVIOUS
<1>14. /\ DOMAIN external' = DOMAIN external \cup {key} /\ external'[key] = after
       /\ \A x \in DOMAIN external : x # key => external'[x] = external[x]
  BY <1>3, <1>13 DEF With, Updated, Has
<1>15. after.keys = With(batch.keys, name, before \cup {own})
  BY <1>11, <1>13 DEF WithOccurrence
<1>16. /\ DOMAIN after.keys = DOMAIN batch.keys \cup {name}
       /\ after.keys[name] = before \cup {own}
       /\ \A n \in DOMAIN batch.keys : n # name => after.keys[n] = batch.keys[n]
  BY <1>15 DEF With, Updated, Has
<1>17. KeysOwned(batch.keys)
  <2>1. CASE Has(external, key)
    BY <1>1, <2>1 DEF Has, PreparedInv
  <2>2. CASE ~Has(external, key)
    <3>1. DOMAIN batch.keys = {}
      BY <1>1, <2>2 DEF EmptyBatch
    <3>. QED
      BY <3>1 DEF KeysOwned
  <2>. QED
    BY <2>1, <2>2
<1>18. \A x \in before : OfActivePart(x)
  BY <1>13, <1>17 DEF KeysOwned, Has
<1>19. KeysOwned(after.keys)
  BY <1>12, <1>16, <1>17, <1>18 DEF KeysOwned
<1>20. \A keys : KeysOwned(keys)' <=> KeysOwned(keys)
  BY <1>3, SameParts
<1>21. \A x \in DOMAIN external' : KeysOwned(external'[x].keys)
  BY <1>14, <1>19 DEF PreparedInv
<1>22. Range(batches') = {} /\ DOMAIN batches' = {}
  BY <1>3, <1>4, EmptyList
<1>. QED
  BY <1>20, <1>21, <1>22 DEF PreparedInv

\* Every batch is of another document or configuration.
LEMMA PrepareKeepsGeometry ==
    ASSUME world \in Worlds, PlanInv, PreparedInv, PrepareLocal \/ PrepareExternal,
           stage' # "failed"
    PROVE  PreparedInv'
<1>1. Listed(batches) /\ CountersInv /\ SelectedInv
  BY DEF PlanInv, BatchesInv
<1>2. CASE PrepareLocal
  <2>1. PICK c : /\ ~Prepared(Root, c)
                 /\ \E ambiguous :
                       Prepare(Root, c, PartSelections(c) \cup DirectSelections(c), <<>>,
                               ambiguous)
    BY <1>2 DEF PrepareLocal
  <2>2. PICK S, none : S = PartSelections(c) \cup DirectSelections(c) /\ none = <<>>
    OBVIOUS
  <2>3. PICK ambiguous : Prepare(Root, c, S, none, ambiguous)
    BY <2>1, <2>2
  <2>4. PICK b : b = [document |-> Root, configuration |-> c, selections |-> S, keys |-> none]
    OBVIOUS
  <2>5. batches' = Append(batches, b) /\ UNCHANGED <<world, external>>
    BY <2>3, <2>4, Prepares
  <2>6. b.document = Root /\ b.configuration = c /\ b.selections = S
    BY <2>4
  <2>7. IsFiniteSet(S)
    <3>1. IsFiniteSet(PartSelections(c)) /\ IsFiniteSet(DirectSelections(c))
      BY <1>1, PartSelectionsBound, DirectSelectionsBound
    <3>. QED
      BY <2>2, <3>1, FS_Union
  <2>8. \A j \in DOMAIN batches :
           ~(batches[j].document = b.document /\ batches[j].configuration = b.configuration)
    BY <2>1, <2>6 DEF Prepared
  <2>. QED
    BY <1>1, <2>5, <2>6, <2>7, <2>8, BatchIsOther
<1>3. CASE PrepareExternal
  <2>1. PICK key \in DOMAIN external :
           /\ ~ExternalPrepared(external[key])
           /\ Prepare(external[key].document, external[key].configuration,
                      SelectionsOf(external[key]), external[key].keys, FALSE)
    BY <1>3 DEF PrepareExternal, SelectionsOf
  <2>2. PICK d, c, S, keys, batch :
           /\ batch = external[key]
           /\ d = batch.document /\ c = batch.configuration
           /\ S = SelectionsOf(batch) /\ keys = batch.keys
    OBVIOUS
  <2>3. PICK b : b = [document |-> d, configuration |-> c, selections |-> S, keys |-> keys]
    OBVIOUS
  <2>4. batches' = Append(batches, b) /\ UNCHANGED <<world, external>>
    <3>1. Prepare(d, c, S, keys, FALSE)
      BY <2>1, <2>2
    <3>2. /\ batches' = Append(batches, [document |-> d, configuration |-> c,
                                         selections |-> S, keys |-> keys])
          /\ UNCHANGED <<world, external>>
      BY <3>1, Prepares
    <3>. QED
      BY <2>3, <3>2
  <2>5. b.document = d /\ b.configuration = c /\ b.selections = S /\ b.keys = keys
    BY <2>3
  <2>6. key = <<d, c>> /\ d # Root /\ IsPlanned(key, batch)
    BY <2>2 DEF PlanInv, ExternalInv, IsPlanned
  <2>7. IsFiniteSet(S)
    BY <1>1, <2>2, <2>6, ExternalSelectionsFit
  <2>8. ASSUME NEW j \in DOMAIN batches,
               batches[j].document = d, batches[j].configuration = c
        PROVE  FALSE
    <3>1. PICK x : x = batches[j]
      OBVIOUS
    <3>2. x \in Range(batches)
      BY <3>1 DEF Range
    <3>3. external[key].keys = x.keys
      BY <2>6, <2>8, <3>1, <3>2 DEF PreparedInv
    <3>. QED
      BY <2>1, <3>1, <3>3 DEF ExternalPrepared
  <2>9. \A j \in DOMAIN batches :
           ~(batches[j].document = b.document /\ batches[j].configuration = b.configuration)
    BY <2>5, <2>8
  <2>10. b.document # Root =>
            LET x == <<b.document, b.configuration>>
            IN x \in DOMAIN external /\ external[x].keys = b.keys
    BY <2>2, <2>5, <2>6
  <2>. QED
    BY <1>1, <2>4, <2>5, <2>7, <2>9, <2>10, BatchIsOther
<1>. QED
  BY <1>2, <1>3

\* Charging a batch pays for what it makes, and no batch before it makes any of that.
LEMMA ChargeKeepsGeometry ==
    ASSUME world \in Worlds, PlanInv, CalledInv, AccountedInv, PreparedInv, SpentInv,
           ChargeBatch, stage' # "failed"
    PROVE  SpentInv'
<1>1. /\ stage = "charge" /\ stage' = "charge" /\ batchIndex <= Len(batches)
      /\ spent'.solids = spent.solids + Solids(Batch.document, Batch.selections)
      /\ batchIndex' = batchIndex + 1
      /\ UNCHANGED <<world, batches>>
  BY DEF ChargeBatch, Remaining, RefusePlan, Refuse, vars
<1>2. /\ Listed(batches) /\ batchIndex \in Nat /\ batchIndex # 0
  BY <1>1 DEF PlanInv, BatchesInv, ResultsInv
<1>3. PICK n \in Nat : n = batchIndex
  BY <1>2
<1>4. PICK last \in Nat : last = Len(batches) /\ DOMAIN batches = 1 .. last
  BY <1>2, Lists
<1>5. n \in DOMAIN batches
  BY <1>1, <1>2, <1>3, <1>4
<1>6. PICK b : b = batches[n]
  OBVIOUS
<1>7. b \in Range(batches) /\ b = Batch
  BY <1>3, <1>5, <1>6 DEF Range, Batch
<1>8. /\ IsFiniteSet(Made(b))
      /\ Cardinality(Made(b)) = Solids(b.document, b.selections)
  <2>1. /\ IsFiniteSet(b.selections)
        /\ \A s \in b.selections : IsFiniteSet(Document(b.document).nodes[s.node].bodies)
    BY <1>7, SelectionWanted DEF PreparedInv
  <2>. QED
    BY <2>1, MadeCount
<1>9. PICK before, made : before = MadeBefore(n) /\ made = Made(b)
  OBVIOUS
<1>10. IsFiniteSet(before) /\ spent.solids = Cardinality(before)
  BY <1>1, <1>3, <1>9 DEF SpentInv
<1>11. before \cap made = {}
  <2>1. SUFFICES ASSUME NEW x \in before, x \in made PROVE FALSE
    OBVIOUS
  <2>2. PICK j \in DOMAIN batches : j < n /\ x \in Made(batches[j])
    BY <1>9, <2>1 DEF MadeBefore
  <2>3. PICK e : e = batches[j]
    OBVIOUS
  <2>4. \A y : x \in Made(y) => x[1] = y.document /\ x[2] = y.configuration
    BY DEF Made, SolidsOf
  <2>5. e.document = b.document /\ e.configuration = b.configuration
    BY <1>9, <2>1, <2>2, <2>3, <2>4
  <2>6. j = n
    BY <1>5, <1>6, <2>3, <2>5 DEF PreparedInv
  <2>. QED
    BY <1>4, <2>2, <2>6
<1>12. MadeBefore(n + 1) = before \cup made
  <2>1. {i \in DOMAIN batches : i < n + 1} = {i \in DOMAIN batches : i < n} \cup {n}
    BY <1>4, <1>5
  <2>. QED
    BY <1>6, <1>9, <2>1 DEF MadeBefore
<1>13. /\ IsFiniteSet(before \cup made)
       /\ Cardinality(before \cup made) = Cardinality(before) + Cardinality(made)
  <2>1. /\ IsFiniteSet(before \cup made)
        /\ Cardinality(before \cup made)
             = Cardinality(before) + Cardinality(made) - Cardinality(before \cap made)
    BY <1>8, <1>9, <1>10, FS_Union
  <2>2. Cardinality(before \cap made) = 0
    BY <1>11, FS_EmptySet
  <2>3. Cardinality(before) \in Nat /\ Cardinality(made) \in Nat
    BY <1>8, <1>9, <1>10, FS_CardinalityType
  <2>. QED
    BY <2>1, <2>2, <2>3
<1>14. /\ IsFiniteSet(MadeBefore(n + 1))
       /\ spent'.solids = Cardinality(MadeBefore(n + 1))
  BY <1>1, <1>7, <1>8, <1>9, <1>10, <1>12, <1>13
<1>15. MadeBefore(n + 1)' = MadeBefore(n + 1)
  <2>1. \A x : Made(x)' = Made(x)
    BY <1>1, SameParts
  <2>. QED
    BY <1>1, <2>1 DEF MadeBefore
<1>16. batchIndex' = n + 1
  BY <1>1, <1>3
<1>17. MadeBefore(batchIndex)' = MadeBefore(n + 1)
  BY <1>15, <1>16 DEF MadeBefore
<1>. QED
  BY <1>1, <1>14, <1>17 DEF SpentInv

\* When every batch is charged, what is made by them is paid for.
LEMMA ChargingEnds ==
    ASSUME PlanInv, SpentInv, BeginExecution
    PROVE  SpentInv'
<1>1. /\ stage = "charge" /\ stage' = "execute" /\ ~(batchIndex <= Len(batches))
      /\ UNCHANGED <<world, batches, spent>>
  BY DEF BeginExecution, Remaining
<1>2. Listed(batches) /\ batchIndex \in Nat
  BY <1>1 DEF PlanInv, BatchesInv, ResultsInv
<1>3. DOMAIN batches = 1 .. Len(batches) /\ Len(batches) \in Nat
  BY <1>2, Lists
<1>4. {i \in DOMAIN batches : i < batchIndex} = DOMAIN batches
  BY <1>1, <1>2, <1>3
<1>5. MadeBefore(batchIndex) = MadeByAll
  BY <1>4 DEF MadeBefore, MadeByAll, Range
<1>6. \A x : Made(x)' = Made(x)
  BY <1>1, SameParts
<1>7. MadeByAll' = MadeByAll
  BY <1>1, <1>6 DEF MadeByAll
<1>. QED
  BY <1>1, <1>5, <1>7 DEF SpentInv

\* What the batches make is what is wanted.
LEMMA WantedIsMade ==
    ASSUME world \in Worlds, PlanInv, ViewInv, AccountedInv, PreparedInv, stage = "execute"
    PROVE  MadeByAll = UNION {SolidsOf(x) : x \in Wanted}
<1>1. ASSUME NEW y \in MadeByAll PROVE y \in UNION {SolidsOf(x) : x \in Wanted}
  <2>1. PICK b \in Range(batches) : y \in Made(b)
    BY DEF MadeByAll
  <2>2. PICK s \in b.selections : y \in SolidsOf(<<b.document, b.configuration, s.node>>)
    BY <2>1 DEF Made
  <2>3. <<b.document, b.configuration, s.node>> \in Wanted
    BY SelectionWanted DEF ViewInv
  <2>. QED
    BY <2>2, <2>3
<1>2. ASSUME NEW x \in Wanted, NEW y \in SolidsOf(x) PROVE y \in MadeByAll
  <2>1. PICK b \in Range(batches) : \E s \in b.selections :
           x = <<b.document, b.configuration, s.node>>
    BY WantedSelected
  <2>2. y \in Made(b)
    BY <1>2, <2>1 DEF Made
  <2>. QED
    BY <2>2 DEF MadeByAll
<1>. QED
  BY <1>1, <1>2

LEMMA GeometryInvInit == PlanInit => GeometryInv
BY DEF PlanInit, Init, NothingCharged, GeometryInv, AccountedInv

\* A step of the plan that neither counts nor prepares anything.
LEMMA QuietGeometry ==
    ASSUME AccountedInv, PreparedInv, UNCHANGED <<world, charged, external, batches>>
    PROVE  AccountedInv' /\ PreparedInv'
<1>1. /\ ContextualParts' = ContextualParts
      /\ \A keys : KeysOwned(keys)' <=> KeysOwned(keys)
  BY SameParts
<1>2. AccountedInv'
  BY <1>1 DEF AccountedInv
<1>3. PreparedInv'
  BY <1>1 DEF PreparedInv
<1>. QED
  BY <1>2, <1>3

LEMMA GeometryInvStep ==
    ASSUME ProductInv, OwnedInv, GeometryInv, PlanNext
    PROVE  GeometryInv'
<1>1. world \in Worlds /\ AccountedInv
  BY DEF ProductInv, GeometryInv
<1>2. stage \in {"resolve", "prepare", "charge", "execute"} =>
         PlanInv /\ ViewInv /\ CalledInv /\ PreparedInv /\ SpentInv
  BY DEF ProductInv, WalkInv, Failed, OwnedInv, ViewInv, GeometryInv
<1>3. world' = world /\ charged' = charged => AccountedInv'
  <2>1. SUFFICES ASSUME world' = world, charged' = charged PROVE AccountedInv'
    OBVIOUS
  <2>2. ContextualParts' = ContextualParts
    BY <2>1, SameParts
  <2>. QED
    BY <1>1, <2>1, <2>2 DEF AccountedInv
<1>4. CASE Traverse
  <2>1. Next /\ UNCHANGED <<spent>>
    BY <1>4 DEF Traverse, planVars
  <2>2. WalkInv /\ PlacesInv /\ spent.solids = 0
    BY <2>1, WalkIsOver DEF ProductInv, OwnedInv, WalkInv, PlanInv, Failed, GeometryInv
  <2>3. AccountedInv'
    BY <1>1, <2>1, <2>2, WalkAccounts
  <2>4. stage' \in {"begin", "select", "walk", "expand", "traversed", "failed"}
    BY <1>1, <2>1, <2>2, WalkStep DEF WalkInv, Failed
  <2>. QED
    BY <2>1, <2>2, <2>3, <2>4 DEF GeometryInv
<1>5. CASE BeginPlan
  <2>1. /\ stage = "traversed" /\ stage' = "resolve"
        /\ UNCHANGED <<world, charged, external, batches, spent>>
    BY <1>5 DEF BeginPlan, planVars
  <2>2. external = <<>> /\ batches = <<>> /\ spent.solids = 0
    BY <2>1 DEF ProductInv, PlanInv, Failed, Unplanned, GeometryInv
  <2>3. DOMAIN external' = {} /\ Range(batches') = {} /\ DOMAIN batches' = {}
    BY <2>1, <2>2, EmptyList
  <2>4. PreparedInv'
    BY <2>3 DEF PreparedInv
  <2>. QED
    BY <1>3, <2>1, <2>2, <2>4 DEF GeometryInv, SpentInv
<1>6. ASSUME UNCHANGED <<world, charged>>, stage' \in {"failed", "done"}
      PROVE  GeometryInv'
  BY <1>3, <1>6 DEF GeometryInv
<1>7. ASSUME UNCHANGED <<world, charged>>, PreparedInv', SpentInv',
             stage' \in {"resolve", "prepare", "charge", "execute"}
      PROVE  GeometryInv'
  BY <1>3, <1>7 DEF GeometryInv
<1>8. CASE ResolveLocal \/ FinishResolution
  <2>1. /\ stage = "resolve" /\ stage' \in {"resolve", "prepare"}
        /\ UNCHANGED <<world, charged, external, batches, spent>>
    BY <1>8 DEF ResolveLocal, Resolving, FinishResolution, FinishOutput, planVars
  <2>2. PreparedInv'
    BY <1>1, <1>2, <2>1, QuietGeometry
  <2>3. SpentInv'
    BY <1>2, <2>1 DEF SpentInv
  <2>. QED
    BY <1>7, <2>1, <2>2, <2>3
<1>9. CASE ResolveExternal
  <2>1. /\ stage = "resolve" /\ stage' \in {"resolve", "failed"}
        /\ UNCHANGED <<world, charged, spent>>
    BY <1>9 DEF ResolveExternal, Resolving, RefusePlan, Refuse, planVars
  <2>2. CASE stage' = "failed"
    BY <1>6, <2>1, <2>2
  <2>3. CASE stage' = "resolve"
    <3>1. PreparedInv'
      BY <1>1, <1>2, <1>9, <2>1, <2>3, ResolveExternalKeepsGeometry
    <3>2. SpentInv'
      BY <1>2, <2>1, <2>3 DEF SpentInv
    <3>. QED
      BY <1>7, <2>1, <2>3, <3>1, <3>2
  <2>. QED
    BY <2>1, <2>2, <2>3
<1>10. CASE PrepareLocal \/ PrepareExternal
  <2>1. /\ stage = "prepare" /\ stage' \in {"prepare", "failed"}
        /\ UNCHANGED <<world, charged, spent>>
    BY <1>10 DEF PrepareLocal, PrepareExternal, Prepare, RefusePlan, Refuse, vars, planVars
  <2>2. CASE stage' = "failed"
    BY <1>6, <2>1, <2>2
  <2>3. CASE stage' = "prepare"
    <3>1. PreparedInv'
      BY <1>1, <1>2, <1>10, <2>1, <2>3, PrepareKeepsGeometry
    <3>2. SpentInv'
      BY <1>2, <2>1, <2>3 DEF SpentInv
    <3>. QED
      BY <1>7, <2>1, <2>3, <3>1, <3>2
  <2>. QED
    BY <2>1, <2>2, <2>3
<1>11. CASE FinishPreparation
  <2>1. /\ stage = "prepare" /\ stage' = "charge" /\ batchIndex' = 1
        /\ UNCHANGED <<world, charged, external, batches, spent>>
    BY <1>11 DEF FinishPreparation
  <2>2. PreparedInv'
    BY <1>1, <1>2, <2>1, QuietGeometry
  <2>3. MadeBefore(batchIndex)' = {}
    <3>1. Listed(batches)
      BY <1>2, <2>1 DEF PlanInv, BatchesInv
    <3>2. {i \in DOMAIN batches : i < 1} = {}
      BY <3>1, Lists
    <3>. QED
      BY <2>1, <3>2 DEF MadeBefore
  <2>4. SpentInv'
    BY <1>2, <2>1, <2>3, FS_EmptySet DEF SpentInv
  <2>. QED
    BY <1>7, <2>1, <2>2, <2>4
<1>12. CASE ChargeBatch
  <2>1. /\ stage = "charge" /\ stage' \in {"charge", "failed"}
        /\ UNCHANGED <<world, charged, external, batches>>
    BY <1>12 DEF ChargeBatch, RefusePlan, Refuse, vars, planVars
  <2>2. CASE stage' = "failed"
    BY <1>6, <2>1, <2>2
  <2>3. CASE stage' = "charge"
    <3>1. PreparedInv'
      BY <1>1, <1>2, <2>1, QuietGeometry
    <3>2. SpentInv'
      BY <1>1, <1>2, <1>12, <2>1, <2>3, ChargeKeepsGeometry
    <3>. QED
      BY <1>7, <2>1, <2>3, <3>1, <3>2
  <2>. QED
    BY <2>1, <2>2, <2>3
<1>13. CASE BeginExecution
  <2>1. /\ stage = "charge" /\ stage' = "execute"
        /\ UNCHANGED <<world, charged, external, batches>>
    BY <1>13 DEF BeginExecution
  <2>2. PreparedInv'
    BY <1>1, <1>2, <2>1, QuietGeometry
  <2>3. SpentInv'
    BY <1>2, <1>13, <2>1, ChargingEnds
  <2>. QED
    BY <1>7, <2>1, <2>2, <2>3
<1>14. CASE ExecuteBatch
  <2>1. /\ stage = "execute" /\ stage' = "execute"
        /\ UNCHANGED <<world, charged, external, batches, spent>>
    BY <1>14 DEF ExecuteBatch, vars
  <2>2. PreparedInv'
    BY <1>1, <1>2, <2>1, QuietGeometry
  <2>3. MadeByAll' = MadeByAll
    <3>1. \A x : Made(x)' = Made(x)
      BY <2>1, SameParts
    <3>. QED
      BY <2>1, <3>1 DEF MadeByAll
  <2>4. SpentInv'
    BY <1>2, <2>1, <2>3 DEF SpentInv
  <2>. QED
    BY <1>7, <2>1, <2>2, <2>4
<1>15. CASE Assemble
  <2>1. UNCHANGED <<world, charged>> /\ stage' \in {"failed", "done"}
    BY <1>15 DEF Assemble, RefusePlan, Refuse
  <2>. QED
    BY <1>6, <2>1
<1>. QED
  BY <1>4, <1>5, <1>8, <1>9, <1>10, <1>11, <1>12, <1>13, <1>14, <1>15 DEF PlanNext

LEMMA GeometryInvStutter ==
    ASSUME GeometryInv, UNCHANGED allVars
    PROVE  GeometryInv'
<1>1. UNCHANGED <<world, stage, charged, external, batches, batchIndex, spent>>
  BY DEF allVars, vars, planVars
<1>2. /\ ContextualParts' = ContextualParts
      /\ \A x : Made(x)' = Made(x)
      /\ \A keys : KeysOwned(keys)' <=> KeysOwned(keys)
  BY <1>1, SameParts
<1>3. AccountedInv'
  BY <1>1, <1>2 DEF GeometryInv, AccountedInv
<1>4. PreparedInv => PreparedInv'
  BY <1>1, <1>2 DEF PreparedInv
<1>5. MadeBefore(batchIndex)' = MadeBefore(batchIndex) /\ MadeByAll' = MadeByAll
  BY <1>1, <1>2 DEF MadeBefore, MadeByAll
<1>6. SpentInv => SpentInv'
  BY <1>1, <1>5 DEF SpentInv
<1>. QED
  BY <1>1, <1>3, <1>4, <1>6 DEF GeometryInv

\* Before any batch is executed, evaluateProductDocumentCoreV7 has paid for every solid of
\* a document once in a configuration, however many occurrences, outputs and assemblies
\* lead to it, and for no other: no batch is prepared twice, none is forgotten, and what is
\* prepared is what is active or selected.
THEOREM EverySolidIsPaidForOnce == PlanSpec => []GeometryIsPaidOnce
<1>1. ProductInv /\ OwnedInv /\ GeometryInv => GeometryIsPaidOnce
  <2>1. SUFFICES ASSUME ProductInv, OwnedInv, GeometryInv, stage = "execute"
                 PROVE  GeometryIsPaidOnce
    BY DEF GeometryIsPaidOnce
  <2>2. /\ world \in Worlds /\ PlanInv /\ ViewInv
        /\ AccountedInv /\ PreparedInv /\ SpentInv
    BY <2>1 DEF ProductInv, WalkInv, Failed, OwnedInv, GeometryInv
  <2>3. spent.solids = Cardinality(UNION {SolidsOf(x) : x \in Wanted})
    BY <2>1, <2>2, WantedIsMade DEF SpentInv
  <2>. QED
    BY <2>3 DEF GeometryIsPaidOnce, Wanted, SolidsOf
<1>2. ProductInv /\ OwnedInv /\ GeometryInv /\ [PlanNext]_allVars =>
         OwnedInv' /\ GeometryInv'
  BY OwnedInvStep, OwnedInvStutter, GeometryInvStep, GeometryInvStutter
<1>. QED
  BY <1>1, <1>2, OwnedInvInit, GeometryInvInit, ProductInvariant, PTL DEF PlanSpec

=============================================================================
