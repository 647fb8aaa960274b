---------------------------- MODULE DesignImpact ----------------------------
(* analyzeDesignImpact: which parameters, materials, configurations, nodes   *)
(* and outputs of a document can be affected by changes of some of its        *)
(* definitions.  Every context, which is the base or a configuration, is      *)
(* worked off for itself with a worklist of parameters and then one of nodes, *)
(* and what was found is united.                                              *)
(*                                                                            *)
(* A definition is the set of what it refers to.  A world is a document and   *)
(* the changes; both were validated, so that every reference exists and no    *)
(* node depends on itself; parameters may do so, as overrides can close a     *)
(* cycle.  Names have no order here, and so the worklists and the contexts are *)
(* worked off in any.                                                          *)
EXTENDS FiniteSets

CONSTANTS
    Worlds,   \* documents with changes
    Base      \* the context without a configuration

\* What validation checks before: what is changed and what configurations
\* override exists.
ASSUME WorldsAssumption ==
    \A w \in Worlds :
        /\ Base \notin DOMAIN w.document.configurations
        /\ w.changes.parameters \subseteq DOMAIN w.document.parameters
        /\ w.changes.nodes \subseteq DOMAIN w.document.nodes
        /\ w.changes.configurations \subseteq DOMAIN w.document.configurations
        /\ \A c \in DOMAIN w.document.configurations :
              LET configuration == w.document.configurations[c]
              IN /\ DOMAIN configuration.parameters \subseteq DOMAIN w.document.parameters
                 /\ DOMAIN configuration.materials \subseteq DOMAIN w.document.nodes
                 /\ {x[1] : x \in DOMAIN configuration.suppressed}
                        \subseteq DOMAIN w.document.nodes

VARIABLES
    world,
    stage,           \* next, parameters, materials, nodes, done or failed
    remaining,       \* the contexts that were not looked at yet
    context,         \* the one that is looked at
    reached,         \* the parameters reached, for each kind of root
    parameterQueue,
    edges,           \* the pairs of parameters an impact was passed on along
    causalEdges,     \* those along which one reached a parameter first
    contextNodes,    \* the nodes reached
    nodeQueue,
    report           \* what is impacted and why, and the nodes for outputs

vars == <<world, stage, remaining, context, reached, parameterQueue, edges,
          causalEdges, contextNodes, nodeQueue, report>>

Nothing == "nothing"

Document == world.document
Changes == world.changes
Parameters == DOMAIN Document.parameters
Materials == DOMAIN Document.materials
Nodes == DOMAIN Document.nodes
Configurations == DOMAIN Document.configurations

\* What configuration c overrides, nothing in the base.
Overrides(c) ==
    IF c = Base THEN [parameters |-> <<>>, materials |-> <<>>, suppressed |-> <<>>]
    ELSE Document.configurations[c]

Overridden(c) == DOMAIN Overrides(c).parameters

AffectsEvaluation(c) ==
    \/ Overridden(c) # {}
    \/ DOMAIN Overrides(c).materials # {}
    \/ DOMAIN Overrides(c).suppressed # {}

Reason(of, kind, from) == [of |-> of, kind |-> kind, from |-> from]

Seeds(ids) == {Reason(id, "seed", Nothing) : id \in ids}

Init ==
    /\ world \in Worlds
    /\ stage = "next" /\ context = Base
    /\ remaining = {Base} \cup {c \in Configurations : AffectsEvaluation(c)}
    /\ reached = [external |-> {}, configuration |-> {}]
    /\ parameterQueue = {} /\ edges = {} /\ causalEdges = {}
    /\ contextNodes = {} /\ nodeQueue = {}
    /\ report = [parameters |-> Seeds(Changes.parameters),
                 materials |-> Seeds(Changes.materials),
                 configurations |-> Seeds(Changes.configurations),
                 nodes |-> Seeds(Changes.nodes), outputNodes |-> {}]

\* The parameters that a change of configuration c changes.
Targets(c) == IF c \in Changes.configurations THEN Overridden(c) ELSE {}

StartContext ==
    /\ stage = "next"
    /\ \E c \in remaining :
          /\ context' = c
          /\ remaining' = remaining \ {c}
          /\ reached' = [external |-> Changes.parameters, configuration |-> Targets(c)]
          /\ parameterQueue' = Changes.parameters \cup Targets(c)
          /\ report' = [report EXCEPT !.parameters = @ \cup
                            {Reason(p, "configuration", c) : p \in Targets(c)}]
    /\ stage' = "parameters"
    /\ edges' = {} /\ causalEdges' = {} /\ contextNodes' = {} /\ nodeQueue' = {}
    /\ UNCHANGED world

-----------------------------------------------------------------------------
(* The parameters that refer to parameter d: in a bound, in the default     *)
(* unless the context overrides it, or in the override.                     *)

BoundConsumers(d) == {p \in Parameters : d \in Document.parameters[p].bounds}

DefaultConsumers(d) == {p \in Parameters : d \in Document.parameters[p].default}

OverrideConsumers(c, d) == {p \in Overridden(c) : d \in Overrides(c).parameters[p]}

\* Mutation: an overridden default still counts.
ConsumersOfDefaults(c, d) ==
    (BoundConsumers(d) \cup DefaultConsumers(d) \cup OverrideConsumers(c, d)) \ {d}

Consumers(c, d) ==
    (BoundConsumers(d) \cup (DefaultConsumers(d) \ Overridden(c))
        \cup OverrideConsumers(c, d)) \ {d}

\* Mutation: a parameter is passed on to but once.
PassedOnOnce(d, origin) ==
    IF d \in reached[origin]
    THEN Consumers(context, d) \ (reached.external \cup reached.configuration) ELSE {}

\* What d passes its origin on to for the first time.
PassedOn(d, origin) ==
    IF d \in reached[origin] THEN Consumers(context, d) \ reached[origin] ELSE {}

SpreadParameter ==
    /\ stage = "parameters"
    /\ \E d \in parameterQueue :
          LET changed == PassedOn(d, "external") \cup PassedOn(d, "configuration")
          IN /\ reached' = [external |-> reached.external \cup PassedOn(d, "external"),
                            configuration |-> reached.configuration
                                                  \cup PassedOn(d, "configuration")]
             /\ parameterQueue' = (parameterQueue \ {d}) \cup changed
             /\ edges' = edges \cup ({d} \X Consumers(context, d))
             /\ causalEdges' = causalEdges \cup ({d} \X changed)
    /\ UNCHANGED <<world, stage, remaining, context, contextNodes, nodeQueue, report>>

\* What needs a member of roots, directly or through others.
Follow(things, roots, needs) ==
    {x \in things : \A closed \in SUBSET things :
        (/\ roots \subseteq closed
         /\ \A y \in things : needs[y] \cap closed # {} => y \in closed)
        => x \in closed}

\* Two strongly connected parameters: the edge between them is part of a cycle.
OnCycle(edge) ==
    edge[1] \in Follow(Parameters, {edge[2]},
                       [p \in Parameters |-> {d \in Parameters : <<d, p>> \in edges}])

\* Mutation: no edge of a cycle is a reason.
CausesOffCycles == {edge \in edges : ~OnCycle(edge)}

\* Within a cycle only what was passed on is a reason.
Causes == {edge \in edges : OnCycle(edge) => edge \in causalEdges}

FinishParameters ==
    /\ stage = "parameters" /\ parameterQueue = {}
    /\ stage' = "materials"
    /\ report' = [report EXCEPT !.parameters = @ \cup
                      {Reason(edge[2], "dependency", edge[1]) : edge \in Causes}]
    /\ UNCHANGED <<world, remaining, context, reached, parameterQueue, edges,
                   causalEdges, contextNodes, nodeQueue>>

-----------------------------------------------------------------------------
(* From the parameters to materials, to the configuration and to nodes.     *)

ReachedParameters == reached.external \cup reached.configuration

Using(parameters) ==
    {m \in Materials : Document.materials[m] \cap parameters # {}}

ReachedMaterials == Changes.materials \cup Using(ReachedParameters)

MaterialReasons ==
    UNION {{Reason(m, "parameter", p) : m \in Using({p})} : p \in ReachedParameters}

\* What configuration c refers to.
ParameterReferences(c) ==
    Overridden(c) \cup UNION {Overrides(c).parameters[p] : p \in Overridden(c)}

MaterialReferences(c) == {Overrides(c).materials[n] : n \in DOMAIN Overrides(c).materials}

\* What a changed configuration reaches by itself is no reason for it.
ConfigurationReasons(c) ==
    LET own == c \in Changes.configurations
        parameters == IF own THEN reached.external ELSE ReachedParameters
        materials == IF own THEN Changes.materials \cup Using(reached.external)
                     ELSE ReachedMaterials
    IN IF c = Base THEN {}
       ELSE {Reason(c, "parameter", p) : p \in ParameterReferences(c) \cap parameters}
            \cup {Reason(c, "material", m) : m \in MaterialReferences(c) \cap materials}

\* Instance i of assembly n, unless the context suppresses it.
Active(c, n, i) ==
    IF <<n, i>> \in DOMAIN Overrides(c).suppressed
    THEN ~Overrides(c).suppressed[<<n, i>>]
    ELSE ~Document.nodes[n].instances[i].suppressed

ActiveInstances(c, n) ==
    {Document.nodes[n].instances[i] :
        i \in {j \in DOMAIN Document.nodes[n].instances : Active(c, n, j)}}

EffectiveMaterial(c, n) ==
    IF n \in DOMAIN Overrides(c).materials THEN Overrides(c).materials[n]
    ELSE Document.nodes[n].material

ParametersOf(c, n) ==
    Document.nodes[n].parameters \cup UNION {i.parameters : i \in ActiveInstances(c, n)}

\* What a node is reached by other than through another node.
NodeReasons(c) ==
    Seeds(Changes.nodes)
    \cup (UNION {{Reason(n, "topologyReference", t) :
                     t \in Document.nodes[n].references \cap Changes.topologyReferences} :
                 n \in Nodes})
    \cup (UNION {{Reason(n, "parameter", p) :
                     p \in ParametersOf(c, n) \cap ReachedParameters} : n \in Nodes})
    \cup {Reason(n, "material", EffectiveMaterial(c, n)) :
            n \in {x \in Nodes : EffectiveMaterial(c, x) \in ReachedMaterials}}
    \cup IF c \notin Changes.configurations THEN {}
         ELSE {Reason(n, "configuration", c) :
                 n \in DOMAIN Overrides(c).materials
                       \cup {x[1] : x \in DOMAIN Overrides(c).suppressed}}

ReachOut ==
    /\ stage = "materials"
    /\ stage' = "nodes"
    /\ report' = [report EXCEPT
                     !.materials = @ \cup MaterialReasons,
                     !.configurations = @ \cup ConfigurationReasons(context),
                     !.nodes = @ \cup NodeReasons(context)]
    /\ contextNodes' = {r.of : r \in NodeReasons(context)}
    /\ nodeQueue' = contextNodes'
    /\ UNCHANGED <<world, remaining, context, reached, parameterQueue, edges,
                   causalEdges>>

NodeConsumers(c, d) ==
    {n \in Nodes : \/ d \in Document.nodes[n].dependencies
                   \/ \E i \in ActiveInstances(c, n) : i.node = d}

SpreadNode ==
    /\ stage = "nodes"
    /\ \E d \in nodeQueue :
          LET consumers == NodeConsumers(context, d)
          IN /\ report' = [report EXCEPT !.nodes = @ \cup
                              {Reason(n, "dependency", d) : n \in consumers}]
             /\ contextNodes' = contextNodes \cup consumers
             /\ nodeQueue' = (nodeQueue \ {d}) \cup (consumers \ contextNodes)
    /\ UNCHANGED <<world, stage, remaining, context, reached, parameterQueue, edges,
                   causalEdges>>

FinishContext ==
    /\ stage = "nodes" /\ nodeQueue = {}
    /\ stage' = "next"
    /\ report' = [report EXCEPT !.outputNodes = @ \cup contextNodes]
    /\ UNCHANGED <<world, remaining, context, reached, parameterQueue, edges,
                   causalEdges, contextNodes, nodeQueue>>

Finish ==
    /\ stage = "next" /\ remaining = {}
    /\ stage' = "done"
    /\ UNCHANGED <<world, remaining, context, reached, parameterQueue, edges,
                   causalEdges, contextNodes, nodeQueue, report>>

\* The ceiling on work is reached; every step but the last may do some.
ExceedWork ==
    /\ stage \in {"parameters", "materials", "nodes"} \/ remaining # {}
    /\ stage \notin {"done", "failed"}
    /\ stage' = "failed"
    /\ UNCHANGED <<world, remaining, context, reached, parameterQueue, edges,
                   causalEdges, contextNodes, nodeQueue, report>>

Next ==
    \/ StartContext \/ SpreadParameter \/ FinishParameters \/ ReachOut
    \/ SpreadNode \/ FinishContext \/ Finish \/ ExceedWork

Spec == Init /\ [][Next]_vars

-----------------------------------------------------------------------------
(* What an evaluation in context c reads.                                   *)

ParameterReads(c) ==
    [p \in Parameters |-> Document.parameters[p].bounds \cup
        (IF p \in Overridden(c) THEN Overrides(c).parameters[p]
         ELSE Document.parameters[p].default)]

\* The parameters that a change of roots can affect in context c.
AffectedParameters(c, roots) == Follow(Parameters, roots, ParameterReads(c))

Roots(c) == Changes.parameters \cup Targets(c)

AffectedMaterials(c, roots) ==
    Changes.materials \cup Using(AffectedParameters(c, roots))

\* Node n reads something that changed, or is changed itself.
Touched(c, n) ==
    \/ n \in Changes.nodes
    \/ Document.nodes[n].references \cap Changes.topologyReferences # {}
    \/ ParametersOf(c, n) \cap AffectedParameters(c, Roots(c)) # {}
    \/ EffectiveMaterial(c, n) \in AffectedMaterials(c, Roots(c))
    \/ c \in Changes.configurations /\
          \/ n \in DOMAIN Overrides(c).materials
          \/ \E x \in DOMAIN Overrides(c).suppressed : x[1] = n

NodeReads(c) ==
    [n \in Nodes |-> Document.nodes[n].dependencies
                        \cup {i.node : i \in ActiveInstances(c, n)}]

TouchedNodes(c) == {n \in Nodes : Touched(c, n)}

AffectedNodes(c) == Follow(Nodes, TouchedNodes(c), NodeReads(c))

\* What configuration c refers to and something else than itself affects.
Blame(c) ==
    {Reason(c, "parameter", p) :
        p \in ParameterReferences(c) \cap AffectedParameters(c, Changes.parameters)}
    \cup {Reason(c, "material", m) :
            m \in MaterialReferences(c) \cap AffectedMaterials(c, Changes.parameters)}

Contexts == {Base} \cup Configurations

\* The report lists exactly what an evaluation in some context, also in one
\* that has no effect, reads from something that changed: parameters,
\* materials, nodes, which are direct if no other node is in between, and what
\* outputs refer to.
ImpactIsExact ==
    stage = "done" =>
        /\ {r.of : r \in report.parameters} =
              UNION {AffectedParameters(c, Roots(c)) : c \in Contexts}
        /\ {r.of : r \in report.materials} =
              UNION {AffectedMaterials(c, Roots(c)) : c \in Contexts}
        /\ {r.of : r \in report.nodes} = UNION {AffectedNodes(c) : c \in Contexts}
        /\ {r.of : r \in {x \in report.nodes : x.kind # "dependency"}} =
              UNION {TouchedNodes(c) : c \in Contexts}
        /\ report.outputNodes = UNION {AffectedNodes(c) : c \in Contexts}

\* A configuration is reported for what it refers to exactly if something else
\* than itself affects that, whichever of the two reached it first.
BlameIsExact ==
    stage = "done" =>
        report.configurations =
            Seeds(Changes.configurations) \cup UNION {Blame(c) : c \in Configurations}

\* From every parameter the reasons lead back to a change, also within cycles;
\* and each says of a context what is true in it.
ReasonsLeadToChanges ==
    stage = "done" =>
        LET dependencies == {r \in report.parameters : r.kind = "dependency"}
        IN /\ {r.of : r \in report.parameters} =
                 Follow(Parameters, {r.of : r \in report.parameters \ dependencies},
                        [p \in Parameters |->
                            {r.from : r \in {x \in dependencies : x.of = p}}])
           /\ \A r \in dependencies : \E c \in Contexts :
                 /\ r.from \in AffectedParameters(c, Roots(c))
                 /\ r.from \in ParameterReads(c)[r.of]
=============================================================================
