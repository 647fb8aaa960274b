------------------------- MODULE DesignImpactProofs -------------------------
(* For every document and every change, and in whichever order the worklists *)
(* are worked off, the report lists exactly what the definitions read.        *)
EXTENDS DesignImpact, TLAPS

\* The contexts that are worked off.
Relevant == {Base} \cup {c \in Configurations : AffectsEvaluation(c)}

Searching == stage \in {"parameters", "materials", "nodes"}

ContextInv ==
    /\ world \in Worlds
    /\ DOMAIN report = {"parameters", "materials", "configurations", "nodes", "outputNodes"}
    /\ remaining \subseteq Relevant
    /\ Searching => context \in Relevant \ remaining
    /\ stage = "done" => remaining = {}

\* What was found from roots in context c is affected, and with what is still
\* to be passed on it will be all of it.
OriginInv(c, queue, found, roots) ==
    /\ roots \subseteq found
    /\ found \subseteq AffectedParameters(c, roots)
    /\ \A d \in found : d \in queue \/ Consumers(c, d) \subseteq found

SearchInv ==
    Searching =>
        /\ OriginInv(context, parameterQueue, reached.external, Changes.parameters)
        /\ OriginInv(context, parameterQueue, reached.configuration, Targets(context))
        /\ stage # "parameters" => parameterQueue = {}

-----------------------------------------------------------------------------
(* The least closed set.                                                    *)

LEMMA FollowLeast ==
    ASSUME NEW things, NEW roots, NEW needs, NEW closed \in SUBSET things,
           roots \subseteq closed,
           \A y \in things : needs[y] \cap closed # {} => y \in closed
    PROVE  Follow(things, roots, needs) \subseteq closed
BY DEF Follow

LEMMA FollowRoots ==
    ASSUME NEW things, NEW roots, NEW needs, roots \subseteq things
    PROVE  roots \subseteq Follow(things, roots, needs)
BY DEF Follow

LEMMA FollowClosed ==
    ASSUME NEW things, NEW roots, NEW needs, NEW x \in Follow(things, roots, needs),
           NEW y \in things, x \in needs[y]
    PROVE  y \in Follow(things, roots, needs)
BY DEF Follow

LEMMA FollowWithin ==
    ASSUME NEW things, NEW roots, NEW needs
    PROVE  Follow(things, roots, needs) \subseteq things
BY DEF Follow

-----------------------------------------------------------------------------
(* Parameters.                                                              *)

LEMMA BaseOverrides ==
    /\ Overridden(Base) = {}
    /\ DOMAIN Overrides(Base).materials = {}
    /\ DOMAIN Overrides(Base).suppressed = {}
BY DEF Overridden, Overrides

LEMMA OverriddenExist ==
    ASSUME world \in Worlds, NEW c \in Contexts
    PROVE  /\ Overridden(c) \subseteq Parameters
           /\ Changes.parameters \subseteq Parameters
           /\ Targets(c) \subseteq Parameters
<1>1. CASE c = Base
  BY <1>1, BaseOverrides, WorldsAssumption DEF Changes, Parameters, Document, Targets
<1>2. CASE c \in Configurations
  <2>1. Overridden(c) \subseteq Parameters
    BY <1>2, WorldsAssumption
    DEF Overridden, Overrides, Configurations, Document, Parameters
  <2>2. QED
    BY <2>1, WorldsAssumption DEF Changes, Parameters, Document, Targets
<1>3. QED
  BY <1>1, <1>2 DEF Contexts

\* Parameters are passed on to exactly those that read them.
LEMMA ConsumersRead ==
    ASSUME world \in Worlds, NEW c \in Contexts, NEW d
    PROVE  Consumers(c, d) = {p \in Parameters : p # d /\ d \in ParameterReads(c)[p]}
<1>1. Overridden(c) \subseteq Parameters
  BY OverriddenExist
<1>2. QED
  BY <1>1 DEF Consumers, BoundConsumers, DefaultConsumers, OverrideConsumers,
              ParameterReads

\* A worklist that has run empty found everything.
LEMMA NothingMissed ==
    ASSUME world \in Worlds, NEW c \in Contexts, NEW found, NEW roots,
           OriginInv(c, {}, found, roots)
    PROVE  found = AffectedParameters(c, roots)
<1>1. found \subseteq Parameters
  BY FollowWithin DEF OriginInv, AffectedParameters
<1>2. ASSUME NEW y \in Parameters, ParameterReads(c)[y] \cap found # {}
      PROVE  y \in found
  <2>1. PICK d \in found : d \in ParameterReads(c)[y]
    BY <1>2
  <2>2. d = y \/ y \in Consumers(c, d)
    BY <2>1, ConsumersRead
  <2>3. QED
    BY <2>1, <2>2 DEF OriginInv
<1>3. AffectedParameters(c, roots) \subseteq found
  BY <1>1, <1>2, FollowLeast DEF OriginInv, AffectedParameters
<1>4. QED
  BY <1>3 DEF OriginInv

\* A step of the worklist adds nothing that is not affected.
LEMMA PassedOnIsAffected ==
    ASSUME world \in Worlds, NEW c \in Contexts, NEW roots,
           NEW d \in AffectedParameters(c, roots)
    PROVE  Consumers(c, d) \subseteq AffectedParameters(c, roots)
BY ConsumersRead, FollowClosed DEF AffectedParameters

LEMMA OriginStep ==
    ASSUME world \in Worlds, NEW c \in Contexts, NEW queue, NEW found, NEW roots,
           OriginInv(c, queue, found, roots),
           NEW d, NEW passed, NEW others,
           passed = IF d \in found THEN Consumers(c, d) \ found ELSE {},
           passed \subseteq others
    PROVE  OriginInv(c, (queue \ {d}) \cup others, found \cup passed, roots)
BY PassedOnIsAffected DEF OriginInv

LEMMA SameOrigin ==
    ASSUME world' = world, NEW c, NEW queue, NEW found, NEW roots
    PROVE  OriginInv(c, queue, found, roots)' <=> OriginInv(c, queue, found, roots)
BY DEF OriginInv, AffectedParameters, Parameters, Document, ParameterReads, Overridden,
       Overrides, Consumers, BoundConsumers, DefaultConsumers, OverrideConsumers
-----------------------------------------------------------------------------
(* Every step keeps the contexts and the search for parameters in order.    *)

LEMMA SameWorld ==
    ASSUME world' = world
    PROVE  /\ Relevant' = Relevant
           /\ Changes' = Changes
           /\ \A c : Targets(c)' = Targets(c)
BY DEF Relevant, Changes, Configurations, Document, AffectsEvaluation, Overridden,
       Overrides, Targets

LEMMA RelevantAreContexts == Relevant \subseteq Contexts
BY DEF Relevant, Contexts

LEMMA ContextStep ==
    ASSUME ContextInv, [Next]_vars
    PROVE  ContextInv' /\ world' = world
<1>1. world' = world /\ remaining' \subseteq remaining
  BY DEF Next, vars, StartContext, SpreadParameter, FinishParameters, ReachOut,
         SpreadNode, FinishContext, Finish, ExceedWork
<1>2. Relevant' = Relevant
  BY <1>1, SameWorld
<1>3. Searching' => context' \in Relevant \ remaining'
  <2>1. CASE StartContext
    BY <2>1 DEF StartContext, ContextInv
  <2>2. CASE SpreadParameter \/ FinishParameters \/ ReachOut \/ SpreadNode
    BY <2>2 DEF SpreadParameter, FinishParameters, ReachOut, SpreadNode, Searching,
                ContextInv
  <2>3. CASE FinishContext \/ Finish \/ ExceedWork
    BY <2>3 DEF FinishContext, Finish, ExceedWork, Searching
  <2>4. CASE UNCHANGED vars
    BY <2>4 DEF vars, Searching, ContextInv
  <2>5. QED
    BY <2>1, <2>2, <2>3, <2>4 DEF Next
<1>4. DOMAIN report' = DOMAIN report
  BY DEF Next, vars, StartContext, SpreadParameter, FinishParameters, ReachOut,
         SpreadNode, FinishContext, Finish, ExceedWork
<1>5. stage' = "done" => remaining' = {}
  BY DEF ContextInv, Next, vars, StartContext, SpreadParameter, FinishParameters,
         ReachOut, SpreadNode, FinishContext, Finish, ExceedWork
<1>6. QED
  BY <1>1, <1>2, <1>3, <1>4, <1>5 DEF ContextInv

\* A worklist that starts with all of its roots.
LEMMA OriginStart ==
    ASSUME world \in Worlds, NEW c \in Contexts, NEW queue, NEW roots,
           roots \subseteq Parameters, roots \subseteq queue
    PROVE  OriginInv(c, queue, roots, roots)
BY FollowRoots DEF OriginInv, AffectedParameters

LEMMA SearchStep ==
    ASSUME ContextInv, SearchInv, [Next]_vars
    PROVE  SearchInv'
<1>1. world' = world /\ ContextInv'
  BY ContextStep
<1>2. world \in Worlds
  BY DEF ContextInv
<1>3. Changes' = Changes /\ \A c : Targets(c)' = Targets(c)
  BY <1>1, SameWorld
<1>4. CASE StartContext
  <2>1. context' \in Contexts
    BY <1>4, RelevantAreContexts DEF StartContext, ContextInv
  <2>2. /\ OriginInv(context', parameterQueue', Changes.parameters, Changes.parameters)
        /\ OriginInv(context', parameterQueue', Targets(context'), Targets(context'))
    BY <1>2, <1>4, <2>1, OriginStart, OverriddenExist DEF StartContext
  <2>3. /\ reached'.external = Changes.parameters
        /\ reached'.configuration = Targets(context')
        /\ stage' = "parameters"
    BY <1>4 DEF StartContext
  <2>4. /\ OriginInv(context', parameterQueue', reached'.external, Changes.parameters)
        /\ OriginInv(context', parameterQueue', reached'.configuration, Targets(context'))
    BY <2>2, <2>3
  <2>5. QED
    BY <1>1, <1>3, <2>3, <2>4, SameOrigin DEF SearchInv
<1>5. CASE SpreadParameter
  <2>1. PICK d \in parameterQueue :
           LET changed == PassedOn(d, "external") \cup PassedOn(d, "configuration")
           IN /\ reached' = [external |-> reached.external \cup PassedOn(d, "external"),
                             configuration |-> reached.configuration
                                                   \cup PassedOn(d, "configuration")]
              /\ parameterQueue' = (parameterQueue \ {d}) \cup changed
    BY <1>5 DEF SpreadParameter
  <2>2. Searching /\ context' = context /\ stage' = "parameters"
    BY <1>5 DEF SpreadParameter, Searching
  <2>3. context \in Contexts
    BY <2>2, RelevantAreContexts DEF ContextInv
  <2>4. OriginInv(context, parameterQueue',
                  reached.external \cup PassedOn(d, "external"), Changes.parameters)
    BY <1>2, <2>1, <2>2, <2>3, OriginStep DEF SearchInv, PassedOn
  <2>5. OriginInv(context, parameterQueue',
                  reached.configuration \cup PassedOn(d, "configuration"),
                  Targets(context))
    BY <1>2, <2>1, <2>2, <2>3, OriginStep DEF SearchInv, PassedOn
  <2>6. /\ OriginInv(context', parameterQueue', reached'.external, Changes.parameters)
        /\ OriginInv(context', parameterQueue', reached'.configuration, Targets(context'))
    BY <2>1, <2>2, <2>4, <2>5
  <2>7. QED
    BY <1>1, <1>3, <2>2, <2>6, SameOrigin DEF SearchInv
<1>6. CASE FinishParameters \/ ReachOut \/ SpreadNode \/ UNCHANGED vars
  <2>1. UNCHANGED <<context, reached, parameterQueue>>
    BY <1>6 DEF FinishParameters, ReachOut, SpreadNode, vars
  <2>2. Searching' => Searching /\ (stage' # "parameters" => parameterQueue = {})
    BY <1>6 DEF FinishParameters, ReachOut, SpreadNode, vars, Searching, SearchInv
  <2>3. Searching' =>
            /\ OriginInv(context', parameterQueue', reached'.external, Changes.parameters)
            /\ OriginInv(context', parameterQueue', reached'.configuration,
                         Targets(context'))
    BY <2>1, <2>2 DEF SearchInv
  <2>4. QED
    BY <1>1, <1>3, <2>1, <2>2, <2>3, SameOrigin DEF SearchInv
<1>7. CASE FinishContext \/ Finish \/ ExceedWork
  BY <1>7 DEF FinishContext, Finish, ExceedWork, Searching, SearchInv
<1>8. QED
  BY <1>4, <1>5, <1>6, <1>7 DEF Next
-----------------------------------------------------------------------------
(* Which configurations are reported.                                       *)

LEMMA FollowUnion ==
    ASSUME NEW things, NEW A \in SUBSET things, NEW B \in SUBSET things, NEW needs
    PROVE  Follow(things, A \cup B, needs) =
               Follow(things, A, needs) \cup Follow(things, B, needs)
<1> DEFINE both == Follow(things, A, needs) \cup Follow(things, B, needs)
<1>1. Follow(things, A, needs) \subseteq Follow(things, A \cup B, needs)
  BY DEF Follow
<1>2. Follow(things, B, needs) \subseteq Follow(things, A \cup B, needs)
  BY DEF Follow
<1>3. both \subseteq things /\ A \cup B \subseteq both
  BY FollowWithin, FollowRoots
<1>4. ASSUME NEW y \in things, needs[y] \cap both # {}
      PROVE  y \in both
  BY <1>4, FollowClosed
<1> HIDE DEF both
<1>5. Follow(things, A \cup B, needs) \subseteq both
  BY <1>3, <1>4, FollowLeast
<1>6. QED
  BY <1>1, <1>2, <1>5 DEF both

LEMMA EverythingReached ==
    ASSUME ContextInv, SearchInv, Searching, parameterQueue = {}
    PROVE  /\ context \in Contexts
           /\ reached.external = AffectedParameters(context, Changes.parameters)
           /\ ReachedParameters = AffectedParameters(context, Roots(context))
           /\ context \notin Changes.configurations => ReachedParameters = reached.external
<1>1. world \in Worlds /\ context \in Contexts
  BY RelevantAreContexts DEF ContextInv
<1>2. /\ OriginInv(context, {}, reached.external, Changes.parameters)
      /\ OriginInv(context, {}, reached.configuration, Targets(context))
  BY DEF SearchInv
<1>3. /\ reached.external = AffectedParameters(context, Changes.parameters)
      /\ reached.configuration = AffectedParameters(context, Targets(context))
  BY <1>1, <1>2, NothingMissed
<1>4. ReachedParameters = AffectedParameters(context, Roots(context))
  BY <1>1, <1>3, FollowUnion, OverriddenExist
  DEF ReachedParameters, AffectedParameters, Roots
<1>5. ASSUME context \notin Changes.configurations
      PROVE  reached.configuration = {}
  <2>1. Targets(context) = {}
    BY <1>5 DEF Targets
  <2>2. Follow(Parameters, {}, ParameterReads(context)) \subseteq {}
    BY FollowLeast
  <2>3. QED
    BY <1>3, <2>1, <2>2 DEF AffectedParameters
<1>6. QED
  BY <1>1, <1>3, <1>4, <1>5 DEF ReachedParameters

LEMMA ReasonsAreBlame ==
    ASSUME ContextInv, SearchInv, stage = "materials"
    PROVE  ConfigurationReasons(context) = Blame(context)
<1> Searching /\ parameterQueue = {}
  BY DEF SearchInv, Searching
<1>1. CASE context = Base
  BY <1>1, BaseOverrides
  DEF ConfigurationReasons, Blame, ParameterReferences, MaterialReferences
<1>2. CASE context # Base
  <2>1. ReachedMaterials = Changes.materials \cup Using(ReachedParameters)
    BY DEF ReachedMaterials
  <2>2. CASE context \in Changes.configurations
    BY <1>2, <2>2, EverythingReached DEF ConfigurationReasons, Blame, AffectedMaterials
  <2>3. CASE context \notin Changes.configurations
    BY <1>2, <2>1, <2>3, EverythingReached
    DEF ConfigurationReasons, Blame, AffectedMaterials
  <2>4. QED
    BY <2>2, <2>3
<1>3. QED
  BY <1>1, <1>2

\* The contexts whose configuration, materials and direct nodes are reported.
ReachedOut ==
    Relevant \ (remaining \cup
                   IF stage \in {"parameters", "materials"} THEN {context} ELSE {})

BlameInv ==
    stage # "failed" =>
        report.configurations =
            Seeds(Changes.configurations) \cup UNION {Blame(c) : c \in ReachedOut}

LEMMA SameBlame ==
    ASSUME world' = world
    PROVE  /\ Seeds(Changes.configurations)' = Seeds(Changes.configurations)
           /\ \A c : Blame(c)' = Blame(c)
BY DEF Seeds, Reason, Blame, ParameterReferences, MaterialReferences, AffectedMaterials,
       AffectedParameters, Using, Changes, Parameters, Materials, Document, Overridden,
       Overrides, ParameterReads

LEMMA ReachedOutStep ==
    ASSUME ContextInv, [Next]_vars
    PROVE  /\ ReachOut => ReachedOut' = ReachedOut \cup {context}
           /\ stage' # "failed" /\ ~ReachOut => ReachedOut' = ReachedOut
<1>1. Relevant' = Relevant
  BY ContextStep, SameWorld
<1>2. CASE StartContext
  BY <1>1, <1>2 DEF StartContext, ReachedOut, ReachOut
<1>3. CASE ReachOut
  BY <1>1, <1>3 DEF ReachOut, ReachedOut, ContextInv, Searching
<1>4. CASE SpreadParameter \/ FinishParameters \/ SpreadNode \/ FinishContext \/ Finish
           \/ UNCHANGED vars
  BY <1>1, <1>4 DEF SpreadParameter, FinishParameters, SpreadNode, FinishContext, Finish,
                    vars, ReachOut, ReachedOut
<1>5. CASE ExceedWork
  BY <1>5 DEF ExceedWork, ReachOut
<1>6. QED
  BY <1>2, <1>3, <1>4, <1>5 DEF Next

LEMMA BlameStep ==
    ASSUME ContextInv, SearchInv, BlameInv, [Next]_vars
    PROVE  BlameInv'
<1>1. /\ Seeds(Changes.configurations)' = Seeds(Changes.configurations)
      /\ \A c : Blame(c)' = Blame(c)
  BY ContextStep, SameBlame
<1>2. CASE ReachOut
  <2>1. report'.configurations = report.configurations \cup Blame(context)
    BY <1>2, ReasonsAreBlame DEF ReachOut
  <2>2. QED
    BY <1>1, <1>2, <2>1, ReachedOutStep DEF BlameInv, ReachOut
<1>3. CASE ~ReachOut
  <2>1. report'.configurations = report.configurations
    BY <1>3 DEF ContextInv, Next, vars, StartContext, SpreadParameter, FinishParameters,
                SpreadNode, FinishContext, Finish, ExceedWork
  <2>2. stage = "failed" => stage' = "failed"
    BY <1>3 DEF Next, vars, StartContext, SpreadParameter, FinishParameters, SpreadNode,
                FinishContext, Finish, ExceedWork
  <2>3. QED
    BY <1>1, <1>3, <2>1, <2>2, ReachedOutStep DEF BlameInv
<1>4. QED
  BY <1>2, <1>3
-----------------------------------------------------------------------------
(* A context without effect is as good as the base.                         *)

LEMMA NoEffect ==
    ASSUME NEW c \in Contexts \ Relevant
    PROVE  /\ Overridden(c) = {}
           /\ DOMAIN Overrides(c).materials = {}
           /\ DOMAIN Overrides(c).suppressed = {}
BY DEF Contexts, Relevant, AffectsEvaluation

LEMMA NoEffectOnParameters ==
    ASSUME NEW c \in Contexts \ Relevant
    PROVE  /\ Roots(c) = Roots(Base)
           /\ \A roots : AffectedParameters(c, roots) = AffectedParameters(Base, roots)
<1>1. Overridden(c) = {} /\ Overridden(Base) = {}
  BY NoEffect, BaseOverrides
<1>2. ParameterReads(c) = ParameterReads(Base)
  BY <1>1 DEF ParameterReads
<1>3. QED
  BY <1>1, <1>2 DEF Roots, Targets, AffectedParameters

LEMMA NoEffectOnNodes ==
    ASSUME NEW c \in Contexts \ Relevant
    PROVE  /\ TouchedNodes(c) = TouchedNodes(Base)
           /\ AffectedNodes(c) = AffectedNodes(Base)
<1>1. /\ DOMAIN Overrides(c).materials = {} /\ DOMAIN Overrides(Base).materials = {}
      /\ DOMAIN Overrides(c).suppressed = {} /\ DOMAIN Overrides(Base).suppressed = {}
  BY NoEffect, BaseOverrides
<1>2. \A n, i : Active(c, n, i) = Active(Base, n, i)
  BY <1>1 DEF Active
<1>3. \A n : ActiveInstances(c, n) = ActiveInstances(Base, n)
  BY <1>2 DEF ActiveInstances
<1>4. \A n : /\ EffectiveMaterial(c, n) = EffectiveMaterial(Base, n)
             /\ ParametersOf(c, n) = ParametersOf(Base, n)
  BY <1>1, <1>3 DEF EffectiveMaterial, ParametersOf
<1>5. \A n : Touched(c, n) = Touched(Base, n)
  BY <1>1, <1>4, NoEffectOnParameters DEF Touched, AffectedMaterials
<1>6. TouchedNodes(c) = TouchedNodes(Base)
  BY <1>5 DEF TouchedNodes
<1>7. NodeReads(c) = NodeReads(Base)
  BY <1>3 DEF NodeReads
<1>8. QED
  BY <1>6, <1>7 DEF AffectedNodes

LEMMA NoBlame ==
    ASSUME NEW c \in (Contexts \ Relevant) \cup {Base}
    PROVE  Blame(c) = {}
BY NoEffect, BaseOverrides DEF Blame, ParameterReferences, MaterialReferences

LEMMA RelevantSuffice ==
    /\ UNION {Blame(c) : c \in Relevant} = UNION {Blame(c) : c \in Configurations}
    /\ UNION {AffectedParameters(c, Roots(c)) : c \in Relevant}
          = UNION {AffectedParameters(c, Roots(c)) : c \in Contexts}
    /\ UNION {TouchedNodes(c) : c \in Relevant} = UNION {TouchedNodes(c) : c \in Contexts}
    /\ UNION {AffectedNodes(c) : c \in Relevant} = UNION {AffectedNodes(c) : c \in Contexts}
<1>1. Base \in Relevant /\ Relevant \subseteq Contexts
  BY RelevantAreContexts DEF Relevant
<1>2. UNION {Blame(c) : c \in Relevant} = UNION {Blame(c) : c \in Configurations}
  BY <1>1, NoBlame DEF Contexts
<1>3. \A c \in Contexts \ Relevant :
         AffectedParameters(c, Roots(c)) = AffectedParameters(Base, Roots(Base))
  BY NoEffectOnParameters
<1>4. UNION {AffectedParameters(c, Roots(c)) : c \in Relevant}
          = UNION {AffectedParameters(c, Roots(c)) : c \in Contexts}
  BY <1>1, <1>3
<1>5. UNION {TouchedNodes(c) : c \in Relevant} = UNION {TouchedNodes(c) : c \in Contexts}
  BY <1>1, NoEffectOnNodes
<1>6. UNION {AffectedNodes(c) : c \in Relevant} = UNION {AffectedNodes(c) : c \in Contexts}
  BY <1>1, NoEffectOnNodes
<1>7. QED
  BY <1>2, <1>4, <1>5, <1>6

-----------------------------------------------------------------------------
(* What the parameters are reported for.                                    *)

Of(reasons) == {r.of : r \in reasons}

Dependencies == {r \in report.parameters : r.kind = "dependency"}

\* The edges lead from and to what was reached, and those that were causal
\* suffice to get there.
EdgesInv ==
    Searching =>
        /\ parameterQueue \subseteq ReachedParameters
        /\ causalEdges \subseteq edges
        /\ \A e \in edges :
              /\ e[1] \in ReachedParameters /\ e[2] \in ReachedParameters
              /\ e[2] \in Consumers(context, e[1])
        /\ \A closed :
              (/\ Roots(context) \subseteq closed
               /\ \A e \in causalEdges : e[1] \in closed => e[2] \in closed)
              => ReachedParameters \subseteq closed

LEMMA SameConsumers ==
    ASSUME world' = world
    PROVE  /\ \A c, d : Consumers(c, d)' = Consumers(c, d)
           /\ \A c : Roots(c)' = Roots(c)
           /\ \A c : ParameterReads(c)' = ParameterReads(c)
           /\ \A c, roots : AffectedParameters(c, roots)' = AffectedParameters(c, roots)
           /\ Parameters' = Parameters /\ Contexts' = Contexts
BY DEF Consumers, BoundConsumers, DefaultConsumers, OverrideConsumers, Parameters,
       Document, Overridden, Overrides, Roots, Targets, Changes, ParameterReads,
       AffectedParameters, Contexts, Configurations

LEMMA EdgesStep ==
    ASSUME ContextInv, SearchInv, EdgesInv, [Next]_vars
    PROVE  EdgesInv'
<1>1. /\ world' = world
      /\ \A c, d : Consumers(c, d)' = Consumers(c, d)
      /\ \A c : Roots(c)' = Roots(c)
  BY ContextStep, SameConsumers
<1>2. CASE StartContext
  <2>1. /\ reached'.external = Changes.parameters
        /\ reached'.configuration = Targets(context')
        /\ parameterQueue' = Changes.parameters \cup Targets(context')
        /\ edges' = {} /\ causalEdges' = {}
    BY <1>2 DEF StartContext
  <2>2. ReachedParameters' = Roots(context')
    BY <2>1 DEF ReachedParameters, Roots
  <2>3. QED
    BY <1>1, <2>1, <2>2 DEF EdgesInv, Roots
<1>3. CASE SpreadParameter
  <2>1. PICK d \in parameterQueue :
           LET changed == PassedOn(d, "external") \cup PassedOn(d, "configuration")
           IN /\ reached' = [external |-> reached.external \cup PassedOn(d, "external"),
                             configuration |-> reached.configuration
                                                   \cup PassedOn(d, "configuration")]
              /\ parameterQueue' = (parameterQueue \ {d}) \cup changed
              /\ edges' = edges \cup ({d} \X Consumers(context, d))
              /\ causalEdges' = causalEdges \cup ({d} \X changed)
    BY <1>3 DEF SpreadParameter
  <2>2. Searching /\ context' = context
    BY <1>3 DEF SpreadParameter, Searching
  <2> DEFINE changed == PassedOn(d, "external") \cup PassedOn(d, "configuration")
  <2>3. ReachedParameters' = ReachedParameters \cup changed
    BY <2>1 DEF ReachedParameters
  <2>4. d \in ReachedParameters /\ changed \subseteq Consumers(context, d)
    BY <2>1, <2>2 DEF EdgesInv, PassedOn
  <2>5. Consumers(context, d) \subseteq ReachedParameters'
    BY <2>3, <2>4 DEF PassedOn, ReachedParameters
  <2>6. /\ parameterQueue' = (parameterQueue \ {d}) \cup changed
        /\ edges' = edges \cup ({d} \X Consumers(context, d))
        /\ causalEdges' = causalEdges \cup ({d} \X changed)
    BY <2>1
  <2> HIDE DEF changed
  <2>7. parameterQueue' \subseteq ReachedParameters' /\ causalEdges' \subseteq edges'
    BY <2>2, <2>3, <2>4, <2>6 DEF EdgesInv
  <2>8. ASSUME NEW e \in edges'
        PROVE  /\ e[1] \in ReachedParameters' /\ e[2] \in ReachedParameters'
               /\ e[2] \in Consumers(context, e[1])
    BY <2>2, <2>3, <2>4, <2>5, <2>6 DEF EdgesInv
  <2>9. ASSUME NEW closed, Roots(context) \subseteq closed,
               \A e \in causalEdges' : e[1] \in closed => e[2] \in closed
        PROVE  ReachedParameters' \subseteq closed
    <3>1. ReachedParameters \subseteq closed
      BY <2>2, <2>6, <2>9 DEF EdgesInv
    <3>2. changed \subseteq closed
      <4> SUFFICES ASSUME NEW p \in changed PROVE p \in closed
        OBVIOUS
      <4>1. <<d, p>> \in causalEdges'
        BY <2>6
      <4>2. QED
        BY <2>4, <2>9, <3>1, <4>1
    <3>3. QED
      BY <2>3, <3>1, <3>2
  <2>10. QED
    BY <1>1, <2>2, <2>7, <2>8, <2>9 DEF EdgesInv
<1>4. CASE FinishParameters \/ ReachOut \/ SpreadNode \/ UNCHANGED vars
  <2>1. /\ UNCHANGED <<context, reached, parameterQueue, edges, causalEdges>>
        /\ Searching' => Searching
    BY <1>4 DEF FinishParameters, ReachOut, SpreadNode, vars, Searching
  <2>2. ReachedParameters' = ReachedParameters
    BY <2>1 DEF ReachedParameters
  <2>3. QED
    BY <1>1, <2>1, <2>2 DEF EdgesInv
<1>5. CASE FinishContext \/ Finish \/ ExceedWork
  BY <1>5 DEF FinishContext, Finish, ExceedWork, Searching, EdgesInv
<1>6. QED
  BY <1>2, <1>3, <1>4, <1>5 DEF Next

\* Whatever part of the cycles the reasons leave out, they cover all.
LEMMA CausesCover ==
    ASSUME ContextInv, SearchInv, EdgesInv, Searching
    PROVE  /\ ReachedParameters = Roots(context) \cup {e[2] : e \in Causes}
           /\ causalEdges \subseteq Causes /\ Causes \subseteq edges
<1>1. causalEdges \subseteq Causes /\ Causes \subseteq edges
  BY DEF EdgesInv, Causes
<1>2. Roots(context) \subseteq ReachedParameters
  BY DEF SearchInv, OriginInv, Roots, ReachedParameters
<1>3. {e[2] : e \in Causes} \subseteq ReachedParameters
  BY <1>1 DEF EdgesInv
<1>4. ReachedParameters \subseteq Roots(context) \cup {e[2] : e \in causalEdges}
  BY DEF EdgesInv
<1>5. QED
  BY <1>1, <1>2, <1>3, <1>4

\* The contexts whose parameters are reported.
ParametersDone ==
    Relevant \ (remaining \cup IF stage = "parameters" THEN {context} ELSE {})

ParametersInv ==
    stage # "failed" =>
        Of(report.parameters) =
            Changes.parameters
            \cup (UNION {AffectedParameters(c, Roots(c)) : c \in ParametersDone})
            \cup IF stage = "parameters" THEN Targets(context) ELSE {}

LEMMA ReasonParts ==
    ASSUME NEW of, NEW kind, NEW from
    PROVE  /\ Reason(of, kind, from).of = of
           /\ Reason(of, kind, from).kind = kind
           /\ Reason(of, kind, from).from = from
BY DEF Reason

LEMMA OfMember ==
    ASSUME NEW reasons, NEW x
    PROVE  x \in Of(reasons) <=> \E r \in reasons : x = r.of
BY DEF Of

LEMMA OfEach ==
    ASSUME NEW S, NEW kind, NEW from
    PROVE  Of({Reason(x, kind, from) : x \in S}) = S
<1> DEFINE R == {Reason(x, kind, from) : x \in S}
<1>1. \A r : r \in R <=> \E x \in S : r = Reason(x, kind, from)
  OBVIOUS
<1> HIDE DEF R
<1>2. Of(R) = S
  BY <1>1, ReasonParts, OfMember
<1>3. QED
  BY <1>2 DEF R

LEMMA OfEdges ==
    ASSUME NEW E
    PROVE  Of({Reason(e[2], "dependency", e[1]) : e \in E}) = {e[2] : e \in E}
<1> DEFINE R == {Reason(e[2], "dependency", e[1]) : e \in E}
<1>1. \A r : r \in R <=> \E e \in E : r = Reason(e[2], "dependency", e[1])
  OBVIOUS
<1> HIDE DEF R
<1>2. Of(R) = {e[2] : e \in E}
  BY <1>1, ReasonParts, OfMember
<1>3. QED
  BY <1>2 DEF R

LEMMA OfUnion ==
    ASSUME NEW A, NEW B
    PROVE  Of(A \cup B) = Of(A) \cup Of(B)
BY DEF Of

LEMMA ParametersStep ==
    ASSUME ContextInv, SearchInv, EdgesInv, ParametersInv, [Next]_vars
    PROVE  ParametersInv'
<1>1. /\ world' = world /\ Relevant' = Relevant /\ Changes' = Changes
      /\ \A c : Targets(c)' = Targets(c)
      /\ \A c : AffectedParameters(c, Roots(c))' = AffectedParameters(c, Roots(c))
  BY ContextStep, SameWorld, SameConsumers
<1>2. \A reasons : Of(reasons)' = Of(reasons)
  BY DEF Of
<1>3. CASE StartContext
  <2>1. /\ report'.parameters = report.parameters \cup
               {Reason(p, "configuration", context') : p \in Targets(context')}
        /\ stage = "next" /\ stage' = "parameters"
    BY <1>3 DEF StartContext, ContextInv
  <2>2. Of({Reason(p, "configuration", context') : p \in Targets(context')})
            = Targets(context')
    BY OfEach
  <2>3. Of(report'.parameters) = Of(report.parameters) \cup Targets(context')
    BY <2>1, <2>2, OfUnion
  <2>4. ParametersDone' = ParametersDone
    BY <1>1, <1>3 DEF StartContext, ParametersDone
  <2>5. Of(report'.parameters) =
            Changes.parameters
            \cup (UNION {AffectedParameters(c, Roots(c)) : c \in ParametersDone'})
            \cup Targets(context')
    BY <2>1, <2>3, <2>4 DEF ParametersInv
  <2>6. QED
    BY <1>1, <1>2, <2>1, <2>5 DEF ParametersInv
<1>4. CASE FinishParameters
  <2>1. /\ report'.parameters = report.parameters \cup
               {Reason(edge[2], "dependency", edge[1]) : edge \in Causes}
        /\ stage = "parameters" /\ stage' = "materials" /\ parameterQueue = {}
        /\ UNCHANGED <<remaining, context>> /\ Searching
    BY <1>4 DEF FinishParameters, ContextInv, Searching
  <2>2. Of({Reason(edge[2], "dependency", edge[1]) : edge \in Causes})
            = {e[2] : e \in Causes}
    BY OfEdges
  <2>3. Of(report'.parameters) = Of(report.parameters) \cup {e[2] : e \in Causes}
    BY <2>1, <2>2, OfUnion
  <2>4. AffectedParameters(context, Roots(context))
            = Changes.parameters \cup Targets(context) \cup {e[2] : e \in Causes}
    BY <2>1, CausesCover, EverythingReached DEF Roots
  <2>5. ParametersDone' = ParametersDone \cup {context}
    BY <1>1, <2>1 DEF ParametersDone, ContextInv
  <2>6. Of(report'.parameters) =
            Changes.parameters \cup
                UNION {AffectedParameters(c, Roots(c)) : c \in ParametersDone \cup {context}}
    <3>1. Of(report.parameters) =
              Changes.parameters
              \cup (UNION {AffectedParameters(c, Roots(c)) : c \in ParametersDone})
              \cup Targets(context)
      BY <2>1 DEF ParametersInv
    <3>2. QED
      BY <2>3, <2>4, <3>1
  <2>7. QED
    BY <1>1, <1>2, <2>1, <2>5, <2>6 DEF ParametersInv
<1>5. CASE SpreadParameter \/ ReachOut \/ SpreadNode \/ FinishContext \/ Finish \/ UNCHANGED vars
  <2>1. /\ report'.parameters = report.parameters
        /\ UNCHANGED <<remaining, context>>
        /\ stage' = "parameters" <=> stage = "parameters"
        /\ stage = "failed" => stage' = "failed"
    BY <1>5 DEF SpreadParameter, ReachOut, SpreadNode, FinishContext, Finish, vars,
                ContextInv
  <2>2. ParametersDone' = ParametersDone
    BY <1>1, <2>1 DEF ParametersDone
  <2>3. QED
    BY <1>1, <1>2, <2>1, <2>2 DEF ParametersInv
<1>6. CASE ExceedWork
  BY <1>6 DEF ExceedWork, ParametersInv
<1>7. QED
  BY <1>3, <1>4, <1>5, <1>6 DEF Next

-----------------------------------------------------------------------------
(* Materials and nodes.                                                     *)

MaterialsInv ==
    stage # "failed" =>
        Of(report.materials) =
            Changes.materials
            \cup UNION {Using(AffectedParameters(c, Roots(c))) : c \in ReachedOut}

LEMMA MaterialsStep ==
    ASSUME ContextInv, SearchInv, MaterialsInv, [Next]_vars
    PROVE  MaterialsInv'
<1>1. /\ Changes' = Changes
      /\ \A c : Using(AffectedParameters(c, Roots(c)))' = Using(AffectedParameters(c, Roots(c)))
  BY ContextStep, SameWorld, SameConsumers DEF Using, Materials, Document
<1>2. \A reasons : Of(reasons)' = Of(reasons)
  BY DEF Of
<1>3. CASE ReachOut
  <2>1. Searching /\ parameterQueue = {} /\ stage # "failed"
    BY <1>3 DEF ReachOut, SearchInv, Searching
  <2>2. report'.materials = report.materials \cup MaterialReasons
    BY <1>3 DEF ReachOut, ContextInv
  <2>3. Of(MaterialReasons) = Using(ReachedParameters)
    <3> DEFINE reasons(p) == {Reason(m, "parameter", p) : m \in Using({p})}
    <3>1. MaterialReasons = UNION {reasons(p) : p \in ReachedParameters}
      BY DEF MaterialReasons
    <3>2. \A p : Of(reasons(p)) = Using({p})
      BY OfEach
    <3> HIDE DEF reasons
    <3>3. \A m : m \in Of(MaterialReasons) <=>
                    \E p \in ReachedParameters : m \in Of(reasons(p))
      BY <3>1, OfMember
    <3>4. QED
      BY <3>2, <3>3 DEF Using
  <2>4. Of(report'.materials)
            = Of(report.materials) \cup Using(AffectedParameters(context, Roots(context)))
    BY <2>1, <2>2, <2>3, OfUnion, EverythingReached
  <2>5. QED
    BY <1>1, <1>2, <1>3, <2>1, <2>4, ReachedOutStep DEF MaterialsInv
<1>4. CASE ~ReachOut
  <2>1. report'.materials = report.materials
    BY <1>4 DEF ContextInv, Next, vars, StartContext, SpreadParameter, FinishParameters,
                SpreadNode, FinishContext, Finish, ExceedWork
  <2>2. stage = "failed" => stage' = "failed"
    BY <1>4 DEF Next, vars, StartContext, SpreadParameter, FinishParameters, SpreadNode,
                FinishContext, Finish, ExceedWork
  <2>3. QED
    BY <1>1, <1>2, <1>4, <2>1, <2>2, ReachedOutStep DEF MaterialsInv
<1>5. QED
  BY <1>3, <1>4

\* What is reached by other than through another node.
Direct(reasons) == {r \in reasons : r.kind # "dependency"}

LEMMA OverriddenNodesExist ==
    ASSUME world \in Worlds, NEW c \in Contexts
    PROVE  /\ Changes.nodes \subseteq Nodes
           /\ DOMAIN Overrides(c).materials \subseteq Nodes
           /\ {x[1] : x \in DOMAIN Overrides(c).suppressed} \subseteq Nodes
<1>1. CASE c = Base
  BY <1>1, BaseOverrides, WorldsAssumption DEF Changes, Nodes, Document
<1>2. CASE c \in Configurations
  BY <1>2, WorldsAssumption DEF Overrides, Configurations, Document, Nodes, Changes
<1>3. QED
  BY <1>1, <1>2 DEF Contexts

LEMMA ReasonsTouch ==
    ASSUME world \in Worlds, NEW c \in Contexts,
           ReachedParameters = AffectedParameters(c, Roots(c))
    PROVE  /\ Of(NodeReasons(c)) = TouchedNodes(c)
           /\ Direct(NodeReasons(c)) = NodeReasons(c)
<1> DEFINE refs(n) == {Reason(n, "topologyReference", t) :
                         t \in Document.nodes[n].references \cap Changes.topologyReferences}
           pars(n) == {Reason(n, "parameter", p) :
                         p \in ParametersOf(c, n) \cap ReachedParameters}
           mats == {x \in Nodes : EffectiveMaterial(c, x) \in ReachedMaterials}
           material == {Reason(n, "material", EffectiveMaterial(c, n)) : n \in mats}
           own == IF c \notin Changes.configurations THEN {}
                  ELSE DOMAIN Overrides(c).materials
                       \cup {x[1] : x \in DOMAIN Overrides(c).suppressed}
           owned == {Reason(n, "configuration", c) : n \in own}
           seeds == Seeds(Changes.nodes)
<1>1. ASSUME NEW r
      PROVE  r \in NodeReasons(c) <=>
                \/ r \in seeds
                \/ \E n \in Nodes : r \in refs(n)
                \/ \E n \in Nodes : r \in pars(n)
                \/ r \in material
                \/ r \in owned
  BY DEF NodeReasons
<1>2. /\ Of(seeds) = Changes.nodes
      /\ \A r \in seeds : r.kind = "seed"
  BY OfEach, ReasonParts DEF Seeds
<1>3. \A n : \A r \in refs(n) : r.of = n /\ r.kind = "topologyReference"
  BY ReasonParts
<1>4. \A n : refs(n) # {} <=>
                Document.nodes[n].references \cap Changes.topologyReferences # {}
  OBVIOUS
<1>5. \A n : \A r \in pars(n) : r.of = n /\ r.kind = "parameter"
  BY ReasonParts
<1>6. \A n : pars(n) # {} <=> ParametersOf(c, n) \cap ReachedParameters # {}
  OBVIOUS
<1>7. \A r \in material : r.of \in mats /\ r.kind = "material"
  BY ReasonParts
<1>8. \A n \in mats : \E r \in material : r.of = n
  BY ReasonParts
<1>9. Of(owned) = own /\ \A r \in owned : r.kind = "configuration"
  <2> HIDE DEF own
  <2>1. Of(owned) = own
    BY OfEach
  <2>2. \A r \in owned : r.kind = "configuration"
    BY ReasonParts
  <2>3. QED
    BY <2>1, <2>2
<1>10. Changes.nodes \subseteq Nodes /\ own \subseteq Nodes
  BY OverriddenNodesExist
<1>11. \A n \in Nodes : n \in TouchedNodes(c) <=>
                \/ n \in Changes.nodes
                \/ refs(n) # {}
                \/ pars(n) # {}
                \/ n \in mats
                \/ n \in own
  <2>1. ReachedMaterials = AffectedMaterials(c, Roots(c))
    BY DEF ReachedMaterials, AffectedMaterials
  <2>2. QED
    BY <1>4, <1>6, <2>1 DEF TouchedNodes, Touched
<1>12. TouchedNodes(c) \subseteq Nodes
  BY DEF TouchedNodes
<1> HIDE DEF refs, pars, mats, material, own, owned, seeds
<1>13. \A r \in NodeReasons(c) : r.kind # "dependency"
  BY <1>1, <1>2, <1>3, <1>5, <1>7, <1>9
<1>14. \A n : n \in Of(NodeReasons(c)) <=>
                \/ n \in Of(seeds)
                \/ n \in Nodes /\ refs(n) # {}
                \/ n \in Nodes /\ pars(n) # {}
                \/ n \in mats
                \/ n \in Of(owned)
  <2>1. \A n : n \in Of(NodeReasons(c)) =>
                \/ n \in Of(seeds)
                \/ n \in Nodes /\ refs(n) # {}
                \/ n \in Nodes /\ pars(n) # {}
                \/ n \in mats
                \/ n \in Of(owned)
    BY <1>1, <1>3, <1>5, <1>7, OfMember
  <2>2. \A n : n \in Of(seeds) \/ n \in Of(owned) => n \in Of(NodeReasons(c))
    BY <1>1, OfMember
  <2>3. \A n \in Nodes : refs(n) # {} \/ pars(n) # {} => n \in Of(NodeReasons(c))
    BY <1>1, <1>3, <1>5, OfMember
  <2>4. \A n \in mats : n \in Of(NodeReasons(c))
    BY <1>1, <1>8, OfMember
  <2>5. QED
    BY <2>1, <2>2, <2>3, <2>4
<1>15. mats \subseteq Nodes
  BY DEF mats
<1>16. QED
  BY <1>2, <1>9, <1>10, <1>11, <1>12, <1>13, <1>14, <1>15 DEF Direct

DirectInv ==
    stage # "failed" =>
        Of(Direct(report.nodes)) =
            Changes.nodes \cup (UNION {TouchedNodes(c) : c \in ReachedOut})

LEMMA SameNodes ==
    ASSUME world' = world
    PROVE  /\ Changes' = Changes /\ Nodes' = Nodes
           /\ \A c, d : NodeConsumers(c, d)' = NodeConsumers(c, d)
           /\ \A c : TouchedNodes(c)' = TouchedNodes(c)
           /\ \A c : AffectedNodes(c)' = AffectedNodes(c)
BY DEF Changes, Nodes, Document, NodeConsumers, ActiveInstances, Active, Overrides,
       TouchedNodes, Touched, ParametersOf, EffectiveMaterial, AffectedMaterials, Using,
       Materials, AffectedParameters, Parameters, ParameterReads, Overridden, Roots,
       Targets, AffectedNodes, NodeReads

LEMMA SpreadIsIndirect ==
    ASSUME NEW reasons, NEW S, NEW d
    PROVE  Direct(reasons \cup {Reason(n, "dependency", d) : n \in S}) = Direct(reasons)
<1> DEFINE new == {Reason(n, "dependency", d) : n \in S}
<1>1. \A r \in new : r.kind = "dependency"
  BY ReasonParts
<1> HIDE DEF new
<1>2. Direct(reasons \cup new) = Direct(reasons)
  BY <1>1 DEF Direct
<1>3. QED
  BY <1>2 DEF new

LEMMA DirectStep ==
    ASSUME ContextInv, SearchInv, DirectInv, [Next]_vars
    PROVE  DirectInv'
<1>1. /\ Changes' = Changes
      /\ \A c : TouchedNodes(c)' = TouchedNodes(c)
  BY ContextStep, SameNodes
<1>2. \A reasons : Of(Direct(reasons))' = Of(Direct(reasons))
  BY DEF Of, Direct
<1>3. CASE ReachOut
  <2>1. Searching /\ parameterQueue = {} /\ stage # "failed"
    BY <1>3 DEF ReachOut, SearchInv, Searching
  <2>2. report'.nodes = report.nodes \cup NodeReasons(context)
    BY <1>3 DEF ReachOut, ContextInv
  <2>3. /\ Of(NodeReasons(context)) = TouchedNodes(context)
        /\ Direct(NodeReasons(context)) = NodeReasons(context)
    BY <2>1, EverythingReached, ReasonsTouch DEF ContextInv
  <2>4. Direct(report'.nodes) = Direct(report.nodes) \cup NodeReasons(context)
    BY <2>2, <2>3 DEF Direct
  <2>5. Of(Direct(report'.nodes)) = Of(Direct(report.nodes)) \cup TouchedNodes(context)
    BY <2>3, <2>4, OfUnion
  <2>6. QED
    BY <1>1, <1>2, <1>3, <2>1, <2>5, ReachedOutStep DEF DirectInv
<1>4. CASE ~ReachOut
  <2>1. Direct(report'.nodes) = Direct(report.nodes)
    <3>1. CASE SpreadNode
      <4>1. PICK d : report'.nodes = report.nodes \cup
                        {Reason(n, "dependency", d) : n \in NodeConsumers(context, d)}
        <5>1. PICK d \in nodeQueue :
                 report' = [report EXCEPT !.nodes = @ \cup
                     {Reason(n, "dependency", d) : n \in NodeConsumers(context, d)}]
          BY <3>1 DEF SpreadNode
        <5>2. report'.nodes = report.nodes \cup
                  {Reason(n, "dependency", d) : n \in NodeConsumers(context, d)}
          BY <5>1 DEF ContextInv
        <5>3. QED
          BY <5>2
      <4>2. \A S : Direct(report.nodes \cup {Reason(n, "dependency", d) : n \in S})
                      = Direct(report.nodes)
        BY SpreadIsIndirect
      <4>3. QED
        BY <4>1, <4>2, Zenon
    <3>2. CASE ~SpreadNode
      <4>1. report'.nodes = report.nodes
        BY <1>4, <3>2 DEF ContextInv, Next, vars, StartContext, SpreadParameter,
                          FinishParameters, FinishContext, Finish, ExceedWork
      <4>2. QED
        BY <4>1
    <3>3. QED
      BY <3>1, <3>2
  <2>2. stage = "failed" => stage' = "failed"
    BY <1>4 DEF Next, vars, StartContext, SpreadParameter, FinishParameters, SpreadNode,
                FinishContext, Finish, ExceedWork
  <2>3. QED
    BY <1>1, <1>2, <1>4, <2>1, <2>2, ReachedOutStep DEF DirectInv
<1>5. QED
  BY <1>3, <1>4

-----------------------------------------------------------------------------
(* The worklist of nodes.                                                   *)

Finished == Relevant \ (remaining \cup IF Searching THEN {context} ELSE {})

NodeSearchInv ==
    stage = "nodes" =>
        /\ TouchedNodes(context) \subseteq contextNodes
        /\ contextNodes \subseteq AffectedNodes(context)
        /\ nodeQueue \subseteq contextNodes
        /\ \A d \in contextNodes :
              d \in nodeQueue \/ NodeConsumers(context, d) \subseteq contextNodes

NodesInv ==
    stage # "failed" =>
        /\ Of(report.nodes) =
              Changes.nodes \cup (UNION {AffectedNodes(c) : c \in Finished})
              \cup IF stage = "nodes" THEN contextNodes ELSE {}
        /\ report.outputNodes = UNION {AffectedNodes(c) : c \in Finished}

LEMMA NodeConsumersRead ==
    ASSUME NEW c, NEW d
    PROVE  NodeConsumers(c, d) = {n \in Nodes : d \in NodeReads(c)[n]}
BY DEF NodeConsumers, NodeReads

LEMMA NodeSearchStep ==
    ASSUME ContextInv, SearchInv, NodeSearchInv, [Next]_vars
    PROVE  NodeSearchInv'
<1>1. /\ \A c, d : NodeConsumers(c, d)' = NodeConsumers(c, d)
      /\ \A c : TouchedNodes(c)' = TouchedNodes(c)
      /\ \A c : AffectedNodes(c)' = AffectedNodes(c)
  BY ContextStep, SameNodes
<1>2. CASE ReachOut
  <2>1. Searching /\ parameterQueue = {}
    BY <1>2 DEF ReachOut, SearchInv, Searching
  <2>2. Of(NodeReasons(context)) = TouchedNodes(context)
    BY <2>1, EverythingReached, ReasonsTouch DEF ContextInv
  <2>3. /\ contextNodes' = TouchedNodes(context) /\ nodeQueue' = contextNodes'
        /\ context' = context
    BY <1>2, <2>2 DEF ReachOut, Of
  <2>4. TouchedNodes(context) \subseteq AffectedNodes(context)
    BY FollowRoots DEF AffectedNodes, TouchedNodes
  <2>5. QED
    BY <1>1, <2>3, <2>4 DEF NodeSearchInv
<1>3. CASE SpreadNode
  <2>1. PICK d \in nodeQueue :
           /\ contextNodes' = contextNodes \cup NodeConsumers(context, d)
           /\ nodeQueue' = (nodeQueue \ {d}) \cup (NodeConsumers(context, d) \ contextNodes)
    BY <1>3 DEF SpreadNode
  <2>2. stage = "nodes" /\ context' = context
    BY <1>3 DEF SpreadNode
  <2>3. d \in contextNodes => NodeConsumers(context, d) \subseteq AffectedNodes(context)
    BY <2>2, NodeConsumersRead, FollowClosed DEF NodeSearchInv, AffectedNodes
  <2>4. d \in contextNodes
    BY <2>1, <2>2 DEF NodeSearchInv
  <2>5. QED
    BY <1>1, <2>1, <2>2, <2>3, <2>4 DEF NodeSearchInv
<1>4. CASE UNCHANGED vars
  BY <1>1, <1>4 DEF vars, NodeSearchInv
<1>5. CASE StartContext \/ SpreadParameter \/ FinishParameters \/ FinishContext \/ Finish
           \/ ExceedWork
  BY <1>5 DEF StartContext, SpreadParameter, FinishParameters, FinishContext, Finish,
              ExceedWork, NodeSearchInv
<1>6. QED
  BY <1>2, <1>3, <1>4, <1>5 DEF Next

LEMMA NoNodeMissed ==
    ASSUME NodeSearchInv, stage = "nodes", nodeQueue = {}
    PROVE  contextNodes = AffectedNodes(context)
<1>1. contextNodes \subseteq Nodes
  BY FollowWithin DEF NodeSearchInv, AffectedNodes
<1>2. ASSUME NEW y \in Nodes, NodeReads(context)[y] \cap contextNodes # {}
      PROVE  y \in contextNodes
  BY <1>2, NodeConsumersRead DEF NodeSearchInv
<1>3. AffectedNodes(context) \subseteq contextNodes
  BY <1>1, <1>2, FollowLeast DEF NodeSearchInv, AffectedNodes
<1>4. QED
  BY <1>3 DEF NodeSearchInv

LEMMA NodesStep ==
    ASSUME ContextInv, SearchInv, NodeSearchInv, NodesInv, [Next]_vars
    PROVE  NodesInv'
<1>1. /\ Changes' = Changes /\ Relevant' = Relevant
      /\ \A c : AffectedNodes(c)' = AffectedNodes(c)
  BY ContextStep, SameNodes, SameWorld
<1>2. \A reasons : Of(reasons)' = Of(reasons)
  BY DEF Of
<1>3. CASE ReachOut
  <2>1. Searching /\ parameterQueue = {}
    BY <1>3 DEF ReachOut, SearchInv, Searching
  <2>2. Of(NodeReasons(context)) = contextNodes'
    BY <1>3 DEF ReachOut, Of
  <2>3. /\ report'.nodes = report.nodes \cup NodeReasons(context)
        /\ report'.outputNodes = report.outputNodes
    BY <1>3 DEF ReachOut, ContextInv
  <2>4. Of(report'.nodes) = Of(report.nodes) \cup contextNodes'
    BY <2>2, <2>3, OfUnion
  <2>5. Finished' = Finished /\ stage = "materials" /\ stage' = "nodes"
    BY <1>1, <1>3 DEF Finished, ReachOut, Searching
  <2>6. QED
    BY <1>1, <1>2, <2>3, <2>4, <2>5 DEF NodesInv
<1>4. CASE SpreadNode
  <2>1. PICK d \in nodeQueue :
           /\ report' = [report EXCEPT !.nodes = @ \cup
                  {Reason(n, "dependency", d) : n \in NodeConsumers(context, d)}]
           /\ contextNodes' = contextNodes \cup NodeConsumers(context, d)
    BY <1>4 DEF SpreadNode
  <2>2. /\ report'.nodes = report.nodes \cup
               {Reason(n, "dependency", d) : n \in NodeConsumers(context, d)}
        /\ report'.outputNodes = report.outputNodes
    BY <2>1 DEF ContextInv
  <2>3. Of({Reason(n, "dependency", d) : n \in NodeConsumers(context, d)})
            = NodeConsumers(context, d)
    BY OfEach
  <2>4. Of(report'.nodes) = Of(report.nodes) \cup NodeConsumers(context, d)
    BY <2>2, <2>3, OfUnion
  <2>5. Finished' = Finished /\ stage = "nodes" /\ stage' = "nodes"
    BY <1>1, <1>4 DEF Finished, SpreadNode, Searching
  <2>6. QED
    BY <1>1, <1>2, <2>1, <2>2, <2>4, <2>5 DEF NodesInv
<1>5. CASE FinishContext
  <2>1. /\ report'.nodes = report.nodes
        /\ report'.outputNodes = report.outputNodes \cup contextNodes
        /\ stage = "nodes" /\ stage' = "next"
    BY <1>5 DEF FinishContext, ContextInv
  <2>2. contextNodes = AffectedNodes(context)
    BY <1>5, NoNodeMissed DEF FinishContext
  <2>3. Finished' = Finished \cup {context}
    BY <1>1, <1>5 DEF Finished, FinishContext, Searching, ContextInv
  <2>4. QED
    BY <1>1, <1>2, <2>1, <2>2, <2>3 DEF NodesInv
<1>6. CASE StartContext \/ SpreadParameter \/ FinishParameters \/ Finish \/ UNCHANGED vars
  <2>1. /\ report'.nodes = report.nodes /\ report'.outputNodes = report.outputNodes
        /\ stage = "failed" => stage' = "failed"
        /\ stage' = "nodes" => stage = "nodes" /\ contextNodes' = contextNodes
        /\ stage = "nodes" => stage' = "nodes"
    BY <1>6 DEF StartContext, SpreadParameter, FinishParameters, Finish, vars, ContextInv
  <2>2. Finished' = Finished
    BY <1>1, <1>6 DEF StartContext, SpreadParameter, FinishParameters, Finish, vars,
                      Finished, Searching
  <2>3. QED
    BY <1>1, <1>2, <2>1, <2>2 DEF NodesInv
<1>7. CASE ExceedWork
  BY <1>7 DEF ExceedWork, NodesInv
<1>8. QED
  BY <1>3, <1>4, <1>5, <1>6, <1>7 DEF Next

-----------------------------------------------------------------------------
(* The theorems.                                                            *)

Inv ==
    /\ ContextInv /\ SearchInv /\ EdgesInv /\ NodeSearchInv
    /\ ParametersInv /\ MaterialsInv /\ BlameInv /\ DirectInv /\ NodesInv

LEMMA InitInv == Init => Inv
<1> SUFFICES ASSUME Init PROVE Inv
  OBVIOUS
<1>1. stage = "next" /\ ~Searching
  BY DEF Init, Searching
<1>2. ContextInv /\ SearchInv /\ EdgesInv /\ NodeSearchInv
  BY <1>1 DEF Init, ContextInv, SearchInv, EdgesInv, NodeSearchInv, Relevant
<1>3. remaining = Relevant
  BY DEF Init, Relevant
<1>4. ParametersDone = {} /\ ReachedOut = {} /\ Finished = {}
  BY <1>1, <1>3 DEF ParametersDone, ReachedOut, Finished
<1>5. \A ids : Of(Seeds(ids)) = ids /\ Direct(Seeds(ids)) = Seeds(ids)
  <2>1. \A ids : Of(Seeds(ids)) = ids
    BY OfEach DEF Seeds
  <2>2. \A ids : \A r \in Seeds(ids) : r.kind = "seed"
    BY ReasonParts DEF Seeds
  <2>3. QED
    BY <2>1, <2>2 DEF Direct
<1>6. /\ report.parameters = Seeds(Changes.parameters)
      /\ report.materials = Seeds(Changes.materials)
      /\ report.configurations = Seeds(Changes.configurations)
      /\ report.nodes = Seeds(Changes.nodes)
      /\ report.outputNodes = {}
  BY DEF Init
<1>7. ParametersInv
  BY <1>1, <1>4, <1>5, <1>6 DEF ParametersInv
<1>8. MaterialsInv /\ BlameInv
  BY <1>4, <1>5, <1>6 DEF MaterialsInv, BlameInv
<1>9. DirectInv /\ NodesInv
  BY <1>1, <1>4, <1>5, <1>6 DEF DirectInv, NodesInv
<1>10. QED
  BY <1>2, <1>7, <1>8, <1>9 DEF Inv

LEMMA InvStep == Inv /\ [Next]_vars => Inv'
BY ContextStep, SearchStep, EdgesStep, NodeSearchStep, ParametersStep, MaterialsStep,
   BlameStep, DirectStep, NodesStep DEF Inv

LEMMA DoneWithAll ==
    ASSUME Inv, stage = "done"
    PROVE  ParametersDone = Relevant /\ ReachedOut = Relevant /\ Finished = Relevant
BY DEF Inv, ContextInv, ParametersDone, ReachedOut, Finished, Searching

\* Whichever origin reached a parameter first, a configuration is reported
\* exactly for what something else than itself affects.
THEOREM BlameExact == Spec => []BlameIsExact
<1>1. Inv => BlameIsExact
  BY DoneWithAll, RelevantSuffice DEF Inv, BlameInv, BlameIsExact
<1>2. QED
  BY InitInv, InvStep, <1>1, PTL DEF Spec

\* What is reported is exactly what can be affected in some context.
THEOREM ImpactExact == Spec => []ImpactIsExact
<1>1. Inv => ImpactIsExact
  <2> SUFFICES ASSUME Inv, stage = "done" PROVE ImpactIsExact
    BY DEF ImpactIsExact
  <2>1. ParametersDone = Relevant /\ ReachedOut = Relevant /\ Finished = Relevant
    BY DoneWithAll
  <2>2. world \in Worlds /\ Base \in Contexts
    BY DEF Inv, ContextInv, Contexts
  <2>3. Changes.parameters \subseteq AffectedParameters(Base, Roots(Base))
    BY <2>2, FollowRoots, OverriddenExist DEF AffectedParameters, Roots
  <2>4. Changes.nodes \subseteq TouchedNodes(Base)
    BY <2>2, OverriddenNodesExist DEF TouchedNodes, Touched
  <2>5. TouchedNodes(Base) \subseteq AffectedNodes(Base)
    BY FollowRoots DEF AffectedNodes, TouchedNodes
  <2>6. Of(report.parameters) = UNION {AffectedParameters(c, Roots(c)) : c \in Contexts}
    <3>1. Of(report.parameters) = Changes.parameters
             \cup UNION {AffectedParameters(c, Roots(c)) : c \in Relevant}
      BY <2>1 DEF Inv, ParametersInv
    <3>2. QED
      BY <2>2, <2>3, <3>1, RelevantSuffice
  <2>7. Of(report.materials) = UNION {AffectedMaterials(c, Roots(c)) : c \in Contexts}
    <3>1. Of(report.materials) = Changes.materials
             \cup UNION {Using(AffectedParameters(c, Roots(c))) : c \in Relevant}
      BY <2>1 DEF Inv, MaterialsInv
    <3>2. \A c \in Contexts \ Relevant :
             AffectedMaterials(c, Roots(c)) = AffectedMaterials(Base, Roots(Base))
      BY NoEffectOnParameters DEF AffectedMaterials
    <3>3. Base \in Relevant /\ Relevant \subseteq Contexts
      BY RelevantAreContexts DEF Relevant
    <3>4. UNION {AffectedMaterials(c, Roots(c)) : c \in Contexts}
             = UNION {AffectedMaterials(c, Roots(c)) : c \in Relevant}
      BY <3>2, <3>3
    <3>5. UNION {AffectedMaterials(c, Roots(c)) : c \in Relevant}
             = Changes.materials
               \cup UNION {Using(AffectedParameters(c, Roots(c))) : c \in Relevant}
      BY <3>3 DEF AffectedMaterials
    <3>6. QED
      BY <3>1, <3>4, <3>5
  <2>8. /\ Of(report.nodes) = UNION {AffectedNodes(c) : c \in Contexts}
        /\ report.outputNodes = UNION {AffectedNodes(c) : c \in Contexts}
    <3>1. /\ Of(report.nodes) = Changes.nodes
                \cup UNION {AffectedNodes(c) : c \in Relevant}
          /\ report.outputNodes = UNION {AffectedNodes(c) : c \in Relevant}
      BY <2>1 DEF Inv, NodesInv
    <3>2. QED
      BY <2>2, <2>4, <2>5, <3>1, RelevantSuffice
  <2>9. Of(Direct(report.nodes)) = UNION {TouchedNodes(c) : c \in Contexts}
    <3>1. Of(Direct(report.nodes)) = Changes.nodes
             \cup UNION {TouchedNodes(c) : c \in Relevant}
      BY <2>1 DEF Inv, DirectInv
    <3>2. QED
      BY <2>2, <2>4, <3>1, RelevantSuffice
  <2>10. QED
    BY <2>6, <2>7, <2>8, <2>9 DEF ImpactIsExact, Of, Direct
<1>2. QED
  BY InitInv, InvStep, <1>1, PTL DEF Spec

-----------------------------------------------------------------------------
(* The reasons of parameters.                                               *)

\* Every dependency is one in some context, and those reported suffice to get
\* from what is reported for another reason to everything that is reported.
ReasonsInv ==
    /\ Changes.parameters \subseteq Of(Direct(report.parameters))
    /\ stage = "parameters" => Targets(context) \subseteq Of(Direct(report.parameters))
    /\ \A r \in Dependencies : \E c \in Contexts :
          /\ r.from \in AffectedParameters(c, Roots(c))
          /\ r.from \in ParameterReads(c)[r.of]
    /\ \A closed :
          (/\ Of(Direct(report.parameters)) \subseteq closed
           /\ \A r \in Dependencies : r.from \in closed => r.of \in closed)
          => Of(report.parameters) \subseteq closed

LEMMA SameReasons ==
    ASSUME world' = world, report'.parameters = report.parameters,
           stage' = "parameters" => stage = "parameters" /\ context' = context,
           ReasonsInv
    PROVE  ReasonsInv'
<1>1. /\ Changes' = Changes /\ Contexts' = Contexts
      /\ \A c : Targets(c)' = Targets(c)
      /\ \A c : AffectedParameters(c, Roots(c))' = AffectedParameters(c, Roots(c))
      /\ \A c : ParameterReads(c)' = ParameterReads(c)
  BY SameWorld, SameConsumers
<1>2. /\ Of(Direct(report.parameters))' = Of(Direct(report.parameters))
      /\ Of(report.parameters)' = Of(report.parameters)
      /\ Dependencies' = Dependencies
  BY DEF Of, Direct, Dependencies
<1>3. QED
  BY <1>1, <1>2 DEF ReasonsInv

LEMMA ReasonsStep ==
    ASSUME ContextInv, SearchInv, EdgesInv, ReasonsInv, [Next]_vars
    PROVE  ReasonsInv'
<1>1. /\ world' = world
      /\ Changes' = Changes /\ Contexts' = Contexts
      /\ \A c : Targets(c)' = Targets(c)
      /\ \A c : AffectedParameters(c, Roots(c))' = AffectedParameters(c, Roots(c))
      /\ \A c : ParameterReads(c)' = ParameterReads(c)
  BY ContextStep, SameWorld, SameConsumers
<1>2. /\ Of(Direct(report.parameters))' = Of(Direct(report'.parameters))
      /\ Of(report.parameters)' = Of(report'.parameters)
      /\ Dependencies' = {r \in report'.parameters : r.kind = "dependency"}
  BY DEF Of, Direct, Dependencies
<1>3. CASE StartContext
  <2> DEFINE new == {Reason(p, "configuration", context') : p \in Targets(context')}
  <2>1. report'.parameters = report.parameters \cup new
    BY <1>3 DEF StartContext, ContextInv
  <2>2. Of(new) = Targets(context')
    BY OfEach
  <2>3. \A r \in new : r.kind = "configuration"
    BY ReasonParts
  <2> HIDE DEF new
  <2>4. Direct(report'.parameters) = Direct(report.parameters) \cup new
    BY <2>1, <2>3 DEF Direct
  <2>5. /\ Of(Direct(report'.parameters)) = Of(Direct(report.parameters)) \cup Targets(context')
        /\ Of(report'.parameters) = Of(report.parameters) \cup Targets(context')
    BY <2>1, <2>2, <2>4, OfUnion
  <2>6. Dependencies' = Dependencies
    BY <1>2, <2>1, <2>3 DEF Dependencies
  <2>7. QED
    BY <1>1, <1>2, <2>5, <2>6 DEF ReasonsInv
<1>4. CASE FinishParameters
  <2> DEFINE new == {Reason(edge[2], "dependency", edge[1]) : edge \in Causes}
  <2>1. /\ report'.parameters = report.parameters \cup new
        /\ stage = "parameters" /\ stage' = "materials" /\ parameterQueue = {}
        /\ Searching
    BY <1>4 DEF FinishParameters, ContextInv, Searching
  <2>2. \A r \in new : \E e \in Causes :
           r.kind = "dependency" /\ r.of = e[2] /\ r.from = e[1]
    BY ReasonParts
  <2>3. \A e \in Causes : \E r \in new :
           r.kind = "dependency" /\ r.of = e[2] /\ r.from = e[1]
    <3> SUFFICES ASSUME NEW e \in Causes
                 PROVE  \E r \in new : r.kind = "dependency" /\ r.of = e[2] /\ r.from = e[1]
      OBVIOUS
    <3>1. Reason(e[2], "dependency", e[1]) \in new
      OBVIOUS
    <3> HIDE DEF new
    <3>2. QED
      BY <3>1, ReasonParts
  <2>4. Of(new) = {e[2] : e \in Causes}
    BY OfEdges
  <2> HIDE DEF new
  <2>5. /\ Direct(report'.parameters) = Direct(report.parameters)
        /\ Dependencies' = Dependencies \cup new
    BY <1>2, <2>1, <2>2 DEF Direct, Dependencies
  <2>6. Of(report'.parameters) = Of(report.parameters) \cup {e[2] : e \in Causes}
    BY <2>1, <2>4, OfUnion
  <2>7. world \in Worlds /\ context \in Contexts
    BY <2>1, EverythingReached DEF ContextInv
  <2>8. \A e \in Causes :
           /\ e[1] \in AffectedParameters(context, Roots(context))
           /\ e[1] \in ParameterReads(context)[e[2]]
    <3>1. \A e \in Causes : e[1] \in ReachedParameters /\ e[2] \in Consumers(context, e[1])
      BY <2>1, CausesCover DEF EdgesInv
    <3>2. QED
      BY <2>1, <2>7, <3>1, EverythingReached, ConsumersRead
  <2>9. \A r \in Dependencies' : \E c \in Contexts :
           /\ r.from \in AffectedParameters(c, Roots(c))
           /\ r.from \in ParameterReads(c)[r.of]
    BY <2>2, <2>5, <2>7, <2>8 DEF ReasonsInv
  <2>10. ASSUME NEW closed, Of(Direct(report'.parameters)) \subseteq closed,
                \A r \in Dependencies' : r.from \in closed => r.of \in closed
         PROVE  Of(report'.parameters) \subseteq closed
    <3>1. Of(report.parameters) \subseteq closed
      BY <2>5, <2>10 DEF ReasonsInv
    <3>2. Roots(context) \subseteq closed
      BY <2>1, <2>5, <2>10 DEF ReasonsInv, Roots
    <3>3. \A e \in Causes : e[1] \in closed => e[2] \in closed
      BY <2>3, <2>5, <2>10
    <3>4. ReachedParameters \subseteq closed
      BY <2>1, <3>2, <3>3, CausesCover DEF EdgesInv
    <3>5. {e[2] : e \in Causes} \subseteq closed
      BY <2>1, <3>4, CausesCover
    <3>6. QED
      BY <2>6, <3>1, <3>5
  <2>11. QED
    BY <1>1, <1>2, <2>1, <2>5, <2>9, <2>10 DEF ReasonsInv
<1>5. CASE SpreadParameter
  BY <1>1, <1>5, SameReasons DEF SpreadParameter
<1>6. CASE ReachOut \/ SpreadNode \/ FinishContext \/ Finish \/ ExceedWork \/ UNCHANGED vars
  <2>1. /\ report'.parameters = report.parameters
        /\ stage' = "parameters" => stage = "parameters" /\ context' = context
    BY <1>6 DEF ReachOut, SpreadNode, FinishContext, Finish, ExceedWork, vars, ContextInv
  <2>2. QED
    BY <1>1, <2>1, SameReasons
<1>7. QED
  BY <1>3, <1>4, <1>5, <1>6 DEF Next

LEMMA InitReasons == Init => ReasonsInv
<1> SUFFICES ASSUME Init PROVE ReasonsInv
  OBVIOUS
<1>1. report.parameters = Seeds(Changes.parameters) /\ stage = "next"
  BY DEF Init
<1>2. Of(report.parameters) = Changes.parameters
  BY <1>1, OfEach DEF Seeds
<1>3. \A r \in report.parameters : r.kind = "seed"
  BY <1>1, ReasonParts DEF Seeds
<1>4. Direct(report.parameters) = report.parameters /\ Dependencies = {}
  BY <1>3 DEF Direct, Dependencies
<1>5. QED
  BY <1>1, <1>2, <1>4 DEF ReasonsInv

\* From every parameter the reported reasons lead back to a change, although
\* those that only close a cycle are left out; and each is true in a context.
THEOREM ReasonsLead == Spec => []ReasonsLeadToChanges
<1>1. ASSUME Inv, ReasonsInv
      PROVE  ReasonsLeadToChanges
  <2> SUFFICES ASSUME stage = "done" PROVE ReasonsLeadToChanges
    BY DEF ReasonsLeadToChanges
  <2> DEFINE all == Of(report.parameters)
             direct == Of(Direct(report.parameters))
             needs == [p \in Parameters |->
                          {r.from : r \in {x \in Dependencies : x.of = p}}]
             led == Follow(Parameters, direct, needs)
  <2>1. all \subseteq Parameters
    <3>1. Changes.parameters \subseteq Parameters
      BY <1>1, OverriddenExist DEF Inv, ContextInv, Contexts
    <3>2. \A c : AffectedParameters(c, Roots(c)) \subseteq Parameters
      BY FollowWithin DEF AffectedParameters
    <3>3. all = Changes.parameters
             \cup UNION {AffectedParameters(c, Roots(c)) : c \in ParametersDone}
      BY <1>1 DEF Inv, ParametersInv
    <3> HIDE DEF all
    <3>4. QED
      BY <3>1, <3>2, <3>3
  <2>2. direct \subseteq all
    BY DEF Of, Direct
  <2>3. \A r \in Dependencies : r.of \in all
    BY DEF Of, Dependencies
  <2>4. \A r \in Dependencies : r.from \in needs[r.of]
    BY <2>1, <2>3
  <2>5. \A y \in Parameters : needs[y] # {} => y \in all
    BY <2>3
  <2> HIDE DEF all, direct, needs
  <2>6. led \subseteq all
    BY <2>1, <2>2, <2>5, FollowLeast
  <2>7. direct \subseteq led
    BY <2>1, <2>2, FollowRoots
  <2>8. \A r \in Dependencies : r.from \in led => r.of \in led
    BY <2>1, <2>3, <2>4, FollowClosed
  <2> HIDE DEF led
  <2>9. all \subseteq led
    BY <1>1, <2>7, <2>8 DEF ReasonsInv, all, direct
  <2>10. all = led
    BY <2>6, <2>9
  <2>11. Direct(report.parameters) = report.parameters \ Dependencies
    BY DEF Direct, Dependencies
  <2>12. {r.of : r \in report.parameters} =
            Follow(Parameters, {r.of : r \in report.parameters \ Dependencies}, needs)
    BY <2>10, <2>11 DEF all, led, direct, Of
  <2>13. QED
    BY <1>1, <2>12 DEF needs, ReasonsLeadToChanges, ReasonsInv, Dependencies
<1>2. Inv /\ ReasonsInv /\ [Next]_vars => ReasonsInv'
  BY ReasonsStep DEF Inv
<1>3. QED
  BY InitInv, InvStep, InitReasons, <1>1, <1>2, PTL DEF Spec
=============================================================================
