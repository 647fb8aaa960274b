---------------------------- MODULE MCProductPlan ----------------------------
(* Two documents in which outputs are called like nodes, and refer to them,  *)
(* to each other's or to something that is not a part.                       *)
EXTENDS ProductPlan

Local(kind, node, mode) ==
    [suppressed |-> FALSE, placement |-> 0, placeable |-> TRUE, source |-> "local",
     kind |-> kind, node |-> node, mode |-> mode, configuration |-> "c"]

External(kind, output, mode) ==
    [suppressed |-> FALSE, placement |-> 0, placeable |-> TRUE,
     source |-> "external", kind |-> kind, resource |-> "ext", output |-> output,
     mode |-> mode, configuration |-> "c"]

Nodes(instances) ==
    [top |-> [kind |-> "assembly", instances |-> instances],
     a |-> [kind |-> "part", bodies |-> {"s"}],
     b |-> [kind |-> "part", bodies |-> {"s", "t"}],
     s |-> [kind |-> "solid", bodies |-> {"s"}]]

Output(kind, node) == [kind |-> kind, node |-> node]

PartOutputs == {Output("part", "a"), Output("part", "b")}

Generous ==
    [name \in LimitNames \cup {"maxPartBodies", "maxDistinctSolids"} |->
        IF name = "maxAssemblyDepth" THEN 3 ELSE 20]

Call(instances, body, rootA, rootB, extA, extB, requested, c, limits) ==
    [documents |->
        [root |-> [nodes |-> Nodes(instances), configurations |-> [c |-> <<>>],
                   outputs |-> [top |-> Output("assembly", "top"),
                                a |-> rootA, b |-> rootB]],
         ext |-> [nodes |-> Nodes(body), configurations |-> [c |-> <<>>],
                  outputs |-> [asm |-> Output("assembly", "top"),
                               a |-> extA, b |-> extB]]],
     requested |-> requested, mode |-> "product", configuration |-> c,
     limits |-> limits]

LocalTemplates ==
    {Local("part", n, mode) : n \in {"a", "b"}, mode \in {"inherit", "named"}}

ExternalTemplates ==
    {External("part", n, mode) : n \in {"a", "b"}, mode \in {"inherit", "named"}}
        \cup {External("assembly", "asm", mode) : mode \in {"inherit", "named"}}

RefusedTemplates ==
    {External("part", "none", "inherit"), External("part", "asm", "inherit"),
     [External("part", "a", "named") EXCEPT !.configuration = "unknown"],
     [Local("part", "a", "named") EXCEPT !.configuration = "unknown"]}

Children == {<<Local("part", "a", "inherit")>>, <<Local("part", "b", "base")>>,
             <<Local("part", "a", "named"), Local("part", "b", "inherit")>>}

\* Names of the evaluated document ...
LocalCalls ==
    {Call(<<first, second>>, <<>>, rootA, rootB, Output("part", "a"),
          Output("part", "b"), requested, c, Generous) :
        first \in LocalTemplates, second \in LocalTemplates,
        rootA \in PartOutputs \cup {Output("solid", "s")}, rootB \in PartOutputs,
        requested \in {<<"top">>, <<"a">>, <<"top", "a">>, <<"b", "top">>,
                       <<"a", "b", "top">>},
        c \in {"base", "c"}}

\* ... and of the external one ...
ExternalCalls ==
    {Call(<<first, second, Local("part", "a", "inherit")>>, body, Output("part", "a"),
          Output("part", "b"), extA, extB, <<"top">>, "base", Generous) :
        first \in ExternalTemplates, second \in ExternalTemplates \cup RefusedTemplates,
        body \in Children, extA \in PartOutputs, extB \in PartOutputs}

\* ... and the limits, which are tight.
TightCalls ==
    {Call(<<first, second>>, body, Output("part", "b"), Output("part", "b"),
          Output("part", "a"), Output("part", "b"), <<"top", "a">>, "base",
          [Generous EXCEPT !.maxPartBodies = bodies, !.maxDistinctSolids = solids]) :
        first \in LocalTemplates \cup ExternalTemplates, second \in ExternalTemplates,
        body \in Children, bodies \in 2 .. 6, solids \in {2, 3, 20}}

\* As few selections as possible for the limits on parts and outputs.
FewCalls ==
    {Call(<<first, second>>, <<>>, rootA, Output("part", "b"), Output("part", "a"),
          Output("part", "b"), requested, "base",
          [Generous EXCEPT !.maxContextualParts = parts,
                           !.maxSelectedOutputs = Len(requested)]) :
        first \in LocalTemplates, second \in LocalTemplates,
        rootA \in PartOutputs \cup {Output("solid", "s")},
        requested \in {<<"top", "a">>, <<"a", "b", "top">>}, parts \in 1 .. 3}

MCWorlds == LocalCalls \cup ExternalCalls \cup TightCalls \cup FewCalls
=============================================================================
