--------------------------- MODULE MCDesignImpact ---------------------------
(* Small documents: three parameters that may refer to each other, also in a  *)
(* cycle, two materials, a solid, a part and an assembly of two instances.    *)
EXTENDS DesignImpact, TLC

P == {"p", "q", "r"}

AtMostOne(S) == {{}} \cup {{x} : x \in S}

Parameter(default, bounds) == [default |-> default, bounds |-> bounds]

Part == [parameters |-> {}, dependencies |-> {"solid"}, instances |-> <<>>,
         references |-> {}, material |-> "m"]
Solid == [parameters |-> {"p"}, dependencies |-> {}, instances |-> <<>>,
          references |-> {"t"}, material |-> Nothing]
Shell == [parameters |-> {}, dependencies |-> {}, instances |-> <<>>,
          references |-> {"t"}, material |-> Nothing]

Assembly(first, second) ==
    [parameters |-> {}, dependencies |-> {}, references |-> {}, material |-> Nothing,
     instances |-> <<[node |-> "part", parameters |-> {"r"}, suppressed |-> first],
                     [node |-> "shell", parameters |-> {}, suppressed |-> second]>>]

MakeDocument(parameters, assembly, c, d) ==
    [parameters |-> parameters, materials |-> [m |-> {"q"}, l |-> {}],
     nodes |-> [solid |-> Solid, part |-> Part, shell |-> Shell, assembly |-> assembly],
     configurations |-> [c |-> c, d |-> d]]

Config(parameters, materials, suppressed) ==
    [parameters |-> parameters, materials |-> materials, suppressed |-> suppressed]

None == Config(<<>>, <<>>, <<>>)

Change(nodes, parameters, materials, configurations, references) ==
    [nodes |-> nodes, parameters |-> parameters, materials |-> materials,
     configurations |-> configurations, topologyReferences |-> references]

\* Every graph of parameters with at most one reference in each definition.
ParameterWorlds ==
    {[document |-> MakeDocument(
          [p |-> Parameter(dp, bp), q |-> Parameter(dq, {}), r |-> Parameter(dr, {})],
          Assembly(FALSE, FALSE),
          Config(IF over = {} THEN <<>>
                 ELSE [x \in over |-> IF x = "p" THEN op ELSE oq],
                 "part" :> "m", <<>>),
          Config("r" :> {"p"}, <<>>, <<>>)),
      changes |-> Change({}, changed, {}, own, {})] :
        dp \in AtMostOne(P), dq \in AtMostOne(P \ {"q"}), dr \in AtMostOne({"p", "q"}),
        bp \in {{}, {"r"}}, over \in SUBSET {"p", "q"}, op \in {{"q"}, {"q", "r"}},
        oq \in {{}, {"p"}}, changed \in {{}, {"p"}, {"r"}, {"q", "r"}},
        own \in {{}, {"c"}}}

\* Materials, nodes and instances.
NodeWorlds ==
    {[document |-> MakeDocument(
          [p |-> Parameter({}, {}), q |-> Parameter({"p"}, {}), r |-> Parameter({}, {})],
          Assembly(first, second), Config(over, swapped, suppressed),
          Config(<<>>, <<>>, other)),
      changes |-> change] :
        first \in BOOLEAN, second \in BOOLEAN, over \in {<<>>, "q" :> {}, "r" :> {"q"}},
        swapped \in {<<>>, "part" :> "l", "part" :> "m"},
        suppressed \in {<<>>, <<"assembly", 1>> :> TRUE, <<"assembly", 2>> :> FALSE},
        other \in {<<>>, <<"assembly", 1>> :> FALSE},
        change \in {Change({"shell"}, {}, {}, {}, {}), Change({}, {"p"}, {}, {}, {}),
                    Change({}, {}, {"m"}, {"c"}, {}), Change({}, {}, {"l"}, {}, {"t"}),
                    Change({}, {"r"}, {}, {"c", "d"}, {})}}

MCWorlds == ParameterWorlds \cup NodeWorlds
=============================================================================
