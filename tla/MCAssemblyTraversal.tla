------------------------- MODULE MCAssemblyTraversal -------------------------
(* Calls with two documents, each with an assembly inside an assembly.  The  *)
(* root's two instances come from a list of templates, one of which is varied *)
(* with what it leads to.                                                     *)
EXTENDS AssemblyTraversal, SequencesExt

LocalInstance(kind, node) ==
    [suppressed |-> FALSE, placement |-> 1, placeable |-> TRUE, source |-> "local",
     kind |-> kind, node |-> node, mode |-> "inherit"]

ExternalInstance(kind, output) ==
    [suppressed |-> FALSE, placement |-> 0, placeable |-> TRUE,
     source |-> "external", kind |-> kind, resource |-> "ext", output |-> output,
     mode |-> "inherit"]

Named(instance, c) ==
    [mode |-> "named", configuration |-> c] @@ instance

BasePart == [LocalInstance("part", "part") EXCEPT !.mode = "base"]
Part == LocalInstance("part", "part")
SubAssembly == LocalInstance("assembly", "sub")
ExternalAssembly == ExternalInstance("assembly", "asm")

\* What instances of the root assembly may be.
Templates ==
    {Part, Named(Part, "c"), [Part EXCEPT !.suppressed = TRUE],
     SubAssembly, [SubAssembly EXCEPT !.mode = "base"], Named(SubAssembly, "c"),
     ExternalInstance("part", "leaf"), ExternalAssembly,
     Named(ExternalAssembly, "c")}

Refused ==
    {[Part EXCEPT !.placeable = FALSE], LocalInstance("part", "solid"),
     LocalInstance("assembly", "top"), Named(SubAssembly, "unknown"),
     ExternalInstance("assembly", "leaf"), ExternalInstance("assembly", "none"),
     Named(ExternalAssembly, "unknown"),
     [ExternalAssembly EXCEPT !.resource = "missing"]}

\* What the assemblies within may contain.
Subs ==
    {<<Part>>, <<BasePart, ExternalAssembly>>, <<LocalInstance("assembly", "top")>>,
     <<[Part EXCEPT !.suppressed = TRUE]>>}

Bodies ==
    {<<Part, Named(SubAssembly, "c")>>, <<ExternalInstance("part", "leaf")>>,
     <<SubAssembly, BasePart>>}

Inners ==
    {<<Part, [Part EXCEPT !.suppressed = TRUE]>>, <<LocalInstance("assembly", "top")>>}

Nodes(top, sub) ==
    [top |-> [kind |-> "assembly", instances |-> top],
     sub |-> [kind |-> "assembly", instances |-> sub],
     part |-> [kind |-> "part"], solid |-> [kind |-> "solid"]]

Output(kind, node) == [kind |-> kind, node |-> node]

\* Overriding what is suppressed, either way.
Overrides == [c |-> <<"top", 1>> :> TRUE @@ <<"top", 2>> :> FALSE
                    @@ <<"sub", 1>> :> FALSE @@ <<"sub", 2>> :> FALSE]

RootDocument(top, sub) ==
    [nodes |-> Nodes(top, sub),
     outputs |-> [top |-> Output("assembly", "top"), sub |-> Output("assembly", "sub"),
                  piece |-> Output("part", "part"), shape |-> Output("solid", "solid"),
                  wrong |-> Output("part", "solid")],
     configurations |-> Overrides]

ExternalDocument(top, sub) ==
    [nodes |-> Nodes(top, sub),
     outputs |-> [asm |-> Output("assembly", "top"), leaf |-> Output("part", "part")],
     configurations |-> [c |-> <<"top", 1>> :> TRUE @@ <<"sub", 2>> :> FALSE]]

Generous == [name \in LimitNames |-> IF name = "maxAssemblyDepth" THEN 6 ELSE 50]

Call(top, sub, body, inner, requested, mode, c, limits) ==
    [documents |-> [root |-> RootDocument(top, sub),
                    ext |-> ExternalDocument(body, inner)],
     requested |-> requested, mode |-> mode, configuration |-> c, limits |-> limits]

\* Every structure of the documents, under no tight limit ...
Structures ==
    {Call(<<first, second>>, sub, body, inner, <<"top">>, "assembly", c, Generous) :
        first \in Templates, second \in Templates \cup Refused, sub \in Subs,
        body \in Bodies, inner \in Inners, c \in {"base", "c"}}

\* ... every selection of outputs, each of which is named once ...
Selections ==
    {Call(<<Part, ExternalAssembly>>, <<Named(Part, "c")>>, <<Part>>, <<>>, requested,
          mode, c, Generous) :
        requested \in {s \in SeqOf({"top", "sub", "piece", "shape", "wrong", "none"}, 2) :
                            Len(s) = 2 => s[1] # s[2]},
        mode \in {"assembly", "product"}, c \in {"base", "c", "unknown"}}

\* ... and one tight limit at a time.
OneTight ==
    {[Generous EXCEPT ![name] = bound] : name \in LimitNames, bound \in 0 .. 5}

Tight ==
    {Call(<<first, second>>, sub, <<Part, SubAssembly>>, <<Part>>,
          <<"piece", "top", "sub">>, "product", "base", limits) :
        first \in Templates, second \in Templates, limits \in OneTight,
        sub \in {<<Part>>, <<BasePart, ExternalAssembly>>}}

MCWorlds == Structures \cup Selections \cup Tight
=============================================================================
