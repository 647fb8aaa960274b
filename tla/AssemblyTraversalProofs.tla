------------------------ MODULE AssemblyTraversalProofs ------------------------
(***************************************************************************)
(* Proofs about AssemblyTraversal, for any documents, requests and limits. *)
(*                                                                         *)
(* First the counts: a part that an occurrence stands for is counted, and  *)
(* is within its limit.  Then the places: a path leads to one position, by *)
(* induction on its length; the occurrences found so far come before what  *)
(* the walk has ahead, and nothing that is active is behind it.  So, when  *)
(* the traversal ends, the occurrences are the active parts.  Last, the    *)
(* failures: what was charged is what the places that were passed amount   *)
(* to, and so a limit that a failure names is exceeded by what is active,  *)
(* and every other failure has a fault of the call for a cause.            *)
(***************************************************************************)
EXTENDS AssemblyTraversal, FiniteSetTheorems, SequenceTheorems, TLAPS

\* A finite list of anything.
Listed(s) == \E S : s \in Seq(S)

\* What holds of 0, and of n + 1 if of n, holds of all natural numbers.
LEMMA ByInduction ==
    ASSUME NEW S, 0 \in S, \A n \in Nat : n \in S => n + 1 \in S
    PROVE  Nat \subseteq S
<1> DEFINE T == Nat \ S
<1>1. SUFFICES ASSUME T # {} PROVE FALSE
  OBVIOUS
<1>2. PICK x \in T : \A y \in T : ~ (<<y, x>> \in OpToRel(<, Nat))
  BY <1>1, NatLessThanWellFounded, WFMin
<1>3. x # 0 /\ x \in Nat /\ x - 1 \in Nat /\ x = (x - 1) + 1
  OBVIOUS
<1>4. x - 1 \in T
  BY <1>3
<1>5. <<x - 1, x>> \in OpToRel(<, Nat)
  BY <1>3 DEF OpToRel
<1>. QED
  BY <1>2, <1>4, <1>5

\* The least of some numbers is one of them.
LEMMA SmallestOf ==
    ASSUME NEW S \in SUBSET Nat, S # {}
    PROVE  Min(S) \in S /\ \A n \in S : Min(S) <= n
<1>1. PICK x \in S : \A y \in S : ~ (<<y, x>> \in OpToRel(<, Nat))
  BY NatLessThanWellFounded, WFMin
<1>2. ASSUME NEW y \in S PROVE x <= y
  <2>1. CASE y < x
    <3>1. <<y, x>> \in OpToRel(<, Nat)
      BY <2>1 DEF OpToRel
    <3>. QED
      BY <1>1, <3>1
  <2>. QED
    BY <2>1
<1>. QED
  BY <1>2 DEF Min

\* Checks in order find nothing, or one that fails.
LEMMA FirstFailingCheck ==
    ASSUME NEW checks, DOMAIN checks \subseteq Nat
    PROVE  \/ FirstFailing(checks) = "none" /\ \A k \in DOMAIN checks : ~checks[k][2]
           \/ \E k \in DOMAIN checks : checks[k][2] /\ FirstFailing(checks) = checks[k][1]
<1> DEFINE failing == {k \in DOMAIN checks : checks[k][2]}
<1>1. CASE failing = {}
  BY <1>1 DEF FirstFailing
<1>2. CASE failing # {}
  <2>1. Min(failing) \in failing
    BY <1>2, SmallestOf
  <2>2. FirstFailing(checks) = checks[Min(failing)][1]
    BY <1>2 DEF FirstFailing
  <2>. QED
    BY <2>1, <2>2
<1>. QED
  BY <1>1, <1>2

\* What lists are made of, and what the operations on them leave of it.
LEMMA EmptyList == Listed(<<>>) /\ Range(<<>>) = {}
<1>1. <<>> \in Seq({})
  OBVIOUS
<1>. QED
  BY <1>1 DEF Listed, Range

LEMMA Lists ==
    ASSUME NEW s, Listed(s)
    PROVE  /\ Len(s) \in Nat /\ DOMAIN s = 1 .. Len(s)
           /\ s # <<>> <=> Len(s) # 0
           /\ \A k \in 1 .. Len(s) : s[k] \in Range(s)
           /\ \A e \in Range(s) : \E k \in 1 .. Len(s) : s[k] = e
<1>1. PICK S : s \in Seq(S)
  BY DEF Listed
<1>2. Len(s) \in Nat /\ DOMAIN s = 1 .. Len(s) /\ (s # <<>> <=> Len(s) # 0)
  BY <1>1
<1>. QED
  BY <1>2 DEF Range

LEMMA ListAppend ==
    ASSUME NEW s, Listed(s), NEW e
    PROVE  /\ Listed(Append(s, e)) /\ Range(Append(s, e)) = Range(s) \cup {e}
           /\ Len(s) \in Nat /\ DOMAIN s = 1 .. Len(s)
           /\ Len(Append(s, e)) = Len(s) + 1
           /\ \A k \in 1 .. Len(s) : Append(s, e)[k] = s[k]
           /\ Append(s, e)[Len(s) + 1] = e
           /\ DOMAIN Append(s, e) = 1 .. Len(s) + 1
<1>1. PICK S : s \in Seq(S)
  BY DEF Listed
<1>2. s \in Seq(S \cup {e}) /\ e \in S \cup {e}
  BY <1>1
<1>3. /\ Append(s, e) \in Seq(S \cup {e})
      /\ Len(s) \in Nat /\ DOMAIN s = 1 .. Len(s)
      /\ Len(Append(s, e)) = Len(s) + 1
      /\ \A k \in 1 .. Len(s) : Append(s, e)[k] = s[k]
      /\ Append(s, e)[Len(s) + 1] = e
      /\ DOMAIN Append(s, e) = 1 .. Len(s) + 1
  BY <1>2
<1>4. Range(Append(s, e)) = Range(s) \cup {e}
  BY <1>3 DEF Range
<1>. QED
  BY <1>3, <1>4 DEF Listed

LEMMA ListTail ==
    ASSUME NEW s, Listed(s), s # <<>>
    PROVE  /\ Listed(Tail(s)) /\ Range(Tail(s)) \subseteq Range(s) /\ Head(s) \in Range(s)
<1>1. PICK S : s \in Seq(S)
  BY DEF Listed
<1>2. /\ Len(s) \in Nat /\ Len(s) # 0 /\ DOMAIN s = 1 .. Len(s)
      /\ Head(s) = s[1] /\ Tail(s) \in Seq(S) /\ Len(Tail(s)) = Len(s) - 1
      /\ DOMAIN Tail(s) = 1 .. Len(s) - 1
      /\ \A k \in 1 .. Len(s) - 1 : Tail(s)[k] = s[k + 1]
  BY <1>1
<1>3. Range(Tail(s)) \subseteq Range(s)
  <2>1. SUFFICES ASSUME NEW k \in 1 .. Len(s) - 1 PROVE Tail(s)[k] \in Range(s)
    BY <1>2 DEF Range
  <2>2. k + 1 \in DOMAIN s /\ Tail(s)[k] = s[k + 1]
    BY <1>2
  <2>. QED
    BY <2>2 DEF Range
<1>4. Head(s) \in Range(s)
  BY <1>2 DEF Range
<1>. QED
  BY <1>2, <1>3, <1>4 DEF Listed

LEMMA ListFront ==
    ASSUME NEW s, Listed(s), s # <<>>
    PROVE  /\ Listed(SubSeq(s, 1, Len(s) - 1))
           /\ Range(SubSeq(s, 1, Len(s) - 1)) \subseteq Range(s)
           /\ s[Len(s)] \in Range(s)
<1> DEFINE front == SubSeq(s, 1, Len(s) - 1)
<1>1. PICK S : s \in Seq(S)
  BY DEF Listed
<1>2. /\ Len(s) \in Nat /\ Len(s) # 0 /\ DOMAIN s = 1 .. Len(s)
      /\ \A k \in 1 .. Len(s) : s[k] \in S
  BY <1>1
<1>3. /\ front \in Seq(S) /\ Len(front) = Len(s) - 1
      /\ \A k \in 1 .. Len(s) - 1 : front[k] = s[k]
  BY <1>2, SubSeqProperties
<1>. HIDE DEF front
<1>4. DOMAIN front = 1 .. Len(s) - 1
  BY <1>3
<1>5. Range(front) \subseteq Range(s) /\ s[Len(s)] \in Range(s)
  BY <1>2, <1>3, <1>4 DEF Range
<1>. QED
  BY <1>3, <1>5 DEF Listed, front

LEMMA ListExcept ==
    ASSUME NEW s, Listed(s), NEW i \in DOMAIN s, NEW e
    PROVE  LET t == [s EXCEPT ![i] = e]
           IN /\ Listed(t) /\ Len(t) = Len(s) /\ DOMAIN t = DOMAIN s
              /\ DOMAIN s = 1 .. Len(s) /\ Len(s) \in Nat
              /\ t[i] = e /\ \A k \in DOMAIN s : k # i => t[k] = s[k]
              /\ Range(t) \subseteq Range(s) \cup {e}
<1> DEFINE t == [s EXCEPT ![i] = e]
<1>1. PICK S : s \in Seq(S)
  BY DEF Listed
<1>2. s \in Seq(S \cup {e}) /\ Len(s) \in Nat /\ DOMAIN s = 1 .. Len(s) /\ i \in 1 .. Len(s)
  BY <1>1
<1>3. t \in Seq(S \cup {e}) /\ Len(t) = Len(s)
  BY <1>2, ExceptSeq
<1>4. DOMAIN t = DOMAIN s /\ t[i] = e /\ \A k \in DOMAIN s : k # i => t[k] = s[k]
  BY <1>1
<1>. HIDE DEF t
<1>5. Range(t) \subseteq Range(s) \cup {e}
  BY <1>4 DEF Range
<1>. QED
  BY <1>2, <1>3, <1>4, <1>5 DEF Listed, t

-----------------------------------------------------------------------------
(* The invariant of the traversal.                                          *)
\* A reason that is not a fault of the code itself.
Fine(reason) == reason \notin {"internal", "selections"}

\* The counters have their fields, the parts are within their limit, and local keys
\* are keys of parts.
CountersInv ==
    /\ charged = [scanned |-> charged.scanned, active |-> charged.active,
                  placements |-> charged.placements, segments |-> charged.segments,
                  parts |-> charged.parts, documents |-> charged.documents]
    /\ IsFiniteSet(charged.parts)
    /\ Cardinality(charged.parts) <= Limit("maxContextualParts")
    /\ \A key \in charged.parts : key[1] = "local" => KindOf(Root, key[3]) = "part"
    /\ \A key \in charged.parts : key[1] = "leaf" => KindOf(key[2], key[3]) = "part"

\* What an occurrence of a part was counted as.
PartKey(o) ==
    IF o.source = "local" THEN LocalPart(o.node, o.configuration)
    ELSE IF o.kind = "part" THEN ExternalPart(o.document, o.output, o.configuration)
    ELSE ExternalLeaf(o.document, o.node, o.configuration)

\* The shape of an occurrence.
IsOccurrence(o) ==
    /\ o = [source |-> o.source, document |-> o.document, output |-> o.output,
            kind |-> o.kind, node |-> o.node, path |-> o.path,
            configuration |-> o.configuration, depth |-> o.depth]
    /\ o.source \in {"local", "external"}
    /\ IF o.source = "local"
       THEN o.document = Root /\ o.output = Nothing /\ o.kind = "part"
       ELSE o.document # Root /\ o.kind \in {"part", "assembly"}

\* An occurrence of a part, which is counted.
Found(o) == IsOccurrence(o) /\ PartKey(o) \in charged.parts

\* An occurrence that is counted, or is still to be expanded, in a document that is.
Met(o) ==
    /\ IsOccurrence(o)
    /\ o.source = "external" => o.document \in charged.documents
    /\ Unexpanded(o) \/ PartKey(o) \in charged.parts

\* The selected outputs are the requested ones, in their order, and refer to nodes of
\* the kind that they say.
SelectedInv ==
    /\ Listed(selectedOrder) /\ Len(selectedOrder) <= Len(world.requested)
    /\ \A k \in DOMAIN selectedOrder :
          LET o == selectedOrder[k]
              reference == Document(Root).outputs[world.requested[k]]
          IN /\ world.requested[k] \in DOMAIN Document(Root).outputs
             /\ o = [name |-> world.requested[k], node |-> reference.node,
                     kind |-> reference.kind, occurrences |-> o.occurrences]
             /\ KindOf(Root, reference.node) = reference.kind
             /\ Listed(o.occurrences)

\* A frame is an assembly of a document that there is.
IsFrame(f) ==
    /\ f = [document |-> f.document, output |-> f.output, node |-> f.node,
            configuration |-> f.configuration, path |-> f.path,
            ancestry |-> f.ancestry, depth |-> f.depth, next |-> f.next]
    /\ f.document \in DOMAIN world.documents
    /\ KindOf(f.document, f.node) = "assembly"
    /\ f.next \in Nat \ {0}
    /\ f.document = Root => f.output = Nothing

\* The walk is inside the evaluated document or, during the expansion, inside others.
StackInv ==
    /\ Listed(stack)
    /\ \A f \in Range(stack) : IsFrame(f) /\ (stage = "expand" <=> f.document # Root)

\* Every requested output is selected.
AllSelected == Len(selectedOrder) = Len(world.requested)

\* The request is within its limit.
RequestInv ==
    world.requested # <<>> /\ Len(world.requested) <= Limit("maxSelectedOutputs")

\* Where the occurrences are: what was expanded already is found, the rest is met.
ListsInv ==
    /\ Listed(occurrences) /\ Listed(queue)
    /\ stage = "begin" => selectedOrder = <<>>
    /\ stage # "begin" => RequestInv
    /\ stage \in {"begin", "select"} => occurrences = <<>> /\ stack = <<>>
    /\ stage \in {"begin", "select", "walk"} =>
          /\ \A o \in Range(occurrences) : Met(o)
          /\ \A k \in DOMAIN selectedOrder :
                \A o \in Range(selectedOrder[k].occurrences) : Met(o)
    /\ stage = "walk" =>
          /\ Len(selectedOrder) < Len(world.requested)
          /\ Name \in DOMAIN Document(Root).outputs /\ IsAssemblyOutput(Root, Name)
    /\ stage = "expand" =>
          /\ AllSelected /\ outputIndex \in DOMAIN selectedOrder
          /\ charged.documents \subseteq DOMAIN world.documents
          /\ \A o \in Range(queue) : Met(o)
          /\ \A o \in Range(occurrences) : Found(o)
          /\ \A k \in DOMAIN selectedOrder :
                \A o \in Range(selectedOrder[k].occurrences) :
                   IF k < outputIndex THEN Found(o) ELSE Met(o)
    /\ stage = "traversed" =>
          /\ AllSelected
          /\ stack = <<>> /\ queue = <<>> /\ occurrences = <<>>
          /\ \A k \in DOMAIN selectedOrder :
                \A o \in Range(selectedOrder[k].occurrences) : Found(o)

\* The inductive invariant of the traversal.
WalkInv ==
    /\ stage \in {"begin", "select", "walk", "expand", "traversed"}
    /\ failure = "none"
    /\ CountersInv /\ SelectedInv /\ StackInv /\ ListsInv

\* A failed call, for a reason that is not its own fault.
Failed == stage = "failed" /\ Fine(failure)

\* What a visit that is not refused was checked for.
LEMMA Visits ==
    ASSUME world \in Worlds
    PROVE  /\ Refusal = "none" =>
                 /\ ~(Cardinality(AfterVisit.parts) > Limit("maxContextualParts"))
                 /\ ~(IsExternal(Instance) /\ Top.document # Root)
                 /\ IsExternal(Instance) \/ IsLocal("part") \/ IsLocal("assembly")
                 /\ Instance.placeable
                 /\ ~(IsLocal("assembly") /\ Instance.node \in Top.ancestry)
                 /\ ~(Nests /\ Top.depth + 1 > Limit("maxAssemblyDepth"))
                 /\ ~(IsLocal("assembly") /\ ~KnownConfiguration(Top.document, Configuration))
           /\ Fine(Refusal)
<1> DEFINE Over(name) == <<name, Exceeded(AfterVisit, name)>>
           checks == <<
        Over("maxActiveOccurrences"),
        Over("maxPlacementOperations"),
        <<"boundary", IsExternal(Instance) /\ Top.document # Root>>,
        <<"unsupported", ~IsExternal(Instance) /\ ~IsLocal("part")
                                               /\ ~IsLocal("assembly")>>,
        <<"placement", ~Instance.placeable>>,
        Over("maxExternalDocuments"),
        <<"recursion", IsLocal("assembly") /\ Instance.node \in Top.ancestry>>,
        <<"maxAssemblyDepth", Nests /\ Top.depth + 1 > Limit("maxAssemblyDepth")>>,
        <<"configuration", IsLocal("assembly")
                           /\ ~KnownConfiguration(Top.document, Configuration)>>,
        Over("maxScannedInstances"),
        Over("maxOccurrencePathSegments"),
        Over("maxContextualParts") >>
<1>1. Refusal = FirstFailing(checks)
  BY DEF Refusal
<1>2. DOMAIN checks = 1 .. 12
  OBVIOUS
<1>3. /\ checks[1][1] = "maxActiveOccurrences" /\ checks[2][1] = "maxPlacementOperations"
      /\ checks[3][1] = "boundary" /\ checks[4][1] = "unsupported"
      /\ checks[5][1] = "placement" /\ checks[6][1] = "maxExternalDocuments"
      /\ checks[7][1] = "recursion" /\ checks[8][1] = "maxAssemblyDepth"
      /\ checks[9][1] = "configuration" /\ checks[10][1] = "maxScannedInstances"
      /\ checks[11][1] = "maxOccurrencePathSegments" /\ checks[12][1] = "maxContextualParts"
  OBVIOUS
<1>4. /\ checks[3][2] <=> (IsExternal(Instance) /\ Top.document # Root)
      /\ checks[4][2] <=> (~IsExternal(Instance) /\ ~IsLocal("part") /\ ~IsLocal("assembly"))
      /\ checks[5][2] <=> ~Instance.placeable
      /\ checks[7][2] <=> (IsLocal("assembly") /\ Instance.node \in Top.ancestry)
      /\ checks[8][2] <=> (Nests /\ Top.depth + 1 > Limit("maxAssemblyDepth"))
      /\ checks[9][2] <=> (IsLocal("assembly")
                            /\ ~KnownConfiguration(Top.document, Configuration))
      /\ checks[12][2] <=> Exceeded(AfterVisit, "maxContextualParts")
  OBVIOUS
<1>5. Exceeded(AfterVisit, "maxContextualParts") <=>
         Cardinality(AfterVisit.parts) > Limit("maxContextualParts")
  BY DEF Exceeded
<1> HIDE DEF checks
<1>6. \/ FirstFailing(checks) = "none" /\ \A k \in 1 .. 12 : ~checks[k][2]
      \/ \E k \in 1 .. 12 : checks[k][2] /\ FirstFailing(checks) = checks[k][1]
  BY <1>2, FirstFailingCheck
<1>7. ASSUME NEW k \in 1 .. 12 PROVE Fine(checks[k][1]) /\ checks[k][1] # "none"
  BY <1>3 DEF Fine
<1>8. Fine("none")
  BY DEF Fine
<1>. QED
  BY <1>1, <1>4, <1>5, <1>6, <1>7, <1>8

\* What the calls are assumed to be.
LEMMA Worldly ==
    ASSUME world \in Worlds
    PROVE  /\ Root \in DOMAIN world.documents
           /\ Listed(world.requested)
           /\ Limit("maxContextualParts") \in Nat /\ Limit("maxSelectedOutputs") \in Nat
           /\ \A d \in DOMAIN world.documents : \A n :
                 KindOf(d, n) = "assembly" => ValidInstances(InstancesOf(d, n))
<1>1. /\ Root \in DOMAIN world.documents
      /\ world.requested \in Seq(Range(world.requested))
      /\ world.limits["maxContextualParts"] \in Nat
      /\ world.limits["maxSelectedOutputs"] \in Nat
      /\ \A d \in DOMAIN world.documents : \A n \in DOMAIN world.documents[d].nodes :
              world.documents[d].nodes[n].kind = "assembly" =>
                  ValidInstances(world.documents[d].nodes[n].instances)
  BY WorldsAssumption DEF LimitNames
<1>2. ASSUME NEW d \in DOMAIN world.documents, NEW n, KindOf(d, n) = "assembly"
      PROVE  ValidInstances(InstancesOf(d, n))
  BY <1>1, <1>2 DEF KindOf, InstancesOf, Document, Has, Nothing
<1>. QED
  BY <1>1, <1>2 DEF Listed, Limit

\* The limits are numbers, and no path that is within its limit is beyond the bound.
LEMMA LimitsAreNumbers ==
    ASSUME world \in Worlds
    PROVE  /\ \A name \in LimitNames : Limit(name) \in Nat
           /\ Limit("maxAssemblyDepth") \in 0 .. PathBound
           /\ PathBound \in Nat
<1>1. /\ \A name \in LimitNames : Limit(name) \in Nat
      /\ Limit("maxAssemblyDepth") <= PathBound /\ PathBound \in Nat
  BY WorldsAssumption DEF Limit
<1>2. "maxAssemblyDepth" \in LimitNames
  BY DEF LimitNames
<1>. QED
  BY <1>1, <1>2

\* The assembly on top, and the instance that is next.
LEMMA TopFrame ==
    ASSUME world \in Worlds, StackInv, stack # <<>>
    PROVE  /\ Top \in Range(stack) /\ IsFrame(Top)
           /\ (stage = "expand" <=> Top.document # Root)
           /\ Listed(Instances)
           /\ Top.next <= Len(Instances) /\ IsExternal(Instance) =>
                 Instance.kind \in {"part", "assembly"} /\ Instance.resource # Root
<1>1. Top \in Range(stack)
  BY ListFront DEF StackInv, Top
<1>2. IsFrame(Top) /\ (stage = "expand" <=> Top.document # Root)
  BY <1>1 DEF StackInv
<1>3. ValidInstances(Instances)
  BY <1>2, Worldly DEF IsFrame, Instances
<1>4. Listed(Instances)
  BY <1>3 DEF ValidInstances, Listed
<1>5. ASSUME Top.next <= Len(Instances), IsExternal(Instance)
      PROVE  Instance.kind \in {"part", "assembly"} /\ Instance.resource # Root
  <2>1. Top.next \in DOMAIN Instances
    BY <1>2, <1>4, <1>5, Lists DEF IsFrame
  <2>. QED
    BY <1>3, <1>5, <2>1 DEF ValidInstances, IsExternal, Instance
<1>. QED
  BY <1>1, <1>2, <1>4, <1>5

\* Nothing that counts is forgotten, and what was met stays met.
LEMMA CountsGrow ==
    ASSUME charged.parts \subseteq charged'.parts, charged.documents \subseteq charged'.documents,
           NEW o
    PROVE  (Found(o) => Found(o)') /\ (Met(o) => Met(o)')
  BY DEF Found, Met, PartKey, IsOccurrence, Unexpanded

\* Counting one part more, or none.
LEMMA PartsCounted ==
    ASSUME world \in Worlds, CountersInv, world' = world,
           charged' = [scanned |-> charged'.scanned, active |-> charged'.active,
                       placements |-> charged'.placements, segments |-> charged'.segments,
                       parts |-> charged'.parts, documents |-> charged'.documents],
           NEW K, K = {} \/ (\E key : K = {key}),
           charged'.parts = charged.parts \cup K,
           \A key \in K : key[1] = "local" => KindOf(Root, key[3]) = "part",
           \A key \in K : key[1] = "leaf" => KindOf(key[2], key[3]) = "part",
           ~(Cardinality(charged'.parts) > Limit("maxContextualParts"))
    PROVE  CountersInv'
<1>1. IsFiniteSet(charged.parts)
  BY DEF CountersInv
<1>2. IsFiniteSet(charged.parts \cup K)
  <2>1. CASE K = {}
    <3>1. charged.parts \cup K = charged.parts
      BY <2>1
    <3>. QED
      BY <1>1, <3>1
  <2>2. ASSUME NEW key, K = {key} PROVE IsFiniteSet(charged.parts \cup K)
    BY <1>1, <2>2, FS_AddElement
  <2>. QED
    BY <2>1, <2>2
<1>3. IsFiniteSet(charged'.parts) /\ Cardinality(charged'.parts) \in Nat
  BY <1>2, FS_CardinalityType
<1>4. Limit("maxContextualParts") \in Nat /\ Limit("maxContextualParts")' = Limit("maxContextualParts")
  BY Worldly DEF Limit
<1>5. /\ \A key \in charged'.parts : key[1] = "local" => KindOf(Root, key[3])' = "part"
      /\ \A key \in charged'.parts : key[1] = "leaf" => KindOf(key[2], key[3])' = "part"
  BY DEF CountersInv, KindOf, Document
<1>. QED
  BY <1>3, <1>4, <1>5 DEF CountersInv

\* What a visit counts.
LEMMA VisitCounts ==
    ASSUME world \in Worlds, CountersInv, StackInv, Visiting, Refusal = "none",
           charged' = AfterVisit, world' = world
    PROVE  /\ CountersInv'
           /\ charged.parts \subseteq charged'.parts
           /\ charged.documents \subseteq charged'.documents
           /\ PartKeys \subseteq charged'.parts
           /\ IsExternal(Instance) => Instance.resource \in charged'.documents
<1>1. /\ charged' = [scanned |-> charged'.scanned, active |-> charged'.active,
                     placements |-> charged'.placements, segments |-> charged'.segments,
                     parts |-> charged'.parts, documents |-> charged'.documents]
      /\ charged'.parts = charged.parts \cup PartKeys
      /\ charged.documents \subseteq charged'.documents
      /\ IsExternal(Instance) => Instance.resource \in charged'.documents
  <2>1. \E a, b, c, d, e, f : AfterVisit =
           [scanned |-> a, active |-> b, placements |-> c, segments |-> d,
            parts |-> e, documents |-> f]
    BY DEF AfterVisit
  <2>2. charged' = [scanned |-> charged'.scanned, active |-> charged'.active,
                    placements |-> charged'.placements, segments |-> charged'.segments,
                    parts |-> charged'.parts, documents |-> charged'.documents]
    BY <2>1
  <2>3. AfterVisit.parts = charged.parts \cup PartKeys
    BY DEF AfterVisit
  <2>4. AfterVisit.documents = IF IsExternal(Instance)
                               THEN charged.documents \cup {Instance.resource}
                               ELSE charged.documents
    BY DEF AfterVisit
  <2>. QED
    BY <2>2, <2>3, <2>4
<1>2. PartKeys = {} \/ \E key : PartKeys = {key}
  BY DEF PartKeys
<1>3. ~(Cardinality(charged'.parts) > Limit("maxContextualParts"))
  BY Visits
<1>4. /\ \A key \in PartKeys : key[1] = "local" => KindOf(Root, key[3]) = "part"
      /\ \A key \in PartKeys : key[1] = "leaf" => KindOf(key[2], key[3]) = "part"
  <2>1. \A key \in PartKeys : key[1] = "local" =>
           IsLocal("part") /\ Top.document = Root /\ key[3] = Instance.node
    BY DEF PartKeys, ExternalPart, ExternalLeaf, LocalPart
  <2>2. \A key \in PartKeys : key[1] = "leaf" =>
           IsLocal("part") /\ key[2] = Top.document /\ key[3] = Instance.node
    BY DEF PartKeys, ExternalPart, ExternalLeaf, LocalPart
  <2>. QED
    BY <2>1, <2>2 DEF IsLocal
<1>5. CountersInv'
  BY <1>1, <1>2, <1>3, <1>4, PartsCounted
<1>. QED
  BY <1>1, <1>5

-----------------------------------------------------------------------------
(* The steps of the walk.                                                   *)
\* Going on to the next instance of the assembly on top.
LEMMA AdvancedFrames ==
    ASSUME world \in Worlds, StackInv, stack # <<>>
    PROVE  /\ Listed(Advanced)
           /\ \A f \in Range(Advanced) : IsFrame(f) /\ (stage = "expand" <=> f.document # Root)
<1> DEFINE n == Len(stack)
           frame == [Top EXCEPT !.next = Top.next + 1]
<1>1. Listed(stack) /\ n \in DOMAIN stack
  BY Lists DEF StackInv
<1>2. Advanced = [stack EXCEPT ![n] = frame]
  BY DEF Advanced
<1>3. Listed(Advanced) /\ Range(Advanced) \subseteq Range(stack) \cup {frame}
  <2> HIDE DEF frame, n
  <2>1. /\ Listed([stack EXCEPT ![n] = frame])
        /\ Range([stack EXCEPT ![n] = frame]) \subseteq Range(stack) \cup {frame}
    BY <1>1, ListExcept, Zenon
  <2>. QED
    BY <1>2, <2>1
<1>4. IsFrame(Top) /\ (stage = "expand" <=> Top.document # Root)
  BY TopFrame
<1>6. frame = [document |-> Top.document, output |-> Top.output, node |-> Top.node,
               configuration |-> Top.configuration, path |-> Top.path,
               ancestry |-> Top.ancestry, depth |-> Top.depth, next |-> Top.next + 1]
  BY <1>4 DEF IsFrame
<1> HIDE DEF frame
<1>7. IsFrame(frame) /\ (stage = "expand" <=> frame.document # Root)
  BY <1>4, <1>6 DEF IsFrame
<1>. QED
  BY <1>3, <1>7 DEF StackInv

\* A step that leaves the call, the selection and the queue alone, and does not
\* forget what counts.
LEMMA WalkGoesOn ==
    ASSUME WalkInv, world' = world, stage' = stage, failure' = failure,
           selectedOrder' = selectedOrder, outputIndex' = outputIndex, queue' = queue,
           stack # <<>>, CountersInv',
           charged.parts \subseteq charged'.parts,
           charged.documents \subseteq charged'.documents,
           stage = "expand" => charged'.documents \subseteq DOMAIN world.documents,
           Listed(stack'),
           \A f \in Range(stack') : IsFrame(f) /\ (stage = "expand" <=> f.document # Root),
           Listed(occurrences'),
           stage = "walk" => \A o \in Range(occurrences') : Met(o)',
           stage = "expand" => \A o \in Range(occurrences') : Found(o)'
    PROVE  WalkInv'
<1>1. CountersInv /\ SelectedInv /\ StackInv /\ ListsInv
  BY DEF WalkInv
<1>2. stage \in {"walk", "expand"}
  BY <1>1 DEF WalkInv, ListsInv
<1>3. SelectedInv'
  BY <1>1, Zenon DEF SelectedInv, KindOf, Document
<1>4. StackInv'
  BY DEF StackInv, IsFrame, KindOf, Document
<1>5. ListsInv'
  <2>1. CASE stage = "walk"
    BY <1>1, <2>1, CountsGrow, Zenon
       DEF ListsInv, RequestInv, Limit, IsAssemblyOutput, Sound, Name, KindOf, Document
  <2>2. CASE stage = "expand"
    BY <1>1, <2>2, CountsGrow DEF ListsInv, RequestInv, Limit, AllSelected
  <2>. QED
    BY <1>2, <2>1, <2>2
<1>. QED
  BY <1>2, <1>3, <1>4, <1>5 DEF WalkInv

\* A step of the stack alone.
LEMMA QuietWalk ==
    ASSUME world \in Worlds, WalkInv, stack # <<>>, Listed(stack'),
           \A f \in Range(stack') : IsFrame(f) /\ (stage = "expand" <=> f.document # Root),
           UNCHANGED <<world, stage, failure, selectedOrder, outputIndex, queue,
                       occurrences, charged>>
    PROVE  WalkInv'
<1>1. CountersInv'
  BY DEF WalkInv, CountersInv, Limit, KindOf, Document
<1>2. stage = "expand" => charged.documents \subseteq DOMAIN world.documents
  BY DEF WalkInv, ListsInv
<1>3. /\ Listed(occurrences)
      /\ stage = "walk" => \A o \in Range(occurrences) : Met(o)'
      /\ stage = "expand" => \A o \in Range(occurrences) : Found(o)'
  BY CountsGrow DEF WalkInv, ListsInv
<1>. QED
  BY <1>1, <1>2, <1>3, WalkGoesOn

\* An assembly is left, an instance is skipped, entered or collected.
LEMMA PopKeepsWalk ==
    ASSUME world \in Worlds, WalkInv, Pop
    PROVE  WalkInv'
<1>1. StackInv
  BY DEF WalkInv
<1>2. /\ Listed(stack')
      /\ \A f \in Range(stack') : IsFrame(f) /\ (stage = "expand" <=> f.document # Root)
  BY <1>1, ListFront DEF Pop, Walking, StackInv
<1>. QED
  BY <1>2, QuietWalk DEF Pop, Walking

LEMMA SkipKeepsWalk ==
    ASSUME world \in Worlds, WalkInv, SkipSuppressed
    PROVE  WalkInv'
<1>1. StackInv
  BY DEF WalkInv
<1>. QED
  BY <1>1, AdvancedFrames, QuietWalk DEF SkipSuppressed, Walking

LEMMA EnterKeepsWalk ==
    ASSUME world \in Worlds, WalkInv, Enter
    PROVE  WalkInv'
<1> DEFINE frame == Frame(Top.document, Top.output, Instance.node, Configuration,
                          Path, Top.ancestry, Top.depth + 1)
<1>1. CountersInv /\ StackInv /\ ListsInv
  BY DEF WalkInv
<1>2. /\ Visiting /\ Refusal = "none" /\ IsLocal("assembly") /\ stack # <<>>
      /\ stack' = Append(Advanced, frame) /\ charged' = AfterVisit
      /\ UNCHANGED <<world, stage, failure, selectedOrder, outputIndex, queue,
                     occurrences>>
  BY DEF Enter, Visiting, Walking
<1>3. IsFrame(Top) /\ (stage = "expand" <=> Top.document # Root)
  BY <1>1, <1>2, TopFrame
<1>4. IsFrame(frame) /\ (stage = "expand" <=> frame.document # Root)
  BY <1>2, <1>3 DEF IsFrame, Frame, IsLocal
<1>5. /\ Listed(stack')
      /\ \A f \in Range(stack') : IsFrame(f) /\ (stage = "expand" <=> f.document # Root)
  <2> HIDE DEF frame
  <2>. QED
    BY <1>1, <1>2, <1>4, AdvancedFrames, ListAppend
<1>6. /\ CountersInv'
      /\ charged.parts \subseteq charged'.parts
      /\ charged.documents \subseteq charged'.documents
  BY <1>1, <1>2, VisitCounts
<1>7. stage = "expand" => charged'.documents \subseteq DOMAIN world.documents
  <2>1. charged'.documents = charged.documents
    BY <1>2 DEF AfterVisit, IsLocal
  <2>. QED
    BY <1>1, <2>1 DEF ListsInv
<1>8. /\ Listed(occurrences)
      /\ stage = "walk" => \A o \in Range(occurrences) : Met(o)'
      /\ stage = "expand" => \A o \in Range(occurrences) : Found(o)'
  BY <1>1, <1>6, CountsGrow DEF ListsInv
<1>. QED
  BY <1>2, <1>5, <1>6, <1>7, <1>8, WalkGoesOn

LEMMA CollectKeepsWalk ==
    ASSUME world \in Worlds, WalkInv, Collect
    PROVE  WalkInv'
<1>1. CountersInv /\ StackInv /\ ListsInv
  BY DEF WalkInv
<1>2. /\ Visiting /\ Refusal = "none" /\ ~IsLocal("assembly") /\ stack # <<>>
      /\ Top.next <= Len(Instances)
      /\ occurrences' = Append(occurrences, Occurrence)
      /\ stack' = Advanced /\ charged' = AfterVisit
      /\ UNCHANGED <<world, stage, failure, selectedOrder, outputIndex, queue>>
  BY DEF Collect, Visiting, Walking
<1>3. /\ CountersInv'
      /\ charged.parts \subseteq charged'.parts
      /\ charged.documents \subseteq charged'.documents
      /\ PartKeys \subseteq charged'.parts
      /\ IsExternal(Instance) => Instance.resource \in charged'.documents
  BY <1>1, <1>2, VisitCounts
<1>4. /\ IsFrame(Top) /\ (stage = "expand" <=> Top.document # Root)
      /\ IsExternal(Instance) =>
            Instance.kind \in {"part", "assembly"} /\ Instance.resource # Root
  BY <1>1, <1>2, TopFrame
<1>5. /\ ~(IsExternal(Instance) /\ Top.document # Root)
      /\ IsExternal(Instance) \/ IsLocal("part")
  BY <1>2, Visits
<1>6. PICK o : o = Occurrence
  OBVIOUS
<1>7. /\ o = [source |-> o.source, document |-> o.document, output |-> o.output,
              kind |-> o.kind, node |-> o.node, path |-> o.path,
              configuration |-> o.configuration, depth |-> o.depth]
      /\ o.source = IF IsExternal(Instance) \/ Top.document # Root
                    THEN "external" ELSE "local"
      /\ o.document = IF IsExternal(Instance) THEN Instance.resource ELSE Top.document
      /\ o.output = IF IsExternal(Instance) THEN Instance.output ELSE Top.output
      /\ o.kind = IF Top.document # Root THEN "assembly" ELSE Instance.kind
      /\ o.node = IF IsExternal(Instance) THEN Nothing ELSE Instance.node
      /\ o.configuration = Configuration
  BY <1>6 DEF Occurrence
<1>8. IsOccurrence(o)'
  BY <1>4, <1>5, <1>7 DEF IsOccurrence, IsFrame, IsLocal
<1>9. IF IsExternal(Instance) /\ Instance.kind = "assembly"
      THEN Unexpanded(o) /\ o.document \in charged'.documents /\ Top.document = Root
      ELSE PartKey(o) \in charged'.parts
  <2>1. CASE IsExternal(Instance) /\ Instance.kind = "assembly"
    BY <1>3, <1>5, <1>7, <2>1 DEF Unexpanded
  <2>2. CASE IsExternal(Instance) /\ Instance.kind = "part"
    BY <1>3, <1>5, <1>7, <2>2 DEF PartKeys, PartKey
  <2>3. CASE ~IsExternal(Instance)
    BY <1>3, <1>5, <1>7, <2>3 DEF PartKeys, PartKey, IsLocal
  <2>. QED
    BY <1>4, <2>1, <2>2, <2>3
<1>10. IF stage = "expand" THEN Found(o)' ELSE Met(o)'
  <2>1. CASE stage = "expand"
    BY <1>4, <1>5, <1>8, <1>9, <2>1 DEF Found, PartKey
  <2>2. CASE stage # "expand"
    <3>1. Top.document = Root
      BY <1>4, <2>2
    <3>2. o.source = "external" => o.document \in charged'.documents
      BY <1>3, <1>7, <3>1
    <3>3. Unexpanded(o) \/ PartKey(o) \in charged'.parts
      BY <1>9
    <3>. QED
      BY <1>6, <1>8, <2>2, <3>2, <3>3 DEF Met, PartKey, Unexpanded
  <2>. QED
    BY <2>1, <2>2
<1>11. Listed(occurrences') /\ Range(occurrences') = Range(occurrences) \cup {o}
  BY <1>1, <1>2, <1>6, ListAppend DEF ListsInv
<1>12. /\ stage = "walk" => \A p \in Range(occurrences') : Met(p)'
       /\ stage = "expand" => \A p \in Range(occurrences') : Found(p)'
  BY <1>1, <1>3, <1>4, <1>10, <1>11, CountsGrow DEF ListsInv
<1>13. stage = "expand" => charged'.documents \subseteq DOMAIN world.documents
  <2>1. stage = "expand" => charged'.documents = charged.documents
    BY <1>2, <1>4, <1>5 DEF AfterVisit
  <2>. QED
    BY <1>1, <2>1 DEF ListsInv
<1>14. /\ Listed(stack')
       /\ \A f \in Range(stack') : IsFrame(f) /\ (stage = "expand" <=> f.document # Root)
  BY <1>1, <1>2, AdvancedFrames
<1>. QED
  BY <1>2, <1>3, <1>11, <1>12, <1>13, <1>14, WalkGoesOn

-----------------------------------------------------------------------------
(* The steps between the assemblies.                                        *)
\* A refusal for a good reason.
LEMMA RefuseFails ==
    ASSUME NEW reason, Fine(reason), Refuse(reason)
    PROVE  Failed' /\ world' = world
  BY DEF Refuse, Failed, Fine

\* The request is checked.
LEMMA BeginKeepsWalk ==
    ASSUME world \in Worlds, WalkInv, Begin
    PROVE  world' = world /\ (WalkInv' \/ Failed')
<1> DEFINE checks == <<
            <<"configuration", ~KnownConfiguration(Root, world.configuration)>>,
            <<"maxSelectedOutputs",
              Len(world.requested) > Limit("maxSelectedOutputs")>>,
            <<"output", world.requested = <<>>>> >>
<1>1. stage = "begin"
  BY DEF Begin
<1>2. /\ DOMAIN checks = 1 .. 3
      /\ \A k \in 1 .. 3 : Fine(checks[k][1]) /\ checks[k][1] # "none"
      /\ checks[2][2] <=> Len(world.requested) > Limit("maxSelectedOutputs")
      /\ checks[3][2] <=> world.requested = <<>>
  <2>1. DOMAIN checks = 1 .. 3
    OBVIOUS
  <2>2. /\ checks[1][1] = "configuration" /\ checks[2][1] = "maxSelectedOutputs"
        /\ checks[3][1] = "output"
    OBVIOUS
  <2>3. /\ checks[2][2] <=> Len(world.requested) > Limit("maxSelectedOutputs")
        /\ checks[3][2] <=> world.requested = <<>>
    OBVIOUS
  <2> HIDE DEF checks
  <2>. QED
    BY <2>1, <2>2, <2>3 DEF Fine
<1>3. \/ FirstFailing(checks) # "none" /\ Refuse(FirstFailing(checks))
      \/ /\ FirstFailing(checks) = "none" /\ stage' = "select"
         /\ UNCHANGED <<world, failure, selectedOrder, outputIndex, queue,
                        occurrences, stack, charged>>
  BY DEF Begin
<1> HIDE DEF checks
<1>4. \/ FirstFailing(checks) = "none" /\ \A k \in 1 .. 3 : ~checks[k][2]
      \/ Fine(FirstFailing(checks)) /\ FirstFailing(checks) # "none"
  BY <1>2, FirstFailingCheck
<1>5. CASE FirstFailing(checks) # "none"
  BY <1>3, <1>4, <1>5, RefuseFails
<1>6. CASE FirstFailing(checks) = "none"
  <2>1. RequestInv
    <3>1. Len(world.requested) \in Nat /\ Limit("maxSelectedOutputs") \in Nat
      BY Worldly, Lists
    <3>. QED
      BY <1>2, <1>4, <1>6, <3>1 DEF RequestInv
  <2>2. /\ stage' = "select"
        /\ UNCHANGED <<world, failure, selectedOrder, outputIndex, queue,
                       occurrences, stack, charged>>
    BY <1>3, <1>6
  <2>3. /\ CountersInv /\ SelectedInv /\ StackInv /\ ListsInv /\ failure = "none"
    BY DEF WalkInv
  <2>4. CountersInv'
    BY <2>2, <2>3 DEF CountersInv, Limit, KindOf, Document
  <2>5. SelectedInv'
    BY <2>2, <2>3, Zenon DEF SelectedInv, KindOf, Document
  <2>6. StackInv'
    BY <1>1, <2>2, <2>3 DEF StackInv, IsFrame, KindOf, Document
  <2>7. ListsInv'
    BY <1>1, <2>1, <2>2, <2>3, EmptyList DEF ListsInv, RequestInv, Limit
  <2>. QED
    BY <2>2, <2>3, <2>4, <2>5, <2>6, <2>7 DEF WalkInv
<1>. QED
  BY <1>5, <1>6

LEMMA RefuseVisitFails ==
    ASSUME world \in Worlds, RefuseVisit
    PROVE  Failed' /\ world' = world
  BY Visits, RefuseFails DEF RefuseVisit

\* One requested output more is selected.
LEMMA SelectionAppended ==
    ASSUME world \in Worlds, SelectedInv, NEW items, Listed(items),
           Len(selectedOrder) < Len(world.requested), world' = world,
           selectedOrder' = Append(selectedOrder, Selection(items)),
           Name \in DOMAIN Document(Root).outputs,
           KindOf(Root, Reference.node) = Reference.kind
    PROVE  /\ SelectedInv' /\ Len(selectedOrder') = Len(selectedOrder) + 1
           /\ \A k \in DOMAIN selectedOrder' :
                 \/ k \in DOMAIN selectedOrder /\ selectedOrder'[k] = selectedOrder[k]
                 \/ selectedOrder'[k].occurrences = items
<1> DEFINE n == Len(selectedOrder) + 1
<1>1. /\ Listed(selectedOrder') /\ Len(selectedOrder') = n
      /\ DOMAIN selectedOrder' = 1 .. n /\ DOMAIN selectedOrder = 1 .. n - 1
      /\ n - 1 \in Nat /\ n \in Nat
      /\ \A k \in 1 .. n - 1 : selectedOrder'[k] = selectedOrder[k]
      /\ selectedOrder'[n] = Selection(items)
  BY ListAppend DEF SelectedInv
<1>2. n <= Len(world.requested)
  <2>1. Len(world.requested) \in Nat
    BY Worldly, Lists
  <2>. QED
    BY <1>1, <2>1
<1>3. Selection(items) = [name |-> world.requested[n], node |-> Reference.node,
                          kind |-> Reference.kind, occurrences |-> items]
      /\ Reference = Document(Root).outputs[world.requested[n]]
      /\ world.requested[n] \in DOMAIN Document(Root).outputs
  BY DEF Selection, Name, Reference
<1> HIDE DEF n
<1>4. ASSUME NEW k \in 1 .. n
      PROVE  /\ LET o == selectedOrder'[k]
                    reference == Document(Root).outputs[world.requested[k]]
                IN /\ world.requested[k] \in DOMAIN Document(Root).outputs
                   /\ o = [name |-> world.requested[k], node |-> reference.node,
                           kind |-> reference.kind, occurrences |-> o.occurrences]
                   /\ KindOf(Root, reference.node) = reference.kind
                   /\ Listed(o.occurrences)
             /\ \/ k \in DOMAIN selectedOrder /\ selectedOrder'[k] = selectedOrder[k]
                \/ selectedOrder'[k].occurrences = items
  <2>1. CASE k \in 1 .. n - 1
    BY <1>1, <2>1 DEF SelectedInv
  <2>2. CASE k = n
    <3>1. PICK o : o = selectedOrder'[k]
      OBVIOUS
    <3>2. PICK r : r = Reference
      OBVIOUS
    <3>3. /\ o = [name |-> world.requested[k], node |-> r.node, kind |-> r.kind,
                  occurrences |-> items]
          /\ Document(Root).outputs[world.requested[k]] = r
          /\ world.requested[k] \in DOMAIN Document(Root).outputs
          /\ KindOf(Root, r.node) = r.kind
      BY <1>1, <1>3, <2>2, <3>1, <3>2
    <3>4. o.occurrences = items
      BY <3>3
    <3>. QED
      BY <3>1, <3>3, <3>4
  <2>. QED
    BY <1>1, <2>1, <2>2
<1>5. SelectedInv'
  BY <1>1, <1>2, <1>4, Zenon DEF SelectedInv, KindOf, Document
<1>. QED
  BY <1>1, <1>4, <1>5 DEF n

\* Scanning an assembly counts nothing but its instances.
LEMMA ScanningCounts ==
    ASSUME CountersInv, NEW d, NEW n, charged' = Scanning(d, n), world' = world
    PROVE  /\ CountersInv'
           /\ charged'.parts = charged.parts /\ charged'.documents = charged.documents
<1>1. PICK count : charged' = [charged EXCEPT !.scanned = count]
  BY DEF Scanning
<1>2. charged' = [scanned |-> count, active |-> charged.active,
                  placements |-> charged.placements, segments |-> charged.segments,
                  parts |-> charged.parts, documents |-> charged.documents]
  BY <1>1 DEF CountersInv
<1>. QED
  BY <1>2 DEF CountersInv, Limit, KindOf, Document

\* A direct output is selected, and counted if it is a part.
LEMMA SelectDirectKeepsWalk ==
    ASSUME world \in Worlds, WalkInv, SelectDirect
    PROVE  world' = world /\ (WalkInv' \/ Failed')
<1> DEFINE known == Has(Document(Root).outputs, Name)
           usable == known /\ world.mode = "product" /\ Sound(Root, Name)
           after == IF usable /\ Reference.kind = "part"
                    THEN [charged EXCEPT !.parts = @ \cup
                            {LocalPart(Reference.node, world.configuration)}]
                    ELSE charged
           checks == <<
               <<"output", ~known>>,
               <<"unsupported", ~usable>>,
               <<"maxContextualParts", Exceeded(after, "maxContextualParts")>> >>
<1>1. Selecting /\ (known => ~IsAssemblyOutput(Root, Name))
  BY DEF SelectDirect
<1>2. /\ DOMAIN checks = 1 .. 3
      /\ \A k \in 1 .. 3 : Fine(checks[k][1]) /\ checks[k][1] # "none"
      /\ checks[2][2] <=> ~usable
      /\ checks[3][2] <=> Exceeded(after, "maxContextualParts")
  <2>1. DOMAIN checks = 1 .. 3
    OBVIOUS
  <2>2. /\ checks[1][1] = "output" /\ checks[2][1] = "unsupported"
        /\ checks[3][1] = "maxContextualParts"
    OBVIOUS
  <2>3. /\ checks[2][2] <=> ~usable
        /\ checks[3][2] <=> Exceeded(after, "maxContextualParts")
    OBVIOUS
  <2> HIDE DEF checks
  <2>. QED
    BY <2>1, <2>2, <2>3 DEF Fine
<1>3. \/ FirstFailing(checks) # "none" /\ Refuse(FirstFailing(checks))
      \/ /\ FirstFailing(checks) = "none"
         /\ selectedOrder' = Append(selectedOrder, Selection(<<>>))
         /\ charged' = after
         /\ UNCHANGED <<world, stage, failure, outputIndex, queue, occurrences, stack>>
  BY DEF SelectDirect
<1> HIDE DEF checks
<1>4. \/ FirstFailing(checks) = "none" /\ \A k \in 1 .. 3 : ~checks[k][2]
      \/ Fine(FirstFailing(checks)) /\ FirstFailing(checks) # "none"
  BY <1>2, FirstFailingCheck
<1>5. CASE FirstFailing(checks) # "none"
  BY <1>3, <1>4, <1>5, RefuseFails
<1>6. CASE FirstFailing(checks) = "none"
  <2>1. usable /\ ~Exceeded(after, "maxContextualParts")
    BY <1>2, <1>4, <1>6
  <2>2. /\ selectedOrder' = Append(selectedOrder, Selection(<<>>))
        /\ charged' = after
        /\ UNCHANGED <<world, stage, failure, outputIndex, queue, occurrences, stack>>
    BY <1>3, <1>6
  <2>3. /\ CountersInv /\ SelectedInv /\ StackInv /\ ListsInv /\ failure = "none"
    BY DEF WalkInv
  <2>4. /\ Name \in DOMAIN Document(Root).outputs
        /\ KindOf(Root, Reference.node) = Reference.kind
    BY <2>1 DEF Sound, Reference, Has
  <2>5. /\ CountersInv' /\ charged.parts \subseteq charged'.parts
        /\ charged'.documents = charged.documents
    <3>1. ~(Cardinality(charged'.parts) > Limit("maxContextualParts"))
      BY <2>1, <2>2 DEF Exceeded
    <3>2. CASE Reference.kind = "part"
      <4> DEFINE key == LocalPart(Reference.node, world.configuration)
      <4>1. charged' = [charged EXCEPT !.parts = @ \cup {key}]
        BY <2>1, <2>2, <3>2
      <4>2. /\ charged' = [scanned |-> charged'.scanned, active |-> charged'.active,
                       placements |-> charged'.placements, segments |-> charged'.segments,
                       parts |-> charged'.parts, documents |-> charged'.documents]
            /\ charged'.parts = charged.parts \cup {key}
            /\ charged'.documents = charged.documents
        <5> HIDE DEF key
        <5>. QED
          BY <2>3, <4>1 DEF CountersInv
      <4>3. /\ \A x \in {key} : x[1] = "local" => KindOf(Root, x[3]) = "part"
            /\ \A x \in {key} : x[1] = "leaf" => KindOf(x[2], x[3]) = "part"
        BY <2>4, <3>2 DEF LocalPart
      <4> HIDE DEF key
      <4>. QED
        BY <2>2, <2>3, <3>1, <4>2, <4>3, PartsCounted
    <3>3. CASE Reference.kind # "part"
      <4>1. charged' = charged
        BY <2>2, <3>3
      <4>. QED
        BY <2>2, <2>3, <4>1 DEF CountersInv, Limit, KindOf, Document
    <3>. QED
      BY <3>2, <3>3
  <2>6. /\ SelectedInv' /\ Len(selectedOrder') = Len(selectedOrder) + 1
        /\ \A k \in DOMAIN selectedOrder' :
              \/ k \in DOMAIN selectedOrder /\ selectedOrder'[k] = selectedOrder[k]
              \/ selectedOrder'[k].occurrences = <<>>
    BY <1>1, <2>2, <2>3, <2>4, EmptyList, SelectionAppended DEF Selecting
  <2>7. StackInv'
    BY <2>2, <2>3 DEF StackInv, IsFrame, KindOf, Document
  <2>8. ListsInv'
    <3>1. stage = "select" /\ occurrences = <<>> /\ stack = <<>> /\ RequestInv
      BY <1>1, <2>3 DEF Selecting, ListsInv
    <3>2. \A k \in DOMAIN selectedOrder' :
             \A o \in Range(selectedOrder'[k].occurrences) : Met(o)'
      BY <2>3, <2>5, <2>6, <3>1, CountsGrow, EmptyList DEF ListsInv
    <3>. QED
      BY <2>2, <2>3, <3>1, <3>2, EmptyList DEF ListsInv, RequestInv, Limit
  <2>. QED
    BY <1>1, <2>2, <2>3, <2>5, <2>6, <2>7, <2>8 DEF WalkInv, Selecting
<1>. QED
  BY <1>5, <1>6

\* An assembly is entered from nowhere.
LEMMA StackOfOne ==
    ASSUME NEW f, IsFrame(f), stack' = <<f>>, world' = world,
           stage' = "expand" <=> f.document # Root
    PROVE  StackInv'
<1>1. stack' \in Seq({f}) /\ Range(stack') = {f}
  BY DEF Range
<1>2. IsFrame(f)'
  BY DEF IsFrame, KindOf, Document
<1>. QED
  BY <1>1, <1>2 DEF StackInv, Listed

\* An assembly output is entered and, in the end, selected.
LEMMA StartKeepsWalk ==
    ASSUME world \in Worlds, WalkInv, StartAssembly
    PROVE  world' = world /\ (WalkInv' \/ Failed')
<1> DEFINE after == Scanning(Root, Reference.node)
           checks == <<
               <<"maxAssemblyDepth", Limit("maxAssemblyDepth") < 1>>,
               <<"maxScannedInstances", Exceeded(after, "maxScannedInstances")>> >>
           frame == Frame(Root, Nothing, Reference.node, world.configuration, <<>>, {}, 1)
<1>1. Selecting /\ Has(Document(Root).outputs, Name) /\ IsAssemblyOutput(Root, Name)
  BY DEF StartAssembly
<1>2. /\ DOMAIN checks = 1 .. 2
      /\ \A k \in 1 .. 2 : Fine(checks[k][1]) /\ checks[k][1] # "none"
  <2>1. DOMAIN checks = 1 .. 2
    OBVIOUS
  <2>2. checks[1][1] = "maxAssemblyDepth" /\ checks[2][1] = "maxScannedInstances"
    OBVIOUS
  <2> HIDE DEF checks
  <2>. QED
    BY <2>1, <2>2 DEF Fine
<1>3. \/ FirstFailing(checks) # "none" /\ Refuse(FirstFailing(checks))
      \/ /\ FirstFailing(checks) = "none"
         /\ stage' = "walk" /\ stack' = <<frame>> /\ charged' = after
         /\ UNCHANGED <<world, failure, selectedOrder, outputIndex, queue, occurrences>>
  BY DEF StartAssembly
<1> HIDE DEF checks
<1>4. \/ FirstFailing(checks) = "none" /\ \A k \in 1 .. 2 : ~checks[k][2]
      \/ Fine(FirstFailing(checks)) /\ FirstFailing(checks) # "none"
  BY <1>2, FirstFailingCheck
<1>5. CASE FirstFailing(checks) # "none"
  BY <1>3, <1>4, <1>5, RefuseFails
<1>6. CASE FirstFailing(checks) = "none"
  <2>1. /\ stage' = "walk" /\ stack' = <<frame>> /\ charged' = after
        /\ UNCHANGED <<world, failure, selectedOrder, outputIndex, queue, occurrences>>
    BY <1>3, <1>6
  <2>2. /\ CountersInv /\ SelectedInv /\ StackInv /\ ListsInv /\ failure = "none"
        /\ stage = "select"
    BY <1>1 DEF WalkInv, Selecting
  <2>3. CountersInv' /\ charged'.parts = charged.parts /\ charged'.documents = charged.documents
    <3> HIDE DEF frame
    <3>. QED
      BY <2>1, <2>2, ScanningCounts
  <2>4. SelectedInv'
    BY <2>1, <2>2, Zenon DEF SelectedInv, KindOf, Document
  <2>5. StackInv'
    <3>1. PICK f : f = frame
      OBVIOUS
    <3>2. f = [document |-> Root, output |-> Nothing, node |-> Reference.node,
               configuration |-> world.configuration, path |-> <<>>,
               ancestry |-> {} \cup {Reference.node}, depth |-> 1, next |-> 1]
      BY <3>1 DEF Frame
    <3>3. KindOf(Root, Reference.node) = "assembly"
      BY <1>1 DEF IsAssemblyOutput, Sound, Reference
    <3>4. IsFrame(f) /\ f.document = Root
      BY <3>2, <3>3, Worldly DEF IsFrame
    <3> HIDE DEF frame
    <3>. QED
      BY <2>1, <3>1, <3>4, StackOfOne
  <2>6. ListsInv'
    <3>1. /\ Len(selectedOrder) < Len(world.requested)
          /\ Name \in DOMAIN Document(Root).outputs /\ IsAssemblyOutput(Root, Name)
      BY <1>1 DEF Selecting, Has
    <3>2. /\ (Len(selectedOrder) < Len(world.requested))'
          /\ (Name \in DOMAIN Document(Root).outputs)' /\ IsAssemblyOutput(Root, Name)'
      BY <2>1, <3>1, Zenon DEF IsAssemblyOutput, Sound, Name, KindOf, Document
    <3>. QED
      BY <2>1, <2>2, <2>3, <3>2, CountsGrow DEF ListsInv, RequestInv, Limit
  <2>. QED
    BY <2>1, <2>2, <2>3, <2>4, <2>5, <2>6 DEF WalkInv
<1>. QED
  BY <1>5, <1>6

LEMMA FinishAssemblyKeepsWalk ==
    ASSUME world \in Worlds, WalkInv, FinishAssembly
    PROVE  WalkInv'
<1>1. /\ stage = "walk" /\ stack = <<>>
      /\ selectedOrder' = Append(selectedOrder, Selection(occurrences))
      /\ occurrences' = <<>> /\ stage' = "select"
      /\ UNCHANGED <<world, failure, outputIndex, queue, stack, charged>>
  BY DEF FinishAssembly
<1>2. /\ CountersInv /\ SelectedInv /\ StackInv /\ ListsInv /\ failure = "none"
  BY DEF WalkInv
<1>3. /\ Len(selectedOrder) < Len(world.requested)
      /\ Name \in DOMAIN Document(Root).outputs /\ IsAssemblyOutput(Root, Name)
      /\ Listed(occurrences) /\ RequestInv
      /\ \A o \in Range(occurrences) : Met(o)
      /\ \A k \in DOMAIN selectedOrder :
            \A o \in Range(selectedOrder[k].occurrences) : Met(o)
  BY <1>1, <1>2 DEF ListsInv
<1>4. KindOf(Root, Reference.node) = Reference.kind
  BY <1>3 DEF IsAssemblyOutput, Sound, Reference
<1>5. PICK items : items = occurrences
  OBVIOUS
<1>6. /\ SelectedInv'
      /\ \A k \in DOMAIN selectedOrder' :
            \/ k \in DOMAIN selectedOrder /\ selectedOrder'[k] = selectedOrder[k]
            \/ selectedOrder'[k].occurrences = items
  BY <1>1, <1>2, <1>3, <1>4, <1>5, SelectionAppended
<1>7. \A k \in DOMAIN selectedOrder' :
         \A o \in Range(selectedOrder'[k].occurrences) : Met(o)'
  BY <1>1, <1>3, <1>5, <1>6, CountsGrow
<1>8. ListsInv'
  BY <1>1, <1>2, <1>3, <1>7, EmptyList DEF ListsInv, RequestInv, Limit
<1>9. CountersInv' /\ StackInv'
  BY <1>1, <1>2 DEF CountersInv, StackInv, IsFrame, Limit, KindOf, Document
<1>. QED
  BY <1>1, <1>2, <1>6, <1>8, <1>9 DEF WalkInv

\* All external documents are admitted, or none.
LEMMA AdmitKeepsWalk ==
    ASSUME world \in Worlds, WalkInv, AdmitDocuments
    PROVE  world' = world /\ (WalkInv' \/ Failed')
<1>1. stage = "select" /\ Len(selectedOrder) = Len(world.requested)
  BY DEF AdmitDocuments
<1>2. CASE \E d \in charged.documents : ~Has(world.documents, d)
  <2>1. Refuse("resource")
    BY <1>2 DEF AdmitDocuments
  <2>. QED
    BY <2>1, RefuseFails DEF Fine
<1>3. CASE ~\E d \in charged.documents : ~Has(world.documents, d)
  <2>1. /\ stage' = "expand" /\ outputIndex' = 1
        /\ queue' = selectedOrder[1].occurrences
        /\ UNCHANGED <<world, failure, selectedOrder, occurrences, stack, charged>>
    BY <1>3 DEF AdmitDocuments
  <2>2. /\ CountersInv /\ SelectedInv /\ StackInv /\ ListsInv /\ failure = "none"
    BY DEF WalkInv
  <2>3. /\ RequestInv /\ occurrences = <<>> /\ stack = <<>>
        /\ \A k \in DOMAIN selectedOrder :
              \A o \in Range(selectedOrder[k].occurrences) : Met(o)
    BY <1>1, <2>2 DEF ListsInv
  <2>4. DOMAIN selectedOrder = 1 .. Len(selectedOrder) /\ 1 \in DOMAIN selectedOrder
    <3>1. Len(world.requested) \in Nat /\ Len(world.requested) # 0
      BY <2>3, Worldly, Lists DEF RequestInv
    <3>2. DOMAIN selectedOrder = 1 .. Len(selectedOrder)
      BY <2>2, Lists DEF SelectedInv
    <3>. QED
      BY <1>1, <3>1, <3>2
  <2>5. Listed(queue')
    BY <2>1, <2>2, <2>4 DEF SelectedInv
  <2>6. charged'.documents \subseteq DOMAIN world'.documents
    BY <1>3, <2>1 DEF Has
  <2>7. ListsInv'
    BY <1>1, <2>1, <2>3, <2>4, <2>5, <2>6, EmptyList, CountsGrow
       DEF ListsInv, RequestInv, Limit, AllSelected
  <2>8. CountersInv' /\ SelectedInv'
    BY <2>1, <2>2, Zenon DEF CountersInv, SelectedInv, Limit, KindOf, Document
  <2>9. StackInv'
    BY <2>1, <2>3, EmptyList DEF StackInv
  <2>. QED
    BY <2>1, <2>2, <2>7, <2>8, <2>9 DEF WalkInv
<1>. QED
  BY <1>2, <1>3

\* An occurrence is kept, or expanded where it is.
LEMMA KeepKeepsWalk ==
    ASSUME world \in Worlds, WalkInv, KeepOccurrence
    PROVE  WalkInv'
<1>1. /\ stage = "expand" /\ stack = <<>> /\ queue # <<>> /\ ~Unexpanded(Head(queue))
      /\ occurrences' = Append(occurrences, Head(queue))
      /\ queue' = Tail(queue)
      /\ UNCHANGED <<world, stage, failure, selectedOrder, outputIndex, stack, charged>>
  BY DEF KeepOccurrence, Expanding
<1>2. /\ CountersInv /\ SelectedInv /\ StackInv /\ ListsInv /\ failure = "none"
  BY DEF WalkInv
<1>3. PICK o : o = Head(queue)
  OBVIOUS
<1>4. Listed(queue) /\ Listed(occurrences)
  BY <1>2 DEF ListsInv
<1>5. /\ Listed(queue') /\ Range(queue') \subseteq Range(queue) /\ o \in Range(queue)
  BY <1>1, <1>3, <1>4, ListTail
<1>6. Found(o)
  BY <1>1, <1>2, <1>3, <1>5 DEF ListsInv, Met, Found
<1>7. Listed(occurrences') /\ Range(occurrences') = Range(occurrences) \cup {o}
  BY <1>1, <1>3, <1>4, ListAppend
<1>8. ListsInv'
  BY <1>1, <1>2, <1>5, <1>6, <1>7, CountsGrow DEF ListsInv, RequestInv, Limit, AllSelected
<1>9. CountersInv' /\ SelectedInv' /\ StackInv'
  BY <1>1, <1>2, Zenon DEF CountersInv, SelectedInv, StackInv, IsFrame, Limit, KindOf, Document
<1>. QED
  BY <1>1, <1>2, <1>8, <1>9 DEF WalkInv

LEMMA EnterExternalKeepsWalk ==
    ASSUME world \in Worlds, WalkInv, EnterExternal
    PROVE  world' = world /\ (WalkInv' \/ Failed')
<1> DEFINE o == Head(queue)
           d == o.document
           known == Has(Document(d).outputs, o.output)
           node == Document(d).outputs[o.output].node
           usable == known /\ IsAssemblyOutput(d, o.output)
           resolvable == KnownConfiguration(d, o.configuration)
           checks == <<
               <<"output", ~known>>,
               <<"unsupported", ~usable>>,
               <<"configuration", ~resolvable>>,
               <<"maxScannedInstances",
                 usable /\ Exceeded(Scanning(d, node), "maxScannedInstances")>> >>
           frame == Frame(d, o.output, node, o.configuration, o.path, {}, o.depth)
<1>1. stage = "expand" /\ stack = <<>> /\ queue # <<>> /\ Unexpanded(o)
  BY DEF EnterExternal, Expanding
<1>2. /\ DOMAIN checks = 1 .. 4
      /\ \A k \in 1 .. 4 : Fine(checks[k][1]) /\ checks[k][1] # "none"
      /\ checks[2][2] <=> ~usable
  <2>1. DOMAIN checks = 1 .. 4
    OBVIOUS
  <2>2. /\ checks[1][1] = "output" /\ checks[2][1] = "unsupported"
        /\ checks[3][1] = "configuration" /\ checks[4][1] = "maxScannedInstances"
    OBVIOUS
  <2>3. checks[2][2] <=> ~usable
    OBVIOUS
  <2> HIDE DEF checks
  <2>. QED
    BY <2>1, <2>2, <2>3 DEF Fine
<1>3. \/ FirstFailing(checks) # "none" /\ Refuse(FirstFailing(checks))
      \/ /\ FirstFailing(checks) = "none"
         /\ stack' = <<frame>> /\ charged' = Scanning(d, node) /\ queue' = Tail(queue)
         /\ UNCHANGED <<world, stage, failure, selectedOrder, outputIndex, occurrences>>
  BY DEF EnterExternal
<1> HIDE DEF checks
<1>4. \/ FirstFailing(checks) = "none" /\ \A k \in 1 .. 4 : ~checks[k][2]
      \/ Fine(FirstFailing(checks)) /\ FirstFailing(checks) # "none"
  BY <1>2, FirstFailingCheck
<1>5. CASE FirstFailing(checks) # "none"
  BY <1>3, <1>4, <1>5, RefuseFails
<1>6. CASE FirstFailing(checks) = "none"
  <2>1. usable
    BY <1>2, <1>4, <1>6
  <2>2. /\ stack' = <<frame>> /\ charged' = Scanning(d, node) /\ queue' = Tail(queue)
        /\ UNCHANGED <<world, stage, failure, selectedOrder, outputIndex, occurrences>>
    BY <1>3, <1>6
  <2>3. /\ CountersInv /\ SelectedInv /\ StackInv /\ ListsInv /\ failure = "none"
    BY DEF WalkInv
  <2>4. /\ Listed(queue') /\ Range(queue') \subseteq Range(queue) /\ o \in Range(queue)
    BY <1>1, <2>2, <2>3, ListTail DEF ListsInv
  <2>5. d # Root /\ d \in DOMAIN world.documents
    <3>1. Met(o) /\ charged.documents \subseteq DOMAIN world.documents
      BY <1>1, <2>3, <2>4 DEF ListsInv
    <3>2. IsOccurrence(o) /\ o.document \in charged.documents
      BY <1>1, <3>1 DEF Met, Unexpanded
    <3>. QED
      BY <1>1, <3>1, <3>2 DEF IsOccurrence, Unexpanded
  <2>6. CountersInv' /\ charged'.parts = charged.parts /\ charged'.documents = charged.documents
    <3> HIDE DEF frame, d, node
    <3>. QED
      BY <2>2, <2>3, ScanningCounts
  <2>7. SelectedInv'
    BY <2>2, <2>3, Zenon DEF SelectedInv, KindOf, Document
  <2>8. StackInv'
    <3>1. PICK f : f = frame
      OBVIOUS
    <3>2. f = [document |-> d, output |-> o.output, node |-> node,
               configuration |-> o.configuration, path |-> o.path,
               ancestry |-> {} \cup {node}, depth |-> o.depth, next |-> 1]
      BY <3>1 DEF Frame
    <3>3. KindOf(d, node) = "assembly"
      BY <2>1 DEF IsAssemblyOutput, Sound
    <3>4. IsFrame(f) /\ f.document # Root
      <4> HIDE DEF frame, o, d, node
      <4>. QED
        BY <2>5, <3>2, <3>3 DEF IsFrame
    <3> HIDE DEF frame, o, d, node
    <3>. QED
      BY <1>1, <2>2, <3>1, <3>4, StackOfOne
  <2>9. ListsInv'
    <3> HIDE DEF frame, o, d, node
    <3>. QED
      BY <1>1, <2>2, <2>3, <2>4, <2>6, CountsGrow
         DEF ListsInv, RequestInv, Limit, AllSelected
  <2>. QED
    BY <1>1, <2>2, <2>3, <2>6, <2>7, <2>8, <2>9 DEF WalkInv
<1>. QED
  BY <1>5, <1>6

\* The end of a pass over an output changes its occurrences and no other ones.
LEMMA OutputRewritten ==
    ASSUME SelectedInv, outputIndex \in DOMAIN selectedOrder, Listed(occurrences),
           world' = world,
           selectedOrder' = [selectedOrder EXCEPT ![outputIndex].occurrences = occurrences]
    PROVE  /\ SelectedInv' /\ Len(selectedOrder') = Len(selectedOrder)
           /\ DOMAIN selectedOrder' = DOMAIN selectedOrder
           /\ DOMAIN selectedOrder = 1 .. Len(selectedOrder) /\ Len(selectedOrder) \in Nat
           /\ \A k \in DOMAIN selectedOrder :
                 selectedOrder'[k].occurrences = IF k = outputIndex THEN occurrences
                                                 ELSE selectedOrder[k].occurrences
<1>1. PICK old : old = selectedOrder[outputIndex]
  OBVIOUS
<1>2. PICK new : new = [old EXCEPT !.occurrences = occurrences]
  OBVIOUS
<1>3. selectedOrder' = [selectedOrder EXCEPT ![outputIndex] = new]
  BY <1>1, <1>2
<1>4. /\ Listed(selectedOrder') /\ Len(selectedOrder') = Len(selectedOrder)
      /\ DOMAIN selectedOrder' = DOMAIN selectedOrder
      /\ DOMAIN selectedOrder = 1 .. Len(selectedOrder) /\ Len(selectedOrder) \in Nat
      /\ selectedOrder'[outputIndex] = new
      /\ \A k \in DOMAIN selectedOrder :
            k # outputIndex => selectedOrder'[k] = selectedOrder[k]
  <2>1. Listed(selectedOrder)
    BY DEF SelectedInv
  <2>2. PICK t : t = [selectedOrder EXCEPT ![outputIndex] = new]
    OBVIOUS
  <2>3. /\ Listed(t) /\ Len(t) = Len(selectedOrder) /\ DOMAIN t = DOMAIN selectedOrder
        /\ DOMAIN selectedOrder = 1 .. Len(selectedOrder) /\ Len(selectedOrder) \in Nat
        /\ t[outputIndex] = new
        /\ \A k \in DOMAIN selectedOrder : k # outputIndex => t[k] = selectedOrder[k]
    BY <2>1, <2>2, ListExcept, Zenon
  <2>. QED
    BY <1>3, <2>2, <2>3
<1>5. PICK reference : reference = Document(Root).outputs[world.requested[outputIndex]]
  OBVIOUS
<1>6. /\ old = [name |-> world.requested[outputIndex], node |-> reference.node,
                kind |-> reference.kind, occurrences |-> old.occurrences]
      /\ KindOf(Root, reference.node) = reference.kind
  BY <1>1, <1>5 DEF SelectedInv
<1>7. new = [name |-> world.requested[outputIndex], node |-> reference.node,
             kind |-> reference.kind, occurrences |-> occurrences]
  BY <1>2, <1>6
<1>8. new.occurrences = occurrences
  BY <1>7
<1>9. ASSUME NEW k \in DOMAIN selectedOrder
      PROVE  LET o == selectedOrder'[k]
                 r == Document(Root).outputs[world.requested[k]]
             IN /\ o = [name |-> world.requested[k], node |-> r.node,
                        kind |-> r.kind, occurrences |-> o.occurrences]
                /\ KindOf(Root, r.node) = r.kind
                /\ Listed(o.occurrences)
  <2>1. CASE k = outputIndex
    BY <1>4, <1>5, <1>6, <1>7, <1>8, <2>1
  <2>2. CASE k # outputIndex
    BY <1>4, <2>2 DEF SelectedInv
  <2>. QED
    BY <2>1, <2>2
<1>10. SelectedInv'
  BY <1>4, <1>9, Zenon DEF SelectedInv, KindOf, Document
<1>. QED
  BY <1>4, <1>8, <1>10

\* The expansion goes on to the next output, or is over.
LEMMA ExpansionKeepsWalk ==
    ASSUME world \in Worlds, WalkInv, FinishExpansion
    PROVE  WalkInv'
<1>1. /\ stage = "expand" /\ stack = <<>> /\ queue = <<>>
      /\ selectedOrder' = [selectedOrder EXCEPT ![outputIndex].occurrences = occurrences]
      /\ occurrences' = <<>>
      /\ IF outputIndex < Len(selectedOrder)
         THEN /\ outputIndex' = outputIndex + 1
              /\ queue' = selectedOrder[outputIndex + 1].occurrences
              /\ UNCHANGED stage
         ELSE stage' = "traversed" /\ UNCHANGED <<outputIndex, queue>>
      /\ UNCHANGED <<world, failure, stack, charged>>
  BY DEF FinishExpansion, FinishOutput
<1>2. /\ CountersInv /\ SelectedInv /\ StackInv /\ ListsInv /\ failure = "none"
  BY DEF WalkInv
<1>3. /\ AllSelected /\ outputIndex \in DOMAIN selectedOrder /\ Listed(occurrences)
      /\ charged.documents \subseteq DOMAIN world.documents /\ RequestInv
      /\ \A o \in Range(occurrences) : Found(o)
      /\ \A k \in DOMAIN selectedOrder :
            \A o \in Range(selectedOrder[k].occurrences) :
               IF k < outputIndex THEN Found(o) ELSE Met(o)
  BY <1>1, <1>2 DEF ListsInv
<1>4. /\ SelectedInv' /\ Len(selectedOrder') = Len(selectedOrder)
      /\ DOMAIN selectedOrder' = DOMAIN selectedOrder
      /\ DOMAIN selectedOrder = 1 .. Len(selectedOrder) /\ Len(selectedOrder) \in Nat
      /\ \A k \in DOMAIN selectedOrder :
            selectedOrder'[k].occurrences = IF k = outputIndex THEN occurrences
                                            ELSE selectedOrder[k].occurrences
  BY <1>1, <1>2, <1>3, OutputRewritten
<1>5. \A o : (Found(o) => Found(o)') /\ (Met(o) => Met(o)')
  BY <1>1, CountsGrow
<1>6. CountersInv' /\ StackInv'
  BY <1>1, <1>2, EmptyList DEF CountersInv, StackInv, Limit, KindOf, Document
<1>7. CASE outputIndex < Len(selectedOrder)
  <2>1. /\ outputIndex' = outputIndex + 1 /\ stage' = "expand"
        /\ queue' = selectedOrder[outputIndex + 1].occurrences
    BY <1>1, <1>7
  <2>2. outputIndex + 1 \in DOMAIN selectedOrder /\ ~(outputIndex + 1 < outputIndex)
    BY <1>3, <1>4, <1>7
  <2>3. Listed(queue') /\ \A o \in Range(queue') : Met(o)
    BY <1>2, <1>3, <2>1, <2>2 DEF SelectedInv
  <2>4. ASSUME NEW k \in DOMAIN selectedOrder',
               NEW o \in Range(selectedOrder'[k].occurrences)
        PROVE  IF k < outputIndex' THEN Found(o)' ELSE Met(o)'
    <3>1. CASE k = outputIndex
      BY <1>3, <1>4, <1>5, <2>1, <3>1
    <3>2. CASE k # outputIndex
      BY <1>3, <1>4, <1>5, <2>1, <3>2
    <3>. QED
      BY <3>1, <3>2
  <2>5. ListsInv'
    BY <1>1, <1>3, <1>4, <1>5, <2>1, <2>2, <2>3, <2>4, EmptyList
       DEF ListsInv, RequestInv, Limit, AllSelected
  <2>. QED
    BY <1>1, <1>2, <1>4, <1>6, <2>1, <2>5 DEF WalkInv
<1>8. CASE ~(outputIndex < Len(selectedOrder))
  <2>1. stage' = "traversed" /\ UNCHANGED <<outputIndex, queue>>
    BY <1>1, <1>8
  <2>2. ASSUME NEW k \in DOMAIN selectedOrder',
               NEW o \in Range(selectedOrder'[k].occurrences)
        PROVE  Found(o)'
    <3>1. CASE k = outputIndex
      BY <1>3, <1>4, <1>5, <3>1
    <3>2. CASE k # outputIndex
      <4>1. k < outputIndex
        BY <1>3, <1>4, <1>8, <3>2
      <4>. QED
        BY <1>3, <1>4, <1>5, <3>2, <4>1
    <3>. QED
      BY <3>1, <3>2
  <2>3. ListsInv'
    BY <1>1, <1>3, <1>4, <2>1, <2>2, EmptyList DEF ListsInv, RequestInv, Limit, AllSelected
  <2>. QED
    BY <1>1, <1>2, <1>4, <1>6, <2>1, <2>3 DEF WalkInv
<1>. QED
  BY <1>7, <1>8

\* Every step of the traversal.
LEMMA WalkStep ==
    ASSUME world \in Worlds, WalkInv, Next
    PROVE  world' = world /\ (WalkInv' \/ Failed')
<1>1. CASE Begin
  BY <1>1, BeginKeepsWalk
<1>2. CASE SelectDirect
  BY <1>2, SelectDirectKeepsWalk
<1>3. CASE StartAssembly
  BY <1>3, StartKeepsWalk
<1>4. CASE FinishAssembly
  BY <1>4, FinishAssemblyKeepsWalk DEF FinishAssembly
<1>5. CASE Pop
  BY <1>5, PopKeepsWalk DEF Pop
<1>6. CASE SkipSuppressed
  BY <1>6, SkipKeepsWalk DEF SkipSuppressed
<1>7. CASE RefuseVisit
  BY <1>7, RefuseVisitFails
<1>8. CASE Enter
  BY <1>8, EnterKeepsWalk DEF Enter
<1>9. CASE Collect
  BY <1>9, CollectKeepsWalk DEF Collect
<1>10. CASE AdmitDocuments
  BY <1>10, AdmitKeepsWalk
<1>11. CASE KeepOccurrence
  BY <1>11, KeepKeepsWalk DEF KeepOccurrence
<1>12. CASE EnterExternal
  BY <1>12, EnterExternalKeepsWalk
<1>13. CASE FinishExpansion
  BY <1>13, ExpansionKeepsWalk DEF FinishExpansion, FinishOutput
<1>. QED
  BY <1>1, <1>2, <1>3, <1>4, <1>5, <1>6, <1>7, <1>8, <1>9, <1>10, <1>11, <1>12, <1>13
     DEF Next

\* The traversal is over once it is done or has failed.
LEMMA WalkIsOver ==
    ASSUME stage \in {"traversed", "failed", "resolve", "prepare", "charge", "execute", "done"}
    PROVE  ~Next
  BY DEF Next, Begin, SelectDirect, StartAssembly, FinishAssembly, Pop, SkipSuppressed,
         RefuseVisit, Visiting, Walking, Enter, Collect, AdmitDocuments, KeepOccurrence,
         EnterExternal, Expanding, FinishExpansion, FinishOutput, Selecting

\* Every call begins in it, and a step of nothing keeps it.
LEMMA WalkBegins == Init => WalkInv
<1>. SUFFICES ASSUME Init PROVE WalkInv
  OBVIOUS
<1>1. /\ world \in Worlds /\ stage = "begin" /\ failure = "none"
      /\ selectedOrder = <<>> /\ queue = <<>> /\ occurrences = <<>> /\ stack = <<>>
      /\ charged = NothingCharged
  BY DEF Init
<1>2. CountersInv
  <2>1. charged.parts = {}
    BY <1>1 DEF NothingCharged
  <2>2. IsFiniteSet({}) /\ Cardinality({}) = 0
    BY FS_EmptySet
  <2>. QED
    BY <1>1, <2>1, <2>2, Worldly DEF CountersInv, NothingCharged
<1>3. SelectedInv
  <2>1. Len(world.requested) \in Nat
    BY <1>1, Worldly, Lists
  <2>. QED
    BY <1>1, <2>1, EmptyList DEF SelectedInv
<1>4. StackInv /\ ListsInv
  BY <1>1, EmptyList DEF StackInv, ListsInv
<1>. QED
  BY <1>1, <1>2, <1>3, <1>4 DEF WalkInv

LEMMA WalkStutter ==
    ASSUME WalkInv, UNCHANGED vars
    PROVE  WalkInv'
<1>1. UNCHANGED <<world, stage, failure, selectedOrder, outputIndex, queue, occurrences,
                  stack, charged>>
  BY DEF vars
<1>2. CountersInv' /\ SelectedInv' /\ StackInv'
  BY <1>1, Zenon
  DEF WalkInv, CountersInv, SelectedInv, StackInv, IsFrame, Limit, KindOf, Document
<1>3. \A o : (Found(o) => Found(o)') /\ (Met(o) => Met(o)')
  BY <1>1, CountsGrow
<1>4. ListsInv'
  BY <1>1, <1>3, Zenon DEF WalkInv, ListsInv, RequestInv, Limit, AllSelected,
     IsAssemblyOutput, Sound, Name, KindOf, Document
<1>. QED
  BY <1>1, <1>2, <1>4 DEF WalkInv

-----------------------------------------------------------------------------
(* Where the paths of instances lead to.                                    *)
\* The positions at the end of paths of length n, for n up to the bound.
Level(k) ==
    LET level[n \in 0 .. PathBound] ==
            IF n = 0 THEN {StartOf(k)} ELSE UNION {Inside(p) : p \in level[n - 1]}
    IN level

\* All of them, the start included.
Reached(k) == UNION {Level(k)[n] : n \in 0 .. PathBound}

\* The levels that follow from levels g.
LevelsAfter(k, g) ==
    [n \in 0 .. PathBound |->
        IF n = 0 THEN {StartOf(k)} ELSE UNION {Inside(p) : p \in g[n - 1]}]

\* Active is defined by the levels, and each level by the one before it.
LEMMA ActiveLevels ==
    ASSUME NEW k PROVE Active(k) = UNION {Level(k)[n] : n \in 1 .. PathBound}
BY DEF Active, Level

LEMMA LevelsDefined ==
    ASSUME NEW k
    PROVE  Level(k) = [n \in 0 .. PathBound |->
              IF n = 0 THEN {StartOf(k)} ELSE UNION {Inside(p) : p \in Level(k)[n - 1]}]
<1> DEFINE Rec(m, g) == g = [n \in 0 .. m |->
              IF n = 0 THEN {StartOf(k)} ELSE UNION {Inside(p) : p \in g[n - 1]}]
           S == {m \in Nat : \E g : Rec(m, g)}
<1>1. 0 \in S
  <2>1. Rec(0, [n \in 0 .. 0 |-> {StartOf(k)}])
    OBVIOUS
  <2>. QED
    BY <2>1
<1>2. ASSUME NEW m \in Nat, m \in S PROVE m + 1 \in S
  <2>1. PICK g : Rec(m, g)
    BY <1>2
  <2> DEFINE h == [n \in 0 .. m + 1 |->
                    IF n = m + 1 THEN UNION {Inside(p) : p \in g[m]} ELSE g[n]]
  <2>2. ASSUME NEW n \in 0 .. m + 1
        PROVE  h[n] = IF n = 0 THEN {StartOf(k)} ELSE UNION {Inside(p) : p \in h[n - 1]}
    <3>1. CASE n = 0
      BY <3>1, <2>1
    <3>2. CASE n = m + 1
      <4>1. h[n] = UNION {Inside(p) : p \in g[m]} /\ h[m] = g[m] /\ n - 1 = m /\ n # 0
        BY <3>2
      <4>2. h[n - 1] = g[m]
        BY <4>1
      <4>. HIDE DEF h
      <4>. QED
        BY <4>1, <4>2, Zenon
    <3>3. CASE n # 0 /\ n # m + 1
      <4>1. n \in 0 .. m /\ n - 1 \in 0 .. m /\ n - 1 # m + 1
        BY <3>3
      <4>2. g[n] = UNION {Inside(p) : p \in g[n - 1]}
        BY <4>1, <3>3, <2>1
      <4>3. h[n] = g[n] /\ h[n - 1] = g[n - 1]
        BY <4>1, <3>3
      <4>. HIDE DEF h
      <4>. QED
        BY <4>2, <4>3, <3>3, Zenon
    <3>. QED
      BY <3>1, <3>2, <3>3
  <2>3. Rec(m + 1, h)
    <3>. HIDE DEF h
    <3>. QED
      BY <2>2 DEF h
  <2>. HIDE DEF h, Rec
  <2>. QED
    BY <2>3
<1>3. PathBound \in S
  <2>. HIDE DEF S
  <2>. QED
    BY <1>1, <1>2, ByInduction, WorldsAssumption
<1>4. \E g : Rec(PathBound, g)
  BY <1>3
<1>5. Level(k) = CHOOSE g : Rec(PathBound, g)
  BY DEF Level
<1>6. Rec(PathBound, Level(k))
  <2>. HIDE DEF Rec
  <2>. QED
    BY <1>4, <1>5
<1>. QED
  BY <1>6

\* What is active depends on the call alone.
LEMMA SameActive ==
    ASSUME world' = world, NEW k
    PROVE  /\ Active(k)' = Active(k) /\ Reached(k)' = Reached(k)
           /\ AssemblyOutputs' = AssemblyOutputs
<1>1. \A d : Document(d)' = Document(d)
  BY DEF Document
<1>2. \A d, n : KindOf(d, n)' = KindOf(d, n) /\ InstancesOf(d, n)' = InstancesOf(d, n)
  BY <1>1 DEF KindOf, InstancesOf, Has
<1>3. \A d, c : KnownConfiguration(d, c)' <=> KnownConfiguration(d, c)
  BY <1>1 DEF KnownConfiguration, Has
<1>4. \A d, n, c, i : Suppressed(d, n, c, i)' = Suppressed(d, n, c, i)
  BY <1>1, <1>2 DEF Suppressed, Has
<1>5. \A i, d : Meant(i, d)' = Meant(i, d)
  BY <1>1, <1>2 DEF Meant, Has
<1>6. \A p, i : Target(p, i)' = Target(p, i)
  <2>1. \A d : Has(world.documents, d)' <=> Has(world.documents, d)
    BY DEF Has
  <2>2. \A i : IsExternal(i)' <=> IsExternal(i)
    BY DEF IsExternal
  <2>3. SUFFICES ASSUME NEW p, NEW i PROVE Target(p, i)' = Target(p, i)
    OBVIOUS
  <2> DEFINE instance == InstancesOf(p.document, p.node)[i]
             crosses == IsExternal(instance)
             d == IF crosses THEN instance.resource ELSE p.document
             there == Has(world.documents, d)
             node == IF there THEN Meant(instance, d) ELSE Nothing
             c == CASE instance.mode = "inherit" -> p.configuration
                    [] instance.mode = "base" -> Base
                    [] instance.mode = "named" -> instance.configuration
             known == KnownConfiguration(d, c)
  <2>4. instance' = instance
    BY <1>2
  <2>5. crosses' = crosses /\ c' = c /\ d' = d
    BY <2>4 DEF IsExternal
  <2>6. there' = there /\ known' = known
    BY <2>5, <2>1, <1>3
  <2>7. node' = node
    BY <2>4, <2>5, <2>6, <1>5
  <2>8. Target(p, i) =
          [document |-> d, node |-> node, kind |-> instance.kind,
           output |-> IF crosses THEN instance.output ELSE p.output,
           path |-> Append(p.path, i), configuration |-> c,
           operations |-> instance.placement,
           through |-> (IF crosses THEN {} ELSE p.through) \cup {node},
           bad |-> \/ ~instance.placeable \/ ~there
                   \/ crosses /\ p.document # Root
                   \/ node = Nothing /\ ~(crosses /\ instance.kind = "part")
                   \/ ~crosses /\ node \in p.through
                   \/ instance.kind = "assembly" /\ ~known]
    BY DEF Target
  <2>9. Target(p, i)' =
          [document |-> d', node |-> node', kind |-> instance'.kind,
           output |-> IF crosses' THEN instance'.output ELSE p.output,
           path |-> Append(p.path, i), configuration |-> c',
           operations |-> instance'.placement,
           through |-> (IF crosses' THEN {} ELSE p.through) \cup {node'},
           bad |-> \/ ~instance'.placeable \/ ~there'
                   \/ crosses' /\ p.document # Root
                   \/ node' = Nothing /\ ~(crosses' /\ instance'.kind = "part")
                   \/ ~crosses' /\ node' \in p.through
                   \/ instance'.kind = "assembly" /\ ~known']
    BY DEF Target
  <2>. HIDE DEF instance, crosses, d, there, node, c, known
  <2>. QED
    BY <2>4, <2>5, <2>6, <2>7, <2>8, <2>9
<1>7. \A p : Inside(p)' = Inside(p)
  BY <1>2, <1>4, <1>6 DEF Inside
<1>8. StartOf(k)' = StartOf(k)
  BY <1>1 DEF StartOf
<1>9. Level(k)' = Level(k)
  <2>1. \A g : LevelsAfter(k, g)' = LevelsAfter(k, g)
    <3>1. SUFFICES ASSUME NEW g, NEW n \in 0 .. PathBound
          PROVE  (IF n = 0 THEN {StartOf(k)'} ELSE UNION {Inside(p)' : p \in g[n - 1]})
                 = IF n = 0 THEN {StartOf(k)} ELSE UNION {Inside(p) : p \in g[n - 1]}
      BY DEF LevelsAfter
    <3>2. {Inside(p)' : p \in g[n - 1]} = {Inside(p) : p \in g[n - 1]}
      BY <1>7
    <3>. QED
      BY <3>2, <1>8, Zenon
  <2>2. Level(k) = CHOOSE g : g = LevelsAfter(k, g)
    BY DEF Level, LevelsAfter
  <2>3. Level(k)' = CHOOSE g : g = LevelsAfter(k, g)'
    BY DEF Level, LevelsAfter
  <2>4. (CHOOSE g : g = LevelsAfter(k, g)') = CHOOSE g : g = LevelsAfter(k, g)
    BY <2>1, Zenon
  <2>. QED
    BY <2>2, <2>3, <2>4
<1>10. Active(k)' = UNION {Level(k)'[n] : n \in 1 .. PathBound}
  BY DEF Active, Level
<1>11. Active(k) = UNION {Level(k)[n] : n \in 1 .. PathBound}
  BY DEF Active, Level
<1>12. Reached(k)' = UNION {Level(k)'[n] : n \in 0 .. PathBound}
  BY DEF Reached
<1>13. \A n : IsAssemblyOutput(Root, n)' = IsAssemblyOutput(Root, n)
  BY <1>1, <1>2 DEF IsAssemblyOutput, Sound
<1>14. AssemblyOutputs' = AssemblyOutputs
  BY <1>1, <1>13 DEF AssemblyOutputs, Has
<1>. QED
  BY <1>9, <1>10, <1>11, <1>12, <1>14 DEF Reached

-----------------------------------------------------------------------------
\* A path is a list of the numbers of instances.
IsPath(a) == a \in Seq(Nat \ {0})

\* Path a is a proper beginning of path b.
Leads(a, b) == Len(a) < Len(b) /\ \A m \in 1 .. Len(a) : b[m] = a[m]

\* A position that the walk may go into.
Open(p) == p.kind = "assembly" /\ ~p.bad

\* Path e goes one instance further than path c.
Extends(e, c, i) == e = Append(c, i)

\* A path that goes one instance further.
LEMMA Extended ==
    ASSUME NEW c, IsPath(c), NEW i \in Nat \ {0}, NEW e, Extends(e, c, i)
    PROVE  /\ IsPath(e) /\ Len(c) \in Nat /\ DOMAIN c = 1 .. Len(c)
           /\ Len(e) = Len(c) + 1 /\ e[Len(c) + 1] = i /\ DOMAIN e = 1 .. Len(c) + 1
           /\ \A m \in 1 .. Len(c) : e[m] = c[m]
           /\ Leads(c, e)
BY DEF IsPath, Leads, Extends

\* Every instance of a position that can be entered has a number.
OpenInv(p) ==
    Open(p) => p.document \in DOMAIN world.documents /\ KindOf(p.document, p.node) = "assembly"

\* A position inside another one is behind an instance of it.
LEMMA InsideShape ==
    ASSUME world \in Worlds, NEW p, OpenInv(p), NEW q \in Inside(p)
    PROVE  /\ Open(p)
           /\ \E i \in DOMAIN InstancesOf(p.document, p.node) :
                 /\ i \in Nat \ {0} /\ q = Target(p, i) /\ Extends(q.path, p.path, i)
                 /\ ~Suppressed(p.document, p.node, p.configuration, i)
           /\ OpenInv(q)
<1>1. Open(p)
  BY DEF Inside, Open
<1>2. PICK i \in DOMAIN InstancesOf(p.document, p.node) :
          q = Target(p, i) /\ ~Suppressed(p.document, p.node, p.configuration, i)
  BY <1>1 DEF Inside, Open
<1>3. ValidInstances(InstancesOf(p.document, p.node))
  BY <1>1, Worldly DEF OpenInv
<1>4. i \in Nat \ {0}
  BY <1>2, <1>3 DEF ValidInstances
<1>5. Extends(q.path, p.path, i)
  BY <1>2 DEF Target, Extends
<1>6. ASSUME Open(q)
      PROVE  /\ q.document \in DOMAIN world.documents
             /\ KindOf(q.document, q.node) = "assembly"
  <2> DEFINE instance == InstancesOf(p.document, p.node)[i]
             d == IF IsExternal(instance) THEN instance.resource ELSE p.document
             there == Has(world.documents, d)
             node == IF there THEN Meant(instance, d) ELSE Nothing
  <2>1. /\ q.document = d /\ q.node = node /\ q.kind = instance.kind
        /\ ~q.bad => there /\ ~(node = Nothing /\ ~(IsExternal(instance) /\ instance.kind = "part"))
    BY <1>2 DEF Target
  <2>2. q.kind = "assembly" /\ ~q.bad
    BY <1>6 DEF Open
  <2>3. there /\ node # Nothing /\ instance.kind = "assembly"
    BY <2>1, <2>2
  <2>4. Meant(instance, d) # Nothing => KindOf(d, Meant(instance, d)) = instance.kind
    BY DEF Meant
  <2>. QED
    BY <2>1, <2>3, <2>4 DEF Has
<1>. QED
  BY <1>1, <1>2, <1>4, <1>5, <1>6 DEF OpenInv

\* The position of a requested assembly, to which the empty path leads.
LEMMA StartShape ==
    ASSUME NEW k \in AssemblyOutputs, world \in Worlds
    PROVE  LET p == StartOf(k)
           IN /\ p.path = <<>> /\ IsPath(p.path) /\ Open(p) /\ OpenInv(p)
              /\ p.document = Root /\ p.output = Nothing
              /\ p.configuration = world.configuration /\ p.kind = "assembly"
              /\ p.node = Document(Root).outputs[world.requested[k]].node
              /\ p.through = {p.node} /\ p.bad = FALSE
<1>1. IsAssemblyOutput(Root, world.requested[k])
  BY DEF AssemblyOutputs
<1>2. Root \in DOMAIN world.documents
  BY Worldly
<1>3. IsPath(<<>>)
  BY DEF IsPath
<1>. QED
  BY <1>1, <1>2, <1>3 DEF StartOf, Open, OpenInv, IsAssemblyOutput, Sound

\* On level n the paths have n instances, by induction on n.
LEMMA PositionShape ==
    ASSUME world \in Worlds, NEW k \in AssemblyOutputs, NEW n \in 0 .. PathBound,
           NEW p \in Level(k)[n]
    PROVE  IsPath(p.path) /\ Len(p.path) = n /\ OpenInv(p)
<1> DEFINE Shape(q, m) == IsPath(q.path) /\ Len(q.path) = m /\ OpenInv(q)
           S == {m \in Nat : m \in 0 .. PathBound => \A q \in Level(k)[m] : Shape(q, m)}
<1>. PathBound \in Nat
  BY WorldsAssumption
<1>1. 0 \in S
  <2>1. Level(k)[0] = {StartOf(k)}
    BY LevelsDefined
  <2>2. Shape(StartOf(k), 0)
    <3>1. StartOf(k).path = <<>> /\ IsPath(StartOf(k).path) /\ OpenInv(StartOf(k))
      BY StartShape
    <3>2. Len(StartOf(k).path) = 0
      BY <3>1
    <3>. QED
      BY <3>1, <3>2
  <2>. QED
    BY <2>1, <2>2
<1>2. ASSUME NEW m \in Nat, m \in S PROVE m + 1 \in S
  <2>1. SUFFICES ASSUME m + 1 \in 0 .. PathBound, NEW q \in Level(k)[m + 1]
                 PROVE  Shape(q, m + 1)
    OBVIOUS
  <2>2. m \in 0 .. PathBound /\ m + 1 # 0 /\ (m + 1) - 1 = m
    BY <2>1
  <2>3. Level(k)[m + 1] = UNION {Inside(o) : o \in Level(k)[m]}
    BY <2>1, <2>2, LevelsDefined
  <2>4. PICK o \in Level(k)[m] : q \in Inside(o)
    BY <2>1, <2>3
  <2>5. Shape(o, m)
    BY <1>2, <2>2, <2>4
  <2>6. PICK i \in Nat \ {0} : Extends(q.path, o.path, i) /\ OpenInv(q)
    BY <2>4, <2>5, InsideShape
  <2>7. IsPath(q.path) /\ Len(q.path) = Len(o.path) + 1
    BY <2>5, <2>6, Extended
  <2>. QED
    BY <2>5, <2>6, <2>7
<1>3. n \in S
  <2>. HIDE DEF S
  <2>. QED
    BY <1>1, <1>2, ByInduction
<1>. QED
  BY <1>3

\* A position is behind an open one, through one of its instances.
LEMMA Parent ==
    ASSUME world \in Worlds, NEW k \in AssemblyOutputs, NEW n \in 1 .. PathBound,
           NEW q \in Level(k)[n]
    PROVE  \E p \in Level(k)[n - 1] : \E i \in DOMAIN InstancesOf(p.document, p.node) :
              /\ IsPath(p.path) /\ Len(p.path) = n - 1 /\ Open(p)
              /\ i \in Nat \ {0} /\ q = Target(p, i) /\ Extends(q.path, p.path, i)
              /\ ~Suppressed(p.document, p.node, p.configuration, i)
<1>. PathBound \in Nat
  BY WorldsAssumption
<1>1. n \in 0 .. PathBound /\ n # 0 /\ n - 1 \in 0 .. PathBound
  OBVIOUS
<1>2. Level(k)[n] = UNION {Inside(o) : o \in Level(k)[n - 1]}
  BY <1>1, LevelsDefined
<1>3. PICK p \in Level(k)[n - 1] : q \in Inside(p)
  BY <1>2
<1>4. IsPath(p.path) /\ Len(p.path) = n - 1 /\ OpenInv(p)
  BY <1>1, PositionShape
<1>. QED
  BY <1>3, <1>4, InsideShape

\* A position that is reached is on the level of its path.
LEMMA ReachedShape ==
    ASSUME world \in Worlds, NEW k \in AssemblyOutputs, NEW p \in Reached(k)
    PROVE  /\ IsPath(p.path) /\ Len(p.path) \in 0 .. PathBound /\ OpenInv(p)
           /\ p \in Level(k)[Len(p.path)]
<1>1. PICK n \in 0 .. PathBound : p \in Level(k)[n]
  BY DEF Reached
<1>. QED
  BY <1>1, PositionShape

LEMMA ActiveReached ==
    ASSUME NEW k, NEW p \in Active(k) PROVE p \in Reached(k)
BY ActiveLevels DEF Reached

\* A path has one last instance and one path before it.
LEMMA SamePath ==
    ASSUME NEW c, NEW i \in Nat \ {0}, NEW d, NEW j \in Nat \ {0},
           IsPath(c), IsPath(d), NEW e, Extends(e, c, i), Extends(e, d, j)
    PROVE  c = d /\ i = j
<1>1. /\ Len(c) \in Nat /\ Len(e) = Len(c) + 1 /\ e[Len(c) + 1] = i
      /\ \A m \in 1 .. Len(c) : e[m] = c[m]
  BY Extended
<1>2. /\ Len(d) \in Nat /\ Len(e) = Len(d) + 1 /\ e[Len(d) + 1] = j
      /\ \A m \in 1 .. Len(d) : e[m] = d[m]
  BY Extended
<1>3. Len(c) = Len(d)
  BY <1>1, <1>2
<1>4. i = j /\ \A m \in 1 .. Len(c) : c[m] = d[m]
  BY <1>1, <1>2, <1>3
<1>5. c = d
  BY <1>3, <1>4, SeqEqual DEF IsPath
<1>. QED
  BY <1>4, <1>5

\* A path leads to one position.
LEMMA UniquePosition ==
    ASSUME world \in Worlds, NEW k \in AssemblyOutputs,
           NEW p \in Reached(k), NEW q \in Reached(k), p.path = q.path
    PROVE  p = q
<1> DEFINE S == {m \in Nat : m \in 0 .. PathBound =>
                    \A o, r \in Level(k)[m] : o.path = r.path => o = r}
<1>. PathBound \in Nat
  BY WorldsAssumption
<1>1. 0 \in S
  BY LevelsDefined
<1>2. ASSUME NEW m \in Nat, m \in S PROVE m + 1 \in S
  <2>1. SUFFICES ASSUME m + 1 \in 0 .. PathBound, NEW o \in Level(k)[m + 1],
                        NEW r \in Level(k)[m + 1], o.path = r.path
                 PROVE  o = r
    OBVIOUS
  <2>2. m \in 0 .. PathBound /\ m + 1 \in 1 .. PathBound /\ (m + 1) - 1 = m
    BY <2>1
  <2>3. PICK a \in Level(k)[m], i \in Nat \ {0} :
            o = Target(a, i) /\ Extends(o.path, a.path, i) /\ IsPath(a.path)
    <3>1. \E a \in Level(k)[(m + 1) - 1] : \E i \in DOMAIN InstancesOf(a.document, a.node) :
             i \in Nat \ {0} /\ o = Target(a, i) /\ Extends(o.path, a.path, i) /\ IsPath(a.path)
      BY <2>2, Parent
    <3>. QED
      BY <2>2, <3>1
  <2>4. PICK b \in Level(k)[m], j \in Nat \ {0} :
            r = Target(b, j) /\ Extends(r.path, b.path, j) /\ IsPath(b.path)
    <3>1. \E b \in Level(k)[(m + 1) - 1] : \E j \in DOMAIN InstancesOf(b.document, b.node) :
             j \in Nat \ {0} /\ r = Target(b, j) /\ Extends(r.path, b.path, j) /\ IsPath(b.path)
      BY <2>2, Parent
    <3>. QED
      BY <2>2, <3>1
  <2>5. a.path = b.path /\ i = j
    BY <2>1, <2>3, <2>4, SamePath
  <2>6. a = b
    BY <1>2, <2>2, <2>5
  <2>. QED
    BY <2>3, <2>4, <2>5, <2>6
<1>3. Nat \subseteq S
  <2>. HIDE DEF S
  <2>. QED
    BY <1>1, <1>2, ByInduction
<1>4. /\ Len(p.path) \in 0 .. PathBound
      /\ p \in Level(k)[Len(p.path)] /\ q \in Level(k)[Len(p.path)]
  BY ReachedShape
<1>. QED
  BY <1>3, <1>4

\* What an open position contains is active, unless its path is too long.
LEMMA InsideActive ==
    ASSUME world \in Worlds, NEW k \in AssemblyOutputs, NEW p \in Reached(k),
           Open(p), Len(p.path) < PathBound,
           NEW i \in DOMAIN InstancesOf(p.document, p.node),
           ~Suppressed(p.document, p.node, p.configuration, i)
    PROVE  Target(p, i) \in Active(k) /\ Target(p, i) \in Reached(k)
<1>. PathBound \in Nat
  BY WorldsAssumption
<1> DEFINE n == Len(p.path)
<1>1. n \in 0 .. PathBound /\ p \in Level(k)[n]
  BY ReachedShape
<1>2. n + 1 \in 1 .. PathBound /\ n + 1 \in 0 .. PathBound /\ n + 1 # 0 /\ (n + 1) - 1 = n
  BY <1>1
<1>. HIDE DEF n
<1>3. Level(k)[n + 1] = UNION {Inside(o) : o \in Level(k)[n]}
  BY <1>2, LevelsDefined
<1>4. Target(p, i) \in Inside(p)
  BY DEF Inside, Open
<1>5. Target(p, i) \in Level(k)[n + 1]
  BY <1>1, <1>3, <1>4
<1>. QED
  BY <1>2, <1>5, ActiveLevels DEF Reached

\* What leads to an extension leads to the path or is the path.
LEMMA LeadsToExtension ==
    ASSUME NEW a, IsPath(a), NEW i \in Nat \ {0}, NEW e, Extends(e, a, i),
           NEW c, IsPath(c), Leads(c, e)
    PROVE  \/ c = a /\ e[Len(c) + 1] = i
           \/ Leads(c, a) /\ e[Len(c) + 1] = a[Len(c) + 1]
<1>1. /\ Len(a) \in Nat /\ Len(e) = Len(a) + 1 /\ e[Len(a) + 1] = i
      /\ \A x \in 1 .. Len(a) : e[x] = a[x]
  BY Extended
<1>2. Len(c) \in Nat /\ Len(c) < Len(e) /\ \A x \in 1 .. Len(c) : e[x] = c[x]
  BY DEF IsPath, Leads
<1>3. CASE Len(c) = Len(a)
  <2>1. \A x \in 1 .. Len(c) : c[x] = a[x]
    BY <1>1, <1>2, <1>3
  <2>2. c = a
    BY <1>3, <2>1, SeqEqual DEF IsPath
  <2>. QED
    BY <1>1, <2>2
<1>4. CASE Len(c) < Len(a)
  <2>1. \A x \in 1 .. Len(c) : a[x] = c[x]
    BY <1>1, <1>2, <1>4
  <2>2. e[Len(c) + 1] = a[Len(c) + 1]
    BY <1>1, <1>2, <1>4
  <2>. QED
    BY <1>4, <2>1, <2>2 DEF Leads
<1>. QED
  BY <1>1, <1>2, <1>3, <1>4

\* On the way to a position there are open ones only, and no suppressed instances.
LEMMA Ancestor ==
    ASSUME world \in Worlds, NEW k \in AssemblyOutputs, NEW q \in Reached(k),
           NEW c, IsPath(c), Leads(c, q.path)
    PROVE  \E p \in Reached(k) :
              /\ p.path = c /\ Open(p)
              /\ q.path[Len(c) + 1] \in DOMAIN InstancesOf(p.document, p.node)
              /\ ~Suppressed(p.document, p.node, p.configuration, q.path[Len(c) + 1])
<1> DEFINE Way(o) == \E p \in Reached(k) :
              /\ p.path = c /\ Open(p)
              /\ o.path[Len(c) + 1] \in DOMAIN InstancesOf(p.document, p.node)
              /\ ~Suppressed(p.document, p.node, p.configuration, o.path[Len(c) + 1])
           S == {m \in Nat : m \in 0 .. PathBound =>
                    \A o \in Level(k)[m] : Leads(c, o.path) => Way(o)}
<1>. PathBound \in Nat
  BY WorldsAssumption
<1>1. 0 \in S
  <2>1. SUFFICES ASSUME NEW o \in Level(k)[0] PROVE ~Leads(c, o.path)
    OBVIOUS
  <2>2. Len(o.path) = 0
    BY PositionShape
  <2>. QED
    BY <2>2 DEF IsPath, Leads
<1>2. ASSUME NEW m \in Nat, m \in S PROVE m + 1 \in S
  <2>1. SUFFICES ASSUME m + 1 \in 0 .. PathBound, NEW o \in Level(k)[m + 1],
                        Leads(c, o.path)
                 PROVE  Way(o)
    OBVIOUS
  <2>2. m \in 0 .. PathBound /\ m + 1 \in 1 .. PathBound /\ (m + 1) - 1 = m
    BY <2>1
  <2>3. PICK a \in Level(k)[m] : \E i \in DOMAIN InstancesOf(a.document, a.node) :
            /\ IsPath(a.path) /\ Len(a.path) = m /\ Open(a)
            /\ i \in Nat \ {0} /\ Extends(o.path, a.path, i)
            /\ ~Suppressed(a.document, a.node, a.configuration, i)
    BY <2>2, Parent
  <2>4. PICK i \in DOMAIN InstancesOf(a.document, a.node) :
            /\ IsPath(a.path) /\ Len(a.path) = m /\ Open(a)
            /\ i \in Nat \ {0} /\ Extends(o.path, a.path, i)
            /\ ~Suppressed(a.document, a.node, a.configuration, i)
    BY <2>3
  <2>5. \/ c = a.path /\ o.path[Len(c) + 1] = i
        \/ Leads(c, a.path) /\ o.path[Len(c) + 1] = a.path[Len(c) + 1]
    BY <2>1, <2>4, LeadsToExtension
  <2>6. CASE c = a.path /\ o.path[Len(c) + 1] = i
    <3>1. a \in Reached(k)
      BY <2>2 DEF Reached
    <3>. QED
      BY <2>4, <2>6, <3>1
  <2>7. CASE Leads(c, a.path) /\ o.path[Len(c) + 1] = a.path[Len(c) + 1]
    <3>1. Way(a)
      BY <1>2, <2>2, <2>7
    <3>. QED
      BY <2>7, <3>1
  <2>. QED
    BY <2>5, <2>6, <2>7
<1>3. Nat \subseteq S
  <2>. HIDE DEF S
  <2>. QED
    BY <1>1, <1>2, ByInduction
<1>4. Len(q.path) \in 0 .. PathBound /\ q \in Level(k)[Len(q.path)]
  BY ReachedShape
<1>5. Way(q)
  <2>. HIDE DEF Way
  <2>. QED
    BY <1>3, <1>4
<1>. QED
  BY <1>5

\* The least that is needed of a path in another one: it goes on at n or later.
Ahead(q, c, n) == Leads(c, q) /\ q[Len(c) + 1] >= n

\* Frame f is at an open position of requested output k.
FrameAt(k, f) ==
    /\ k \in AssemblyOutputs
    /\ \E p \in Reached(k) :
          /\ Open(p) /\ p.path = f.path /\ p.document = f.document /\ p.node = f.node
          /\ p.configuration = f.configuration /\ p.output = f.output
          /\ p.through = f.ancestry
    /\ f.depth = Len(f.path) + 1 /\ f.depth <= Limit("maxAssemblyDepth")

\* Occurrence o is at position q.
Same(q, o) ==
    /\ o.path = q.path /\ o.document = q.document /\ o.configuration = q.configuration
    /\ o.output = q.output /\ o.node \in {q.node, Nothing}

\* Position q can be entered if its output can.
Enterable(q, o) ==
    /\ q.kind = "assembly" /\ q.through = {q.node}
    /\ o.depth = Len(o.path) + 1 /\ o.depth <= Limit("maxAssemblyDepth")
    /\ (/\ Has(world.documents, o.document)
        /\ Has(Document(o.document).outputs, o.output)
        /\ IsAssemblyOutput(o.document, o.output)
        /\ KnownConfiguration(o.document, o.configuration)) =>
       ~q.bad /\ q.node = Document(o.document).outputs[o.output].node

\* Position q is directly behind the boundary.
Direct(q) == q.through = {q.node}

\* Occurrence o knows the node of part q, unless it is to be looked up by its output.
OfKind(q, o) ==
    IF q.document # Root /\ o.kind = "part" THEN Direct(q)
    ELSE o.node = q.node /\ (q.document # Root => ~Direct(q))

\* The active parts of a requested output.
Parts(k) == {q \in Active(k) : q.kind = "part"}

\* Occurrence o is at a part.
FoundAt(k, o) ==
    /\ k \in AssemblyOutputs /\ o.document \in DOMAIN world.documents
    /\ \E q \in Parts(k) : Same(q, o) /\ OfKind(q, o)

\* Occurrence o is at a part, or at an assembly that is still to be expanded.
MetAt(k, o) ==
    /\ k \in AssemblyOutputs
    /\ \E q \in Active(k) :
          Same(q, o) /\ IF Unexpanded(o) THEN Enterable(q, o)
                        ELSE q.kind = "part" /\ OfKind(q, o)

\* Frame g was entered from frame f or below.
Under(f, g) == Leads(f.path, g.path) /\ g.path[Len(f.path) + 1] < f.next

\* The occurrences are in depth-first order.
InOrder(list) ==
    \A i, j \in DOMAIN list : i < j => Before(list[i].path, list[j].path)

\* Path q is in the list, or will be when its assembly is expanded.
Listing(list, q) == \E o \in Range(list) : o.path = q \/ Leads(o.path, q)

\* The path to the next instance of a frame.
Cursor(f) == Append(f.path, f.next)

\* The output that the occurrences under construction belong to.
CurrentOutput == IF stage = "walk" THEN Len(selectedOrder) + 1 ELSE outputIndex

\* Nothing that is still to be listed is behind the walk.
Comes(q) ==
    \/ Listing(occurrences, q) \/ Listing(queue, q)
    \/ \E f \in Range(stack) : Ahead(q, f.path, f.next)

\* Where the walk is, and that every part was found, is queued or is ahead.
WalkPlaces ==
    LET k == CurrentOutput
    IN /\ \A f \in Range(stack) : FrameAt(k, f)
       /\ \A i, j \in DOMAIN stack : i < j => Under(stack[i], stack[j])
       /\ \A o \in Range(occurrences) :
             IF stage = "walk" THEN MetAt(k, o) ELSE FoundAt(k, o)
       /\ \A o \in Range(queue) : MetAt(k, o)
       /\ k \in AssemblyOutputs => \A q \in Parts(k) : Comes(q.path)

\* What was found comes before what is ahead, and that before what is queued.
WalkOrder ==
    /\ InOrder(occurrences) /\ InOrder(queue)
    /\ \A o \in Range(occurrences) : \A u \in Range(queue) : Before(o.path, u.path)
    /\ \A o \in Range(occurrences) : \A f \in Range(stack) : Before(o.path, Cursor(f))
    /\ \A f \in Range(stack) : \A u \in Range(queue) : Before(f.path, u.path)

\* The external assemblies of output k are expanded.
Expanded(k) == stage = "traversed" \/ (stage = "expand" /\ k < outputIndex)

\* Where the occurrences of the selected outputs are.
SelectedPlaces ==
    \A k \in DOMAIN selectedOrder :
       LET list == selectedOrder[k].occurrences
       IN /\ InOrder(list)
          /\ k \in AssemblyOutputs => \A q \in Parts(k) : Listing(list, q.path)
          /\ \A o \in Range(list) : IF Expanded(k) THEN FoundAt(k, o) ELSE MetAt(k, o)

\* The inductive invariant of the places.
PlacesInv ==
    /\ SelectedPlaces
    /\ stage \in {"begin", "select", "walk"} => queue = <<>>
    /\ stage \in {"walk", "expand"} => WalkPlaces /\ WalkOrder

-----------------------------------------------------------------------------
\* How paths that extend each other, or lead to each other, are ordered.
LEMMA ExtendsCursor ==
    ASSUME NEW f PROVE Extends(Cursor(f), f.path, f.next)
BY DEF Extends, Cursor

LEMMA PathShape ==
    ASSUME NEW a, IsPath(a)
    PROVE  /\ Len(a) \in Nat /\ DOMAIN a = 1 .. Len(a)
           /\ \A m \in 1 .. Len(a) : a[m] \in Nat \ {0}
BY DEF IsPath

\* What comes before an instance comes before the next one.
LEMMA BeforeNext ==
    ASSUME NEW a, IsPath(a), NEW c, IsPath(c), NEW n \in Nat \ {0}, NEW d, Extends(d, c, n),
           NEW e, Extends(e, c, n + 1), Before(a, d)
    PROVE  Before(a, e)
<1>1. PICK m \in DOMAIN a \cap DOMAIN d : a[m] < d[m] /\ \A x \in 1 .. m - 1 : a[x] = d[x]
  BY DEF Before
<1>2. /\ Len(c) \in Nat /\ DOMAIN d = 1 .. Len(c) + 1 /\ d[Len(c) + 1] = n
      /\ \A x \in 1 .. Len(c) : d[x] = c[x]
  BY Extended
<1>3. n + 1 \in Nat \ {0} /\ n < n + 1
  OBVIOUS
<1>4. /\ DOMAIN e = 1 .. Len(c) + 1 /\ e[Len(c) + 1] = n + 1
      /\ \A x \in 1 .. Len(c) : e[x] = c[x]
  BY <1>3, Extended
<1>5. a[m] \in Nat /\ m \in Nat
  BY PathShape
<1>6. m \in DOMAIN a \cap DOMAIN e
  BY <1>1, <1>2, <1>4
<1>7. a[m] < e[m]
  BY <1>1, <1>2, <1>3, <1>4, <1>5
<1>8. \A x \in 1 .. m - 1 : a[x] = e[x]
  BY <1>1, <1>2, <1>4, <1>5
<1>. QED
  BY <1>6, <1>7, <1>8 DEF Before

\* An instance comes before the next one.
LEMMA BeforeSibling ==
    ASSUME NEW c, IsPath(c), NEW n \in Nat \ {0}, NEW d, Extends(d, c, n),
           NEW e, Extends(e, c, n + 1)
    PROVE  Before(d, e)
<1>1. /\ Len(c) \in Nat /\ DOMAIN d = 1 .. Len(c) + 1 /\ d[Len(c) + 1] = n
      /\ \A x \in 1 .. Len(c) : d[x] = c[x]
  BY Extended
<1>2. n + 1 \in Nat \ {0} /\ n < n + 1
  OBVIOUS
<1>3. /\ DOMAIN e = 1 .. Len(c) + 1 /\ e[Len(c) + 1] = n + 1
      /\ \A x \in 1 .. Len(c) : e[x] = c[x]
  BY <1>2, Extended
<1> DEFINE m == Len(c) + 1
<1>4. m \in DOMAIN d \cap DOMAIN e /\ d[m] < e[m]
  BY <1>1, <1>2, <1>3
<1>5. \A x \in 1 .. m - 1 : d[x] = e[x]
  BY <1>1, <1>3
<1>. HIDE DEF m
<1>. QED
  BY <1>4, <1>5 DEF Before

\* What comes before an assembly comes before everything in it.
LEMMA BeforeWithin ==
    ASSUME NEW a, NEW d, IsPath(d), NEW n \in Nat \ {0}, NEW e, Extends(e, d, n), Before(a, d)
    PROVE  Before(a, e)
<1>1. PICK m \in DOMAIN a \cap DOMAIN d : a[m] < d[m] /\ \A x \in 1 .. m - 1 : a[x] = d[x]
  BY DEF Before
<1>2. /\ Len(d) \in Nat /\ DOMAIN d = 1 .. Len(d) /\ DOMAIN e = 1 .. Len(d) + 1
      /\ \A x \in 1 .. Len(d) : e[x] = d[x]
  BY Extended
<1>3. m \in DOMAIN a \cap DOMAIN e /\ e[m] = d[m] /\ \A x \in 1 .. m - 1 : d[x] = e[x]
  BY <1>1, <1>2
<1>. QED
  BY <1>1, <1>3 DEF Before

\* Everything in an assembly comes before what the assembly comes before.
LEMMA WithinBefore ==
    ASSUME NEW a, IsPath(a), NEW n \in Nat \ {0}, NEW e, Extends(e, a, n), NEW d, Before(a, d)
    PROVE  Before(e, d)
<1>1. PICK m \in DOMAIN a \cap DOMAIN d : a[m] < d[m] /\ \A x \in 1 .. m - 1 : a[x] = d[x]
  BY DEF Before
<1>2. /\ Len(a) \in Nat /\ DOMAIN a = 1 .. Len(a) /\ DOMAIN e = 1 .. Len(a) + 1
      /\ \A x \in 1 .. Len(a) : e[x] = a[x]
  BY Extended
<1>3. m \in DOMAIN e \cap DOMAIN d /\ e[m] = a[m] /\ \A x \in 1 .. m - 1 : a[x] = e[x]
  BY <1>1, <1>2
<1>. QED
  BY <1>1, <1>3 DEF Before

\* What is behind an instance that was passed comes before the next one.
LEMMA PassedBefore ==
    ASSUME NEW c, IsPath(c), NEW b, IsPath(b), Leads(c, b), NEW n \in Nat \ {0},
           b[Len(c) + 1] < n, NEW e, Extends(e, c, n)
    PROVE  Before(b, e)
<1>1. /\ Len(c) \in Nat /\ DOMAIN e = 1 .. Len(c) + 1 /\ e[Len(c) + 1] = n
      /\ \A x \in 1 .. Len(c) : e[x] = c[x]
  BY Extended
<1>2. Len(b) \in Nat /\ DOMAIN b = 1 .. Len(b)
  BY PathShape
<1>3. Len(c) < Len(b) /\ \A x \in 1 .. Len(c) : b[x] = c[x]
  BY DEF Leads
<1> DEFINE m == Len(c) + 1
<1>4. m \in DOMAIN b \cap DOMAIN e /\ b[m] < e[m]
  BY <1>1, <1>2, <1>3
<1>5. \A x \in 1 .. m - 1 : b[x] = e[x]
  BY <1>1, <1>3
<1>. HIDE DEF m
<1>. QED
  BY <1>4, <1>5 DEF Before

\* What leads to an assembly leads to everything in it.
LEMMA LeadsFurther ==
    ASSUME NEW c, IsPath(c), NEW b, IsPath(b), Leads(c, b), NEW n \in Nat \ {0},
           NEW e, Extends(e, b, n)
    PROVE  Leads(c, e) /\ e[Len(c) + 1] = b[Len(c) + 1]
<1>1. /\ Len(b) \in Nat /\ Len(e) = Len(b) + 1
      /\ \A x \in 1 .. Len(b) : e[x] = b[x]
  BY Extended
<1>2. Len(c) \in Nat /\ Len(c) < Len(b) /\ \A x \in 1 .. Len(c) : b[x] = c[x]
  BY PathShape DEF Leads
<1>3. Len(c) < Len(e) /\ e[Len(c) + 1] = b[Len(c) + 1]
  BY <1>1, <1>2
<1>4. \A x \in 1 .. Len(c) : e[x] = c[x]
  BY <1>1, <1>2
<1>. QED
  BY <1>3, <1>4 DEF Leads

\* Everything in an assembly is ahead when the walk enters it.
LEMMA AheadOfStart ==
    ASSUME NEW c, IsPath(c), NEW q, IsPath(q), Leads(c, q) PROVE Ahead(q, c, 1)
<1>1. Len(c) + 1 \in 1 .. Len(q)
  BY PathShape DEF Leads
<1>2. q[Len(c) + 1] \in Nat \ {0}
  BY <1>1, PathShape
<1>. QED
  BY <1>2 DEF Ahead

\* What is ahead is behind the next instance, or is still ahead after it.
LEMMA AheadSplit ==
    ASSUME NEW c, IsPath(c), NEW q, IsPath(q), NEW n \in Nat \ {0}, Ahead(q, c, n),
           NEW e, Extends(e, c, n)
    PROVE  \/ q[Len(c) + 1] = n /\ (e = q \/ Leads(e, q))
           \/ Ahead(q, c, n + 1)
<1>1. /\ Len(c) \in Nat /\ Len(e) = Len(c) + 1 /\ e[Len(c) + 1] = n /\ IsPath(e)
      /\ \A x \in 1 .. Len(c) : e[x] = c[x]
  BY Extended
<1>2. Len(c) < Len(q) /\ \A x \in 1 .. Len(c) : q[x] = c[x]
  BY DEF Ahead, Leads
<1>3. Len(q) \in Nat /\ q[Len(c) + 1] \in Nat /\ q[Len(c) + 1] >= n
  BY <1>1, <1>2, PathShape DEF Ahead
<1>4. CASE q[Len(c) + 1] = n
  <2>1. \A x \in 1 .. Len(e) : e[x] = q[x]
    <3>1. SUFFICES ASSUME NEW x \in 1 .. Len(e) PROVE e[x] = q[x]
      OBVIOUS
    <3>2. CASE x = Len(c) + 1
      BY <1>1, <1>4, <3>2
    <3>3. CASE x \in 1 .. Len(c)
      BY <1>1, <1>2, <3>3
    <3>. QED
      BY <1>1, <3>2, <3>3
  <2>2. CASE Len(q) = Len(e)
    <3>1. e = q
      BY <1>1, <2>1, <2>2, SeqEqual DEF IsPath
    <3>. QED
      BY <1>4, <3>1
  <2>3. CASE Len(q) # Len(e)
    <3>1. Len(e) < Len(q)
      BY <1>1, <1>2, <1>3, <2>3
    <3>2. Leads(e, q)
      BY <2>1, <3>1 DEF Leads
    <3>. QED
      BY <1>4, <3>2
  <2>. QED
    BY <2>2, <2>3
<1>5. CASE q[Len(c) + 1] # n
  BY <1>3, <1>5 DEF Ahead
<1>. QED
  BY <1>4, <1>5

\* No path comes before itself, or before what it leads to.
LEMMA BeforeIsStrict ==
    ASSUME NEW a, IsPath(a) PROVE ~Before(a, a)
BY PathShape DEF Before

LEMMA NotBoth ==
    ASSUME NEW a, IsPath(a), NEW b, IsPath(b), Leads(a, b) PROVE ~Before(a, b)
<1>1. SUFFICES ASSUME NEW m \in DOMAIN a, a[m] < b[m] PROVE FALSE
  BY DEF Before
<1>2. a[m] = b[m] /\ a[m] \in Nat
  BY PathShape DEF Leads
<1>. QED
  BY <1>1, <1>2

\* What is at a position depends on the call alone.
LEMMA SamePlaces ==
    ASSUME world' = world
    PROVE  /\ AssemblyOutputs' = AssemblyOutputs
           /\ \A k : Parts(k)' = Parts(k)
           /\ \A k, f : FrameAt(k, f)' <=> FrameAt(k, f)
           /\ \A k, o : FoundAt(k, o)' <=> FoundAt(k, o)
           /\ \A k, o : MetAt(k, o)' <=> MetAt(k, o)
<1>1. /\ AssemblyOutputs' = AssemblyOutputs
      /\ \A k : Active(k)' = Active(k) /\ Reached(k)' = Reached(k)
  <2>1. ASSUME NEW k PROVE Active(k)' = Active(k) /\ Reached(k)' = Reached(k)
    BY SameActive
  <2>. QED
    BY <2>1, SameActive
<1>2. \A k : Parts(k)' = Parts(k)
  BY <1>1 DEF Parts
<1>3. \A d : Document(d)' = Document(d)
  BY DEF Document
<1>4. Limit("maxAssemblyDepth")' = Limit("maxAssemblyDepth")
  BY DEF Limit
<1>5. \A k, f : FrameAt(k, f)' <=> FrameAt(k, f)
  BY <1>1, <1>4 DEF FrameAt, Open
<1>6. \A q, o : (Same(q, o)' <=> Same(q, o)) /\ (OfKind(q, o)' <=> OfKind(q, o))
  BY DEF Same, OfKind, Direct
<1>7. \A k, o : FoundAt(k, o)' <=> FoundAt(k, o)
  BY <1>1, <1>2, <1>6 DEF FoundAt
<1>8. \A q, o : Enterable(q, o)' <=> Enterable(q, o)
  <2>1. \A d, n : IsAssemblyOutput(d, n)' <=> IsAssemblyOutput(d, n)
    BY <1>3 DEF IsAssemblyOutput, Sound, KindOf, Has
  <2>2. \A d, c : KnownConfiguration(d, c)' <=> KnownConfiguration(d, c)
    BY <1>3 DEF KnownConfiguration, Has
  <2>. QED
    BY <1>3, <1>4, <2>1, <2>2 DEF Enterable, Has
<1>9. \A k, o : MetAt(k, o)' <=> MetAt(k, o)
  BY <1>1, <1>6, <1>8 DEF MetAt, Unexpanded
<1>. QED
  BY <1>1, <1>2, <1>5, <1>7, <1>9

\* Frames, occurrences and parts have paths.
LEMMA PlacesHavePaths ==
    ASSUME world \in Worlds, NEW k, NEW x
    PROVE  /\ FrameAt(k, x) \/ FoundAt(k, x) \/ MetAt(k, x) => IsPath(x.path)
           /\ x \in Parts(k) /\ k \in AssemblyOutputs => IsPath(x.path)
           /\ FoundAt(k, x) \/ MetAt(k, x) \/ FrameAt(k, x) => k \in AssemblyOutputs
<1>1. ASSUME NEW q \in Active(k), k \in AssemblyOutputs PROVE IsPath(q.path)
  BY <1>1, ActiveReached, ReachedShape
<1>2. FrameAt(k, x) => IsPath(x.path)
  BY ReachedShape DEF FrameAt
<1>3. FoundAt(k, x) => IsPath(x.path)
  BY <1>1 DEF FoundAt, Parts, Same
<1>4. MetAt(k, x) => IsPath(x.path)
  BY <1>1 DEF MetAt, Same
<1>. QED
  BY <1>1, <1>2, <1>3, <1>4 DEF Parts, FoundAt, MetAt, FrameAt

\* Where a visit is: the position that the next instance of the assembly on top
\* leads to.
LEMMA Visited ==
    ASSUME world \in Worlds, StackInv, NEW k, FrameAt(k, Top), Visiting
    PROVE  \E q \in Active(k) :
              /\ Extends(q.path, Top.path, Top.next) /\ q.path = Path
              /\ q.configuration = Configuration /\ q.kind = Instance.kind
              /\ q.operations = Instance.placement
              /\ q.document = IF IsExternal(Instance) THEN Instance.resource ELSE Top.document
              /\ q.output = IF IsExternal(Instance) THEN Instance.output ELSE Top.output
              /\ q.node = IF Has(world.documents, q.document)
                          THEN Meant(Instance, q.document) ELSE Nothing
              /\ q.through = (IF IsExternal(Instance) THEN {} ELSE Top.ancestry) \cup {q.node}
              /\ q.bad <=> \/ ~Instance.placeable \/ ~Has(world.documents, q.document)
                           \/ IsExternal(Instance) /\ Top.document # Root
                           \/ q.node = Nothing
                              /\ ~(IsExternal(Instance) /\ Instance.kind = "part")
                           \/ ~IsExternal(Instance) /\ q.node \in Top.ancestry
                           \/ Instance.kind = "assembly"
                              /\ ~KnownConfiguration(q.document, Configuration)
<1>1. PICK p \in Reached(k) :
          /\ Open(p) /\ p.path = Top.path /\ p.document = Top.document /\ p.node = Top.node
          /\ p.configuration = Top.configuration /\ p.output = Top.output
          /\ p.through = Top.ancestry
  BY DEF FrameAt
<1>2. Top.depth = Len(Top.path) + 1 /\ Top.depth <= Limit("maxAssemblyDepth")
  BY DEF FrameAt
<1>3. Limit("maxAssemblyDepth") \in 0 .. PathBound /\ PathBound \in Nat
  BY LimitsAreNumbers
<1>4. k \in AssemblyOutputs /\ IsPath(p.path) /\ Len(p.path) \in 0 .. PathBound
  BY ReachedShape DEF FrameAt
<1>5. Len(p.path) < PathBound
  BY <1>1, <1>2, <1>3, <1>4
<1>6. stack # <<>> /\ IsFrame(Top) /\ Listed(Instances) /\ Top.next <= Len(Instances)
  BY TopFrame DEF Visiting, Walking
<1>7. Top.next \in DOMAIN InstancesOf(p.document, p.node)
  BY <1>1, <1>6, Lists DEF Instances, IsFrame
<1>8. ~Suppressed(p.document, p.node, p.configuration, Top.next)
  BY <1>1 DEF Visiting
<1> DEFINE q == Target(p, Top.next)
<1>9. q \in Active(k)
  BY <1>1, <1>4, <1>5, <1>7, <1>8, InsideActive
<1>10. InstancesOf(p.document, p.node)[Top.next] = Instance
  BY <1>1 DEF Instance, Instances
<1>11. Configuration = CASE Instance.mode = "inherit" -> p.configuration
                         [] Instance.mode = "base" -> Base
                         [] Instance.mode = "named" -> Instance.configuration
  BY <1>1 DEF Configuration, EffectiveConfiguration
<1> DEFINE d == IF IsExternal(Instance) THEN Instance.resource ELSE p.document
           node == IF Has(world.documents, d) THEN Meant(Instance, d) ELSE Nothing
<1>12. q = [document |-> d, node |-> node, kind |-> Instance.kind,
            output |-> IF IsExternal(Instance) THEN Instance.output ELSE p.output,
            path |-> Append(p.path, Top.next), configuration |-> Configuration,
            operations |-> Instance.placement,
            through |-> (IF IsExternal(Instance) THEN {} ELSE p.through) \cup {node},
            bad |-> \/ ~Instance.placeable \/ ~Has(world.documents, d)
                    \/ IsExternal(Instance) /\ p.document # Root
                    \/ node = Nothing /\ ~(IsExternal(Instance) /\ Instance.kind = "part")
                    \/ ~IsExternal(Instance) /\ node \in p.through
                    \/ Instance.kind = "assembly" /\ ~KnownConfiguration(d, Configuration)]
  BY <1>10, <1>11, Zenon DEF Target
<1>13. q.path = Path /\ Extends(q.path, Top.path, Top.next)
  BY <1>1, <1>12 DEF Path, Extends
<1> HIDE DEF q
<1>. QED
  BY <1>1, <1>9, <1>12, <1>13

\* The stack after an instance of the assembly on top was passed.
LEMMA AdvancedShape ==
    ASSUME world \in Worlds, StackInv, stack # <<>>
    PROVE  /\ Len(stack) \in Nat \ {0} /\ DOMAIN stack = 1 .. Len(stack)
           /\ DOMAIN Advanced = 1 .. Len(stack) /\ Len(Advanced) = Len(stack)
           /\ Listed(Advanced)
           /\ \A i \in 1 .. Len(stack) : i < Len(stack) => Advanced[i] = stack[i]
           /\ stack[Len(stack)] = Top /\ Top.next \in Nat \ {0}
           /\ \E g : /\ Advanced[Len(stack)] = g
                     /\ g.document = Top.document /\ g.output = Top.output
                     /\ g.node = Top.node /\ g.configuration = Top.configuration
                     /\ g.path = Top.path /\ g.ancestry = Top.ancestry
                     /\ g.depth = Top.depth /\ g.next = Top.next + 1
<1> DEFINE n == Len(stack)
           frame == [Top EXCEPT !.next = Top.next + 1]
<1>1. Listed(stack) /\ n \in Nat \ {0} /\ DOMAIN stack = 1 .. n
  BY Lists DEF StackInv
<1>2. Advanced = [stack EXCEPT ![n] = frame]
  BY DEF Advanced
<1>3. /\ Listed(Advanced) /\ Len(Advanced) = n /\ DOMAIN Advanced = DOMAIN stack
      /\ Advanced[n] = frame /\ \A i \in DOMAIN stack : i # n => Advanced[i] = stack[i]
  <2> HIDE DEF frame
  <2>1. n \in DOMAIN stack
    BY <1>1
  <2> HIDE DEF n
  <2>2. LET t == [stack EXCEPT ![n] = frame]
        IN /\ Listed(t) /\ Len(t) = Len(stack) /\ DOMAIN t = DOMAIN stack
           /\ DOMAIN stack = 1 .. Len(stack) /\ Len(stack) \in Nat
           /\ t[n] = frame /\ \A k \in DOMAIN stack : k # n => t[k] = stack[k]
           /\ Range(t) \subseteq Range(stack) \cup {frame}
    BY <1>1, <2>1, ListExcept, Zenon
  <2>. QED
    BY <1>2, <2>2 DEF n
<1>4. IsFrame(Top)
  BY TopFrame
<1>5. frame = [document |-> Top.document, output |-> Top.output, node |-> Top.node,
               configuration |-> Top.configuration, path |-> Top.path,
               ancestry |-> Top.ancestry, depth |-> Top.depth, next |-> Top.next + 1]
  BY <1>4 DEF IsFrame
<1>6. Top.next \in Nat \ {0} /\ stack[n] = Top
  BY <1>4 DEF IsFrame, Top
<1>7. \A i \in 1 .. n : i < n => Advanced[i] = stack[i]
  BY <1>1, <1>3
<1> HIDE DEF frame
<1>. QED
  BY <1>1, <1>3, <1>5, <1>6, <1>7

\* Every frame is the one on top, or was left for the next one.
LEMMA Frames ==
    ASSUME world \in Worlds, WalkInv, WalkPlaces, stack # <<>>
    PROVE  /\ FrameAt(CurrentOutput, Top) /\ IsPath(Top.path) /\ Top.next \in Nat \ {0}
           /\ Top \in Range(stack)
           /\ \A f \in Range(stack) : FrameAt(CurrentOutput, f) /\ IsPath(f.path) /\ IsFrame(f)
           /\ \A f \in Range(stack) : f = Top \/ Under(f, Top)
<1>1. StackInv
  BY DEF WalkInv
<1>2. Top \in Range(stack)
  BY <1>1, TopFrame
<1>3. \A f \in Range(stack) : FrameAt(CurrentOutput, f) /\ IsPath(f.path) /\ IsFrame(f)
  BY <1>1, PlacesHavePaths DEF WalkPlaces, StackInv
<1>4. ASSUME NEW f \in Range(stack) PROVE f = Top \/ Under(f, Top)
  <2>1. PICK i \in 1 .. Len(stack) : stack[i] = f
    BY <1>1, Lists DEF StackInv
  <2>2. Len(stack) \in Nat /\ DOMAIN stack = 1 .. Len(stack) /\ stack[Len(stack)] = Top
    BY <1>1, AdvancedShape
  <2>3. i < Len(stack) => Under(stack[i], stack[Len(stack)])
    BY <2>1, <2>2 DEF WalkPlaces
  <2>. QED
    BY <2>1, <2>2, <2>3
<1>. QED
  BY <1>1, <1>2, <1>3, <1>4, AdvancedShape

\* What a frame of the stack that has gone on is.
LEMMA AdvancedFrame ==
    ASSUME world \in Worlds, StackInv, stack # <<>>, NEW f \in Range(Advanced)
    PROVE  \/ f \in Range(stack) /\ \E i \in 1 .. Len(stack) : i < Len(stack) /\ f = stack[i]
           \/ /\ f.path = Top.path /\ f.next = Top.next + 1 /\ f.document = Top.document
              /\ f.output = Top.output /\ f.node = Top.node /\ f.depth = Top.depth
              /\ f.configuration = Top.configuration /\ f.ancestry = Top.ancestry
<1>1. PICK i \in 1 .. Len(stack) : Advanced[i] = f
  BY AdvancedShape, Lists
<1>2. CASE i = Len(stack)
  BY <1>1, <1>2, AdvancedShape
<1>3. CASE i # Len(stack)
  <2>1. i < Len(stack) /\ f = stack[i]
    <3>1. Len(stack) \in Nat /\ \A j \in 1 .. Len(stack) : j < Len(stack) => Advanced[j] = stack[j]
      BY AdvancedShape
    <3>. QED
      BY <1>1, <1>3, <3>1
  <2>2. f \in Range(stack)
    BY <1>1, <2>1, AdvancedShape DEF Range
  <2>. QED
    BY <2>1, <2>2
<1>. QED
  BY <1>2, <1>3

\* Its frames are where they were, and still inside each other.
LEMMA AdvancedPlaces ==
    ASSUME world \in Worlds, WalkInv, WalkPlaces, stack # <<>>
    PROVE  /\ \A f \in Range(Advanced) : FrameAt(CurrentOutput, f)
           /\ \A i, j \in DOMAIN Advanced : i < j => Under(Advanced[i], Advanced[j])
<1>1. StackInv
  BY DEF WalkInv
<1>2. ASSUME NEW f \in Range(Advanced) PROVE FrameAt(CurrentOutput, f)
  <2>1. CASE f \in Range(stack)
    BY <2>1 DEF WalkPlaces
  <2>2. CASE f \notin Range(stack)
    <3>1. /\ f.path = Top.path /\ f.document = Top.document /\ f.output = Top.output
          /\ f.node = Top.node /\ f.configuration = Top.configuration
          /\ f.ancestry = Top.ancestry /\ f.depth = Top.depth
      BY <1>1, <2>2, AdvancedFrame
    <3>2. FrameAt(CurrentOutput, Top)
      BY Frames
    <3>. QED
      BY <3>1, <3>2 DEF FrameAt
  <2>. QED
    BY <2>1, <2>2
<1>3. ASSUME NEW i \in DOMAIN Advanced, NEW j \in DOMAIN Advanced, i < j
      PROVE  Under(Advanced[i], Advanced[j])
  <2>1. /\ i \in 1 .. Len(stack) /\ j \in 1 .. Len(stack) /\ i < Len(stack)
        /\ Advanced[i] = stack[i] /\ Advanced[j].path = stack[j].path
    BY <1>1, <1>3, AdvancedShape
  <2>2. Under(stack[i], stack[j])
    BY <1>1, <1>3, <2>1, AdvancedShape DEF WalkPlaces
  <2>. QED
    BY <2>1, <2>2 DEF Under
<1>. QED
  BY <1>2, <1>3

\* The path that is looked at goes through all frames, which have gone on.
LEMMA PathPassed ==
    ASSUME world \in Worlds, WalkInv, WalkPlaces, stack # <<>>
    PROVE  /\ Extends(Path, Top.path, Top.next) /\ IsPath(Path) /\ Path = Cursor(Top)
           /\ \A f \in Range(Advanced) :
                 /\ Leads(f.path, Path) /\ Path[Len(f.path) + 1] < f.next
                 /\ IsPath(f.path) /\ f.next \in Nat \ {0}
<1>1. StackInv
  BY DEF WalkInv
<1>2. /\ IsPath(Top.path) /\ Top.next \in Nat \ {0}
      /\ \A f \in Range(stack) : IsPath(f.path) /\ IsFrame(f)
  BY Frames
<1>3. Extends(Path, Top.path, Top.next)
  BY DEF Extends, Path
<1>4. IsPath(Path) /\ Leads(Top.path, Path) /\ Path[Len(Top.path) + 1] = Top.next
  BY <1>2, <1>3, Extended
<1>5. ASSUME NEW f \in Range(Advanced)
      PROVE  /\ Leads(f.path, Path) /\ Path[Len(f.path) + 1] < f.next
             /\ IsPath(f.path) /\ f.next \in Nat \ {0}
  <2>1. CASE f.path = Top.path /\ f.next = Top.next + 1
    BY <1>2, <1>4, <2>1
  <2>2. ASSUME f \in Range(stack), NEW i \in 1 .. Len(stack), i < Len(stack), f = stack[i]
        PROVE  /\ Leads(f.path, Path) /\ Path[Len(f.path) + 1] < f.next
               /\ IsPath(f.path) /\ f.next \in Nat \ {0}
    <3>1. Under(f, Top)
      BY <1>1, <2>2, AdvancedShape DEF WalkPlaces
    <3>2. IsPath(f.path) /\ f.next \in Nat \ {0}
      BY <1>2, <2>2 DEF IsFrame
    <3>3. Leads(f.path, Path) /\ Path[Len(f.path) + 1] = Top.path[Len(f.path) + 1]
      BY <1>2, <1>3, <3>1, <3>2, LeadsFurther DEF Under
    <3>. QED
      BY <3>1, <3>2, <3>3 DEF Under
  <2>. QED
    BY <1>1, <2>1, <2>2, AdvancedFrame
<1>. QED
  BY <1>3, <1>4, <1>5 DEF Path, Cursor

\* The instance that was passed comes after all that was found and before all that is left.
LEMMA AdvancedOrder ==
    ASSUME world \in Worlds, WalkInv, WalkPlaces, WalkOrder, stack # <<>>,
           stage \in {"walk", "expand"}
    PROVE  /\ \A f \in Range(Advanced) : Before(Path, Cursor(f))
           /\ \A f \in Range(Advanced) : \A o \in Range(occurrences) : Before(o.path, Cursor(f))
           /\ \A f \in Range(Advanced) : \A u \in Range(queue) : Before(f.path, u.path)
           /\ \A o \in Range(occurrences) : Before(o.path, Path)
           /\ \A u \in Range(queue) : Before(Path, u.path)
<1>1. StackInv
  BY DEF WalkInv
<1>2. /\ IsPath(Top.path) /\ Top.next \in Nat \ {0} /\ Top \in Range(stack)
      /\ \A f \in Range(stack) : IsPath(f.path) /\ IsFrame(f)
  BY Frames
<1>3. /\ Extends(Path, Top.path, Top.next) /\ IsPath(Path) /\ Path = Cursor(Top)
      /\ \A f \in Range(Advanced) :
            /\ Leads(f.path, Path) /\ Path[Len(f.path) + 1] < f.next
            /\ IsPath(f.path) /\ f.next \in Nat \ {0}
  BY PathPassed
<1>4. ASSUME NEW f \in Range(Advanced) PROVE Before(Path, Cursor(f))
  BY <1>3, PassedBefore, ExtendsCursor
<1>5. \A o \in Range(occurrences) : Before(o.path, Path) /\ IsPath(o.path)
  BY <1>2, <1>3, PlacesHavePaths DEF WalkOrder, WalkPlaces
<1>6. ASSUME NEW f \in Range(Advanced), NEW o \in Range(occurrences)
      PROVE  Before(o.path, Cursor(f))
  <2>1. CASE f \in Range(stack)
    BY <2>1 DEF WalkOrder
  <2>2. CASE f.path = Top.path /\ f.next = Top.next + 1
    <3>1. Extends(Cursor(f), Top.path, Top.next + 1)
      BY <2>2 DEF Extends, Cursor
    <3>. QED
      BY <1>2, <1>3, <1>5, <3>1, BeforeNext
  <2>. QED
    BY <1>1, <2>1, <2>2, AdvancedFrame
<1>7. ASSUME NEW f \in Range(Advanced), NEW u \in Range(queue) PROVE Before(f.path, u.path)
  <2>1. f \in Range(stack) \/ f.path = Top.path
    BY <1>1, AdvancedFrame
  <2>. QED
    BY <1>2, <2>1 DEF WalkOrder
<1>8. ASSUME NEW u \in Range(queue) PROVE Before(Path, u.path)
  <2>1. Before(Top.path, u.path)
    BY <1>2 DEF WalkOrder
  <2>. QED
    BY <1>2, <1>3, <2>1, WithinBefore
<1>. QED
  BY <1>4, <1>5, <1>6, <1>7, <1>8

\* What is ahead stays ahead, or the step has come to it.
LEMMA AheadAdvanced ==
    ASSUME world \in Worlds, WalkInv, WalkPlaces, stack # <<>>,
           NEW q, IsPath(q), NEW f \in Range(stack), Ahead(q, f.path, f.next)
    PROVE  \/ \E g \in Range(Advanced) : Ahead(q, g.path, g.next)
           \/ /\ Leads(Top.path, q) /\ q[Len(Top.path) + 1] = Top.next
              /\ Path = q \/ Leads(Path, q)
<1>1. StackInv
  BY DEF WalkInv
<1>2. PICK i \in 1 .. Len(stack) : stack[i] = f
  BY <1>1, Lists DEF StackInv
<1>3. CASE i < Len(stack)
  <2>1. Advanced[i] = f /\ f \in Range(Advanced)
    BY <1>1, <1>2, <1>3, AdvancedShape DEF Range
  <2>. QED
    BY <2>1
<1>4. CASE i = Len(stack)
  <2>1. f = Top
    BY <1>1, <1>2, <1>4, AdvancedShape
  <2>2. PICK g : g = Advanced[Len(stack)] /\ g.path = Top.path /\ g.next = Top.next + 1
    BY <1>1, AdvancedShape
  <2>3. g \in Range(Advanced)
    BY <1>1, <2>2, AdvancedShape DEF Range
  <2>4. \/ q[Len(Top.path) + 1] = Top.next /\ (Path = q \/ Leads(Path, q))
        \/ Ahead(q, Top.path, Top.next + 1)
    BY <2>1, AheadSplit, Frames, PathPassed
  <2>. QED
    BY <2>1, <2>2, <2>3, <2>4 DEF Ahead
<1>5. Len(stack) \in Nat
  BY <1>1, AdvancedShape
<1>. QED
  BY <1>3, <1>4, <1>5

\* A step of the walk inside one output.
LEMMA PlacesGoOn ==
    ASSUME SelectedPlaces, stage \in {"walk", "expand"},
           UNCHANGED <<world, stage, selectedOrder, outputIndex>>,
           stage = "walk" => queue' = <<>>,
           NEW k, k = CurrentOutput,
           \A f \in Range(stack') : FrameAt(k, f),
           \A i, j \in DOMAIN stack' : i < j => Under(stack'[i], stack'[j]),
           \A o \in Range(occurrences') : IF stage = "walk" THEN MetAt(k, o) ELSE FoundAt(k, o),
           \A o \in Range(queue') : MetAt(k, o),
           k \in AssemblyOutputs => \A q \in Parts(k) :
              \/ Listing(occurrences', q.path) \/ Listing(queue', q.path)
              \/ \E f \in Range(stack') : Ahead(q.path, f.path, f.next),
           WalkOrder'
    PROVE  PlacesInv'
<1>1. /\ AssemblyOutputs' = AssemblyOutputs /\ \A i : Parts(i)' = Parts(i)
      /\ \A i, f : FrameAt(i, f)' <=> FrameAt(i, f)
      /\ \A i, o : FoundAt(i, o)' <=> FoundAt(i, o)
      /\ \A i, o : MetAt(i, o)' <=> MetAt(i, o)
  BY SamePlaces
<1>2. CurrentOutput' = k
  BY DEF CurrentOutput
<1>3. \A i : Expanded(i)' <=> Expanded(i)
  BY DEF Expanded
<1>4. SelectedPlaces'
  BY <1>1, <1>3 DEF SelectedPlaces
<1>5. WalkPlaces'
  BY <1>1, <1>2 DEF WalkPlaces, Comes
<1>. QED
  BY <1>4, <1>5 DEF PlacesInv

\* What is behind the assembly on top is behind an instance of it that is not suppressed.
LEMMA BehindTop ==
    ASSUME world \in Worlds, NEW k, FrameAt(k, Top), NEW q \in Reached(k),
           Leads(Top.path, q.path)
    PROVE  /\ q.path[Len(Top.path) + 1] \in DOMAIN Instances
           /\ ~Suppressed(Top.document, Top.node, Top.configuration, q.path[Len(Top.path) + 1])
<1>1. PICK p \in Reached(k) :
          /\ p.path = Top.path /\ p.document = Top.document /\ p.node = Top.node
          /\ p.configuration = Top.configuration
  BY DEF FrameAt
<1>2. k \in AssemblyOutputs /\ IsPath(Top.path)
  BY PlacesHavePaths
<1>3. PICK a \in Reached(k) :
          /\ a.path = Top.path
          /\ q.path[Len(Top.path) + 1] \in DOMAIN InstancesOf(a.document, a.node)
          /\ ~Suppressed(a.document, a.node, a.configuration, q.path[Len(Top.path) + 1])
  BY <1>2, Ancestor
<1>4. a = p
  BY <1>1, <1>2, <1>3, UniquePosition
<1>. QED
  BY <1>1, <1>3, <1>4 DEF Instances

\* Parts are reached.
LEMMA PartsReached ==
    ASSUME world \in Worlds, NEW k \in AssemblyOutputs, NEW q \in Parts(k)
    PROVE  q \in Reached(k) /\ q \in Active(k) /\ IsPath(q.path) /\ q.kind = "part"
BY ActiveReached, ReachedShape DEF Parts

\* An assembly that is left has nothing ahead.
LEMMA PopKeepsPlaces ==
    ASSUME world \in Worlds, WalkInv, PlacesInv, Pop
    PROVE  PlacesInv'
<1> DEFINE k == CurrentOutput
<1>1. /\ stage \in {"walk", "expand"} /\ stack # <<>> /\ Top.next > Len(Instances)
      /\ stack' = SubSeq(stack, 1, Len(stack) - 1)
      /\ UNCHANGED <<world, stage, selectedOrder, outputIndex, queue, occurrences>>
  BY DEF Pop, Walking
<1>2. WalkPlaces /\ WalkOrder /\ SelectedPlaces /\ (stage = "walk" => queue = <<>>)
  BY <1>1 DEF PlacesInv
<1>3. StackInv /\ Listed(stack)
  BY DEF WalkInv, StackInv
<1>4. /\ Len(stack) \in Nat \ {0} /\ DOMAIN stack = 1 .. Len(stack) /\ stack[Len(stack)] = Top
  BY <1>1, <1>3, AdvancedShape
<1>5. /\ DOMAIN stack' = 1 .. Len(stack) - 1
      /\ \A i \in 1 .. Len(stack) - 1 : stack'[i] = stack[i]
  <2>1. PICK S : stack \in Seq(S)
    BY <1>3 DEF Listed
  <2>2. \A i \in 1 .. Len(stack) : stack[i] \in S
    BY <1>4, <2>1
  <2> DEFINE front == SubSeq(stack, 1, Len(stack) - 1)
  <2>3. /\ front \in Seq(S) /\ Len(front) = Len(stack) - 1
        /\ \A i \in 1 .. Len(stack) - 1 : front[i] = stack[i]
    BY <1>4, <2>1, <2>2, SubSeqProperties
  <2> HIDE DEF front
  <2>4. DOMAIN front = 1 .. Len(stack) - 1
    BY <2>3
  <2>. QED
    BY <1>1, <2>3, <2>4 DEF front
<1>6. Range(stack') \subseteq Range(stack)
  BY <1>1, <1>3, ListFront
<1>7. \A i, j \in DOMAIN stack' : i < j => Under(stack'[i], stack'[j])
  BY <1>2, <1>4, <1>5 DEF WalkPlaces
<1>8. ASSUME k \in AssemblyOutputs, NEW q \in Parts(k), NEW f \in Range(stack),
             Ahead(q.path, f.path, f.next)
      PROVE  f \in Range(stack')
  <2>1. PICK i \in 1 .. Len(stack) : stack[i] = f
    BY <1>3, Lists
  <2>2. CASE i = Len(stack)
    <3>1. f = Top /\ FrameAt(k, Top) /\ q \in Reached(k)
      BY <1>1, <1>2, <1>4, <1>8, <2>1, <2>2, Frames, PartsReached
    <3>2. q.path[Len(Top.path) + 1] \in DOMAIN Instances
      BY <1>8, <3>1, BehindTop DEF Ahead
    <3>3. Listed(Instances) /\ Top.next \in Nat
      BY <1>1, <1>3, TopFrame DEF IsFrame
    <3>. QED
      BY <1>1, <1>8, <3>1, <3>2, <3>3, Lists DEF Ahead
  <2>3. CASE i # Len(stack)
    <3>1. i \in 1 .. Len(stack) - 1
      <4>1. Len(stack) \in Nat
        BY <1>4
      <4>. QED
        BY <2>3, <4>1
    <3>2. i \in DOMAIN stack' /\ stack'[i] = f
      BY <1>5, <2>1, <3>1
    <3>. QED
      BY <3>2 DEF Range
  <2>. QED
    BY <2>2, <2>3
<1>9. k \in AssemblyOutputs => \A q \in Parts(k) :
              \/ Listing(occurrences', q.path) \/ Listing(queue', q.path)
              \/ \E f \in Range(stack') : Ahead(q.path, f.path, f.next)
  BY <1>1, <1>2, <1>8 DEF WalkPlaces, Comes
<1>10. WalkOrder'
  BY <1>1, <1>2, <1>6 DEF WalkOrder
<1>11. /\ \A f \in Range(stack') : FrameAt(k, f)
       /\ \A o \in Range(occurrences') : IF stage = "walk" THEN MetAt(k, o) ELSE FoundAt(k, o)
       /\ \A o \in Range(queue') : MetAt(k, o)
  BY <1>1, <1>2, <1>6 DEF WalkPlaces
<1>. HIDE DEF k
<1>. QED
  BY <1>1, <1>2, <1>7, <1>9, <1>10, <1>11, PlacesGoOn DEF k

\* There is nothing behind a suppressed instance.
LEMMA SkipKeepsPlaces ==
    ASSUME world \in Worlds, WalkInv, PlacesInv, SkipSuppressed
    PROVE  PlacesInv'
<1> DEFINE k == CurrentOutput
<1>1. /\ stage \in {"walk", "expand"} /\ stack # <<>> /\ Top.next <= Len(Instances)
      /\ Suppressed(Top.document, Top.node, Top.configuration, Top.next)
      /\ stack' = Advanced
      /\ UNCHANGED <<world, stage, selectedOrder, outputIndex, queue, occurrences>>
  BY DEF SkipSuppressed, Walking
<1>2. WalkPlaces /\ WalkOrder /\ SelectedPlaces /\ (stage = "walk" => queue = <<>>)
  BY <1>1 DEF PlacesInv
<1>3. ASSUME k \in AssemblyOutputs, NEW q \in Parts(k), NEW f \in Range(stack),
             Ahead(q.path, f.path, f.next)
      PROVE  \E g \in Range(stack') : Ahead(q.path, g.path, g.next)
  <2>1. q \in Reached(k) /\ IsPath(q.path) /\ FrameAt(k, Top)
    BY <1>1, <1>2, <1>3, Frames, PartsReached
  <2>2. ~(Leads(Top.path, q.path) /\ q.path[Len(Top.path) + 1] = Top.next)
    BY <1>1, <2>1, BehindTop
  <2>. QED
    BY <1>1, <1>2, <1>3, <2>1, <2>2, AheadAdvanced
<1>4. k \in AssemblyOutputs => \A q \in Parts(k) :
              \/ Listing(occurrences', q.path) \/ Listing(queue', q.path)
              \/ \E f \in Range(stack') : Ahead(q.path, f.path, f.next)
  BY <1>1, <1>2, <1>3 DEF WalkPlaces, Comes
<1>5. WalkOrder'
  BY <1>1, <1>2, AdvancedOrder DEF WalkOrder
<1>6. /\ \A f \in Range(stack') : FrameAt(k, f)
      /\ \A i, j \in DOMAIN stack' : i < j => Under(stack'[i], stack'[j])
      /\ \A o \in Range(occurrences') : IF stage = "walk" THEN MetAt(k, o) ELSE FoundAt(k, o)
      /\ \A o \in Range(queue') : MetAt(k, o)
  BY <1>1, <1>2, AdvancedPlaces DEF WalkPlaces
<1>. HIDE DEF k
<1>. QED
  BY <1>1, <1>2, <1>4, <1>5, <1>6, PlacesGoOn DEF k

\* What a local instance stands for.
LEMMA LocalNode ==
    ASSUME world \in Worlds, NEW kind \in {"part", "assembly"}, IsLocal(kind),
           Top.document \in DOMAIN world.documents
    PROVE  /\ ~IsExternal(Instance) /\ Instance.kind = kind
           /\ Meant(Instance, Top.document) = Instance.node /\ Instance.node # Nothing
<1>1. /\ ~IsExternal(Instance) /\ Instance.kind = kind
      /\ KindOf(Top.document, Instance.node) = kind
  BY DEF IsLocal
<1>2. Instance.node \in DOMAIN Document(Top.document).nodes
  BY <1>1 DEF KindOf, Has, Nothing
<1>3. Instance.node # Nothing
  BY <1>2, WorldsAssumption DEF Document
<1>. QED
  BY <1>1, <1>3 DEF Meant

\* What an output of an external document stands for.
LEMMA ExternalNode ==
    ASSUME world \in Worlds, NEW instance, IsExternal(instance), instance.kind = "assembly",
           NEW d \in DOMAIN world.documents, Has(Document(d).outputs, instance.output),
           IsAssemblyOutput(d, instance.output)
    PROVE  LET node == Document(d).outputs[instance.output].node
           IN Meant(instance, d) = node /\ node # Nothing
<1> DEFINE reference == Document(d).outputs[instance.output]
<1>1. reference.kind = "assembly" /\ KindOf(d, reference.node) = "assembly"
  BY DEF IsAssemblyOutput, Sound
<1>2. reference.node \in DOMAIN Document(d).nodes
  BY <1>1 DEF KindOf, Has, Nothing
<1>3. reference.node # Nothing
  BY <1>2, WorldsAssumption DEF Document
<1>. QED
  BY <1>1, <1>3 DEF Meant

\* The position of an assembly that is entered from the one on top.
LEMMA EnteredPosition ==
    ASSUME world \in Worlds, StackInv, NEW k, FrameAt(k, Top), Visiting, Refusal = "none",
           IsLocal("assembly")
    PROVE  /\ FrameAt(k, Frame(Top.document, Top.output, Instance.node, Configuration,
                               Path, Top.ancestry, Top.depth + 1))
           /\ \E q \in Active(k) : q.path = Path /\ q.kind = "assembly"
<1> DEFINE frame == Frame(Top.document, Top.output, Instance.node, Configuration,
                          Path, Top.ancestry, Top.depth + 1)
<1>1. IsFrame(Top) /\ Top.document \in DOMAIN world.documents
  BY TopFrame DEF Visiting, Walking, IsFrame
<1>2. /\ ~IsExternal(Instance) /\ Instance.kind = "assembly"
      /\ Meant(Instance, Top.document) = Instance.node /\ Instance.node # Nothing
  BY <1>1, LocalNode
<1>3. PICK q \in Active(k) :
              /\ Extends(q.path, Top.path, Top.next) /\ q.path = Path
              /\ q.configuration = Configuration /\ q.kind = Instance.kind
              /\ q.document = Top.document /\ q.output = Top.output
              /\ q.node = Instance.node
              /\ q.through = Top.ancestry \cup {q.node}
              /\ q.bad <=> \/ ~Instance.placeable
                           \/ q.node \in Top.ancestry
                           \/ ~KnownConfiguration(q.document, Configuration)
  BY <1>1, <1>2, Visited DEF Has
<1>4. /\ Instance.placeable /\ Instance.node \notin Top.ancestry
      /\ KnownConfiguration(Top.document, Configuration)
      /\ ~(Top.depth + 1 > Limit("maxAssemblyDepth"))
  BY Visits DEF Nests
<1>5. Open(q) /\ q \in Reached(k)
  BY <1>2, <1>3, <1>4, ActiveReached DEF Open
<1>6. IsPath(Top.path) /\ Top.next \in Nat \ {0} /\ Top.depth = Len(Top.path) + 1
  BY <1>1, PlacesHavePaths DEF IsFrame, FrameAt
<1>7. Len(Path) = Len(Top.path) + 1 /\ Len(Top.path) \in Nat
  BY <1>3, <1>6, Extended
<1>8. Limit("maxAssemblyDepth") \in Nat
  BY LimitsAreNumbers
<1>9. /\ frame.path = Path /\ frame.document = Top.document /\ frame.output = Top.output
      /\ frame.node = Instance.node /\ frame.configuration = Configuration
      /\ frame.ancestry = Top.ancestry \cup {Instance.node} /\ frame.depth = Top.depth + 1
  BY DEF Frame
<1>10. frame.depth = Len(frame.path) + 1 /\ frame.depth <= Limit("maxAssemblyDepth")
  BY <1>4, <1>6, <1>7, <1>8, <1>9
<1> HIDE DEF frame
<1>11. FrameAt(k, frame)
  BY <1>3, <1>5, <1>9, <1>10 DEF FrameAt
<1>. QED
  BY <1>2, <1>3, <1>11 DEF frame

\* A list with one element more.
LEMMA AppendedRange ==
    ASSUME NEW s, Listed(s), NEW e
    PROVE  /\ Range(Append(s, e)) = Range(s) \cup {e} /\ DOMAIN Append(s, e) = 1 .. Len(s) + 1
           /\ DOMAIN s = 1 .. Len(s) /\ Len(s) \in Nat
           /\ Append(s, e)[Len(s) + 1] = e
           /\ \A i \in DOMAIN s : Append(s, e)[i] = s[i] /\ s[i] \in Range(s)
BY ListAppend DEF Range

\* An element that comes after all others can be appended.
LEMMA OrderAppended ==
    ASSUME NEW s, Listed(s), InOrder(s), NEW e,
           \A o \in Range(s) : Before(o.path, e.path)
    PROVE  InOrder(Append(s, e))
<1> DEFINE t == Append(s, e)
<1>1. /\ DOMAIN t = 1 .. Len(s) + 1 /\ DOMAIN s = 1 .. Len(s) /\ Len(s) \in Nat
      /\ t[Len(s) + 1] = e /\ \A i \in DOMAIN s : t[i] = s[i] /\ s[i] \in Range(s)
  BY AppendedRange
<1> HIDE DEF t
<1>2. SUFFICES ASSUME NEW i \in DOMAIN t, NEW j \in DOMAIN t, i < j
               PROVE  Before(t[i].path, t[j].path)
  BY DEF InOrder, t
<1>3. i \in DOMAIN s /\ t[i] = s[i] /\ s[i] \in Range(s)
  BY <1>1, <1>2
<1>4. CASE j \in DOMAIN s
  BY <1>1, <1>2, <1>3, <1>4 DEF InOrder
<1>5. CASE j \notin DOMAIN s
  <2>1. t[j] = e
    BY <1>1, <1>5
  <2>. QED
    BY <1>3, <2>1
<1>. QED
  BY <1>4, <1>5

\* A list after its first element.
LEMMA OrderTail ==
    ASSUME NEW s, Listed(s), InOrder(s), s # <<>>
    PROVE  /\ InOrder(Tail(s)) /\ Range(s) = {Head(s)} \cup Range(Tail(s))
           /\ Head(s) \in Range(s) /\ Range(Tail(s)) \subseteq Range(s)
           /\ \A o \in Range(Tail(s)) : Before(Head(s).path, o.path)
<1> DEFINE t == Tail(s)
           e == Head(s)
<1>1. PICK S : s \in Seq(S)
  BY DEF Listed
<1>2. /\ Len(s) \in Nat /\ Len(s) # 0 /\ DOMAIN s = 1 .. Len(s) /\ e = s[1]
      /\ DOMAIN t = 1 .. Len(s) - 1 /\ \A i \in 1 .. Len(s) - 1 : t[i] = s[i + 1]
  BY <1>1
<1> HIDE DEF t, e
<1>3. \A i \in DOMAIN t : i \in Nat /\ i + 1 \in DOMAIN s /\ t[i] = s[i + 1] /\ 1 < i + 1
  BY <1>2
<1>4. 1 \in DOMAIN s
  BY <1>2
<1>5. InOrder(t)
  <2>1. SUFFICES ASSUME NEW i \in DOMAIN t, NEW j \in DOMAIN t, i < j
                 PROVE  Before(t[i].path, t[j].path)
    BY DEF InOrder
  <2>2. i + 1 < j + 1
    BY <1>3, <2>1
  <2>. QED
    BY <1>3, <2>2 DEF InOrder
<1>6. ASSUME NEW o \in Range(t) PROVE Before(e.path, o.path) /\ o \in Range(s)
  <2>1. PICK i \in DOMAIN t : t[i] = o
    BY DEF Range
  <2>2. o = s[i + 1] /\ i + 1 \in DOMAIN s /\ 1 < i + 1
    BY <1>3, <2>1
  <2>. QED
    BY <1>2, <1>4, <2>2 DEF InOrder, Range
<1>7. ASSUME NEW o \in Range(s) PROVE o = e \/ o \in Range(t)
  <2>1. PICK i \in DOMAIN s : s[i] = o
    BY DEF Range
  <2>2. CASE i = 1
    BY <1>2, <2>1, <2>2
  <2>3. CASE i # 1
    <3>1. i - 1 \in DOMAIN t /\ t[i - 1] = s[i]
      BY <1>2, <2>3
    <3>. QED
      BY <2>1, <3>1 DEF Range
  <2>. QED
    BY <2>2, <2>3
<1>8. e \in Range(s)
  BY <1>2, <1>4 DEF Range
<1>. QED
  BY <1>5, <1>6, <1>7, <1>8 DEF t, e

\* What was behind an instance is ahead in the assembly that it enters.
LEMMA EnterKeepsPlaces ==
    ASSUME world \in Worlds, WalkInv, PlacesInv, Enter
    PROVE  PlacesInv'
<1> DEFINE k == CurrentOutput
           frame == Frame(Top.document, Top.output, Instance.node, Configuration,
                          Path, Top.ancestry, Top.depth + 1)
<1>1. /\ stage \in {"walk", "expand"} /\ stack # <<>> /\ Visiting /\ Refusal = "none"
      /\ IsLocal("assembly") /\ stack' = Append(Advanced, frame)
      /\ UNCHANGED <<world, stage, selectedOrder, outputIndex, queue, occurrences>>
  BY DEF Enter, Visiting, Walking
<1>2. WalkPlaces /\ WalkOrder /\ SelectedPlaces /\ (stage = "walk" => queue = <<>>)
  BY <1>1 DEF PlacesInv
<1>3. StackInv
  BY DEF WalkInv
<1>4. /\ FrameAt(k, Top) /\ IsPath(Path) /\ k \in AssemblyOutputs
      /\ \A f \in Range(Advanced) : Leads(f.path, Path) /\ Path[Len(f.path) + 1] < f.next
  BY <1>1, <1>2, Frames, PathPassed DEF FrameAt
<1>5. FrameAt(k, frame) /\ \E q \in Active(k) : q.path = Path /\ q.kind = "assembly"
  BY <1>1, <1>3, <1>4, EnteredPosition
<1>6. frame.path = Path /\ frame.next = 1
  BY DEF Frame
<1>7. PICK g : g = frame
  OBVIOUS
<1> HIDE DEF frame
<1>8. /\ Listed(Advanced) /\ Range(stack') = Range(Advanced) \cup {g}
      /\ DOMAIN stack' = 1 .. Len(Advanced) + 1 /\ DOMAIN Advanced = 1 .. Len(Advanced)
      /\ Len(Advanced) \in Nat
      /\ stack'[Len(Advanced) + 1] = g
      /\ \A i \in DOMAIN Advanced : stack'[i] = Advanced[i] /\ Advanced[i] \in Range(Advanced)
  <2>1. Listed(Advanced)
    BY <1>1, <1>3, AdvancedShape
  <2>2. stack' = Append(Advanced, g)
    BY <1>1, <1>7
  <2>. QED
    BY <2>1, <2>2, AppendedRange
<1>9. /\ \A f \in Range(Advanced) : FrameAt(k, f)
      /\ \A i, j \in DOMAIN Advanced : i < j => Under(Advanced[i], Advanced[j])
  BY <1>1, <1>2, AdvancedPlaces
<1>10. ASSUME NEW i \in DOMAIN stack', NEW j \in DOMAIN stack', i < j
       PROVE  Under(stack'[i], stack'[j])
  <2>1. i \in DOMAIN Advanced /\ stack'[i] = Advanced[i] /\ Advanced[i] \in Range(Advanced)
    BY <1>8, <1>10
  <2>2. CASE j \in DOMAIN Advanced
    BY <1>8, <1>9, <1>10, <2>1, <2>2
  <2>3. CASE j \notin DOMAIN Advanced
    <3>1. stack'[j] = g
      BY <1>8, <2>3
    <3>. QED
      BY <1>4, <1>6, <1>7, <2>1, <3>1 DEF Under
  <2>. QED
    BY <2>2, <2>3
<1>11. ASSUME NEW q \in Parts(k), NEW f \in Range(stack), Ahead(q.path, f.path, f.next)
       PROVE  \E h \in Range(stack') : Ahead(q.path, h.path, h.next)
  <2>1. q \in Reached(k) /\ IsPath(q.path) /\ q.kind = "part"
    BY <1>4, PartsReached
  <2>2. CASE \E h \in Range(Advanced) : Ahead(q.path, h.path, h.next)
    BY <1>8, <2>2
  <2>3. CASE Path = q.path
    <3>1. PICK a \in Active(k) : a.path = Path /\ a.kind = "assembly"
      BY <1>5
    <3>2. a = q
      BY <1>4, <2>1, <2>3, <3>1, ActiveReached, UniquePosition
    <3>. QED
      BY <2>1, <3>1, <3>2
  <2>4. CASE Leads(Path, q.path)
    BY <1>4, <1>6, <1>7, <1>8, <2>1, <2>4, AheadOfStart
  <2>. QED
    BY <1>1, <1>2, <1>11, <2>1, <2>2, <2>3, <2>4, AheadAdvanced
<1>12. k \in AssemblyOutputs => \A q \in Parts(k) :
              \/ Listing(occurrences', q.path) \/ Listing(queue', q.path)
              \/ \E f \in Range(stack') : Ahead(q.path, f.path, f.next)
  BY <1>1, <1>2, <1>11 DEF WalkPlaces, Comes
<1>13. WalkOrder'
  <2>1. /\ \A f \in Range(Advanced) : \A o \in Range(occurrences) : Before(o.path, Cursor(f))
        /\ \A f \in Range(Advanced) : \A u \in Range(queue) : Before(f.path, u.path)
        /\ \A o \in Range(occurrences) : Before(o.path, Path)
        /\ \A u \in Range(queue) : Before(Path, u.path)
    BY <1>1, <1>2, AdvancedOrder
  <2>2. Extends(Cursor(g), Path, 1)
    BY <1>6, <1>7 DEF Extends, Cursor
  <2>3. \A o \in Range(occurrences) : Before(o.path, Cursor(g))
    BY <1>4, <2>1, <2>2, BeforeWithin
  <2>4. \A f \in Range(stack') : f = g \/ f \in Range(Advanced)
    BY <1>8
  <2>. QED
    BY <1>1, <1>2, <1>6, <1>7, <2>1, <2>3, <2>4 DEF WalkOrder
<1>14. /\ \A f \in Range(stack') : FrameAt(k, f)
       /\ \A o \in Range(occurrences') : IF stage = "walk" THEN MetAt(k, o) ELSE FoundAt(k, o)
       /\ \A o \in Range(queue') : MetAt(k, o)
  BY <1>1, <1>2, <1>5, <1>7, <1>8, <1>9 DEF WalkPlaces
<1>. HIDE DEF k
<1>. QED
  BY <1>1, <1>2, <1>10, <1>12, <1>13, <1>14, PlacesGoOn DEF k

\* The walk has gone through every position that it is inside of, that one included.
LEMMA ThroughItself ==
    ASSUME world \in Worlds, NEW k \in AssemblyOutputs, NEW p \in Reached(k)
    PROVE  p.node \in p.through
<1>1. PICK n \in 0 .. PathBound : p \in Level(k)[n]
  BY DEF Reached
<1>2. CASE n = 0
  <2>1. p = StartOf(k)
    BY <1>1, <1>2, LevelsDefined
  <2>. QED
    BY <2>1 DEF StartOf
<1>3. CASE n # 0
  <2>1. n \in 1 .. PathBound
    BY <1>3, WorldsAssumption
  <2>2. PICK o, i : p = Target(o, i)
    BY <1>1, <2>1, Parent
  <2>. QED
    BY <2>2 DEF Target
<1>. QED
  BY <1>2, <1>3

LEMMA EnteredItself ==
    ASSUME world \in Worlds, NEW k, NEW f, FrameAt(k, f)
    PROVE  f.node \in f.ancestry
BY ThroughItself DEF FrameAt

\* Where an occurrence is that is collected.
LEMMA CollectedPosition ==
    ASSUME world \in Worlds, StackInv, NEW k, FrameAt(k, Top), Visiting, Refusal = "none",
           ~IsLocal("assembly")
    PROVE  IF stage = "walk" THEN MetAt(k, Occurrence) ELSE FoundAt(k, Occurrence)
<1>1. /\ IsFrame(Top) /\ Top.document \in DOMAIN world.documents
      /\ stage = "expand" <=> Top.document # Root
      /\ stage \in {"walk", "expand"}
      /\ IsExternal(Instance) =>
            Instance.kind \in {"part", "assembly"} /\ Instance.resource # Root
  BY TopFrame DEF Visiting, Walking, IsFrame
<1>2. /\ ~(IsExternal(Instance) /\ Top.document # Root)
      /\ IsExternal(Instance) \/ IsLocal("part")
      /\ Instance.placeable
      /\ ~(Nests /\ Top.depth + 1 > Limit("maxAssemblyDepth"))
  BY Visits
<1>3. PICK q \in Active(k) :
              /\ Extends(q.path, Top.path, Top.next) /\ q.path = Path
              /\ q.configuration = Configuration /\ q.kind = Instance.kind
              /\ q.document = IF IsExternal(Instance) THEN Instance.resource ELSE Top.document
              /\ q.output = IF IsExternal(Instance) THEN Instance.output ELSE Top.output
              /\ q.node = IF Has(world.documents, q.document)
                          THEN Meant(Instance, q.document) ELSE Nothing
              /\ q.through = (IF IsExternal(Instance) THEN {} ELSE Top.ancestry) \cup {q.node}
              /\ q.bad <=> \/ ~Instance.placeable \/ ~Has(world.documents, q.document)
                           \/ IsExternal(Instance) /\ Top.document # Root
                           \/ q.node = Nothing
                              /\ ~(IsExternal(Instance) /\ Instance.kind = "part")
                           \/ ~IsExternal(Instance) /\ q.node \in Top.ancestry
                           \/ Instance.kind = "assembly"
                              /\ ~KnownConfiguration(q.document, Configuration)
  BY Visited
<1>4. k \in AssemblyOutputs /\ IsPath(Top.path) /\ Top.next \in Nat \ {0}
      /\ Top.depth = Len(Top.path) + 1
  BY <1>1, PlacesHavePaths DEF IsFrame, FrameAt
<1>5. Len(Path) = Len(Top.path) + 1 /\ Len(Top.path) \in Nat
  BY <1>3, <1>4, Extended
<1>6. PICK o : o = Occurrence
  OBVIOUS
<1>7. /\ o.source = (IF IsExternal(Instance) \/ Top.document # Root THEN "external" ELSE "local")
      /\ o.document = (IF IsExternal(Instance) THEN Instance.resource ELSE Top.document)
      /\ o.output = (IF IsExternal(Instance) THEN Instance.output ELSE Top.output)
      /\ o.kind = (IF Top.document # Root THEN "assembly" ELSE Instance.kind)
      /\ o.node = (IF IsExternal(Instance) THEN Nothing ELSE Instance.node)
      /\ o.path = Path /\ o.configuration = Configuration /\ o.depth = Top.depth + 1
  BY <1>6 DEF Occurrence
<1>8. CASE ~IsExternal(Instance)
  <2>1. /\ Instance.kind = "part" /\ Meant(Instance, Top.document) = Instance.node
    BY <1>1, <1>2, <1>8, LocalNode
  <2>2. q.node = Instance.node /\ q.kind = "part" /\ q.document = Top.document
    BY <1>1, <1>3, <1>8, <2>1 DEF Has
  <2>3. Same(q, o)
    BY <1>3, <1>7, <1>8, <2>2 DEF Same
  <2>7. OfKind(q, o)
    <3>1. CASE Top.document = Root
      BY <1>7, <1>8, <2>2, <3>1 DEF OfKind
    <3>2. CASE Top.document # Root
      <4>1. Top.node \in Top.ancestry /\ KindOf(Top.document, Top.node) = "assembly"
        BY <1>1, EnteredItself DEF IsFrame
      <4>2. KindOf(Top.document, q.node) = "part"
        BY <1>2, <1>8, <2>2 DEF IsLocal
      <4>3. Top.node # q.node /\ Top.node \in q.through
        BY <1>3, <1>8, <4>1, <4>2
      <4>. QED
        BY <1>7, <1>8, <2>2, <3>2, <4>3 DEF OfKind, Direct
    <3>. QED
      BY <3>1, <3>2
  <2>4. stage = "walk" => ~Unexpanded(o)
    BY <1>1, <1>7, <1>8 DEF Unexpanded
  <2>5. CASE stage = "walk"
    <3>1. MetAt(k, o)
      BY <1>4, <2>2, <2>3, <2>4, <2>5, <2>7 DEF MetAt
    <3>. QED
      BY <1>6, <2>5, <3>1
  <2>6. CASE stage # "walk"
    <3>1. FoundAt(k, o)
      BY <1>1, <1>4, <1>7, <1>8, <2>2, <2>3, <2>7 DEF FoundAt, Parts
    <3>. QED
      BY <1>6, <2>6, <3>1
  <2>. QED
    BY <2>5, <2>6
<1>9. CASE IsExternal(Instance)
  <2>1. stage = "walk" /\ Top.document = Root
    BY <1>1, <1>2, <1>9
  <2>2. Same(q, o)
    BY <1>3, <1>7, <1>9 DEF Same
  <2>3. o.kind = q.kind /\ q.kind \in {"part", "assembly"}
    BY <1>1, <1>3, <1>7, <1>9, <2>1
  <2>4. CASE q.kind = "part"
    <3>2. OfKind(q, o)
      BY <1>1, <1>3, <1>9, <2>3, <2>4 DEF OfKind, Direct
    <3>1. MetAt(k, o)
      BY <1>4, <2>2, <2>3, <2>4, <3>2 DEF MetAt, Unexpanded
    <3>. QED
      BY <1>6, <2>1, <3>1
  <2>5. CASE q.kind = "assembly"
    <3>1. q.through = {q.node}
      BY <1>3, <1>9
    <3>2. o.depth = Len(o.path) + 1 /\ o.depth <= Limit("maxAssemblyDepth")
      <4>1. Nests /\ Limit("maxAssemblyDepth") \in Nat
        BY <1>3, <1>9, <2>5, LimitsAreNumbers DEF Nests
      <4>. QED
        BY <1>2, <1>4, <1>5, <1>7, <4>1
    <3>3. ASSUME Has(world.documents, o.document), Has(Document(o.document).outputs, o.output),
                 IsAssemblyOutput(o.document, o.output),
                 KnownConfiguration(o.document, o.configuration)
          PROVE  ~q.bad /\ q.node = Document(o.document).outputs[o.output].node
      <4>1. /\ o.document = Instance.resource /\ q.document = Instance.resource
            /\ o.output = Instance.output
        BY <1>3, <1>7, <1>9
      <4>2. /\ Meant(Instance, Instance.resource)
                 = Document(Instance.resource).outputs[Instance.output].node
            /\ Meant(Instance, Instance.resource) # Nothing
        BY <1>3, <1>9, <2>5, <3>3, <4>1, ExternalNode, Zenon DEF Has
      <4>3. q.node = Meant(Instance, Instance.resource)
        BY <1>3, <3>3, <4>1
      <4>. QED
        BY <1>2, <1>3, <1>7, <1>9, <2>1, <3>3, <4>1, <4>2, <4>3
    <3>4. Enterable(q, o)
      BY <2>5, <3>1, <3>2, <3>3 DEF Enterable
    <3>5. Unexpanded(o)
      BY <1>7, <1>9, <2>3, <2>5 DEF Unexpanded
    <3>6. MetAt(k, o)
      BY <1>4, <2>2, <3>4, <3>5 DEF MetAt
    <3>. QED
      BY <1>6, <2>1, <3>6
  <2>. QED
    BY <2>3, <2>4, <2>5
<1>. QED
  BY <1>8, <1>9

\* What was behind an instance is listed with the occurrence that it becomes.
LEMMA CollectKeepsPlaces ==
    ASSUME world \in Worlds, WalkInv, PlacesInv, Collect
    PROVE  PlacesInv'
<1> DEFINE k == CurrentOutput
<1>1. /\ stage \in {"walk", "expand"} /\ stack # <<>> /\ Visiting /\ Refusal = "none"
      /\ ~IsLocal("assembly") /\ stack' = Advanced
      /\ occurrences' = Append(occurrences, Occurrence)
      /\ UNCHANGED <<world, stage, selectedOrder, outputIndex, queue>>
  BY DEF Collect, Visiting, Walking
<1>2. WalkPlaces /\ WalkOrder /\ SelectedPlaces /\ (stage = "walk" => queue = <<>>)
  BY <1>1 DEF PlacesInv
<1>3. StackInv /\ Listed(occurrences)
  BY DEF WalkInv, ListsInv
<1>4. FrameAt(k, Top) /\ IsPath(Path) /\ k \in AssemblyOutputs
  BY <1>1, <1>2, Frames, PathPassed DEF FrameAt
<1>5. IF stage = "walk" THEN MetAt(k, Occurrence) ELSE FoundAt(k, Occurrence)
  <2> HIDE DEF k
  <2>. QED
    BY <1>1, <1>3, <1>4, CollectedPosition
<1>6. PICK e : e = Occurrence
  OBVIOUS
<1>7. e.path = Path
  BY <1>6 DEF Occurrence
<1>8. Range(occurrences') = Range(occurrences) \cup {e}
  BY <1>1, <1>3, <1>6, AppendedRange
<1>9. /\ \A f \in Range(Advanced) : Before(Path, Cursor(f))
      /\ \A f \in Range(Advanced) : \A o \in Range(occurrences) : Before(o.path, Cursor(f))
      /\ \A f \in Range(Advanced) : \A u \in Range(queue) : Before(f.path, u.path)
      /\ \A o \in Range(occurrences) : Before(o.path, Path)
      /\ \A u \in Range(queue) : Before(Path, u.path)
  BY <1>1, <1>2, AdvancedOrder
<1>10. InOrder(occurrences')
  <2>1. InOrder(Append(occurrences, e))
    BY <1>2, <1>3, <1>7, <1>9, OrderAppended DEF WalkOrder
  <2>. QED
    BY <1>1, <1>6, <2>1
<1>11. WalkOrder'
  BY <1>1, <1>2, <1>7, <1>8, <1>9, <1>10 DEF WalkOrder
<1>12. ASSUME NEW q \in Parts(k)
       PROVE  \/ Listing(occurrences', q.path) \/ Listing(queue', q.path)
              \/ \E f \in Range(stack') : Ahead(q.path, f.path, f.next)
  <2>1. IsPath(q.path)
    BY <1>4, PartsReached
  <2>2. CASE Listing(occurrences, q.path)
    BY <1>8, <2>2 DEF Listing
  <2>3. CASE Listing(queue, q.path)
    BY <1>1, <2>3
  <2>4. ASSUME NEW f \in Range(stack), Ahead(q.path, f.path, f.next)
        PROVE  \/ Listing(occurrences', q.path)
               \/ \E g \in Range(stack') : Ahead(q.path, g.path, g.next)
    <3>1. CASE \E g \in Range(Advanced) : Ahead(q.path, g.path, g.next)
      BY <1>1, <3>1
    <3>2. CASE Path = q.path \/ Leads(Path, q.path)
      BY <1>7, <1>8, <3>2 DEF Listing
    <3>. QED
      BY <1>1, <1>2, <2>1, <2>4, <3>1, <3>2, AheadAdvanced
  <2>. QED
    BY <1>2, <1>4, <2>2, <2>3, <2>4 DEF WalkPlaces, Comes
<1>13. /\ \A f \in Range(stack') : FrameAt(k, f)
       /\ \A i, j \in DOMAIN stack' : i < j => Under(stack'[i], stack'[j])
       /\ \A o \in Range(queue') : MetAt(k, o)
  BY <1>1, <1>2, AdvancedPlaces DEF WalkPlaces
<1>14. \A o \in Range(occurrences') : IF stage = "walk" THEN MetAt(k, o) ELSE FoundAt(k, o)
  BY <1>2, <1>5, <1>6, <1>8 DEF WalkPlaces
<1>. HIDE DEF k
<1>. QED
  BY <1>1, <1>2, <1>11, <1>12, <1>13, <1>14, PlacesGoOn DEF k

\* An occurrence moves from the queue to the end of the list.
LEMMA KeepKeepsPlaces ==
    ASSUME world \in Worlds, WalkInv, PlacesInv, KeepOccurrence
    PROVE  PlacesInv'
<1> DEFINE k == CurrentOutput
<1>1. /\ stage = "expand" /\ stack = <<>> /\ queue # <<>> /\ ~Unexpanded(Head(queue))
      /\ occurrences' = Append(occurrences, Head(queue))
      /\ queue' = Tail(queue)
      /\ UNCHANGED <<world, stage, selectedOrder, outputIndex, stack>>
  BY DEF KeepOccurrence, Expanding
<1>2. WalkPlaces /\ WalkOrder /\ SelectedPlaces
  BY <1>1 DEF PlacesInv
<1>3. Listed(occurrences) /\ Listed(queue) /\ Range(stack) = {}
  BY <1>1, EmptyList DEF WalkInv, ListsInv
<1>4. PICK e : e = Head(queue)
  OBVIOUS
<1>5. /\ InOrder(queue') /\ Range(queue) = {e} \cup Range(queue')
      /\ \A o \in Range(queue') : Before(e.path, o.path)
  BY <1>1, <1>2, <1>3, <1>4, OrderTail DEF WalkOrder
<1>6. Range(occurrences') = Range(occurrences) \cup {e}
  BY <1>1, <1>3, <1>4, AppendedRange
<1>7. FoundAt(k, e)
  <2>1. MetAt(k, e)
    BY <1>2, <1>5 DEF WalkPlaces
  <2>2. Met(e) /\ charged.documents \subseteq DOMAIN world.documents
    BY <1>1, <1>5 DEF WalkInv, ListsInv
  <2>3. e.document \in DOMAIN world.documents
    BY <2>2, Worldly DEF Met, IsOccurrence
  <2>. QED
    BY <1>1, <1>4, <2>1, <2>3 DEF MetAt, FoundAt, Parts
<1>8. InOrder(occurrences')
  <2>1. InOrder(Append(occurrences, e))
    BY <1>2, <1>3, <1>5, OrderAppended DEF WalkOrder
  <2>. QED
    BY <1>1, <1>4, <2>1
<1>9. WalkOrder'
  BY <1>1, <1>2, <1>3, <1>5, <1>6, <1>8 DEF WalkOrder
<1>10. ASSUME k \in AssemblyOutputs, NEW q \in Parts(k)
       PROVE  Listing(occurrences', q.path) \/ Listing(queue', q.path)
  <2>1. Listing(occurrences, q.path) \/ Listing(queue, q.path)
    BY <1>2, <1>3, <1>10 DEF WalkPlaces, Comes
  <2>. QED
    BY <1>5, <1>6, <2>1 DEF Listing
<1>11. /\ \A f \in Range(stack') : FrameAt(k, f)
       /\ \A i, j \in DOMAIN stack' : i < j => Under(stack'[i], stack'[j])
       /\ \A o \in Range(queue') : MetAt(k, o)
       /\ \A o \in Range(occurrences') : FoundAt(k, o)
  BY <1>1, <1>2, <1>5, <1>6, <1>7 DEF WalkPlaces
<1>. HIDE DEF k
<1>. QED
  BY <1>1, <1>2, <1>9, <1>10, <1>11, PlacesGoOn DEF k

\* An external assembly that is entered was checked for what it can be refused for.
LEMMA EnteredExternal ==
    ASSUME EnterExternal, stage' # "failed"
    PROVE  LET o == Head(queue)
               d == o.document
               node == Document(d).outputs[o.output].node
           IN /\ stage = "expand" /\ stack = <<>> /\ queue # <<>> /\ Unexpanded(o)
              /\ Has(Document(d).outputs, o.output) /\ IsAssemblyOutput(d, o.output)
              /\ KnownConfiguration(d, o.configuration)
              /\ stack' = <<Frame(d, o.output, node, o.configuration, o.path, {}, o.depth)>>
              /\ queue' = Tail(queue)
              /\ UNCHANGED <<world, stage, failure, selectedOrder, outputIndex, occurrences>>
<1> DEFINE o == Head(queue)
           d == o.document
           known == Has(Document(d).outputs, o.output)
           node == Document(d).outputs[o.output].node
           usable == known /\ IsAssemblyOutput(d, o.output)
           resolvable == KnownConfiguration(d, o.configuration)
           checks == <<
               <<"output", ~known>>,
               <<"unsupported", ~usable>>,
               <<"configuration", ~resolvable>>,
               <<"maxScannedInstances",
                 usable /\ Exceeded(Scanning(d, node), "maxScannedInstances")>> >>
           frame == Frame(d, o.output, node, o.configuration, o.path, {}, o.depth)
<1>1. stage = "expand" /\ stack = <<>> /\ queue # <<>> /\ Unexpanded(o)
  BY DEF EnterExternal, Expanding
<1>2. /\ DOMAIN checks = 1 .. 4
      /\ \A k \in 1 .. 4 : checks[k][1] # "none"
      /\ checks[2][2] <=> ~usable
      /\ checks[3][2] <=> ~resolvable
  <2>1. DOMAIN checks = 1 .. 4
    OBVIOUS
  <2>2. /\ checks[1][1] = "output" /\ checks[2][1] = "unsupported"
        /\ checks[3][1] = "configuration" /\ checks[4][1] = "maxScannedInstances"
    OBVIOUS
  <2>3. (checks[2][2] <=> ~usable) /\ (checks[3][2] <=> ~resolvable)
    OBVIOUS
  <2> HIDE DEF checks
  <2>. QED
    BY <2>1, <2>2, <2>3
<1>3. \/ FirstFailing(checks) # "none" /\ Refuse(FirstFailing(checks))
      \/ /\ FirstFailing(checks) = "none"
         /\ stack' = <<frame>> /\ queue' = Tail(queue)
         /\ UNCHANGED <<world, stage, failure, selectedOrder, outputIndex, occurrences>>
  BY DEF EnterExternal
<1> HIDE DEF checks
<1>4. FirstFailing(checks) = "none"
  BY <1>3 DEF Refuse
<1>5. \A k \in 1 .. 4 : ~checks[k][2]
  BY <1>2, <1>4, FirstFailingCheck
<1>6. usable /\ resolvable
  BY <1>2, <1>5
<1>. QED
  BY <1>1, <1>3, <1>4, <1>6

\* What was listed with an external assembly is ahead in it.
LEMMA EnterExternalKeepsPlaces ==
    ASSUME world \in Worlds, WalkInv, PlacesInv, EnterExternal, stage' # "failed"
    PROVE  PlacesInv'
<1> DEFINE k == CurrentOutput
<1>1. PICK o : o = Head(queue)
  OBVIOUS
<1>2. PICK d : d = o.document
  OBVIOUS
<1>3. PICK node : node = Document(d).outputs[o.output].node
  OBVIOUS
<1>4. PICK frame : frame = Frame(d, o.output, node, o.configuration, o.path, {}, o.depth)
  OBVIOUS
<1>5. /\ stage = "expand" /\ stack = <<>> /\ queue # <<>> /\ Unexpanded(o)
      /\ Has(Document(d).outputs, o.output) /\ IsAssemblyOutput(d, o.output)
      /\ KnownConfiguration(d, o.configuration)
      /\ stack' = <<frame>> /\ queue' = Tail(queue)
      /\ UNCHANGED <<world, stage, failure, selectedOrder, outputIndex, occurrences>>
  BY <1>1, <1>2, <1>3, <1>4, EnteredExternal, Zenon
<1>6. WalkPlaces /\ WalkOrder /\ SelectedPlaces
  BY <1>5 DEF PlacesInv
<1>7. Listed(occurrences) /\ Listed(queue) /\ Range(stack) = {}
  BY <1>5, EmptyList DEF WalkInv, ListsInv
<1>8. /\ InOrder(queue') /\ Range(queue) = {o} \cup Range(queue')
      /\ \A u \in Range(queue') : Before(o.path, u.path)
  BY <1>1, <1>5, <1>6, <1>7, OrderTail DEF WalkOrder
<1>9. Has(world.documents, d)
  <2>1. o \in Range(queue)
    BY <1>8
  <2>2. Met(o) /\ charged.documents \subseteq DOMAIN world.documents
    BY <1>5, <2>1 DEF WalkInv, ListsInv
  <2>. QED
    BY <1>2, <1>5, <2>2 DEF Met, Has, Unexpanded
<1>10. MetAt(k, o)
  BY <1>6, <1>8 DEF WalkPlaces
<1>11. PICK q \in Active(k) : Same(q, o) /\ Enterable(q, o)
  BY <1>5, <1>10 DEF MetAt
<1>12. /\ q \in Reached(k) /\ k \in AssemblyOutputs /\ IsPath(o.path)
  BY <1>10, ActiveReached, PlacesHavePaths DEF MetAt
<1>13. /\ frame.document = d /\ frame.output = o.output /\ frame.node = node
       /\ frame.configuration = o.configuration /\ frame.path = o.path
       /\ frame.ancestry = {node} /\ frame.depth = o.depth /\ frame.next = 1
  BY <1>4 DEF Frame
<1>14. /\ Open(q) /\ q.node = node /\ q.through = {node}
       /\ o.depth = Len(o.path) + 1 /\ o.depth <= Limit("maxAssemblyDepth")
  BY <1>2, <1>3, <1>5, <1>9, <1>11 DEF Enterable, Open
<1>15. FrameAt(k, frame)
  BY <1>2, <1>11, <1>12, <1>13, <1>14 DEF FrameAt, Same
<1>16. /\ Range(stack') = {frame} /\ DOMAIN stack' = {1}
  BY <1>5 DEF Range
<1>17. ASSUME NEW p \in Parts(k)
       PROVE  \/ Listing(occurrences', p.path) \/ Listing(queue', p.path)
              \/ \E f \in Range(stack') : Ahead(p.path, f.path, f.next)
  <2>1. Listing(occurrences, p.path) \/ Listing(queue, p.path)
    BY <1>6, <1>7, <1>12 DEF WalkPlaces, Comes
  <2>2. p \in Reached(k) /\ IsPath(p.path) /\ p.kind = "part"
    BY <1>12, PartsReached
  <2>3. CASE o.path = p.path
    <3>1. p = q
      BY <1>11, <1>12, <2>2, <2>3, UniquePosition DEF Same
    <3>. QED
      BY <1>11, <2>2, <3>1 DEF Enterable
  <2>4. CASE Leads(o.path, p.path)
    <3>1. Ahead(p.path, frame.path, frame.next)
      BY <1>12, <1>13, <2>2, <2>4, AheadOfStart
    <3>. QED
      BY <1>16, <3>1
  <2>5. CASE \E u \in Range(queue') : u.path = p.path \/ Leads(u.path, p.path)
    BY <2>5 DEF Listing
  <2>. QED
    BY <1>5, <1>8, <2>1, <2>3, <2>4, <2>5 DEF Listing
<1>18. WalkOrder'
  <2>1. Extends(Cursor(frame), o.path, 1)
    BY <1>13 DEF Extends, Cursor
  <2>2. \A u \in Range(occurrences) : Before(u.path, o.path)
    BY <1>6, <1>8 DEF WalkOrder
  <2>3. \A u \in Range(occurrences) : Before(u.path, Cursor(frame))
    BY <1>12, <2>1, <2>2, BeforeWithin
  <2>. QED
    BY <1>5, <1>6, <1>8, <1>13, <1>16, <2>3 DEF WalkOrder
<1>19. /\ \A f \in Range(stack') : FrameAt(k, f)
       /\ \A i, j \in DOMAIN stack' : i < j => Under(stack'[i], stack'[j])
       /\ \A u \in Range(queue') : MetAt(k, u)
       /\ \A u \in Range(occurrences') : FoundAt(k, u)
  BY <1>5, <1>6, <1>8, <1>15, <1>16 DEF WalkPlaces
<1>. HIDE DEF k
<1>. QED
  BY <1>5, <1>6, <1>17, <1>18, <1>19, PlacesGoOn DEF k

\* The checks of the request change nothing.
LEMMA BeginKeepsPlaces ==
    ASSUME world \in Worlds, WalkInv, PlacesInv, Begin, stage' # "failed"
    PROVE  PlacesInv'
<1>1. /\ stage = "begin" /\ stage' = "select"
      /\ UNCHANGED <<world, selectedOrder, queue>>
  BY DEF Begin, Refuse
<1>2. selectedOrder' = <<>> /\ queue' = <<>>
  BY <1>1 DEF PlacesInv, WalkInv, ListsInv
<1>3. SelectedPlaces'
  BY <1>2 DEF SelectedPlaces
<1>. QED
  BY <1>1, <1>2, <1>3 DEF PlacesInv

\* An output is selected with what was met in it.
LEMMA SelectionPlaced ==
    ASSUME world \in Worlds, WalkInv, SelectedPlaces, world' = world, NEW items,
           selectedOrder' = Append(selectedOrder, Selection(items)),
           stage \in {"select", "walk"}, stage' = "select", InOrder(items),
           NEW n, n = Len(selectedOrder) + 1,
           n \in AssemblyOutputs => \A q \in Parts(n) : Listing(items, q.path),
           \A o \in Range(items) : MetAt(n, o)
    PROVE  SelectedPlaces'
<1>1. Selection(items).occurrences = items
  BY DEF Selection
<1>2. /\ Len(selectedOrder) \in Nat /\ DOMAIN selectedOrder = 1 .. Len(selectedOrder)
      /\ DOMAIN selectedOrder' = 1 .. n
      /\ \A k \in 1 .. Len(selectedOrder) : selectedOrder'[k] = selectedOrder[k]
      /\ selectedOrder'[n].occurrences = items
  BY <1>1, ListAppend DEF WalkInv, SelectedInv
<1>3. /\ AssemblyOutputs' = AssemblyOutputs /\ \A i : Parts(i)' = Parts(i)
      /\ \A i, o : FoundAt(i, o)' <=> FoundAt(i, o)
      /\ \A i, o : MetAt(i, o)' <=> MetAt(i, o)
  BY SamePlaces
<1>4. \A i : ~Expanded(i) /\ ~Expanded(i)'
  BY DEF Expanded
<1>5. ASSUME NEW k \in DOMAIN selectedOrder'
      PROVE  /\ InOrder(selectedOrder'[k].occurrences)
             /\ k \in AssemblyOutputs =>
                   \A q \in Parts(k) : Listing(selectedOrder'[k].occurrences, q.path)
             /\ \A o \in Range(selectedOrder'[k].occurrences) : MetAt(k, o)
  <2>1. CASE k = n
    BY <1>2, <2>1
  <2>2. CASE k # n
    <3>1. k \in DOMAIN selectedOrder /\ selectedOrder'[k] = selectedOrder[k]
      BY <1>2, <2>2
    <3>. QED
      BY <1>4, <3>1 DEF SelectedPlaces
  <2>. QED
    BY <2>1, <2>2
<1>. QED
  BY <1>3, <1>4, <1>5 DEF SelectedPlaces

\* A direct output has no occurrences.
LEMMA SelectDirectKeepsPlaces ==
    ASSUME world \in Worlds, WalkInv, PlacesInv, SelectDirect, stage' # "failed"
    PROVE  PlacesInv'
<1>1. PICK n : n = Len(selectedOrder) + 1
  OBVIOUS
<1>2. /\ stage = "select" /\ stage' = "select"
      /\ selectedOrder' = Append(selectedOrder, Selection(<<>>))
      /\ UNCHANGED <<world, queue>>
  BY DEF SelectDirect, Refuse, Selecting
<1>3. n \notin AssemblyOutputs
  BY <1>1 DEF SelectDirect, AssemblyOutputs, Name
<1>4. SelectedPlaces /\ queue = <<>>
  BY <1>2 DEF PlacesInv
<1>5. InOrder(<<>>) /\ Range(<<>>) = {}
  BY EmptyList DEF InOrder
<1>6. SelectedPlaces'
  BY <1>1, <1>2, <1>3, <1>4, <1>5, SelectionPlaced
<1>. QED
  BY <1>2, <1>4, <1>6 DEF PlacesInv

\* Everything in an assembly output comes when it is entered.
LEMMA StartKeepsPlaces ==
    ASSUME world \in Worlds, WalkInv, PlacesInv, StartAssembly, stage' # "failed"
    PROVE  PlacesInv'
<1> DEFINE after == Scanning(Root, Reference.node)
           checks == <<
               <<"maxAssemblyDepth", Limit("maxAssemblyDepth") < 1>>,
               <<"maxScannedInstances", Exceeded(after, "maxScannedInstances")>> >>
<1>1. PICK frame :
         frame = Frame(Root, Nothing, Reference.node, world.configuration, <<>>, {}, 1)
  OBVIOUS
<1>2. PICK k : k = Len(selectedOrder) + 1
  OBVIOUS
<1>3. /\ Selecting /\ Has(Document(Root).outputs, Name) /\ IsAssemblyOutput(Root, Name)
      /\ FirstFailing(checks) = "none"
      /\ stage' = "walk" /\ stack' = <<frame>>
      /\ UNCHANGED <<world, selectedOrder, outputIndex, queue, occurrences>>
  BY <1>1 DEF StartAssembly, Refuse
<1>4. ~(Limit("maxAssemblyDepth") < 1)
  <2>1. DOMAIN checks = 1 .. 2
    OBVIOUS
  <2>2. checks[1][1] = "maxAssemblyDepth" /\ checks[2][1] = "maxScannedInstances"
    OBVIOUS
  <2>3. checks[1][2] <=> Limit("maxAssemblyDepth") < 1
    OBVIOUS
  <2> HIDE DEF checks
  <2>4. \A i \in 1 .. 2 : ~checks[i][2]
    BY <1>3, <2>1, <2>2, FirstFailingCheck
  <2>. QED
    BY <2>1, <2>3, <2>4
<1>. HIDE DEF checks
<1>5. Limit("maxAssemblyDepth") \in Nat
  BY LimitsAreNumbers
<1>6. k \in AssemblyOutputs /\ world.requested[k] = Name
  <2>1. /\ Len(selectedOrder) \in Nat /\ Len(world.requested) \in Nat
        /\ DOMAIN world.requested = 1 .. Len(world.requested)
    BY Lists, Worldly DEF WalkInv, SelectedInv
  <2>2. k \in DOMAIN world.requested
    BY <1>2, <1>3, <2>1 DEF Selecting
  <2>. QED
    BY <1>2, <1>3, <2>2 DEF AssemblyOutputs, Name
<1>7. /\ SelectedPlaces /\ queue = <<>> /\ occurrences = <<>> /\ stage = "select"
  BY <1>3 DEF PlacesInv, Selecting, WalkInv, ListsInv
<1>8. /\ frame.document = Root /\ frame.output = Nothing /\ frame.node = Reference.node
      /\ frame.configuration = world.configuration /\ frame.path = <<>>
      /\ frame.ancestry = {Reference.node} /\ frame.depth = 1 /\ frame.next = 1
  BY <1>1 DEF Frame
<1>9. PICK p : p = StartOf(k)
  OBVIOUS
<1>10. /\ p.path = <<>> /\ IsPath(p.path) /\ Open(p) /\ p.document = Root
       /\ p.output = Nothing /\ p.configuration = world.configuration
       /\ p.node = Reference.node /\ p.through = {p.node}
  BY <1>6, <1>9, StartShape DEF Reference
<1>11. p \in Reached(k)
  <2>1. 0 \in 0 .. PathBound
    BY WorldsAssumption
  <2>2. Level(k)[0] = {StartOf(k)}
    BY <2>1, LevelsDefined
  <2>. QED
    BY <1>9, <2>1, <2>2 DEF Reached
<1>12. Len(<<>>) = 0
  OBVIOUS
<1>13. FrameAt(k, frame)
  <2>1. frame.depth = Len(frame.path) + 1 /\ frame.depth <= Limit("maxAssemblyDepth")
    BY <1>4, <1>5, <1>8, <1>12
  <2>. QED
    BY <1>6, <1>8, <1>10, <1>11, <2>1 DEF FrameAt
<1>14. Range(stack') = {frame} /\ DOMAIN stack' = {1} /\ stack'[1] = frame
  BY <1>3 DEF Range
<1>15. ASSUME NEW q \in Parts(k) PROVE Ahead(q.path, frame.path, frame.next)
  <2>1. PICK n \in 1 .. PathBound : q \in Level(k)[n]
    BY ActiveLevels DEF Parts
  <2>2. n \in 0 .. PathBound
    BY WorldsAssumption
  <2>3. IsPath(q.path) /\ Len(q.path) = n
    BY <1>6, <2>1, <2>2, PositionShape
  <2>4. Leads(<<>>, q.path)
    BY <1>12, <2>3, WorldsAssumption DEF Leads
  <2>. QED
    BY <1>8, <1>10, <2>3, <2>4, AheadOfStart
<1>16. /\ AssemblyOutputs' = AssemblyOutputs /\ \A i : Parts(i)' = Parts(i)
       /\ \A i, f : FrameAt(i, f)' <=> FrameAt(i, f)
       /\ \A i, o : FoundAt(i, o)' <=> FoundAt(i, o)
       /\ \A i, o : MetAt(i, o)' <=> MetAt(i, o)
  BY <1>3, SamePlaces
<1>17. SelectedPlaces'
  BY <1>3, <1>7, <1>16 DEF SelectedPlaces, Expanded
<1>18. CurrentOutput' = k /\ Range(occurrences') = {} /\ Range(queue') = {}
  BY <1>2, <1>3, <1>7, EmptyList DEF CurrentOutput
<1>19. WalkPlaces'
  BY <1>13, <1>14, <1>15, <1>16, <1>18 DEF WalkPlaces, Comes
<1>20. WalkOrder'
  BY <1>3, <1>7, <1>18 DEF WalkOrder, InOrder
<1>. QED
  BY <1>3, <1>7, <1>17, <1>19, <1>20 DEF PlacesInv

\* The walk through an assembly output is over.
LEMMA FinishAssemblyKeepsPlaces ==
    ASSUME world \in Worlds, WalkInv, PlacesInv, FinishAssembly
    PROVE  PlacesInv'
<1>1. PICK items : items = occurrences
  OBVIOUS
<1>2. PICK n : n = Len(selectedOrder) + 1
  OBVIOUS
<1>3. /\ stage = "walk" /\ stack = <<>> /\ stage' = "select"
      /\ selectedOrder' = Append(selectedOrder, Selection(items))
      /\ UNCHANGED <<world, queue>>
  BY <1>1 DEF FinishAssembly
<1>4. WalkPlaces /\ WalkOrder /\ SelectedPlaces /\ queue = <<>> /\ CurrentOutput = n
  BY <1>2, <1>3 DEF PlacesInv, CurrentOutput
<1>5. Range(stack) = {} /\ Range(queue) = {}
  BY <1>3, <1>4, EmptyList
<1>6. InOrder(items) /\ \A o \in Range(items) : MetAt(n, o)
  BY <1>1, <1>3, <1>4 DEF WalkPlaces, WalkOrder
<1>7. n \in AssemblyOutputs => \A q \in Parts(n) : Listing(items, q.path)
  BY <1>1, <1>4, <1>5 DEF WalkPlaces, Comes, Listing
<1>8. SelectedPlaces'
  BY <1>2, <1>3, <1>4, <1>6, <1>7, SelectionPlaced
<1>. QED
  BY <1>3, <1>4, <1>8 DEF PlacesInv

\* The output that is expanded next is the one that was selected.
LEMMA NextOutputPlaced ==
    ASSUME world \in Worlds, world' = world, SelectedPlaces', stage' = "expand",
           NEW k \in DOMAIN selectedOrder', outputIndex' = k, k \in Nat,
           queue' = selectedOrder'[k].occurrences, occurrences' = <<>>, stack' = <<>>
    PROVE  PlacesInv'
<1>1. Range(stack') = {} /\ Range(occurrences') = {} /\ DOMAIN stack' = {}
  BY EmptyList
<1>2. CurrentOutput' = k /\ ~Expanded(k)'
  BY DEF CurrentOutput, Expanded
<1>3. /\ InOrder(queue')
      /\ k \in AssemblyOutputs' => \A q \in Parts(k)' : Listing(queue', q.path)
      /\ \A o \in Range(queue') : MetAt(k, o)'
  BY <1>2 DEF SelectedPlaces
<1>4. WalkPlaces'
  BY <1>1, <1>2, <1>3 DEF WalkPlaces, Comes
<1>5. WalkOrder'
  BY <1>1, <1>3 DEF WalkOrder, InOrder
<1>. QED
  BY <1>4, <1>5 DEF PlacesInv

\* The expansion begins with the first output.
LEMMA AdmitKeepsPlaces ==
    ASSUME world \in Worlds, WalkInv, PlacesInv, AdmitDocuments, stage' # "failed"
    PROVE  PlacesInv'
<1>1. /\ stage = "select" /\ Len(selectedOrder) = Len(world.requested)
      /\ stage' = "expand" /\ outputIndex' = 1 /\ queue' = selectedOrder[1].occurrences
      /\ UNCHANGED <<world, selectedOrder, occurrences, stack>>
  BY DEF AdmitDocuments, Refuse
<1>2. RequestInv /\ occurrences = <<>> /\ stack = <<>> /\ SelectedPlaces
  BY <1>1 DEF WalkInv, ListsInv, PlacesInv
<1>3. 1 \in DOMAIN selectedOrder
  <2>1. Len(world.requested) \in Nat /\ Len(world.requested) # 0
    BY <1>2, Worldly, Lists DEF RequestInv
  <2>2. DOMAIN selectedOrder = 1 .. Len(selectedOrder)
    BY Lists DEF WalkInv, SelectedInv
  <2>. QED
    BY <1>1, <2>1, <2>2
<1>4. \A i \in DOMAIN selectedOrder : ~Expanded(i) /\ ~Expanded(i)'
  <2>1. DOMAIN selectedOrder = 1 .. Len(selectedOrder) /\ Len(selectedOrder) \in Nat
    BY Lists DEF WalkInv, SelectedInv
  <2>. QED
    BY <1>1, <2>1 DEF Expanded
<1>5. SelectedPlaces'
  <2>1. /\ AssemblyOutputs' = AssemblyOutputs /\ \A i : Parts(i)' = Parts(i)
        /\ \A i, o : FoundAt(i, o)' <=> FoundAt(i, o)
        /\ \A i, o : MetAt(i, o)' <=> MetAt(i, o)
    BY <1>1, SamePlaces
  <2>. QED
    BY <1>1, <1>2, <1>4, <2>1 DEF SelectedPlaces
<1>. QED
  BY <1>1, <1>2, <1>3, <1>5, NextOutputPlaced

\* An output that is expanded has what was found in it.
LEMMA ExpansionKeepsPlaces ==
    ASSUME world \in Worlds, WalkInv, PlacesInv, FinishExpansion
    PROVE  PlacesInv'
<1>1. /\ stage = "expand" /\ stack = <<>> /\ queue = <<>>
      /\ selectedOrder' = [selectedOrder EXCEPT ![outputIndex].occurrences = occurrences]
      /\ occurrences' = <<>>
      /\ IF outputIndex < Len(selectedOrder)
         THEN /\ outputIndex' = outputIndex + 1
              /\ queue' = selectedOrder[outputIndex + 1].occurrences
              /\ UNCHANGED stage
         ELSE stage' = "traversed" /\ UNCHANGED <<outputIndex, queue>>
      /\ UNCHANGED <<world, failure, stack, charged>>
  BY DEF FinishExpansion, FinishOutput
<1>2. /\ outputIndex \in DOMAIN selectedOrder /\ Listed(occurrences) /\ SelectedInv
      /\ WalkPlaces /\ WalkOrder /\ SelectedPlaces
  BY <1>1 DEF WalkInv, ListsInv, PlacesInv
<1>3. /\ Len(selectedOrder') = Len(selectedOrder)
      /\ DOMAIN selectedOrder' = DOMAIN selectedOrder
      /\ DOMAIN selectedOrder = 1 .. Len(selectedOrder) /\ Len(selectedOrder) \in Nat
      /\ \A k \in DOMAIN selectedOrder :
            selectedOrder'[k].occurrences = IF k = outputIndex THEN occurrences
                                            ELSE selectedOrder[k].occurrences
  BY <1>1, <1>2, OutputRewritten
<1>4. /\ AssemblyOutputs' = AssemblyOutputs /\ \A i : Parts(i)' = Parts(i)
      /\ \A i, o : FoundAt(i, o)' <=> FoundAt(i, o)
      /\ \A i, o : MetAt(i, o)' <=> MetAt(i, o)
  BY <1>1, SamePlaces
<1>5. Range(stack) = {} /\ Range(queue) = {} /\ CurrentOutput = outputIndex
  BY <1>1, EmptyList DEF CurrentOutput
<1>6. /\ InOrder(occurrences)
      /\ \A o \in Range(occurrences) : FoundAt(outputIndex, o)
      /\ outputIndex \in AssemblyOutputs =>
            \A q \in Parts(outputIndex) : Listing(occurrences, q.path)
  BY <1>1, <1>2, <1>5 DEF WalkPlaces, WalkOrder, Comes, Listing
<1>7. ASSUME NEW k \in DOMAIN selectedOrder
      PROVE  /\ Expanded(k)' <=> k = outputIndex \/ Expanded(k)
             /\ k = outputIndex => ~Expanded(k)
  BY <1>1, <1>2, <1>3 DEF Expanded
<1>8. SelectedPlaces'
  <2>1. SUFFICES ASSUME NEW k \in DOMAIN selectedOrder
                 PROVE  LET list == selectedOrder'[k].occurrences
                        IN /\ InOrder(list)
                           /\ k \in AssemblyOutputs => \A q \in Parts(k) : Listing(list, q.path)
                           /\ \A o \in Range(list) :
                                 IF Expanded(k)' THEN FoundAt(k, o) ELSE MetAt(k, o)
    BY <1>3, <1>4 DEF SelectedPlaces
  <2>2. CASE k = outputIndex
    BY <1>3, <1>6, <1>7, <2>2
  <2>3. CASE k # outputIndex
    BY <1>2, <1>3, <1>7, <2>3 DEF SelectedPlaces
  <2>. QED
    BY <2>2, <2>3
<1>9. CASE outputIndex < Len(selectedOrder)
  <2>1. outputIndex + 1 \in DOMAIN selectedOrder /\ outputIndex + 1 # outputIndex
    BY <1>2, <1>3, <1>9
  <2>2. queue' = selectedOrder'[outputIndex + 1].occurrences /\ stage' = "expand"
        /\ outputIndex' = outputIndex + 1 /\ outputIndex + 1 \in Nat
    BY <1>1, <1>2, <1>3, <1>9, <2>1
  <2>. QED
    BY <1>1, <1>3, <1>8, <2>1, <2>2, NextOutputPlaced
<1>10. CASE ~(outputIndex < Len(selectedOrder))
  BY <1>1, <1>8, <1>10 DEF PlacesInv
<1>. QED
  BY <1>9, <1>10

-----------------------------------------------------------------------------
(* The traversal by itself.                                                 *)
\* Its inductive invariant.
TraversalInv ==
    /\ world \in Worlds
    /\ stage = "failed" \/ (WalkInv /\ PlacesInv)

\* Every step of the traversal keeps its places, unless it fails.
LEMMA PlacesStep ==
    ASSUME world \in Worlds, WalkInv, PlacesInv, Next, stage' # "failed"
    PROVE  PlacesInv'
<1>1. ~RefuseVisit
  BY DEF RefuseVisit, Refuse
<1>. QED
  BY <1>1, BeginKeepsPlaces, SelectDirectKeepsPlaces, StartKeepsPlaces,
     FinishAssemblyKeepsPlaces, PopKeepsPlaces, SkipKeepsPlaces, EnterKeepsPlaces,
     CollectKeepsPlaces, AdmitKeepsPlaces, KeepKeepsPlaces, EnterExternalKeepsPlaces,
     ExpansionKeepsPlaces DEF Next

\* A step of nothing keeps the places.
LEMMA PlacesStutter ==
    ASSUME PlacesInv, UNCHANGED vars
    PROVE  PlacesInv'
<1>1. UNCHANGED <<world, stage, selectedOrder, outputIndex, queue, occurrences, stack>>
  BY DEF vars
<1>2. /\ AssemblyOutputs' = AssemblyOutputs /\ \A i : Parts(i)' = Parts(i)
      /\ \A i, f : FrameAt(i, f)' <=> FrameAt(i, f)
      /\ \A i, o : FoundAt(i, o)' <=> FoundAt(i, o)
      /\ \A i, o : MetAt(i, o)' <=> MetAt(i, o)
  BY <1>1, SamePlaces
<1>3. SelectedPlaces' <=> SelectedPlaces
  BY <1>1, <1>2 DEF SelectedPlaces, Expanded
<1>4. WalkPlaces' <=> WalkPlaces
  BY <1>1, <1>2 DEF WalkPlaces, Comes, CurrentOutput
<1>5. WalkOrder' <=> WalkOrder
  BY <1>1 DEF WalkOrder
<1>. QED
  BY <1>1, <1>3, <1>4, <1>5 DEF PlacesInv

\* The invariant holds of every call, whatever its documents, requests and limits.
THEOREM TraversalInvariant == Spec => []TraversalInv
<1>1. Init => TraversalInv
  <2>1. Init => PlacesInv
    BY DEF Init, PlacesInv, SelectedPlaces
  <2>. QED
    BY <2>1, WalkBegins DEF Init, TraversalInv
<1>2. ASSUME TraversalInv, Next PROVE TraversalInv'
  <2>1. world \in Worlds /\ WalkInv /\ PlacesInv
    BY <1>2, WalkIsOver DEF TraversalInv
  <2>2. world' = world /\ (WalkInv' \/ Failed')
    BY <1>2, <2>1, WalkStep
  <2>3. CASE stage' = "failed"
    BY <2>1, <2>2, <2>3 DEF TraversalInv
  <2>4. CASE stage' # "failed"
    BY <1>2, <2>1, <2>2, <2>4, PlacesStep DEF TraversalInv, Failed
  <2>. QED
    BY <2>3, <2>4
<1>3. ASSUME TraversalInv, UNCHANGED vars PROVE TraversalInv'
  <2>1. world' = world /\ stage' = stage
    BY <1>3 DEF vars
  <2>. QED
    BY <1>3, <2>1, WalkStutter, PlacesStutter DEF TraversalInv
<1>. QED
  BY <1>1, <1>2, <1>3, PTL DEF Spec

\* What is found at a part is found there only, and a part is on no way to another.
LEMMA PartsFound ==
    ASSUME world \in Worlds, NEW k \in AssemblyOutputs, NEW list, Listed(list),
           InOrder(list), \A o \in Range(list) : FoundAt(k, o),
           \A q \in Parts(k) : Listing(list, q.path)
    PROVE  Len(list) = Cardinality(Parts(k))
<1>1. Len(list) \in Nat /\ DOMAIN list = 1 .. Len(list)
  BY Lists
<1>2. PICK f : f = [j \in 1 .. Len(list) |-> CHOOSE q \in Parts(k) : Same(q, list[j])]
  OBVIOUS
<1>3. ASSUME NEW j \in 1 .. Len(list)
      PROVE  f[j] \in Parts(k) /\ list[j].path = f[j].path
  <2>1. FoundAt(k, list[j])
    BY Lists
  <2>2. \E q \in Parts(k) : Same(q, list[j])
    BY <2>1 DEF FoundAt
  <2>. QED
    BY <1>2, <2>2 DEF Same
<1>4. \A q \in Parts(k) : q \in Reached(k) /\ IsPath(q.path) /\ q.kind = "part"
  BY PartsReached
<1>5. ASSUME NEW i \in 1 .. Len(list), NEW j \in 1 .. Len(list), f[i] = f[j]
      PROVE  i = j
  <2>1. list[i].path = list[j].path /\ IsPath(list[i].path)
    BY <1>3, <1>4, <1>5
  <2>2. ~Before(list[i].path, list[j].path) /\ ~Before(list[j].path, list[i].path)
    BY <2>1, BeforeIsStrict
  <2>3. ~(i < j) /\ ~(j < i)
    BY <1>1, <2>2 DEF InOrder
  <2>. QED
    BY <1>1, <2>3
<1>6. ASSUME NEW q \in Parts(k) PROVE \E j \in 1 .. Len(list) : f[j] = q
  <2>1. PICK o \in Range(list) : o.path = q.path \/ Leads(o.path, q.path)
    BY DEF Listing
  <2>2. PICK j \in 1 .. Len(list) : list[j] = o
    BY Lists
  <2>3. f[j] \in Parts(k) /\ f[j].path = o.path
    BY <1>3, <2>2
  <2>4. ~Leads(o.path, q.path)
    <3>1. SUFFICES ASSUME Leads(o.path, q.path) PROVE FALSE
      OBVIOUS
    <3>2. PICK p \in Reached(k) : p.path = o.path /\ Open(p)
      BY <1>4, <2>3, <3>1, Ancestor
    <3>3. p = f[j]
      BY <1>4, <2>3, <3>2, UniquePosition
    <3>. QED
      BY <1>4, <2>3, <3>2, <3>3 DEF Open
  <2>5. f[j] = q
    BY <1>4, <2>1, <2>3, <2>4, UniquePosition
  <2>. QED
    BY <2>5
<1>7. f \in [1 .. Len(list) -> Parts(k)]
  BY <1>2, <1>3
<1>8. f \in Bijection(1 .. Len(list), Parts(k))
  BY <1>5, <1>6, <1>7 DEF Bijection, Injection, Surjection, IsInjective
<1>9. ExistsBijection(1 .. Len(list), Parts(k))
  BY <1>8 DEF ExistsBijection
<1>. QED
  BY <1>1, <1>9, FS_CountingElements

\* The traversal's occurrences of a requested assembly are the parts that the paths of
\* instances lead to, each once and in depth-first order, with an external assembly
\* expanded in its place.
THEOREM OccurrencesAreTheActiveParts == Spec => []OccurrencesAreActiveParts
<1>1. TraversalInv => OccurrencesAreActiveParts
  <2>1. SUFFICES ASSUME TraversalInv, stage = "traversed", NEW k \in AssemblyOutputs
                 PROVE  LET found == selectedOrder[k].occurrences
                        IN /\ Len(found) = Cardinality(Parts(k))
                           /\ \A j \in 1 .. Len(found) - 1 :
                                 Before(found[j].path, found[j + 1].path)
                           /\ \A j \in DOMAIN found : \E p \in Parts(k) :
                                 /\ found[j].path = p.path
                                 /\ found[j].document = p.document
                                 /\ found[j].configuration = p.configuration
                                 /\ found[j].output = p.output
                                 /\ found[j].node \in {p.node, Nothing}
    BY DEF OccurrencesAreActiveParts, Parts
  <2>2. world \in Worlds /\ WalkInv /\ PlacesInv
    BY <2>1 DEF TraversalInv
  <2>3. k \in DOMAIN selectedOrder
    <3>1. AllSelected /\ Listed(selectedOrder) /\ Listed(world.requested)
      BY <2>1, <2>2, Worldly DEF WalkInv, ListsInv, SelectedInv
    <3>. QED
      BY <2>1, <3>1, Lists DEF AllSelected, AssemblyOutputs
  <2>4. PICK found : found = selectedOrder[k].occurrences
    OBVIOUS
  <2>5. Listed(found)
    BY <2>2, <2>3, <2>4 DEF WalkInv, SelectedInv
  <2>6. /\ InOrder(found) /\ \A q \in Parts(k) : Listing(found, q.path)
        /\ \A o \in Range(found) : FoundAt(k, o)
    BY <2>1, <2>2, <2>3, <2>4 DEF PlacesInv, SelectedPlaces, Expanded
  <2>7. Len(found) = Cardinality(Parts(k))
    BY <2>2, <2>5, <2>6, PartsFound
  <2>8. /\ Len(found) \in Nat /\ DOMAIN found = 1 .. Len(found)
        /\ \A j \in DOMAIN found : found[j] \in Range(found)
    BY <2>5, Lists
  <2>9. ASSUME NEW j \in 1 .. Len(found) - 1
        PROVE  Before(found[j].path, found[j + 1].path)
    <3>1. j \in DOMAIN found /\ j + 1 \in DOMAIN found /\ j < j + 1
      BY <2>8
    <3>. QED
      BY <2>6, <3>1 DEF InOrder
  <2>10. ASSUME NEW j \in DOMAIN found
         PROVE  \E p \in Parts(k) : Same(p, found[j])
    BY <2>6, <2>8 DEF FoundAt
  <2>. QED
    BY <2>4, <2>7, <2>9, <2>10 DEF Same
<1>. QED
  BY <1>1, TraversalInvariant, PTL

-----------------------------------------------------------------------------
(* What is found and counted.                                               *)
\* Path q is that of an occurrence in the list.
OnList(list, q) == \E o \in Range(list) : o.path = q

\* A part is on no way to another one, so it is on a list itself.
LEMMA PartListed ==
    ASSUME world \in Worlds, NEW k \in AssemblyOutputs, NEW list,
           \A o \in Range(list) : FoundAt(k, o), NEW q \in Parts(k), Listing(list, q.path)
    PROVE  OnList(list, q.path)
<1>1. PICK o \in Range(list) : o.path = q.path \/ Leads(o.path, q.path)
  BY DEF Listing
<1>2. PICK r \in Parts(k) : r.path = o.path
  BY <1>1 DEF FoundAt, Same
<1>3. ~Leads(o.path, q.path)
  <2>1. SUFFICES ASSUME Leads(o.path, q.path) PROVE FALSE
    OBVIOUS
  <2>2. /\ q \in Reached(k) /\ r \in Reached(k) /\ IsPath(r.path) /\ r.kind = "part"
    BY PartsReached
  <2>3. PICK p \in Reached(k) : p.path = r.path /\ Open(p)
    BY <1>2, <2>1, <2>2, Ancestor
  <2>4. p = r
    BY <2>2, <2>3, UniquePosition
  <2>. QED
    BY <2>2, <2>3, <2>4 DEF Open
<1>. QED
  BY <1>1, <1>3 DEF OnList

\* What is counted as a part is a selected output or an active part.
AccountedInv == charged.parts \subseteq ContextualParts

\* What is active depends on the documents only.
LEMMA SameEverything ==
    ASSUME world' = world
    PROVE  /\ Everything' = Everything /\ DirectParts' = DirectParts
           /\ \A p : KeyOf(p)' = KeyOf(p)
           /\ ContextualParts' = ContextualParts
<1>1. \A d : Document(d)' = Document(d)
  BY DEF Document
<1>2. \A d, n : KindOf(d, n)' = KindOf(d, n)
  BY <1>1 DEF KindOf, Has
<1>3. Everything' = Everything
  <2>1. AssemblyOutputs' = AssemblyOutputs
    BY SameActive
  <2>2. ASSUME NEW k PROVE Active(k)' = Active(k)
    BY SameActive
  <2>. QED
    BY <2>1, <2>2 DEF Everything
<1>4. DirectParts' = DirectParts
  BY <1>1, <1>2 DEF DirectParts, Sound, Has, LocalPart
<1>5. \A p : KeyOf(p)' = KeyOf(p)
  BY DEF KeyOf
<1>6. ContextualParts' = ContextualParts
  BY <1>3, <1>4, <1>5 DEF ContextualParts
<1>. QED
  BY <1>3, <1>4, <1>5, <1>6

\* A part that is collected is counted as what it is active as.
LEMMA CollectedAccounted ==
    ASSUME world \in Worlds, StackInv, NEW k, FrameAt(k, Top), Visiting, Refusal = "none",
           ~IsLocal("assembly")
    PROVE  PartKeys \subseteq ContextualParts
<1>1. /\ stage \in {"walk", "expand"} /\ (stage = "expand" <=> Top.document # Root)
      /\ IsExternal(Instance) => Instance.resource # Root
  BY TopFrame DEF Visiting, Walking
<1>2. /\ ~(IsExternal(Instance) /\ Top.document # Root)
      /\ IsExternal(Instance) \/ IsLocal("part")
  BY Visits
<1>3. IF stage = "walk" THEN MetAt(k, Occurrence) ELSE FoundAt(k, Occurrence)
  BY CollectedPosition
<1>4. PICK o : o = Occurrence
  OBVIOUS
<1>5. /\ o.source = (IF IsExternal(Instance) \/ Top.document # Root THEN "external" ELSE "local")
      /\ o.document = (IF IsExternal(Instance) THEN Instance.resource ELSE Top.document)
      /\ o.output = (IF IsExternal(Instance) THEN Instance.output ELSE Top.output)
      /\ o.kind = (IF Top.document # Root THEN "assembly" ELSE Instance.kind)
      /\ o.node = (IF IsExternal(Instance) THEN Nothing ELSE Instance.node)
      /\ o.configuration = Configuration
  BY <1>4 DEF Occurrence
<1>6. SUFFICES ASSUME NEW key \in PartKeys
               PROVE  \E p \in Everything : p.kind = "part" /\ key = KeyOf(p)
  BY DEF ContextualParts
<1>7. ~IsExternal(Instance) \/ Instance.kind = "part"
  BY DEF PartKeys
<1>8. key = PartKey(o)
  <2>1. CASE IsExternal(Instance)
    BY <1>1, <1>2, <1>5, <1>7, <2>1 DEF PartKeys, PartKey
  <2>2. CASE ~IsExternal(Instance)
    BY <1>2, <1>5, <2>2 DEF PartKeys, PartKey
  <2>. QED
    BY <2>1, <2>2
<1>9. PICK q \in Active(k) : q.kind = "part" /\ Same(q, o) /\ OfKind(q, o)
  <2>1. CASE stage = "walk"
    <3>1. ~Unexpanded(o)
      BY <1>1, <1>2, <1>5, <1>7, <2>1 DEF Unexpanded
    <3>. QED
      BY <1>3, <1>4, <2>1, <3>1 DEF MetAt
  <2>2. CASE stage # "walk"
    BY <1>3, <1>4, <2>2 DEF FoundAt, Parts
  <2>. QED
    BY <2>1, <2>2
<1>10. q \in Everything
  BY DEF FrameAt, Everything
<1>11. key = KeyOf(q)
  <2>1. CASE q.document = Root
    <3>1. o.source = "local" /\ o.node = q.node
      BY <1>1, <1>2, <1>5, <1>9, <2>1 DEF Same, OfKind
    <3>. QED
      BY <1>8, <1>9, <2>1, <3>1 DEF PartKey, KeyOf, Same
  <2>2. CASE q.document # Root
    <3>1. o.source = "external"
      BY <1>5, <1>9, <2>2 DEF Same
    <3>2. IF o.kind = "part" THEN q.through = {q.node}
          ELSE o.node = q.node /\ q.through # {q.node}
      BY <1>9, <2>2 DEF OfKind, Direct
    <3>. QED
      BY <1>8, <1>9, <2>2, <3>1, <3>2 DEF PartKey, KeyOf, Same
  <2>. QED
    BY <2>1, <2>2
<1>. QED
  BY <1>9, <1>10, <1>11

\* Nothing is counted that is neither selected nor active.
LEMMA WalkAccounts ==
    ASSUME world \in Worlds, WalkInv, PlacesInv, AccountedInv, Next
    PROVE  AccountedInv'
<1> DEFINE AllCounted == charged.parts \subseteq ContextualParts
                             => charged'.parts \subseteq ContextualParts
<1>1. SUFFICES world' = world /\ AllCounted
  BY SameEverything DEF AccountedInv
<1>2. ASSUME charged'.parts = charged.parts, world' = world
      PROVE  world' = world /\ AllCounted
  BY <1>2
<1>3. \A d, n : Scanning(d, n).parts = charged.parts
  BY DEF Scanning
<1>4. ASSUME NEW reason, Refuse(reason) PROVE charged' = charged /\ world' = world
  BY <1>4 DEF Refuse
<1>5. CASE Begin \/ FinishAssembly \/ Pop \/ SkipSuppressed \/ RefuseVisit \/ AdmitDocuments
           \/ KeepOccurrence \/ FinishExpansion
  <2>1. charged' = charged /\ world' = world
    BY <1>4, <1>5 DEF Begin, FinishAssembly, Pop, SkipSuppressed, RefuseVisit, AdmitDocuments,
       KeepOccurrence, FinishExpansion, FinishOutput
  <2>. QED
    BY <1>2, <2>1
<1>6. CASE StartAssembly
  <2>1. charged'.parts = charged.parts /\ world' = world
    BY <1>3, <1>4, <1>6 DEF StartAssembly
  <2>. QED
    BY <1>2, <2>1
<1>7. CASE EnterExternal
  <2>1. charged'.parts = charged.parts /\ world' = world
    BY <1>3, <1>4, <1>7 DEF EnterExternal
  <2>. QED
    BY <1>2, <2>1
<1>8. AfterVisit.parts = charged.parts \cup PartKeys
  BY DEF AfterVisit
<1>9. CASE Enter
  <2>1. PartKeys = {}
    BY <1>9 DEF Enter, PartKeys, IsLocal
  <2>. QED
    BY <1>2, <1>8, <1>9, <2>1 DEF Enter
<1>10. CASE Collect
  <2>1. /\ Visiting /\ Refusal = "none" /\ ~IsLocal("assembly") /\ stack # <<>>
        /\ stage \in {"walk", "expand"} /\ charged' = AfterVisit /\ world' = world
    BY <1>10 DEF Collect, Visiting, Walking
  <2>2. StackInv /\ WalkPlaces
    BY <2>1 DEF WalkInv, PlacesInv
  <2>3. FrameAt(CurrentOutput, Top)
    BY <2>1, <2>2, Frames
  <2>4. PartKeys \subseteq ContextualParts
    BY <2>1, <2>2, <2>3, CollectedAccounted
  <2>. QED
    BY <1>8, <2>1, <2>4
<1>11. CASE SelectDirect
  <2>1. world' = world
    BY <1>4, <1>11 DEF SelectDirect
  <2>2. CASE charged' = charged
    BY <1>2, <2>1, <2>2
  <2>3. CASE /\ Has(Document(Root).outputs, Name) /\ world.mode = "product"
             /\ Sound(Root, Name) /\ Reference.kind = "part"
             /\ charged' = [charged EXCEPT !.parts = @ \cup
                              {LocalPart(Reference.node, world.configuration)}]
    <3>1. Name \in Range(world.requested)
      <4>1. /\ Len(selectedOrder) \in Nat /\ Listed(world.requested)
            /\ Len(selectedOrder) < Len(world.requested)
        BY <1>11, Worldly, Lists DEF WalkInv, SelectedInv, SelectDirect, Selecting
      <4>2. Len(selectedOrder) + 1 \in DOMAIN world.requested
        BY <4>1, Lists
      <4>. QED
        BY <4>2 DEF Name, Range
    <3>2. LocalPart(Reference.node, world.configuration) \in ContextualParts
      BY <2>3, <3>1 DEF ContextualParts, DirectParts, Reference
    <3>3. charged'.parts \subseteq charged.parts \cup {LocalPart(Reference.node, world.configuration)}
      <4>1. charged = [scanned |-> charged.scanned, active |-> charged.active,
                  placements |-> charged.placements, segments |-> charged.segments,
                  parts |-> charged.parts, documents |-> charged.documents]
        BY DEF WalkInv, CountersInv
      <4>. QED
        BY <2>3, <4>1
    <3>. QED
      BY <2>1, <3>2, <3>3
  <2>. QED
    BY <1>4, <1>11, <2>2, <2>3 DEF SelectDirect
<1>. QED
  BY <1>5, <1>6, <1>7, <1>9, <1>10, <1>11 DEF Next

\* The images of finitely many things are no more than those.
LEMMA FiniteImage ==
    ASSUME NEW S, IsFiniteSet(S), NEW f, DOMAIN f = S
    PROVE  IsFiniteSet({f[x] : x \in S})
<1> DEFINE T == {f[x] : x \in S}
           g == [x \in S |-> f[x]]
<1>1. g \in Surjection(S, T)
  <2>1. g \in [S -> T]
    OBVIOUS
  <2>2. \A t \in T : \E s \in S : g[s] = t
    OBVIOUS
  <2>. QED
    BY <2>1, <2>2 DEF Surjection
<1>2. IsFiniteSet(T)
  BY <1>1, FS_Surjection
<1>. QED
  BY <1>2

-----------------------------------------------------------------------------
(* The causes of failures.  A sum over a finite set is the number of its    *)
(* units, so that what is known of cardinalities is known of sums.           *)
\* As many pairs as f says for each element of S.
Units(f, S) == {u \in S \X Nat : u[2] \in 1 .. f[u[1]]}

\* A family of subsets of a finite set has a member none of whose strict subsets
\* is in it.
LEMMA SmallestCounterexample ==
  ASSUME NEW S, IsFiniteSet(S), NEW T \in SUBSET SUBSET S, T # {}
  PROVE \E s \in T : \A t \in T : ~(t \subseteq s /\ t # s)
<1>1. T \subseteq FiniteSubsetsOf(S)
  BY FS_Subset DEF FiniteSubsetsOf
<1>2. \E s \in T : \A t \in T : <<t, s>> \notin StrictSubsetOrdering(S)
  BY <1>1, FS_StrictSubsetOrderingWellFounded, WFMin
<1> QED
  BY <1>2 DEF StrictSubsetOrdering

\* Nothing has no units.
LEMMA UnitsEmpty == ASSUME NEW f PROVE Units(f, {}) = {}
  BY DEF Units

\* One element more has as many units more as f says.
LEMMA UnitsRemove ==
  ASSUME NEW f, NEW S, \A s \in S : f[s] \in Nat, NEW x \in S,
         IsFiniteSet(Units(f, S \ {x}))
  PROVE /\ IsFiniteSet(Units(f, S))
        /\ Cardinality(Units(f, S)) = f[x] + Cardinality(Units(f, S \ {x}))
<1> DEFINE A == {x} \X (1 .. f[x])
           B == Units(f, S \ {x})
<1>1. /\ IsFiniteSet({x}) /\ Cardinality({x}) = 1
      /\ IsFiniteSet(1 .. f[x]) /\ Cardinality(1 .. f[x]) = f[x]
  <2>1. \A n \in Nat : IsFiniteSet(1 .. n) /\ Cardinality(1 .. n) = n
    BY FS_Interval
  <2>2. IsFiniteSet(1 .. f[x]) /\ Cardinality(1 .. f[x]) = f[x]
    BY <2>1
  <2> QED
    BY <2>2, FS_Singleton
<1>2. IsFiniteSet(A) /\ Cardinality(A) = f[x]
  <2>1. /\ IsFiniteSet({x} \X (1 .. f[x]))
        /\ Cardinality({x} \X (1 .. f[x])) = 1 * f[x]
    BY <1>1, FS_Product
  <2> QED
    BY <2>1
<1>3. A \cap B = {} /\ A \cup B = Units(f, S)
  BY DEF Units
<1>4. Cardinality(B) \in Nat
  BY FS_CardinalityType
<1> HIDE DEF A, B
<1>5. /\ IsFiniteSet(A \cup B)
      /\ Cardinality(A \cup B)
            = Cardinality(A) + Cardinality(B) - Cardinality(A \cap B)
  BY <1>2, FS_Union DEF B
<1>6. Cardinality(A \cap B) = 0
  BY <1>3, FS_EmptySet
<1>7. f[x] \in Nat
  OBVIOUS
<1>8. /\ IsFiniteSet(Units(f, S))
      /\ Cardinality(Units(f, S)) = Cardinality(A) + Cardinality(B) - Cardinality(A \cap B)
  BY <1>3, <1>5, Zenon
<1>9. Cardinality(Units(f, S)) = f[x] + Cardinality(B)
  BY <1>2, <1>4, <1>6, <1>7, <1>8
<1> QED
  BY <1>8, <1>9, Zenon DEF B

\* A finite set has finitely many units.
LEMMA UnitsFinite ==
  ASSUME NEW f, NEW S, IsFiniteSet(S), \A s \in S : f[s] \in Nat
  PROVE IsFiniteSet(Units(f, S)) /\ Cardinality(Units(f, S)) \in Nat
<1> DEFINE T == {s \in SUBSET S : ~IsFiniteSet(Units(f, s))}
<1>1. ASSUME T # {} PROVE FALSE
  <2>1. PICK s \in T : \A t \in T : ~(t \subseteq s /\ t # s)
    <3>1. T \in SUBSET SUBSET S
      OBVIOUS
    <3> HIDE DEF T
    <3> QED
      BY <1>1, <3>1, SmallestCounterexample
  <2>2. s # {}
    BY UnitsEmpty, FS_EmptySet
  <2>3. PICK x \in s : TRUE
    BY <2>2
  <2>4. IsFiniteSet(Units(f, s \ {x}))
    BY <2>1
  <2> QED
    BY <2>4, UnitsRemove
<1> QED
  BY <1>1, FS_CardinalityType

\* The sum is the number of units.
LEMMA SumIsUnits ==
  ASSUME NEW f, NEW S, IsFiniteSet(S), \A s \in S : f[s] \in Nat
  PROVE MapThenSumSet(LAMBDA x : f[x], S) = Cardinality(Units(f, S))
<1> DEFINE ch(s) == CHOOSE x \in s : TRUE
           next(g) == [s \in SUBSET S |-> IF s = {} THEN 0 ELSE f[ch(s)] + g[s \ {ch(s)}]]
           h == [s \in SUBSET S |-> Cardinality(Units(f, s))]
<1>1. MapThenSumSet(LAMBDA x : f[x], S) = (CHOOSE g : g = next(g))[S]
  BY DEF MapThenSumSet, MapThenFoldSet
<1>2. ASSUME NEW s \in SUBSET S, s # {}
      PROVE /\ ch(s) \in s
            /\ Cardinality(Units(f, s)) = f[ch(s)] + Cardinality(Units(f, s \ {ch(s)}))
  <2>1. ch(s) \in s
    BY <1>2
  <2>2. IsFiniteSet(s \ {ch(s)})
    BY FS_Subset
  <2> HIDE DEF ch
  <2>3. IsFiniteSet(Units(f, s \ {ch(s)}))
    BY <2>2, UnitsFinite
  <2> QED
    BY <2>1, <2>3, UnitsRemove
<1> HIDE DEF ch
<1>3. h = next(h)
  BY <1>2, UnitsEmpty, FS_EmptySet
<1>4. ASSUME NEW g, g = next(g) PROVE g[S] = Cardinality(Units(f, S))
  <2> DEFINE T == {s \in SUBSET S : g[s] # Cardinality(Units(f, s))}
  <2>1. ASSUME T # {} PROVE FALSE
    <3>1. PICK s \in T : \A t \in T : ~(t \subseteq s /\ t # s)
      <4>1. T \in SUBSET SUBSET S
        OBVIOUS
      <4> HIDE DEF T
      <4> QED
        BY <2>1, <4>1, SmallestCounterexample
    <3>2. g[s] = IF s = {} THEN 0 ELSE f[ch(s)] + g[s \ {ch(s)}]
      BY <1>4
    <3>3. s # {}
      BY <3>1, <3>2, UnitsEmpty, FS_EmptySet
    <3>4. g[s \ {ch(s)}] = Cardinality(Units(f, s \ {ch(s)}))
      BY <3>1, <3>3, <1>2
    <3> QED
      BY <3>1, <3>2, <3>3, <3>4, <1>2
  <2> QED
    BY <2>1
<1> HIDE DEF next, h
<1>5. (CHOOSE g : g = next(g)) = next(CHOOSE g : g = next(g))
  BY <1>3
<1> QED
  BY <1>1, <1>4, <1>5


\* What f says of S altogether.
Amount(f, S) == Cardinality(Units(f, S))

\* A sum is the amount.
LEMMA SumIsAmount ==
    ASSUME NEW f, IsFiniteSet(DOMAIN f), \A x \in DOMAIN f : f[x] \in Nat
    PROVE  Sum(f) = Amount(f, DOMAIN f)
<1>1. Sum(f) = MapThenSumSet(LAMBDA x : f[x], DOMAIN f)
  BY DEF Sum
<1>. QED
  BY <1>1, SumIsUnits DEF Amount

\* Less of a set amounts to less, and one element more to as much more as it says.
LEMMA AmountGrows ==
    ASSUME NEW f, NEW S, IsFiniteSet(S), \A x \in S : f[x] \in Nat, NEW P \in SUBSET S
    PROVE  /\ Amount(f, P) \in Nat /\ Amount(f, S) \in Nat
           /\ Amount(f, P) <= Amount(f, S)
           /\ IsFiniteSet(P)
<1>1. IsFiniteSet(Units(f, S)) /\ Cardinality(Units(f, S)) \in Nat
  BY UnitsFinite
<1>2. Units(f, P) \subseteq Units(f, S)
  BY DEF Units
<1>3. IsFiniteSet(Units(f, P)) /\ Cardinality(Units(f, P)) <= Cardinality(Units(f, S))
  BY <1>1, <1>2, FS_Subset
<1>. QED
  BY <1>1, <1>3, FS_Subset, FS_CardinalityType DEF Amount

\* One element more adds what f says of it.
LEMMA AmountAdds ==
    ASSUME NEW f, NEW S, IsFiniteSet(S), \A x \in S : f[x] \in Nat,
           NEW P \in SUBSET S, NEW x \in S \ P
    PROVE  Amount(f, P \cup {x}) = Amount(f, P) + f[x]
<1> DEFINE Q == P \cup {x}
<1>1. Q \ {x} = P /\ x \in Q /\ Q \in SUBSET S
  OBVIOUS
<1>2. IsFiniteSet(P)
  BY FS_Subset
<1>3. IsFiniteSet(Units(f, Q \ {x}))
  BY <1>1, <1>2, UnitsFinite
<1>4. \A y \in Q : f[y] \in Nat
  BY <1>1
<1>5. f[x] \in Nat /\ Cardinality(Units(f, P)) \in Nat
  BY <1>2, UnitsFinite
<1>. HIDE DEF Q
<1>6. Cardinality(Units(f, Q)) = f[x] + Cardinality(Units(f, Q \ {x}))
  BY <1>1, <1>3, <1>4, UnitsRemove
<1>7. Cardinality(Units(f, Q)) = f[x] + Cardinality(Units(f, P))
  BY <1>1, <1>6, Zenon
<1>. QED
  BY <1>5, <1>7 DEF Amount, Q

\* The largest of some numbers up to a bound is one of them.
LEMMA LargestOf ==
    ASSUME NEW S \in SUBSET Nat, S # {}, NEW b \in Nat, \A n \in S : n <= b
    PROVE  Max(S) \in S /\ \A n \in S : n <= Max(S)
<1> DEFINE T == {b - n : n \in S}
<1>1. T \in SUBSET Nat /\ T # {}
  <2>1. \A n \in S : n \in Nat /\ b - n \in Nat
    OBVIOUS
  <2>2. PICK n \in S : b - n \in T
    OBVIOUS
  <2>. QED
    BY <2>1, <2>2
<1>. HIDE DEF T
<1>2. Min(T) \in T /\ \A n \in T : Min(T) <= n
  BY <1>1, SmallestOf
<1>. USE DEF T
<1>3. PICK m \in S : Min(T) = b - m
  BY <1>2
<1>4. \A n \in S : n <= m
  <2>1. \A n \in S : b - n \in T
    OBVIOUS
  <2>2. \A n \in S : b - m <= b - n
    BY <1>2, <1>3, <2>1
  <2>. QED
    BY <2>2
<1>5. \A y \in S : (\A n \in S : n <= y) => y = m
  BY <1>4
<1>. QED
  BY <1>4, <1>5 DEF Max

\* Checks in order find the first one that fails.
LEMMA FirstFailingIsFirst ==
    ASSUME NEW checks, DOMAIN checks \subseteq Nat, FirstFailing(checks) # "none"
    PROVE  \E k \in DOMAIN checks :
              /\ checks[k][2] /\ FirstFailing(checks) = checks[k][1]
              /\ \A m \in DOMAIN checks : m < k => ~checks[m][2]
<1> DEFINE failing == {k \in DOMAIN checks : checks[k][2]}
<1>1. failing \in SUBSET Nat
  OBVIOUS
<1>2. failing # {} /\ FirstFailing(checks) = checks[Min(failing)][1]
  BY DEF FirstFailing
<1>. HIDE DEF failing
<1>3. Min(failing) \in failing /\ \A n \in failing : Min(failing) <= n
  BY <1>1, <1>2, SmallestOf
<1>4. Min(failing) \in Nat
  BY <1>1, <1>3
<1>5. \A m \in DOMAIN checks : m < Min(failing) => m \notin failing
  BY <1>1, <1>3, <1>4
<1>. QED
  BY <1>2, <1>3, <1>5 DEF failing

-----------------------------------------------------------------------------
(* What there is to count is finite, and counts for natural numbers.        *)
LEMMA ImageIsFinite ==
    ASSUME NEW S, IsFiniteSet(S), NEW f, NEW T, T \subseteq {f[x] : x \in S}, DOMAIN f = S
    PROVE  IsFiniteSet(T)
<1>1. IsFiniteSet({f[x] : x \in S})
  BY FiniteImage
<1>. QED
  BY <1>1, FS_Subset

\* A position leads to finitely many positions.
LEMMA InsideFinite ==
    ASSUME world \in Worlds, NEW p, OpenInv(p)
    PROVE  IsFiniteSet(Inside(p))
<1>1. CASE ~Open(p)
  <2>1. Inside(p) = {}
    BY <1>1 DEF Inside, Open
  <2>. QED
    BY <2>1, FS_EmptySet
<1>2. CASE Open(p)
  <2> DEFINE S == DOMAIN InstancesOf(p.document, p.node)
             f == [i \in S |-> Target(p, i)]
  <2>1. ValidInstances(InstancesOf(p.document, p.node))
    BY <1>2, Worldly DEF OpenInv
  <2>2. PICK n \in Nat : S = 1 .. n
    BY <2>1 DEF ValidInstances
  <2>3. IsFiniteSet(S)
    BY <2>2, FS_Interval
  <2>4. Inside(p) \subseteq {f[i] : i \in S} /\ DOMAIN f = S
    BY <1>2 DEF Inside, Open
  <2>. HIDE DEF S, f
  <2>. QED
    BY <2>3, <2>4, ImageIsFinite
<1>. QED
  BY <1>1, <1>2

\* Finitely many finite sets have a finite union.
LEMMA UnionIsFinite ==
    ASSUME NEW S, IsFiniteSet(S), NEW f, DOMAIN f = S, \A x \in S : IsFiniteSet(f[x])
    PROVE  IsFiniteSet(UNION {f[x] : x \in S})
<1>1. IsFiniteSet({f[x] : x \in S})
  BY FiniteImage
<1>2. \A T \in {f[x] : x \in S} : IsFiniteSet(T)
  OBVIOUS
<1>. QED
  BY <1>1, <1>2, FS_UNION

\* Finitely many positions are active: paths are bounded.
LEMMA ActiveFinite ==
    ASSUME world \in Worlds, NEW k \in AssemblyOutputs
    PROVE  IsFiniteSet(Active(k))
<1> DEFINE S == {m \in Nat : m \in 0 .. PathBound => IsFiniteSet(Level(k)[m])}
<1>. PathBound \in Nat
  BY WorldsAssumption
<1>1. 0 \in S
  <2>1. Level(k)[0] = {StartOf(k)}
    BY LevelsDefined
  <2>. QED
    BY <2>1, FS_Singleton
<1>2. ASSUME NEW m \in Nat, m \in S PROVE m + 1 \in S
  <2>1. SUFFICES ASSUME m + 1 \in 0 .. PathBound
                 PROVE  IsFiniteSet(Level(k)[m + 1])
    OBVIOUS
  <2>2. m \in 0 .. PathBound /\ m + 1 # 0 /\ (m + 1) - 1 = m
    BY <2>1
  <2>3. Level(k)[m + 1] = UNION {Inside(p) : p \in Level(k)[m]}
    BY <2>1, <2>2, LevelsDefined
  <2> DEFINE f == [p \in Level(k)[m] |-> Inside(p)]
  <2>4. \A p \in Level(k)[m] : IsFiniteSet(f[p])
    BY <2>2, PositionShape, InsideFinite
  <2>5. IsFiniteSet(Level(k)[m])
    BY <1>2, <2>2
  <2>6. Level(k)[m + 1] = UNION {f[p] : p \in Level(k)[m]} /\ DOMAIN f = Level(k)[m]
    BY <2>3
  <2>. HIDE DEF f
  <2>. QED
    BY <2>4, <2>5, <2>6, UnionIsFinite
<1>3. Nat \subseteq S
  <2>. HIDE DEF S
  <2>. QED
    BY <1>1, <1>2, ByInduction
<1> DEFINE g == [n \in 1 .. PathBound |-> Level(k)[n]]
<1>4. \A n \in 1 .. PathBound : IsFiniteSet(g[n])
  BY <1>3
<1>5. Active(k) = UNION {g[n] : n \in 1 .. PathBound} /\ DOMAIN g = 1 .. PathBound
  BY ActiveLevels
<1>6. IsFiniteSet(1 .. PathBound)
  BY FS_Interval
<1>. HIDE DEF g
<1>. QED
  BY <1>4, <1>5, <1>6, UnionIsFinite

\* The places of the active positions.
LEMMA PlaceOf ==
    ASSUME NEW x \in Places
    PROVE  x[1] \in AssemblyOutputs /\ x[2] \in Active(x[1]) /\ x = <<x[1], x[2]>>
BY DEF Places

\* An active position of an output has a place.
LEMMA PlaceAt ==
    ASSUME NEW k \in AssemblyOutputs, NEW q \in Active(k)
    PROVE  <<k, q>> \in Places /\ q \in Everything
BY DEF Places, Everything

\* Every active position has a place.
LEMMA EverythingPlaced ==
    ASSUME NEW q \in Everything
    PROVE  \E k \in AssemblyOutputs : q \in Active(k) /\ <<k, q>> \in Places
BY DEF Places, Everything

\* A request is finite.
LEMMA FiniteRequest ==
    ASSUME world \in Worlds
    PROVE  IsFiniteSet(DOMAIN world.requested) /\ IsFiniteSet(AssemblyOutputs)
<1>1. Listed(world.requested)
  BY Worldly
<1>2. Len(world.requested) \in Nat /\ DOMAIN world.requested = 1 .. Len(world.requested)
  BY <1>1, Lists
<1>3. IsFiniteSet(DOMAIN world.requested)
  BY <1>2, FS_Interval
<1>. QED
  BY <1>3, FS_Subset DEF AssemblyOutputs

\* There are finitely many places.
LEMMA PlacesFinite ==
    ASSUME world \in Worlds
    PROVE  IsFiniteSet(Places) /\ IsFiniteSet(Everything)
<1>1. IsFiniteSet(AssemblyOutputs)
  BY FiniteRequest
<1> DEFINE f == [k \in AssemblyOutputs |-> {k} \X Active(k)]
           g == [k \in AssemblyOutputs |-> Active(k)]
<1>2. \A k \in AssemblyOutputs : IsFiniteSet(f[k]) /\ IsFiniteSet(g[k])
  BY ActiveFinite, FS_Singleton, FS_Product
<1>3. /\ Places = UNION {f[k] : k \in AssemblyOutputs} /\ DOMAIN f = AssemblyOutputs
      /\ Everything = UNION {g[k] : k \in AssemblyOutputs} /\ DOMAIN g = AssemblyOutputs
  BY DEF Places, Everything
<1>. HIDE DEF f, g
<1>. QED
  BY <1>1, <1>2, <1>3, UnionIsFinite

\* What is counted at a place, and at the root of an output, is a number.
LEMMA NumbersOfPlaces ==
    ASSUME world \in Worlds
    PROVE  /\ \A x \in Places : /\ Ones[x] \in Nat /\ Operations[x] \in Nat
                                /\ Segments[x] \in Nat /\ Scans[x] \in Nat
           /\ \A k \in AssemblyOutputs : StartScans[k] \in Nat
<1>1. ASSUME NEW x \in Places
      PROVE  /\ x[2].operations \in Nat /\ Len(x[2].path) \in Nat
             /\ Open(x[2]) => Scanned(x[2]) \in Nat
  <2>1. x[1] \in AssemblyOutputs /\ x[2] \in Active(x[1])
    BY PlaceOf
  <2>0. PICK k \in AssemblyOutputs : k = x[1]
    BY <2>1
  <2>2. PICK q \in Active(k) : q = x[2]
    BY <2>0, <2>1
  <2>3. IsPath(q.path) /\ OpenInv(q)
    BY ActiveReached, ReachedShape
  <2>4. ASSUME Open(q) PROVE Scanned(q) \in Nat
    <3>1. ValidInstances(InstancesOf(q.document, q.node))
      BY <2>3, <2>4, Worldly DEF OpenInv
    <3>. QED
      BY <3>1 DEF ValidInstances, Scanned
  <2>5. q.operations \in Nat
    <3>. PathBound \in Nat
      BY WorldsAssumption
    <3>1. PICK n \in 1 .. PathBound : q \in Level(k)[n]
      BY ActiveLevels
    <3>2. PICK p \in Level(k)[n - 1] : \E i \in DOMAIN InstancesOf(p.document, p.node) :
             q = Target(p, i) /\ Open(p)
      BY <3>1, Parent
    <3>6. PICK i \in DOMAIN InstancesOf(p.document, p.node) : q = Target(p, i) /\ Open(p)
      BY <3>2
    <3>3. n - 1 \in 0 .. PathBound
      BY <3>1
    <3>4. OpenInv(p)
      BY <3>3, PositionShape
    <3>5. ValidInstances(InstancesOf(p.document, p.node))
      BY <3>4, <3>6, Worldly DEF OpenInv
    <3>7. InstancesOf(p.document, p.node)[i].placement \in Nat
      BY <3>5 DEF ValidInstances
    <3>8. q.operations = InstancesOf(p.document, p.node)[i].placement
      BY <3>6 DEF Target
    <3>. QED
      BY <3>7, <3>8
  <2>6. Len(q.path) \in Nat
    BY <2>3, PathShape
  <2>. QED
    BY <2>2, <2>4, <2>5, <2>6
<1>2. ASSUME NEW k \in AssemblyOutputs PROVE Scanned(StartOf(k)) \in Nat
  <2>1. OpenInv(StartOf(k)) /\ Open(StartOf(k))
    BY StartShape
  <2>2. PICK p : p = StartOf(k)
    OBVIOUS
  <2>3. ValidInstances(InstancesOf(p.document, p.node))
    BY <2>1, <2>2, Worldly DEF OpenInv
  <2>4. Scanned(p) \in Nat
    BY <2>3 DEF ValidInstances, Scanned
  <2>. QED
    BY <2>2, <2>4
<1>. QED
  BY <1>1, <1>2 DEF Ones, Operations, Segments, Scans, StartScans, Open

\* The totals of the summed counters are amounts over the places.
LEMMA CountableTotals ==
    ASSUME world \in Worlds
    PROVE  /\ Total("maxActiveOccurrences") = Amount(Ones, Places)
           /\ Total("maxPlacementOperations") = Amount(Operations, Places)
           /\ Total("maxOccurrencePathSegments") = Amount(Segments, Places)
           /\ Total("maxScannedInstances") =
                 Amount(StartScans, AssemblyOutputs) + Amount(Scans, Places)
<1>1. IsFiniteSet(Places) /\ IsFiniteSet(AssemblyOutputs)
  BY PlacesFinite, FiniteRequest
<1>2. /\ DOMAIN Ones = Places /\ DOMAIN Operations = Places /\ DOMAIN Segments = Places
      /\ DOMAIN Scans = Places /\ DOMAIN StartScans = AssemblyOutputs
  BY DEF Ones, Operations, Segments, Scans, StartScans
<1>3. /\ Sum(Ones) = Amount(Ones, Places)
      /\ Sum(Operations) = Amount(Operations, Places)
      /\ Sum(Segments) = Amount(Segments, Places)
      /\ Sum(Scans) = Amount(Scans, Places)
      /\ Sum(StartScans) = Amount(StartScans, AssemblyOutputs)
  BY <1>1, <1>2, NumbersOfPlaces, SumIsAmount
<1>. QED
  BY <1>3 DEF Total

\* The sets that are counted are finite, and how deep assemblies are is bounded.
LEMMA FiniteSetsCounted ==
    ASSUME world \in Worlds
    PROVE  /\ IsFiniteSet(ExternalDocuments) /\ IsFiniteSet(ContextualParts)
           /\ Depths \subseteq 1 .. PathBound + 1
<1>1. IsFiniteSet(Everything)
  BY PlacesFinite
<1> DEFINE f == [p \in Everything |-> p.document]
           g == [p \in Everything |-> KeyOf(p)]
           S == Range(world.requested)
           h == [name \in S |-> LocalPart(Document(Root).outputs[name].node,
                                          world.configuration)]
           r == world.requested
<1>2. IsFiniteSet(ExternalDocuments)
  <2>1. ExternalDocuments \subseteq {f[p] : p \in Everything} /\ DOMAIN f = Everything
    BY DEF ExternalDocuments
  <2>. HIDE DEF f
  <2>. QED
    BY <1>1, <2>1, ImageIsFinite
<1>3. IsFiniteSet({KeyOf(p) : p \in {q \in Everything : q.kind = "part"}})
  <2>1. {KeyOf(p) : p \in {q \in Everything : q.kind = "part"}} \subseteq
           {g[p] : p \in Everything} /\ DOMAIN g = Everything
    OBVIOUS
  <2>. HIDE DEF g
  <2>. QED
    BY <1>1, <2>1, ImageIsFinite
<1>4. IsFiniteSet(S)
  <2>1. S \subseteq {r[k] : k \in DOMAIN r}
    BY DEF Range
  <2>2. IsFiniteSet(DOMAIN r)
    BY FiniteRequest
  <2>. HIDE DEF S, r
  <2>. QED
    BY <2>1, <2>2, ImageIsFinite
<1>5. IsFiniteSet(DirectParts)
  <2>1. DirectParts \subseteq {h[name] : name \in S} /\ DOMAIN h = S
    BY DEF DirectParts
  <2>. HIDE DEF h, S
  <2>. QED
    BY <1>4, <2>1, ImageIsFinite
<1>6. IsFiniteSet(ContextualParts)
  BY <1>3, <1>5, FS_Union DEF ContextualParts
<1>7. Depths \subseteq 1 .. PathBound + 1
  <2>1. PathBound \in Nat
    BY WorldsAssumption
  <2>2. ASSUME NEW p \in Everything PROVE Len(p.path) + 1 \in 1 .. PathBound + 1
    <3>1. PICK k \in AssemblyOutputs : p \in Active(k)
      BY EverythingPlaced
    <3>2. Len(p.path) \in 0 .. PathBound
      BY <3>1, ActiveReached, ReachedShape
    <3>. QED
      BY <2>1, <3>2
  <2>. QED
    BY <2>1, <2>2 DEF Depths
<1>. QED
  BY <1>2, <1>6, <1>7

-----------------------------------------------------------------------------
(* What is charged.                                                         *)
\* The requested assemblies that the walk has come to.
Started ==
    {k \in AssemblyOutputs :
        k \in DOMAIN selectedOrder \/ (stage = "walk" /\ k = Len(selectedOrder) + 1)}

\* The occurrences of output k among which are the assemblies still to be expanded.
ListOf(k) ==
    Range(IF stage = "walk" /\ k = Len(selectedOrder) + 1 THEN occurrences
          ELSE IF stage = "expand" /\ k = outputIndex THEN queue
          ELSE selectedOrder[k].occurrences)

\* The frames of the walk that is under way in output k.
FramesOf(k) == IF k = CurrentOutput THEN Range(stack) ELSE {}

\* The walk through these frames, and then these occurrences, is still to come to q.
Later(frames, list, q) ==
    \/ \E f \in frames : Ahead(q, f.path, f.next)
    \/ \E o \in list : Leads(o.path, q)

\* The places that the walk has visited.
Passed ==
    {x \in Places : x[1] \in Started /\ ~Later(FramesOf(x[1]), ListOf(x[1]), x[2].path)}

\* The assemblies among them that it has entered.
Entered ==
    {x \in Passed : x[2].kind = "assembly" /\ \A o \in ListOf(x[1]) : o.path # x[2].path}

\* What is charged is what the places that were visited count for.
ChargedInv ==
    /\ charged.active = Amount(Ones, Passed)
    /\ charged.placements = Amount(Operations, Passed)
    /\ charged.segments = Amount(Segments, Passed)
    /\ charged.scanned = Amount(StartScans, Started) + Amount(Scans, Entered)
    /\ charged.documents = {x[2].document : x \in Passed} \ {Root}

\* No counter is over its limit.
WithinInv ==
    /\ charged.active <= Limit("maxActiveOccurrences")
    /\ charged.placements <= Limit("maxPlacementOperations")
    /\ charged.segments <= Limit("maxOccurrencePathSegments")
    /\ charged.scanned <= Limit("maxScannedInstances")
    /\ Cardinality(charged.documents) <= Limit("maxExternalDocuments")
    /\ Started # {} => 1 <= Limit("maxAssemblyDepth")
    /\ \A x \in Passed : x[2].kind = "assembly" =>
          Len(x[2].path) + 1 <= Limit("maxAssemblyDepth")

\* What was visited is not at fault, unless that shows only when the external
\* documents are there.
FaultsInv ==
    \A x \in Passed : x[2].bad =>
        \/ x[2].document \notin DOMAIN world.documents
        \/ x[2].kind = "assembly" /\ x \notin Entered

\* The request is not at fault as far as it was looked at, its parts are counted, and
\* so are the documents that the walk is in.
OutputsInv ==
    /\ stage # "begin" => KnownConfiguration(Root, world.configuration)
    /\ \A k \in DOMAIN selectedOrder :
          /\ world.mode = "product" \/ k \in AssemblyOutputs
          /\ selectedOrder[k].kind = "part" =>
                LocalPart(selectedOrder[k].node, world.configuration) \in charged.parts
    /\ \A f \in Range(stack) : f.document \in {Root} \cup charged.documents
    /\ stage = "traversed" => charged.documents \subseteq DOMAIN world.documents

\* While nothing has failed, the counters are exact and within the limits, and all
\* that was checked so far was sound.
CausesInv == ChargedInv /\ WithinInv /\ FaultsInv /\ OutputsInv

\* What there is to count depends on the call alone.
LEMMA SameAmounts ==
    ASSUME world' = world
    PROVE  /\ Places' = Places /\ AssemblyOutputs' = AssemblyOutputs
           /\ Ones' = Ones /\ Operations' = Operations /\ Segments' = Segments
           /\ Scans' = Scans /\ StartScans' = StartScans
<1>1. AssemblyOutputs' = AssemblyOutputs /\ \A k : Active(k)' = Active(k)
  BY SameActive
<1>2. Places' = Places
  BY <1>1 DEF Places
<1>3. /\ \A p : Scanned(p)' = Scanned(p)
      /\ \A k : StartOf(k)' = StartOf(k)
  BY DEF Scanned, InstancesOf, Document, StartOf
<1>4. \A k : Scanned(StartOf(k))' = Scanned(StartOf(k))
  BY DEF Scanned, InstancesOf, Document, StartOf
<1>. QED
  BY <1>1, <1>2, <1>3, <1>4 DEF Ones, Operations, Segments, Scans, StartScans

\* Nothing is visited, entered or counted but parts of the evaluated document.
LEMMA ChargesKept ==
    ASSUME ChargedInv, WithinInv, FaultsInv, world' = world, Started' = Started,
           Passed' = Passed, Entered' = Entered,
           charged'.active = charged.active, charged'.placements = charged.placements,
           charged'.segments = charged.segments, charged'.scanned = charged.scanned,
           charged'.documents = charged.documents
    PROVE  ChargedInv' /\ WithinInv' /\ FaultsInv'
<1>1. /\ Ones' = Ones /\ Operations' = Operations /\ Segments' = Segments
      /\ Scans' = Scans /\ StartScans' = StartScans
  BY SameAmounts
<1>2. ChargedInv'
  BY <1>1 DEF ChargedInv, Amount, Units
<1>3. \A name : Limit(name)' = Limit(name)
  BY DEF Limit
<1>4. WithinInv'
  BY <1>3 DEF WithinInv
<1>. QED
  BY <1>2, <1>4 DEF FaultsInv

\* The occurrences of the output that the walk is in.
CurrentList == Range(IF stage = "walk" THEN occurrences ELSE queue)

\* A step inside an output changes nothing in the others.
LEMMA InOneOutput ==
    ASSUME world \in Worlds, WalkInv, stage \in {"walk", "expand"},
           UNCHANGED <<world, stage, selectedOrder, outputIndex>>
    PROVE  /\ Started' = Started /\ Places' = Places
           /\ \A x \in Places : x[1] # CurrentOutput =>
                 /\ x \in Passed' <=> x \in Passed
                 /\ x \in Entered' <=> x \in Entered
           /\ \A x \in Places : x[1] = CurrentOutput =>
                 /\ x \in Passed <=> ~Later(Range(stack), CurrentList, x[2].path)
                 /\ x \in Passed' <=> ~Later(Range(stack'), CurrentList', x[2].path)
                 /\ x \in Entered <=> /\ x \in Passed /\ x[2].kind = "assembly"
                                      /\ \A o \in CurrentList : o.path # x[2].path
                 /\ x \in Entered' <=> /\ x \in Passed' /\ x[2].kind = "assembly"
                                       /\ \A o \in CurrentList' : o.path # x[2].path
<1>1. Started' = Started /\ Places' = Places /\ CurrentOutput' = CurrentOutput
  BY SameAmounts DEF Started, CurrentOutput
<1>2. ASSUME NEW k, k # CurrentOutput
      PROVE  FramesOf(k)' = FramesOf(k) /\ ListOf(k)' = ListOf(k)
  BY <1>1, <1>2 DEF FramesOf, ListOf, CurrentOutput
<1>3. ASSUME NEW k, k = CurrentOutput
      PROVE  /\ FramesOf(k) = Range(stack) /\ ListOf(k) = CurrentList
             /\ FramesOf(k)' = Range(stack') /\ ListOf(k)' = CurrentList'
  BY <1>1, <1>3 DEF FramesOf, ListOf, CurrentOutput, CurrentList
<1>4. CurrentOutput \in AssemblyOutputs => CurrentOutput \in Started
  BY DEF WalkInv, ListsInv, Started, CurrentOutput
<1>5. ASSUME NEW x \in Places, x[1] # CurrentOutput
      PROVE  (x \in Passed' <=> x \in Passed) /\ (x \in Entered' <=> x \in Entered)
  <2>1. FramesOf(x[1])' = FramesOf(x[1]) /\ ListOf(x[1])' = ListOf(x[1])
    BY <1>2, <1>5
  <2>. QED
    BY <1>1, <2>1 DEF Passed, Entered
<1>6. ASSUME NEW x \in Places, x[1] = CurrentOutput
      PROVE  /\ x \in Passed <=> ~Later(Range(stack), CurrentList, x[2].path)
             /\ x \in Passed' <=> ~Later(Range(stack'), CurrentList', x[2].path)
             /\ x \in Entered <=> /\ x \in Passed /\ x[2].kind = "assembly"
                                  /\ \A o \in CurrentList : o.path # x[2].path
             /\ x \in Entered' <=> /\ x \in Passed' /\ x[2].kind = "assembly"
                                   /\ \A o \in CurrentList' : o.path # x[2].path
  <2>1. /\ FramesOf(x[1]) = Range(stack) /\ ListOf(x[1]) = CurrentList
        /\ FramesOf(x[1])' = Range(stack') /\ ListOf(x[1])' = CurrentList'
    BY <1>3, <1>6
  <2>2. x[1] \in Started
    BY <1>4, <1>6, PlaceOf
  <2>. QED
    BY <1>1, <2>1, <2>2 DEF Passed, Entered
<1>. QED
  BY <1>1, <1>5, <1>6

-----------------------------------------------------------------------------
(* Steps that come to nothing new.                                          *)
\* The request is as sound as before if nothing is selected and nothing forgotten.
LEMMA OutputsUndisturbed ==
    ASSUME OutputsInv, UNCHANGED <<world, selectedOrder>>, stage # "begin",
           stage' # "traversed",
           charged.parts \subseteq charged'.parts,
           \A f \in Range(stack') : f.document \in {Root} \cup charged'.documents
    PROVE  OutputsInv'
<1>1. KnownConfiguration(Root, world.configuration)' <=> KnownConfiguration(Root, world.configuration)
  BY DEF KnownConfiguration, Has, Document
<1>2. AssemblyOutputs' = AssemblyOutputs
  BY SameAmounts
<1>. QED
  BY <1>1, <1>2 DEF OutputsInv, LocalPart

\* A step inside an output that passes no position and enters none.
LEMMA QuietCauses ==
    ASSUME world \in Worlds, WalkInv, CausesInv, stage \in {"walk", "expand"},
           UNCHANGED <<world, stage, selectedOrder, outputIndex, charged>>,
           NEW k, k = CurrentOutput,
           k \in AssemblyOutputs => \A q \in Active(k) :
              /\ Later(Range(stack'), CurrentList', q.path)
                    <=> Later(Range(stack), CurrentList, q.path)
              /\ q.kind = "assembly" =>
                    ((\E o \in CurrentList' : o.path = q.path)
                        <=> (\E o \in CurrentList : o.path = q.path)),
           \A f \in Range(stack') : f.document \in {Root} \cup charged.documents
    PROVE  CausesInv'
<1>1. /\ Started' = Started /\ Places' = Places
      /\ \A x \in Places : x[1] # k =>
            (x \in Passed' <=> x \in Passed) /\ (x \in Entered' <=> x \in Entered)
      /\ \A x \in Places : x[1] = k =>
            /\ x \in Passed <=> ~Later(Range(stack), CurrentList, x[2].path)
            /\ x \in Passed' <=> ~Later(Range(stack'), CurrentList', x[2].path)
            /\ x \in Entered <=> /\ x \in Passed /\ x[2].kind = "assembly"
                                 /\ \A o \in CurrentList : o.path # x[2].path
            /\ x \in Entered' <=> /\ x \in Passed' /\ x[2].kind = "assembly"
                                  /\ \A o \in CurrentList' : o.path # x[2].path
  BY InOneOutput
<1>2. ASSUME NEW x \in Places
      PROVE  (x \in Passed' <=> x \in Passed) /\ (x \in Entered' <=> x \in Entered)
  <2>1. CASE x[1] # k
    BY <1>1, <2>1
  <2>2. CASE x[1] = k
    <3>1. k \in AssemblyOutputs /\ x[2] \in Active(k)
      BY <2>2, PlaceOf
    <3>2. PICK q \in Active(k) : q = x[2]
      BY <3>1
    <3>3. /\ Later(Range(stack'), CurrentList', x[2].path)
                <=> Later(Range(stack), CurrentList, x[2].path)
          /\ x[2].kind = "assembly" =>
                ((\E o \in CurrentList' : o.path = x[2].path)
                    <=> (\E o \in CurrentList : o.path = x[2].path))
      BY <3>1, <3>2, Zenon
    <3>. QED
      BY <1>1, <2>2, <3>3
  <2>. QED
    BY <2>1, <2>2
<1>3. Passed \subseteq Places /\ Passed' \subseteq Places /\ Entered \subseteq Passed
      /\ Entered' \subseteq Passed'
  BY <1>1 DEF Passed, Entered
<1>4. Passed' = Passed /\ Entered' = Entered
  BY <1>2, <1>3
<1>5. ChargedInv' /\ WithinInv' /\ FaultsInv'
  BY <1>1, <1>4, ChargesKept DEF CausesInv
<1>6. OutputsInv'
  BY OutputsUndisturbed DEF CausesInv
<1>. QED
  BY <1>5, <1>6 DEF CausesInv

\* The elements of a list are its last one and those before it.
LEMMA FrontAndLast ==
    ASSUME NEW s, Listed(s), s # <<>>
    PROVE  Range(s) = Range(SubSeq(s, 1, Len(s) - 1)) \cup {s[Len(s)]}
<1>1. PICK S : s \in Seq(S)
  BY DEF Listed
<1>2. Len(s) \in Nat \ {0} /\ DOMAIN s = 1 .. Len(s) /\ \A i \in 1 .. Len(s) : s[i] \in S
  BY <1>1, Lists DEF Listed
<1> DEFINE front == SubSeq(s, 1, Len(s) - 1)
<1>3. /\ front \in Seq(S) /\ Len(front) = Len(s) - 1
      /\ \A i \in 1 .. Len(s) - 1 : front[i] = s[i]
  BY <1>1, <1>2, SubSeqProperties
<1> HIDE DEF front
<1>4. DOMAIN front = 1 .. Len(s) - 1
  BY <1>3
<1>5. Range(s) = Range(front) \cup {s[Len(s)]}
  BY <1>2, <1>3, <1>4 DEF Range
<1>. QED
  BY <1>5 DEF front

\* An assembly that is left has nothing ahead.
LEMMA PopKeepsCauses ==
    ASSUME world \in Worlds, WalkInv, PlacesInv, CausesInv, Pop
    PROVE  CausesInv'
<1>0. PICK k : k = CurrentOutput
  OBVIOUS
<1>1. /\ stage \in {"walk", "expand"} /\ stack # <<>> /\ Top.next > Len(Instances)
      /\ stack' = SubSeq(stack, 1, Len(stack) - 1)
      /\ UNCHANGED <<world, stage, selectedOrder, outputIndex, queue, occurrences, charged>>
  BY DEF Pop, Walking
<1>2. WalkPlaces /\ StackInv /\ Listed(stack)
  BY <1>1 DEF PlacesInv, WalkInv, StackInv
<1>3. Range(stack) = Range(stack') \cup {Top}
  BY <1>1, <1>2, FrontAndLast DEF Top
<1>4. ASSUME k \in AssemblyOutputs, NEW q \in Active(k), Ahead(q.path, Top.path, Top.next)
      PROVE  FALSE
  <2>1. FrameAt(k, Top) /\ q \in Reached(k)
    BY <1>0, <1>1, <1>2, <1>4, Frames, ActiveReached
  <2>2. q.path[Len(Top.path) + 1] \in DOMAIN Instances
    BY <1>4, <2>1, BehindTop DEF Ahead
  <2>3. Listed(Instances) /\ Top.next \in Nat
    BY <1>1, <1>2, TopFrame DEF IsFrame
  <2>. QED
    BY <1>1, <1>4, <2>2, <2>3, Lists DEF Ahead
<1>5. CurrentList' = CurrentList
  BY <1>1 DEF CurrentList
<1>6. ASSUME k \in AssemblyOutputs, NEW q \in Active(k)
      PROVE  Later(Range(stack'), CurrentList', q.path) <=> Later(Range(stack), CurrentList, q.path)
  BY <1>3, <1>4, <1>5, <1>6 DEF Later
<1>7. \A f \in Range(stack') : f.document \in {Root} \cup charged.documents
  BY <1>3 DEF CausesInv, OutputsInv
<1>. QED
  BY <1>0, <1>1, <1>5, <1>6, <1>7, QuietCauses

\* What is ahead after a step was ahead before it.
LEMMA AheadBefore ==
    ASSUME world \in Worlds, WalkInv, WalkPlaces, stack # <<>>,
           NEW q, IsPath(q), NEW g \in Range(Advanced), Ahead(q, g.path, g.next)
    PROVE  \E f \in Range(stack) : Ahead(q, f.path, f.next)
<1>1. StackInv
  BY DEF WalkInv
<1>2. Top \in Range(stack) /\ Top.next \in Nat \ {0}
  BY Frames
<1>3. CASE g \in Range(stack)
  BY <1>3
<1>4. CASE g.path = Top.path /\ g.next = Top.next + 1
  <2>1. Ahead(q, Top.path, Top.next + 1)
    BY <1>4
  <2>2. q[Len(Top.path) + 1] \in Nat
    <3>1. IsPath(Top.path) /\ Len(Top.path) < Len(q)
      BY <2>1, Frames DEF Ahead, Leads
    <3>2. Len(Top.path) + 1 \in 1 .. Len(q)
      BY <3>1, PathShape
    <3>. QED
      BY <3>2, PathShape
  <2>3. Ahead(q, Top.path, Top.next)
    BY <1>2, <2>1, <2>2 DEF Ahead
  <2>. QED
    BY <1>2, <2>3
<1>. QED
  BY <1>1, <1>3, <1>4, AdvancedFrame

\* The frames that have gone on are in the same documents.
LEMMA AdvancedDocuments ==
    ASSUME world \in Worlds, WalkInv, stack # <<>>, OutputsInv, NEW f \in Range(Advanced)
    PROVE  f.document \in {Root} \cup charged.documents
<1>1. StackInv
  BY DEF WalkInv
<1>2. Top \in Range(stack)
  BY <1>1, TopFrame
<1>. QED
  BY <1>1, <1>2, AdvancedFrame DEF OutputsInv

\* There is nothing behind a suppressed instance.
LEMMA SkipKeepsCauses ==
    ASSUME world \in Worlds, WalkInv, PlacesInv, CausesInv, SkipSuppressed
    PROVE  CausesInv'
<1>0. PICK k : k = CurrentOutput
  OBVIOUS
<1>1. /\ stage \in {"walk", "expand"} /\ stack # <<>> /\ Top.next <= Len(Instances)
      /\ Suppressed(Top.document, Top.node, Top.configuration, Top.next)
      /\ stack' = Advanced
      /\ UNCHANGED <<world, stage, selectedOrder, outputIndex, queue, occurrences, charged>>
  BY DEF SkipSuppressed, Walking
<1>2. WalkPlaces
  BY <1>1 DEF PlacesInv
<1>3. ASSUME k \in AssemblyOutputs, NEW q \in Active(k)
      PROVE  (\E f \in Range(stack') : Ahead(q.path, f.path, f.next))
                <=> (\E f \in Range(stack) : Ahead(q.path, f.path, f.next))
  <2>1. FrameAt(k, Top) /\ q \in Reached(k)
    BY <1>0, <1>1, <1>2, <1>3, Frames, ActiveReached
  <2>2. IsPath(q.path)
    BY <1>3, <2>1, ReachedShape
  <2>3. ~(Leads(Top.path, q.path) /\ q.path[Len(Top.path) + 1] = Top.next)
    BY <1>1, <2>1, BehindTop
  <2>4. ASSUME NEW f \in Range(stack), Ahead(q.path, f.path, f.next)
        PROVE  \E g \in Range(stack') : Ahead(q.path, g.path, g.next)
    BY <1>1, <1>2, <2>2, <2>3, <2>4, AheadAdvanced
  <2>5. ASSUME NEW f \in Range(stack'), Ahead(q.path, f.path, f.next)
        PROVE  \E g \in Range(stack) : Ahead(q.path, g.path, g.next)
    BY <1>1, <1>2, <2>2, <2>5, AheadBefore
  <2>. QED
    BY <2>4, <2>5
<1>5. CurrentList' = CurrentList
  BY <1>1 DEF CurrentList
<1>6. ASSUME k \in AssemblyOutputs, NEW q \in Active(k)
      PROVE  Later(Range(stack'), CurrentList', q.path) <=> Later(Range(stack), CurrentList, q.path)
  BY <1>3, <1>5, <1>6 DEF Later
<1>7. \A f \in Range(stack') : f.document \in {Root} \cup charged.documents
  BY <1>1, AdvancedDocuments DEF CausesInv
<1>. QED
  BY <1>0, <1>1, <1>5, <1>6, <1>7, QuietCauses

\* Nothing is behind a part, and no assembly has its path.
LEMMA PartsLeadNowhere ==
    ASSUME world \in Worlds, NEW k \in AssemblyOutputs, NEW o, FoundAt(k, o),
           NEW q \in Active(k)
    PROVE  ~Leads(o.path, q.path) /\ (o.path = q.path => q.kind = "part")
<1>1. PICK r \in Parts(k) : r.path = o.path
  BY DEF FoundAt, Same
<1>2. r \in Reached(k) /\ q \in Reached(k) /\ IsPath(r.path) /\ r.kind = "part"
  BY PartsReached, ActiveReached
<1>3. ASSUME Leads(o.path, q.path) PROVE FALSE
  <2>1. PICK p \in Reached(k) : p.path = r.path /\ Open(p)
    BY <1>1, <1>2, <1>3, Ancestor
  <2>2. p = r
    BY <1>2, <2>1, UniquePosition
  <2>. QED
    BY <1>2, <2>1, <2>2 DEF Open
<1>4. ASSUME o.path = q.path PROVE q.kind = "part"
  <2>1. q = r
    BY <1>1, <1>2, <1>4, UniquePosition
  <2>. QED
    BY <1>2, <2>1
<1>. QED
  BY <1>3, <1>4

\* An occurrence of a part is kept.
LEMMA KeepKeepsCauses ==
    ASSUME world \in Worlds, WalkInv, PlacesInv, CausesInv, KeepOccurrence
    PROVE  CausesInv'
<1>0. PICK k : k = CurrentOutput
  OBVIOUS
<1>1. /\ stage = "expand" /\ stack = <<>> /\ queue # <<>> /\ ~Unexpanded(Head(queue))
      /\ queue' = Tail(queue)
      /\ UNCHANGED <<world, stage, selectedOrder, outputIndex, stack, charged>>
  BY DEF KeepOccurrence, Expanding
<1>2. WalkPlaces /\ WalkOrder
  BY <1>1 DEF PlacesInv
<1>3. Listed(queue) /\ Range(stack) = {}
  BY <1>1, EmptyList DEF WalkInv, ListsInv
<1>4. PICK e : e = Head(queue)
  OBVIOUS
<1>5. Range(queue) = {e} \cup Range(queue')
  BY <1>1, <1>2, <1>3, <1>4, OrderTail DEF WalkOrder
<1>6. FoundAt(k, e)
  <2>1. MetAt(k, e)
    BY <1>0, <1>2, <1>5 DEF WalkPlaces
  <2>2. Met(e) /\ charged.documents \subseteq DOMAIN world.documents
    BY <1>1, <1>5 DEF WalkInv, ListsInv
  <2>3. e.document \in DOMAIN world.documents
    BY <2>2, Worldly DEF Met, IsOccurrence
  <2>. QED
    BY <1>1, <1>4, <2>1, <2>3 DEF MetAt, FoundAt, Parts
<1>7. CurrentList = Range(queue) /\ CurrentList' = Range(queue')
  BY <1>1 DEF CurrentList
<1>8. ASSUME k \in AssemblyOutputs, NEW q \in Active(k)
      PROVE  /\ Later(Range(stack'), CurrentList', q.path)
                  <=> Later(Range(stack), CurrentList, q.path)
             /\ q.kind = "assembly" =>
                  ((\E o \in CurrentList' : o.path = q.path)
                      <=> (\E o \in CurrentList : o.path = q.path))
  <2>1. ~Leads(e.path, q.path) /\ (e.path = q.path => q.kind = "part")
    BY <1>6, <1>8, PartsLeadNowhere
  <2>. QED
    BY <1>1, <1>5, <1>7, <2>1 DEF Later
<1>9. \A f \in Range(stack') : f.document \in {Root} \cup charged.documents
  BY <1>1, <1>3
<1>. QED
  BY <1>0, <1>1, <1>8, <1>9, QuietCauses

-----------------------------------------------------------------------------
(* What the steps that check something check.                               *)
\* Checks find nothing, or the first one that fails.
LEMMA ChecksFindFirst ==
    ASSUME NEW checks, DOMAIN checks \subseteq Nat, \A k \in DOMAIN checks : checks[k][1] # "none"
    PROVE  \/ FirstFailing(checks) = "none" /\ \A k \in DOMAIN checks : ~checks[k][2]
           \/ /\ FirstFailing(checks) # "none"
              /\ \E k \in DOMAIN checks :
                    /\ checks[k][2] /\ FirstFailing(checks) = checks[k][1]
                    /\ \A m \in DOMAIN checks : m < k => ~checks[m][2]
BY FirstFailingCheck, FirstFailingIsFirst

\* The request.
LEMMA BeginChecked ==
    ASSUME Begin
    PROVE  /\ stage = "begin"
           /\ \/ /\ KnownConfiguration(Root, world.configuration)
                 /\ stage' = "select"
                 /\ UNCHANGED <<world, failure, selectedOrder, outputIndex, queue,
                                occurrences, stack, charged>>
              \/ Refuse("configuration") /\ ~KnownConfiguration(Root, world.configuration)
              \/ /\ Refuse("maxSelectedOutputs")
                 /\ Len(world.requested) > Limit("maxSelectedOutputs")
              \/ Refuse("output") /\ world.requested = <<>>
<1> DEFINE checks == <<
            <<"configuration", ~KnownConfiguration(Root, world.configuration)>>,
            <<"maxSelectedOutputs",
              Len(world.requested) > Limit("maxSelectedOutputs")>>,
            <<"output", world.requested = <<>>>> >>
<1>1. stage = "begin"
  BY DEF Begin
<1>2. DOMAIN checks = 1 .. 3 /\ DOMAIN checks \subseteq Nat
  OBVIOUS
<1>3. /\ checks[1][1] = "configuration" /\ checks[2][1] = "maxSelectedOutputs"
      /\ checks[3][1] = "output"
  OBVIOUS
<1>4. /\ checks[1][2] <=> ~KnownConfiguration(Root, world.configuration)
      /\ checks[2][2] <=> Len(world.requested) > Limit("maxSelectedOutputs")
      /\ checks[3][2] <=> world.requested = <<>>
  OBVIOUS
<1>5. \/ FirstFailing(checks) # "none" /\ Refuse(FirstFailing(checks))
      \/ /\ FirstFailing(checks) = "none" /\ stage' = "select"
         /\ UNCHANGED <<world, failure, selectedOrder, outputIndex, queue,
                        occurrences, stack, charged>>
  BY DEF Begin
<1> HIDE DEF checks
<1>6. \A k \in DOMAIN checks : checks[k][1] # "none"
  BY <1>2, <1>3
<1>7. CASE FirstFailing(checks) = "none" /\ \A k \in DOMAIN checks : ~checks[k][2]
  BY <1>1, <1>2, <1>4, <1>5, <1>7
<1>8. ASSUME NEW k \in DOMAIN checks, checks[k][2], FirstFailing(checks) = checks[k][1]
      PROVE  \/ Refuse("configuration") /\ ~KnownConfiguration(Root, world.configuration)
             \/ /\ Refuse("maxSelectedOutputs")
                /\ Len(world.requested) > Limit("maxSelectedOutputs")
             \/ Refuse("output") /\ world.requested = <<>>
  <2>1. Refuse(checks[k][1])
    BY <1>5, <1>6, <1>8
  <2>2. k = 1 \/ k = 2 \/ k = 3
    BY <1>2
  <2>. QED
    BY <1>3, <1>4, <1>8, <2>1, <2>2, Zenon
<1>. QED
  BY <1>1, <1>2, <1>6, <1>7, <1>8, ChecksFindFirst

\* What counts when the next requested output, which is no assembly, is selected.
AfterSelection ==
    IF Reference.kind = "part"
    THEN [charged EXCEPT !.parts = @ \cup {LocalPart(Reference.node, world.configuration)}]
    ELSE charged

\* A direct output.
LEMMA DirectChecked ==
    ASSUME SelectDirect
    PROVE  LET known == Has(Document(Root).outputs, Name)
               usable == known /\ world.mode = "product" /\ Sound(Root, Name)
           IN /\ Selecting /\ (known => ~IsAssemblyOutput(Root, Name))
              /\ \/ /\ usable /\ charged' = AfterSelection
                    /\ selectedOrder' = Append(selectedOrder, Selection(<<>>))
                    /\ UNCHANGED <<world, stage, failure, outputIndex, queue, occurrences,
                                   stack>>
                 \/ Refuse("output") /\ ~known
                 \/ Refuse("unsupported") /\ ~usable
                 \/ /\ Refuse("maxContextualParts") /\ usable
                    /\ Cardinality(AfterSelection.parts) > Limit("maxContextualParts")
<1> DEFINE known == Has(Document(Root).outputs, Name)
           usable == known /\ world.mode = "product" /\ Sound(Root, Name)
           after == IF usable /\ Reference.kind = "part"
                    THEN [charged EXCEPT !.parts = @ \cup
                            {LocalPart(Reference.node, world.configuration)}]
                    ELSE charged
           checks == <<
               <<"output", ~known>>,
               <<"unsupported", ~usable>>,
               <<"maxContextualParts", Exceeded(after, "maxContextualParts")>> >>
<1>1. Selecting /\ (known => ~IsAssemblyOutput(Root, Name))
  BY DEF SelectDirect
<1>2. DOMAIN checks = 1 .. 3 /\ DOMAIN checks \subseteq Nat
  OBVIOUS
<1>3. /\ checks[1][1] = "output" /\ checks[2][1] = "unsupported"
      /\ checks[3][1] = "maxContextualParts"
  OBVIOUS
<1>4. /\ checks[1][2] <=> ~known
      /\ checks[2][2] <=> ~usable
      /\ checks[3][2] <=> Exceeded(after, "maxContextualParts")
  OBVIOUS
<1>5. \/ FirstFailing(checks) # "none" /\ Refuse(FirstFailing(checks))
      \/ /\ FirstFailing(checks) = "none"
         /\ selectedOrder' = Append(selectedOrder, Selection(<<>>))
         /\ charged' = after
         /\ UNCHANGED <<world, stage, failure, outputIndex, queue, occurrences, stack>>
  BY DEF SelectDirect
<1>6. usable => after = AfterSelection
  BY DEF AfterSelection
<1>7. Exceeded(after, "maxContextualParts") <=>
         Cardinality(after.parts) > Limit("maxContextualParts")
  BY DEF Exceeded
<1> HIDE DEF checks, known, usable, after
<1>8. \A k \in DOMAIN checks : checks[k][1] # "none"
  BY <1>2, <1>3
<1>9. CASE FirstFailing(checks) = "none" /\ \A k \in DOMAIN checks : ~checks[k][2]
  <2>1. /\ usable /\ charged' = AfterSelection
        /\ selectedOrder' = Append(selectedOrder, Selection(<<>>))
        /\ UNCHANGED <<world, stage, failure, outputIndex, queue, occurrences, stack>>
    BY <1>2, <1>4, <1>5, <1>6, <1>9
  <2>. QED
    BY <1>1, <2>1 DEF known, usable
<1>10. ASSUME NEW k \in DOMAIN checks, checks[k][2], FirstFailing(checks) = checks[k][1],
              \A m \in DOMAIN checks : m < k => ~checks[m][2]
       PROVE  \/ Refuse("output") /\ ~known
              \/ Refuse("unsupported") /\ ~usable
              \/ /\ Refuse("maxContextualParts") /\ usable
                 /\ Cardinality(AfterSelection.parts) > Limit("maxContextualParts")
  <2>1. Refuse(checks[k][1])
    BY <1>5, <1>8, <1>10
  <2>2. CASE k = 1
    BY <1>3, <1>4, <1>10, <2>1, <2>2, Zenon
  <2>3. CASE k = 2
    BY <1>3, <1>4, <1>10, <2>1, <2>3, Zenon
  <2>4. CASE k = 3
    <3>1. usable
      BY <1>2, <1>4, <1>10, <2>4
    <3>. QED
      BY <1>3, <1>4, <1>6, <1>7, <1>10, <2>1, <2>4, <3>1, Zenon
  <2>. QED
    BY <1>2, <2>2, <2>3, <2>4
<1>11. \/ /\ usable /\ charged' = AfterSelection
          /\ selectedOrder' = Append(selectedOrder, Selection(<<>>))
          /\ UNCHANGED <<world, stage, failure, outputIndex, queue, occurrences, stack>>
       \/ Refuse("output") /\ ~known
       \/ Refuse("unsupported") /\ ~usable
       \/ /\ Refuse("maxContextualParts") /\ usable
          /\ Cardinality(AfterSelection.parts) > Limit("maxContextualParts")
  <2>1. \/ FirstFailing(checks) = "none" /\ \A k \in DOMAIN checks : ~checks[k][2]
        \/ \E k \in DOMAIN checks :
              /\ checks[k][2] /\ FirstFailing(checks) = checks[k][1]
              /\ \A m \in DOMAIN checks : m < k => ~checks[m][2]
    BY <1>2, <1>8, ChecksFindFirst
  <2>2. CASE FirstFailing(checks) = "none" /\ \A k \in DOMAIN checks : ~checks[k][2]
    BY <1>2, <1>4, <1>5, <1>6, <2>2
  <2>. QED
    BY <1>10, <2>1, <2>2
<1>. QED
  BY <1>1, <1>11 DEF known, usable

\* An assembly output.
LEMMA StartChecked ==
    ASSUME StartAssembly
    PROVE  LET after == Scanning(Root, Reference.node)
           IN /\ Selecting /\ Has(Document(Root).outputs, Name) /\ IsAssemblyOutput(Root, Name)
              /\ \/ /\ ~(Limit("maxAssemblyDepth") < 1)
                    /\ ~(after.scanned > Limit("maxScannedInstances"))
                    /\ stage' = "walk" /\ charged' = after
                    /\ stack' = <<Frame(Root, Nothing, Reference.node,
                                        world.configuration, <<>>, {}, 1)>>
                    /\ UNCHANGED <<world, failure, selectedOrder, outputIndex, queue,
                                   occurrences>>
                 \/ Refuse("maxAssemblyDepth") /\ Limit("maxAssemblyDepth") < 1
                 \/ /\ Refuse("maxScannedInstances")
                    /\ after.scanned > Limit("maxScannedInstances")
<1> DEFINE after == Scanning(Root, Reference.node)
           checks == <<
               <<"maxAssemblyDepth", Limit("maxAssemblyDepth") < 1>>,
               <<"maxScannedInstances", Exceeded(after, "maxScannedInstances")>> >>
           frame == Frame(Root, Nothing, Reference.node, world.configuration, <<>>, {}, 1)
<1>1. Selecting /\ Has(Document(Root).outputs, Name) /\ IsAssemblyOutput(Root, Name)
  BY DEF StartAssembly
<1>2. DOMAIN checks = 1 .. 2 /\ DOMAIN checks \subseteq Nat
  OBVIOUS
<1>3. checks[1][1] = "maxAssemblyDepth" /\ checks[2][1] = "maxScannedInstances"
  OBVIOUS
<1>4. /\ checks[1][2] <=> Limit("maxAssemblyDepth") < 1
      /\ checks[2][2] <=> Exceeded(after, "maxScannedInstances")
  OBVIOUS
<1>5. \/ FirstFailing(checks) # "none" /\ Refuse(FirstFailing(checks))
      \/ /\ FirstFailing(checks) = "none"
         /\ stage' = "walk" /\ stack' = <<frame>> /\ charged' = after
         /\ UNCHANGED <<world, failure, selectedOrder, outputIndex, queue, occurrences>>
  BY DEF StartAssembly
<1>6. Exceeded(after, "maxScannedInstances") <=> after.scanned > Limit("maxScannedInstances")
  BY DEF Exceeded
<1> HIDE DEF checks, after, frame
<1>7. \A k \in DOMAIN checks : checks[k][1] # "none"
  BY <1>2, <1>3
<1>8. ASSUME NEW k \in DOMAIN checks, checks[k][2], FirstFailing(checks) = checks[k][1]
      PROVE  \/ Refuse("maxAssemblyDepth") /\ Limit("maxAssemblyDepth") < 1
             \/ /\ Refuse("maxScannedInstances")
                /\ after.scanned > Limit("maxScannedInstances")
  <2>1. Refuse(checks[k][1])
    BY <1>5, <1>7, <1>8
  <2>2. k = 1 \/ k = 2
    BY <1>2
  <2>. QED
    BY <1>3, <1>4, <1>6, <1>8, <2>1, <2>2, Zenon
<1>9. \/ /\ ~(Limit("maxAssemblyDepth") < 1)
         /\ ~(after.scanned > Limit("maxScannedInstances"))
         /\ stage' = "walk" /\ charged' = after /\ stack' = <<frame>>
         /\ UNCHANGED <<world, failure, selectedOrder, outputIndex, queue, occurrences>>
      \/ Refuse("maxAssemblyDepth") /\ Limit("maxAssemblyDepth") < 1
      \/ Refuse("maxScannedInstances") /\ after.scanned > Limit("maxScannedInstances")
  <2>1. \/ FirstFailing(checks) = "none" /\ \A k \in DOMAIN checks : ~checks[k][2]
        \/ \E k \in DOMAIN checks : checks[k][2] /\ FirstFailing(checks) = checks[k][1]
    BY <1>2, <1>7, ChecksFindFirst
  <2>2. CASE FirstFailing(checks) = "none" /\ \A k \in DOMAIN checks : ~checks[k][2]
    BY <1>2, <1>4, <1>5, <1>6, <2>2
  <2>. QED
    BY <1>8, <2>1, <2>2
<1>. QED
  BY <1>1, <1>9 DEF after, frame

\* An external assembly that is expanded.
LEMMA ExternalChecked ==
    ASSUME EnterExternal
    PROVE  LET o == Head(queue)
               d == o.document
               node == Document(d).outputs[o.output].node
               usable == Has(Document(d).outputs, o.output) /\ IsAssemblyOutput(d, o.output)
               resolvable == KnownConfiguration(d, o.configuration)
               after == Scanning(d, node)
           IN /\ stage = "expand" /\ stack = <<>> /\ queue # <<>> /\ Unexpanded(o)
              /\ \/ /\ usable /\ resolvable
                    /\ ~(after.scanned > Limit("maxScannedInstances"))
                    /\ stack' = <<Frame(d, o.output, node, o.configuration, o.path, {},
                                        o.depth)>>
                    /\ charged' = after /\ queue' = Tail(queue)
                    /\ UNCHANGED <<world, stage, failure, selectedOrder, outputIndex,
                                   occurrences>>
                 \/ \E reason \in {"output", "unsupported", "configuration"} :
                       Refuse(reason) /\ ~(usable /\ resolvable)
                 \/ /\ Refuse("maxScannedInstances") /\ usable /\ resolvable
                    /\ after.scanned > Limit("maxScannedInstances")
<1> DEFINE o == Head(queue)
           d == o.document
           known == Has(Document(d).outputs, o.output)
           node == Document(d).outputs[o.output].node
           usable == known /\ IsAssemblyOutput(d, o.output)
           resolvable == KnownConfiguration(d, o.configuration)
           after == Scanning(d, node)
           checks == <<
               <<"output", ~known>>,
               <<"unsupported", ~usable>>,
               <<"configuration", ~resolvable>>,
               <<"maxScannedInstances",
                 usable /\ Exceeded(after, "maxScannedInstances")>> >>
           frame == Frame(d, o.output, node, o.configuration, o.path, {}, o.depth)
<1>1. stage = "expand" /\ stack = <<>> /\ queue # <<>> /\ Unexpanded(o)
  BY DEF EnterExternal, Expanding
<1>2. DOMAIN checks = 1 .. 4 /\ DOMAIN checks \subseteq Nat
  OBVIOUS
<1>3. /\ checks[1][1] = "output" /\ checks[2][1] = "unsupported"
      /\ checks[3][1] = "configuration" /\ checks[4][1] = "maxScannedInstances"
  OBVIOUS
<1>4. /\ checks[1][2] <=> ~known
      /\ checks[2][2] <=> ~usable
      /\ checks[3][2] <=> ~resolvable
      /\ checks[4][2] <=> usable /\ Exceeded(after, "maxScannedInstances")
  OBVIOUS
<1>5. \/ FirstFailing(checks) # "none" /\ Refuse(FirstFailing(checks))
      \/ /\ FirstFailing(checks) = "none"
         /\ stack' = <<frame>> /\ charged' = after /\ queue' = Tail(queue)
         /\ UNCHANGED <<world, stage, failure, selectedOrder, outputIndex, occurrences>>
  BY DEF EnterExternal
<1>6. Exceeded(after, "maxScannedInstances") <=> after.scanned > Limit("maxScannedInstances")
  BY DEF Exceeded
<1>10. usable => known
  OBVIOUS
<1> HIDE DEF checks, after, frame, usable, resolvable, known, node, d, o
<1>7. \A k \in DOMAIN checks : checks[k][1] # "none"
  BY <1>2, <1>3
<1>8. ASSUME NEW k \in DOMAIN checks, checks[k][2], FirstFailing(checks) = checks[k][1],
             \A m \in DOMAIN checks : m < k => ~checks[m][2]
      PROVE  \/ \E reason \in {"output", "unsupported", "configuration"} :
                   Refuse(reason) /\ ~(usable /\ resolvable)
             \/ /\ Refuse("maxScannedInstances") /\ usable /\ resolvable
                /\ after.scanned > Limit("maxScannedInstances")
  <2>1. Refuse(checks[k][1])
    BY <1>5, <1>7, <1>8
  <2>2. CASE k = 4
    <3>1. usable /\ resolvable
      BY <1>2, <1>4, <1>8, <2>2
    <3>. QED
      BY <1>3, <1>4, <1>6, <1>8, <2>1, <2>2, <3>1, Zenon
  <2>3. CASE k \in 1 .. 3
    <3>1. checks[k][1] \in {"output", "unsupported", "configuration"}
      BY <1>3, <2>3
    <3>2. ~(usable /\ resolvable)
      BY <1>4, <1>8, <1>10, <2>3
    <3>. QED
      BY <2>1, <3>1, <3>2, Zenon
  <2>. QED
    BY <1>2, <2>2, <2>3
<1>9. \/ /\ usable /\ resolvable /\ ~(after.scanned > Limit("maxScannedInstances"))
         /\ stack' = <<frame>> /\ charged' = after /\ queue' = Tail(queue)
         /\ UNCHANGED <<world, stage, failure, selectedOrder, outputIndex, occurrences>>
      \/ \E reason \in {"output", "unsupported", "configuration"} :
            Refuse(reason) /\ ~(usable /\ resolvable)
      \/ /\ Refuse("maxScannedInstances") /\ usable /\ resolvable
         /\ after.scanned > Limit("maxScannedInstances")
  <2>1. \/ FirstFailing(checks) = "none" /\ \A k \in DOMAIN checks : ~checks[k][2]
        \/ \E k \in DOMAIN checks :
              /\ checks[k][2] /\ FirstFailing(checks) = checks[k][1]
              /\ \A m \in DOMAIN checks : m < k => ~checks[m][2]
    BY <1>2, <1>7, ChecksFindFirst
  <2>2. CASE FirstFailing(checks) = "none" /\ \A k \in DOMAIN checks : ~checks[k][2]
    BY <1>2, <1>4, <1>5, <1>6, <2>2
  <2>. QED
    BY <1>8, <2>1, <2>2
<1>. QED
  BY <1>1, <1>9 DEF after, frame, usable, resolvable, known, node, d, o

-----------------------------------------------------------------------------
(* Steps from one output to another.                                        *)
\* Nothing is visited or entered if nothing else is still to come in any output.
LEMMA SameVisits ==
    ASSUME world' = world, Started' = Started,
           \A k \in Started : \A q \in Active(k) :
              /\ Later(FramesOf(k)', ListOf(k)', q.path) <=> Later(FramesOf(k), ListOf(k), q.path)
              /\ q.kind = "assembly" =>
                    ((\E o \in ListOf(k)' : o.path = q.path)
                        <=> (\E o \in ListOf(k) : o.path = q.path))
    PROVE  Passed' = Passed /\ Entered' = Entered
<1>1. Places' = Places
  BY SameAmounts
<1>2. ASSUME NEW x \in Places, x[1] \in Started
      PROVE  /\ Later(FramesOf(x[1])', ListOf(x[1])', x[2].path)
                   <=> Later(FramesOf(x[1]), ListOf(x[1]), x[2].path)
             /\ x[2].kind = "assembly" =>
                   ((\E o \in ListOf(x[1])' : o.path = x[2].path)
                       <=> (\E o \in ListOf(x[1]) : o.path = x[2].path))
  <2>1. x[2] \in Active(x[1])
    BY PlaceOf
  <2>2. PICK k : k = x[1]
    OBVIOUS
  <2>3. PICK q : q = x[2]
    OBVIOUS
  <2>4. k \in Started /\ q \in Active(k)
    BY <1>2, <2>1, <2>2, <2>3
  <2>5. /\ Later(FramesOf(k)', ListOf(k)', q.path) <=> Later(FramesOf(k), ListOf(k), q.path)
        /\ q.kind = "assembly" =>
              ((\E o \in ListOf(k)' : o.path = q.path)
                  <=> (\E o \in ListOf(k) : o.path = q.path))
    BY <2>4
  <2>. QED
    BY <2>2, <2>3, <2>5
<1>3. Passed' = Passed
  BY <1>1, <1>2 DEF Passed
<1>4. Entered' = Entered
  <2>1. \A x \in Passed : x \in Places /\ x[1] \in Started
    BY DEF Passed
  <2>. QED
    BY <1>2, <1>3, <2>1 DEF Entered
<1>. QED
  BY <1>3, <1>4

\* What the selected outputs refer to depends on the request alone.
LEMMA OutputsKept ==
    ASSUME OutputsInv, SelectedInv, SelectedInv', UNCHANGED <<world, charged>>, stage # "begin",
           DOMAIN selectedOrder' = DOMAIN selectedOrder,
           stack = <<>>, stack' = <<>>,
           stage' = "traversed" => charged.documents \subseteq DOMAIN world.documents
    PROVE  OutputsInv'
<1>1. KnownConfiguration(Root, world.configuration)' <=> KnownConfiguration(Root, world.configuration)
  BY DEF KnownConfiguration, Has, Document
<1>2. AssemblyOutputs' = AssemblyOutputs
  BY SameAmounts
<1>3. \A k \in DOMAIN selectedOrder :
         /\ selectedOrder'[k].kind = selectedOrder[k].kind
         /\ selectedOrder'[k].node = selectedOrder[k].node
  <2>1. ASSUME NEW k \in DOMAIN selectedOrder
        PROVE  /\ selectedOrder[k].node = Document(Root).outputs[world.requested[k]].node
               /\ selectedOrder[k].kind = Document(Root).outputs[world.requested[k]].kind
    BY DEF SelectedInv
  <2>2. ASSUME NEW k \in DOMAIN selectedOrder'
        PROVE  /\ selectedOrder'[k].node = Document(Root).outputs[world.requested[k]].node
               /\ selectedOrder'[k].kind = Document(Root).outputs[world.requested[k]].kind
    BY DEF SelectedInv, Document
  <2>. QED
    BY <2>1, <2>2
<1>4. Range(stack') = {}
  BY EmptyList
<1>. QED
  BY <1>1, <1>2, <1>3, <1>4 DEF OutputsInv, LocalPart

\* The request is checked before anything is selected.
LEMMA BeginKeepsCauses ==
    ASSUME world \in Worlds, WalkInv, CausesInv, Begin, stage' # "failed"
    PROVE  CausesInv'
<1>1. /\ stage = "begin" /\ stage' = "select"
      /\ KnownConfiguration(Root, world.configuration)
      /\ UNCHANGED <<world, selectedOrder, outputIndex, queue, occurrences, stack, charged>>
  BY BeginChecked DEF Refuse
<1>2. selectedOrder = <<>> /\ DOMAIN selectedOrder = {} /\ stack = <<>>
  BY <1>1 DEF WalkInv, ListsInv
<1>3. Started = {} /\ Started' = {}
  BY <1>1, <1>2 DEF Started
<1>4. Passed' = Passed /\ Entered' = Entered
  BY <1>1, <1>3, SameVisits
<1>5. ChargedInv' /\ WithinInv' /\ FaultsInv'
  BY <1>1, <1>3, <1>4, ChargesKept DEF CausesInv
<1>6. OutputsInv'
  <2>1. KnownConfiguration(Root, world.configuration)'
    BY <1>1 DEF KnownConfiguration, Has, Document
  <2>. QED
    BY <1>1, <1>2, <2>1, EmptyList DEF OutputsInv
<1>. QED
  BY <1>5, <1>6 DEF CausesInv

\* The next requested output, and what is selected with it.
LEMMA NextSelected ==
    ASSUME world \in Worlds, WalkInv, stage \in {"select", "walk"},
           Len(selectedOrder) < Len(world.requested)
    PROVE  LET n == Len(selectedOrder) + 1
           IN /\ n \in Nat /\ n \notin DOMAIN selectedOrder /\ n \in DOMAIN world.requested
              /\ Name = world.requested[n]
              /\ DOMAIN selectedOrder = 1 .. Len(selectedOrder)
              /\ Listed(selectedOrder)
              /\ n \in AssemblyOutputs <=>
                    Has(Document(Root).outputs, Name) /\ IsAssemblyOutput(Root, Name)
<1>1. Listed(selectedOrder) /\ Listed(world.requested)
  BY Worldly DEF WalkInv, SelectedInv
<1>2. /\ Len(selectedOrder) \in Nat /\ DOMAIN selectedOrder = 1 .. Len(selectedOrder)
      /\ Len(world.requested) \in Nat /\ DOMAIN world.requested = 1 .. Len(world.requested)
  BY <1>1, Lists
<1>. QED
  BY <1>1, <1>2 DEF Name, AssemblyOutputs

\* A direct output has no positions.
LEMMA SelectDirectKeepsCauses ==
    ASSUME world \in Worlds, WalkInv, CausesInv, SelectDirect, stage' # "failed"
    PROVE  CausesInv'
<1>1. /\ Selecting /\ Has(Document(Root).outputs, Name) /\ ~IsAssemblyOutput(Root, Name)
      /\ world.mode = "product" /\ charged' = AfterSelection
      /\ selectedOrder' = Append(selectedOrder, Selection(<<>>))
      /\ UNCHANGED <<world, stage, outputIndex, queue, occurrences, stack>>
  BY DirectChecked DEF Refuse
<1>2. /\ stage = "select" /\ stack = <<>> /\ Len(selectedOrder) < Len(world.requested)
  BY <1>1 DEF WalkInv, ListsInv, Selecting
<1>3. PICK n : n = Len(selectedOrder) + 1
  OBVIOUS
<1>4. /\ n \in Nat /\ n \notin DOMAIN selectedOrder /\ n \notin AssemblyOutputs
      /\ Listed(selectedOrder) /\ DOMAIN selectedOrder = 1 .. Len(selectedOrder)
  BY <1>1, <1>2, <1>3, NextSelected
<1>5. PICK s : s = Selection(<<>>)
  OBVIOUS
<1>6. /\ DOMAIN selectedOrder' = DOMAIN selectedOrder \cup {n}
      /\ \A k \in DOMAIN selectedOrder : selectedOrder'[k] = selectedOrder[k]
      /\ selectedOrder'[n] = s
  <2>1. selectedOrder' = Append(selectedOrder, s)
    BY <1>1, <1>5
  <2>2. /\ DOMAIN selectedOrder' = 1 .. Len(selectedOrder) + 1
        /\ Len(selectedOrder) \in Nat
        /\ \A k \in DOMAIN selectedOrder : selectedOrder'[k] = selectedOrder[k]
        /\ selectedOrder'[Len(selectedOrder) + 1] = s
    BY <1>4, <2>1, AppendedRange
  <2>. QED
    BY <1>3, <1>4, <2>2
<1>7. Started' = Started /\ \A k \in Started : k \in DOMAIN selectedOrder
  BY <1>1, <1>2, <1>4, <1>6, SameAmounts DEF Started
<1>8. ASSUME NEW k \in Started
      PROVE  FramesOf(k)' = FramesOf(k) /\ ListOf(k)' = ListOf(k)
  <2>1. ListOf(k)' = ListOf(k)
    BY <1>1, <1>2, <1>6, <1>7 DEF ListOf
  <2>2. FramesOf(k)' = FramesOf(k)
    BY <1>1, <1>2, EmptyList DEF FramesOf, CurrentOutput
  <2>. QED
    BY <2>1, <2>2
<1>9. Passed' = Passed /\ Entered' = Entered
  <2>1. ASSUME NEW k \in Started, NEW q \in Active(k)
        PROVE  /\ Later(FramesOf(k)', ListOf(k)', q.path)
                     <=> Later(FramesOf(k), ListOf(k), q.path)
               /\ q.kind = "assembly" =>
                     ((\E o \in ListOf(k)' : o.path = q.path)
                         <=> (\E o \in ListOf(k) : o.path = q.path))
    BY <1>8
  <2>. QED
    BY <1>1, <1>7, <2>1, SameVisits
<1>10. /\ charged'.active = charged.active /\ charged'.placements = charged.placements
       /\ charged'.segments = charged.segments /\ charged'.scanned = charged.scanned
       /\ charged'.documents = charged.documents
       /\ charged.parts \subseteq charged'.parts
       /\ Reference.kind = "part" =>
             LocalPart(Reference.node, world.configuration) \in charged'.parts
  <2>1. charged = [scanned |-> charged.scanned, active |-> charged.active,
                  placements |-> charged.placements, segments |-> charged.segments,
                  parts |-> charged.parts, documents |-> charged.documents]
    BY DEF WalkInv, CountersInv
  <2>2. PICK key : key = LocalPart(Reference.node, world.configuration)
    OBVIOUS
  <2>. QED
    BY <1>1, <2>1, <2>2 DEF AfterSelection
<1>11. ChargedInv' /\ WithinInv' /\ FaultsInv'
  BY <1>1, <1>7, <1>9, <1>10, ChargesKept DEF CausesInv
<1>12. OutputsInv'
  <2>1. /\ KnownConfiguration(Root, world.configuration)
        /\ \A k \in DOMAIN selectedOrder :
              /\ world.mode = "product" \/ k \in AssemblyOutputs
              /\ selectedOrder[k].kind = "part" =>
                    LocalPart(selectedOrder[k].node, world.configuration) \in charged.parts
    BY <1>2 DEF CausesInv, OutputsInv
  <2>2. KnownConfiguration(Root, world.configuration)'
    BY <1>1, <2>1 DEF KnownConfiguration, Has, Document
  <2>3. s.node = Reference.node /\ s.kind = Reference.kind
    BY <1>5 DEF Selection
  <2>4. Range(stack') = {} /\ stage' = "select"
    BY <1>1, <1>2, EmptyList
  <2>5. \A k \in DOMAIN selectedOrder' :
           /\ world.mode = "product"
           /\ selectedOrder'[k].kind = "part" =>
                 LocalPart(selectedOrder'[k].node, world.configuration) \in charged'.parts
    BY <1>1, <1>6, <1>10, <2>1, <2>3 DEF LocalPart
  <2>. QED
    BY <1>1, <2>2, <2>4, <2>5 DEF OutputsInv, LocalPart
<1>. QED
  BY <1>11, <1>12 DEF CausesInv

\* The occurrences of a requested assembly are selected with it.
LEMMA FinishAssemblyKeepsCauses ==
    ASSUME world \in Worlds, WalkInv, CausesInv, FinishAssembly
    PROVE  CausesInv'
<1>1. /\ stage = "walk" /\ stack = <<>> /\ stage' = "select"
      /\ selectedOrder' = Append(selectedOrder, Selection(occurrences))
      /\ UNCHANGED <<world, outputIndex, queue, stack, charged>>
  BY DEF FinishAssembly
<1>2. /\ Len(selectedOrder) < Len(world.requested)
      /\ Has(Document(Root).outputs, Name) /\ IsAssemblyOutput(Root, Name)
  BY <1>1 DEF WalkInv, ListsInv, Has
<1>3. PICK n : n = Len(selectedOrder) + 1
  OBVIOUS
<1>4. /\ n \in Nat /\ n \notin DOMAIN selectedOrder /\ n \in AssemblyOutputs
      /\ Listed(selectedOrder) /\ DOMAIN selectedOrder = 1 .. Len(selectedOrder)
  BY <1>1, <1>2, <1>3, NextSelected
<1>5. PICK s : s = Selection(occurrences)
  OBVIOUS
<1>6. /\ DOMAIN selectedOrder' = DOMAIN selectedOrder \cup {n}
      /\ \A k \in DOMAIN selectedOrder : selectedOrder'[k] = selectedOrder[k]
      /\ selectedOrder'[n] = s
  <2>1. selectedOrder' = Append(selectedOrder, s)
    BY <1>1, <1>5
  <2>2. /\ DOMAIN selectedOrder' = 1 .. Len(selectedOrder) + 1
        /\ Len(selectedOrder) \in Nat
        /\ \A k \in DOMAIN selectedOrder : selectedOrder'[k] = selectedOrder[k]
        /\ selectedOrder'[Len(selectedOrder) + 1] = s
    BY <1>4, <2>1, AppendedRange
  <2>. QED
    BY <1>3, <1>4, <2>2
<1>7. s.node = Reference.node /\ s.kind = Reference.kind /\ s.occurrences = occurrences
  BY <1>5 DEF Selection
<1>8. Started' = Started /\ \A k \in Started : k \in DOMAIN selectedOrder \/ k = n
  BY <1>1, <1>3, <1>4, <1>6, SameAmounts DEF Started
<1>9. ASSUME NEW k \in Started
      PROVE  FramesOf(k)' = FramesOf(k) /\ ListOf(k)' = ListOf(k)
  <2>1. ListOf(k)' = ListOf(k)
    BY <1>1, <1>3, <1>4, <1>6, <1>7, <1>8 DEF ListOf
  <2>2. FramesOf(k)' = FramesOf(k)
    BY <1>1, EmptyList DEF FramesOf, CurrentOutput
  <2>. QED
    BY <2>1, <2>2
<1>10. Passed' = Passed /\ Entered' = Entered
  <2>1. ASSUME NEW k \in Started, NEW q \in Active(k)
        PROVE  /\ Later(FramesOf(k)', ListOf(k)', q.path)
                     <=> Later(FramesOf(k), ListOf(k), q.path)
               /\ q.kind = "assembly" =>
                     ((\E o \in ListOf(k)' : o.path = q.path)
                         <=> (\E o \in ListOf(k) : o.path = q.path))
    BY <1>9
  <2>. QED
    BY <1>1, <1>8, <2>1, SameVisits
<1>11. ChargedInv' /\ WithinInv' /\ FaultsInv'
  BY <1>1, <1>8, <1>10, ChargesKept DEF CausesInv
<1>12. OutputsInv'
  <2>1. /\ KnownConfiguration(Root, world.configuration)
        /\ \A k \in DOMAIN selectedOrder :
              /\ world.mode = "product" \/ k \in AssemblyOutputs
              /\ selectedOrder[k].kind = "part" =>
                    LocalPart(selectedOrder[k].node, world.configuration) \in charged.parts
    BY <1>1 DEF CausesInv, OutputsInv
  <2>2. KnownConfiguration(Root, world.configuration)'
    BY <1>1, <2>1 DEF KnownConfiguration, Has, Document
  <2>3. s.kind = "assembly"
    BY <1>2, <1>7 DEF IsAssemblyOutput, Reference
  <2>4. Range(stack') = {} /\ stage' = "select" /\ AssemblyOutputs' = AssemblyOutputs
    BY <1>1, EmptyList, SameAmounts
  <2>5. \A k \in DOMAIN selectedOrder' :
           /\ world.mode = "product" \/ k \in AssemblyOutputs
           /\ selectedOrder'[k].kind = "part" =>
                 LocalPart(selectedOrder'[k].node, world.configuration) \in charged.parts
    BY <1>4, <1>6, <2>1, <2>3
  <2>. QED
    BY <1>1, <2>2, <2>4, <2>5 DEF OutputsInv, LocalPart
<1>. QED
  BY <1>11, <1>12 DEF CausesInv

\* What some places count for is a number, and no more than the total.
LEMMA AmountsAreNumbers ==
    ASSUME world \in Worlds, NEW P \in SUBSET Places, NEW S \in SUBSET AssemblyOutputs,
           NEW E \in SUBSET Places
    PROVE  /\ Amount(Ones, P) \in Nat /\ Amount(Operations, P) \in Nat
           /\ Amount(Segments, P) \in Nat /\ Amount(Scans, E) \in Nat
           /\ Amount(StartScans, S) \in Nat
           /\ Total("maxActiveOccurrences") \in Nat /\ Total("maxPlacementOperations") \in Nat
           /\ Total("maxOccurrencePathSegments") \in Nat
           /\ Total("maxScannedInstances") \in Nat
           /\ Amount(Ones, P) <= Total("maxActiveOccurrences")
           /\ Amount(Operations, P) <= Total("maxPlacementOperations")
           /\ Amount(Segments, P) <= Total("maxOccurrencePathSegments")
           /\ Amount(StartScans, S) + Amount(Scans, E) <= Total("maxScannedInstances")
<1>1. IsFiniteSet(Places) /\ IsFiniteSet(AssemblyOutputs)
  BY PlacesFinite, FiniteRequest
<1>2. /\ \A x \in Places : /\ Ones[x] \in Nat /\ Operations[x] \in Nat
                           /\ Segments[x] \in Nat /\ Scans[x] \in Nat
      /\ \A k \in AssemblyOutputs : StartScans[k] \in Nat
  BY NumbersOfPlaces
<1>3. /\ Amount(Ones, P) \in Nat /\ Amount(Ones, Places) \in Nat
      /\ Amount(Ones, P) <= Amount(Ones, Places)
  BY <1>1, <1>2, AmountGrows
<1>4. /\ Amount(Operations, P) \in Nat /\ Amount(Operations, Places) \in Nat
      /\ Amount(Operations, P) <= Amount(Operations, Places)
  BY <1>1, <1>2, AmountGrows
<1>5. /\ Amount(Segments, P) \in Nat /\ Amount(Segments, Places) \in Nat
      /\ Amount(Segments, P) <= Amount(Segments, Places)
  BY <1>1, <1>2, AmountGrows
<1>6. /\ Amount(Scans, E) \in Nat /\ Amount(Scans, Places) \in Nat
      /\ Amount(Scans, E) <= Amount(Scans, Places)
  BY <1>1, <1>2, AmountGrows
<1>7. /\ Amount(StartScans, S) \in Nat /\ Amount(StartScans, AssemblyOutputs) \in Nat
      /\ Amount(StartScans, S) <= Amount(StartScans, AssemblyOutputs)
  BY <1>1, <1>2, AmountGrows
<1>8. /\ Total("maxActiveOccurrences") = Amount(Ones, Places)
      /\ Total("maxPlacementOperations") = Amount(Operations, Places)
      /\ Total("maxOccurrencePathSegments") = Amount(Segments, Places)
      /\ Total("maxScannedInstances") =
            Amount(StartScans, AssemblyOutputs) + Amount(Scans, Places)
  BY CountableTotals
<1>9. /\ Total("maxScannedInstances") \in Nat
      /\ Amount(StartScans, S) + Amount(Scans, E) <= Total("maxScannedInstances")
  BY <1>6, <1>7, <1>8
<1>. QED
  BY <1>3, <1>4, <1>5, <1>6, <1>7, <1>8, <1>9

\* What was visited and entered is among the places.
LEMMA VisitedPlaces ==
    Passed \subseteq Places /\ Entered \subseteq Passed /\ Started \subseteq AssemblyOutputs
BY DEF Passed, Entered, Started

\* The expansion begins with the first output.
LEMMA AdmitKeepsCauses ==
    ASSUME world \in Worlds, WalkInv, CausesInv, AdmitDocuments, stage' # "failed"
    PROVE  CausesInv'
<1>1. /\ stage = "select" /\ stage' = "expand" /\ outputIndex' = 1
      /\ queue' = selectedOrder[1].occurrences
      /\ UNCHANGED <<world, selectedOrder, occurrences, stack, charged>>
  BY DEF AdmitDocuments, Refuse
<1>2. stack = <<>> /\ SelectedInv
  BY <1>1 DEF WalkInv, ListsInv
<1>3. Started' = Started
  BY <1>1, SameAmounts DEF Started
<1>4. ASSUME NEW k \in Started
      PROVE  FramesOf(k)' = FramesOf(k) /\ ListOf(k)' = ListOf(k)
  <2>1. ListOf(k)' = ListOf(k)
    BY <1>1 DEF ListOf
  <2>2. FramesOf(k)' = FramesOf(k)
    BY <1>1, <1>2, EmptyList DEF FramesOf, CurrentOutput
  <2>. QED
    BY <2>1, <2>2
<1>5. Passed' = Passed /\ Entered' = Entered
  <2>1. ASSUME NEW k \in Started, NEW q \in Active(k)
        PROVE  /\ Later(FramesOf(k)', ListOf(k)', q.path)
                     <=> Later(FramesOf(k), ListOf(k), q.path)
               /\ q.kind = "assembly" =>
                     ((\E o \in ListOf(k)' : o.path = q.path)
                         <=> (\E o \in ListOf(k) : o.path = q.path))
    BY <1>4
  <2>. QED
    BY <1>1, <1>3, <2>1, SameVisits
<1>6. ChargedInv' /\ WithinInv' /\ FaultsInv'
  BY <1>1, <1>3, <1>5, ChargesKept DEF CausesInv
<1>7. OutputsInv'
  <2>1. SelectedInv'
    BY <1>1, <1>2, Zenon DEF SelectedInv, KindOf, Document
  <2>. QED
    BY <1>1, <1>2, <2>1, OutputsKept DEF CausesInv
<1>. QED
  BY <1>6, <1>7 DEF CausesInv

\* An output is expanded to its parts, with nothing behind them.
LEMMA ExpansionKeepsCauses ==
    ASSUME world \in Worlds, WalkInv, PlacesInv, CausesInv, FinishExpansion
    PROVE  CausesInv'
<1>1. /\ stage = "expand" /\ stack = <<>> /\ queue = <<>>
      /\ selectedOrder' = [selectedOrder EXCEPT ![outputIndex].occurrences = occurrences]
      /\ \/ /\ stage' = "expand" /\ outputIndex' = outputIndex + 1
            /\ outputIndex < Len(selectedOrder)
            /\ queue' = selectedOrder[outputIndex + 1].occurrences
         \/ stage' = "traversed" /\ UNCHANGED <<outputIndex, queue>>
      /\ UNCHANGED <<world, stack, charged>>
  BY DEF FinishExpansion, FinishOutput
<1>2. /\ SelectedInv /\ outputIndex \in DOMAIN selectedOrder /\ Listed(occurrences)
      /\ charged.documents \subseteq DOMAIN world.documents
  BY <1>1 DEF WalkInv, ListsInv
<1>3. WalkPlaces
  BY <1>1 DEF PlacesInv
<1>4. /\ SelectedInv' /\ DOMAIN selectedOrder' = DOMAIN selectedOrder
      /\ DOMAIN selectedOrder = 1 .. Len(selectedOrder) /\ Len(selectedOrder) \in Nat
      /\ \A k \in DOMAIN selectedOrder :
            selectedOrder'[k].occurrences = IF k = outputIndex THEN occurrences
                                            ELSE selectedOrder[k].occurrences
  BY <1>1, <1>2, OutputRewritten
<1>5. outputIndex \in Nat
  BY <1>2, <1>4
<1>6. Started' = Started /\ \A k \in Started : k \in DOMAIN selectedOrder
  BY <1>1, <1>4, SameAmounts DEF Started
<1>7. Range(queue) = {}
  BY <1>1, EmptyList
<1>8. ASSUME NEW k \in Started
      PROVE  /\ FramesOf(k) = {} /\ FramesOf(k)' = {}
             /\ ListOf(k) = IF k = outputIndex THEN {} ELSE Range(selectedOrder[k].occurrences)
             /\ ListOf(k)' = IF k = outputIndex THEN Range(occurrences)
                             ELSE Range(selectedOrder[k].occurrences)
  <2>1. FramesOf(k) = {} /\ FramesOf(k)' = {}
    BY <1>1, EmptyList DEF FramesOf, CurrentOutput
  <2>2. ListOf(k) = IF k = outputIndex THEN {} ELSE Range(selectedOrder[k].occurrences)
    BY <1>1, <1>7 DEF ListOf
  <2>3. k \in DOMAIN selectedOrder
    BY <1>6
  <2>4. CASE stage' = "traversed"
    <3>1. ListOf(k)' = Range(selectedOrder'[k].occurrences)
      BY <2>4 DEF ListOf
    <3>. QED
      BY <1>4, <2>1, <2>2, <2>3, <3>1
  <2>5. CASE stage' = "expand" /\ outputIndex' = outputIndex + 1
             /\ outputIndex < Len(selectedOrder)
             /\ queue' = selectedOrder[outputIndex + 1].occurrences
    <3>1. outputIndex + 1 \in DOMAIN selectedOrder /\ outputIndex + 1 # outputIndex
      BY <1>4, <1>5, <2>5
    <3>2. ListOf(k)' = IF k = outputIndex + 1 THEN Range(queue')
                       ELSE Range(selectedOrder'[k].occurrences)
      BY <2>5 DEF ListOf
    <3>. QED
      BY <1>4, <2>1, <2>2, <2>3, <2>5, <3>1, <3>2
  <2>. QED
    BY <1>1, <2>4, <2>5
<1>9. Passed' = Passed /\ Entered' = Entered
  <2>1. ASSUME NEW k \in Started, NEW q \in Active(k)
        PROVE  /\ Later(FramesOf(k)', ListOf(k)', q.path)
                     <=> Later(FramesOf(k), ListOf(k), q.path)
               /\ q.kind = "assembly" =>
                     ((\E o \in ListOf(k)' : o.path = q.path)
                         <=> (\E o \in ListOf(k) : o.path = q.path))
    <3>1. CASE k # outputIndex
      BY <1>8, <3>1
    <3>2. CASE k = outputIndex
      <4>1. \A o \in Range(occurrences) : FoundAt(k, o)
        BY <1>1, <1>3, <3>2 DEF WalkPlaces, CurrentOutput
      <4>2. k \in AssemblyOutputs
        BY VisitedPlaces
      <4>3. \A o \in Range(occurrences) :
               ~Leads(o.path, q.path) /\ (o.path = q.path => q.kind = "part")
        BY <4>1, <4>2, PartsLeadNowhere
      <4>4. /\ FramesOf(k) = {} /\ FramesOf(k)' = {}
            /\ ListOf(k) = {} /\ ListOf(k)' = Range(occurrences)
        BY <1>8, <3>2
      <4>. QED
        BY <4>3, <4>4 DEF Later
    <3>. QED
      BY <3>1, <3>2
  <2>. QED
    BY <1>1, <1>6, <2>1, SameVisits
<1>10. ChargedInv' /\ WithinInv' /\ FaultsInv'
  BY <1>1, <1>6, <1>9, ChargesKept DEF CausesInv
<1>11. OutputsInv'
  BY <1>1, <1>2, <1>4, OutputsKept DEF CausesInv
<1>. QED
  BY <1>10, <1>11 DEF CausesInv

\* Everything in a requested assembly is still to come when it is entered.
LEMMA StartKeepsCauses ==
    ASSUME world \in Worlds, WalkInv, CausesInv, StartAssembly, stage' # "failed"
    PROVE  CausesInv'
<1>1. PICK frame : frame = Frame(Root, Nothing, Reference.node, world.configuration, <<>>, {}, 1)
  OBVIOUS
<1>2. /\ Selecting /\ Has(Document(Root).outputs, Name) /\ IsAssemblyOutput(Root, Name)
      /\ ~(Limit("maxAssemblyDepth") < 1)
      /\ ~(Scanning(Root, Reference.node).scanned > Limit("maxScannedInstances"))
      /\ stage' = "walk" /\ charged' = Scanning(Root, Reference.node)
      /\ stack' = <<frame>>
      /\ UNCHANGED <<world, selectedOrder, outputIndex, queue, occurrences>>
  <2> HIDE DEF Selecting
  <2>. QED
    BY <1>1, StartChecked, Zenon DEF Refuse
<1>3. /\ stage = "select" /\ stack = <<>> /\ occurrences = <<>>
      /\ Len(selectedOrder) < Len(world.requested)
  BY <1>2 DEF WalkInv, ListsInv, Selecting
<1>4. PICK n : n = Len(selectedOrder) + 1
  OBVIOUS
<1>5. /\ n \in Nat /\ n \notin DOMAIN selectedOrder /\ n \in AssemblyOutputs
      /\ Listed(selectedOrder) /\ DOMAIN selectedOrder = 1 .. Len(selectedOrder)
      /\ Name = world.requested[n]
  BY <1>2, <1>3, <1>4, NextSelected
<1>6. frame.path = <<>> /\ frame.next = 1 /\ frame.document = Root
  BY <1>1 DEF Frame
<1>7. Started' = Started \cup {n} /\ \A k \in Started : k \in DOMAIN selectedOrder /\ k # n
  BY <1>2, <1>3, <1>4, <1>5, SameAmounts DEF Started
<1>8. ASSUME NEW k \in Started
      PROVE  FramesOf(k)' = FramesOf(k) /\ ListOf(k)' = ListOf(k)
  <2>1. ListOf(k)' = ListOf(k)
    BY <1>2, <1>3, <1>4, <1>7 DEF ListOf
  <2>2. FramesOf(k)' = FramesOf(k)
    BY <1>2, <1>3, <1>4, <1>7, EmptyList DEF FramesOf, CurrentOutput
  <2>. QED
    BY <2>1, <2>2
<1>9. ASSUME NEW q \in Active(n)
      PROVE  Later(FramesOf(n)', ListOf(n)', q.path)
  <2>1. IsPath(q.path) /\ Leads(<<>>, q.path)
    <3>1. PathBound \in Nat
      BY WorldsAssumption
    <3>2. PICK m \in 1 .. PathBound : q \in Level(n)[m]
      BY ActiveLevels
    <3>3. IsPath(q.path) /\ Len(q.path) = m
      BY <1>5, <3>1, <3>2, PositionShape
    <3>. QED
      BY <3>2, <3>3 DEF Leads
  <2>2. IsPath(<<>>)
    BY DEF IsPath
  <2>3. Ahead(q.path, frame.path, frame.next)
    BY <1>6, <2>1, <2>2, AheadOfStart
  <2>4. frame \in FramesOf(n)'
    BY <1>2, <1>4 DEF FramesOf, CurrentOutput, Range
  <2>. QED
    BY <2>3, <2>4 DEF Later
<1>10. Passed' = Passed
  <2>1. Places' = Places
    BY <1>2, SameAmounts
  <2>2. ASSUME NEW x \in Places, x[1] = n PROVE x \notin Passed' /\ x \notin Passed
    <3>1. PICK q : q = x[2]
      OBVIOUS
    <3>2. q \in Active(n)
      BY <2>2, <3>1, PlaceOf
    <3>3. Later(FramesOf(x[1])', ListOf(x[1])', x[2].path)
      BY <1>9, <2>2, <3>1, <3>2
    <3>. QED
      BY <1>7, <2>2, <3>3 DEF Passed
  <2>3. ASSUME NEW x \in Places, x[1] # n PROVE x \in Passed' <=> x \in Passed
    <3>1. x[1] \in Started' <=> x[1] \in Started
      BY <1>7, <2>3
    <3>2. x[1] \in Started => FramesOf(x[1])' = FramesOf(x[1]) /\ ListOf(x[1])' = ListOf(x[1])
      BY <1>8
    <3>. QED
      BY <2>1, <3>1, <3>2 DEF Passed
  <2>4. Passed \subseteq Places /\ Passed' \subseteq Places
    BY <2>1 DEF Passed
  <2>. QED
    BY <2>2, <2>3, <2>4
<1>11. Entered' = Entered
  <2>1. \A x \in Passed : x[1] \in Started
    BY DEF Passed
  <2>. QED
    BY <1>8, <1>10, <2>1 DEF Entered
<1>12. /\ charged'.active = charged.active /\ charged'.placements = charged.placements
       /\ charged'.segments = charged.segments /\ charged'.documents = charged.documents
       /\ charged'.parts = charged.parts
       /\ charged'.scanned = charged.scanned + StartScans[n]
  <2>1. charged = [scanned |-> charged.scanned, active |-> charged.active,
                  placements |-> charged.placements, segments |-> charged.segments,
                  parts |-> charged.parts, documents |-> charged.documents]
    BY DEF WalkInv, CountersInv
  <2>2. StartScans[n] = Len(InstancesOf(Root, Reference.node))
    <3>1. PICK p : p = StartOf(n)
      OBVIOUS
    <3>2. p.document = Root /\ p.node = Reference.node
      BY <1>5, <3>1 DEF StartOf, Reference
    <3>3. StartScans[n] = Scanned(p)
      BY <1>5, <3>1 DEF StartScans
    <3>. QED
      BY <3>2, <3>3 DEF Scanned
  <2>3. PICK m : m = Len(InstancesOf(Root, Reference.node))
    OBVIOUS
  <2>4. charged' = [charged EXCEPT !.scanned = @ + m]
    BY <1>2, <2>3 DEF Scanning
  <2>. QED
    BY <2>1, <2>2, <2>3, <2>4
<1>13. /\ Amount(StartScans, Started \cup {n}) = Amount(StartScans, Started) + StartScans[n]
       /\ Amount(StartScans, Started) \in Nat /\ StartScans[n] \in Nat
       /\ Amount(Scans, Entered) \in Nat
  <2>1. IsFiniteSet(AssemblyOutputs) /\ \A k \in AssemblyOutputs : StartScans[k] \in Nat
    BY FiniteRequest, NumbersOfPlaces
  <2>2. n \in AssemblyOutputs \ Started /\ Started \in SUBSET AssemblyOutputs
    BY <1>5, <1>7, VisitedPlaces
  <2>3. Amount(StartScans, Started) \in Nat /\ Amount(Scans, Entered) \in Nat
    BY VisitedPlaces, AmountsAreNumbers
  <2>. QED
    BY <2>1, <2>2, <2>3, AmountAdds
<1>14. ChargedInv'
  <2>1. /\ Ones' = Ones /\ Operations' = Operations /\ Segments' = Segments
        /\ Scans' = Scans /\ StartScans' = StartScans
    BY <1>2, SameAmounts
  <2>2. charged'.scanned = Amount(StartScans, Started') + Amount(Scans, Entered')
    BY <1>7, <1>11, <1>12, <1>13 DEF CausesInv, ChargedInv
  <2>. QED
    BY <1>10, <1>11, <1>12, <2>1, <2>2 DEF CausesInv, ChargedInv, Amount, Units
<1>15. WithinInv'
  <2>1. \A name : Limit(name)' = Limit(name)
    BY <1>2 DEF Limit
  <2>2. Limit("maxAssemblyDepth") \in Nat /\ Limit("maxScannedInstances") \in Nat
    BY LimitsAreNumbers DEF LimitNames
  <2>3. charged'.scanned \in Nat
    BY <1>12, <1>13 DEF CausesInv, ChargedInv
  <2>4. charged'.scanned <= Limit("maxScannedInstances") /\ 1 <= Limit("maxAssemblyDepth")
    BY <1>2, <2>2, <2>3
  <2>. QED
    BY <1>10, <1>12, <2>1, <2>4 DEF CausesInv, WithinInv
<1>16. FaultsInv'
  BY <1>2, <1>10, <1>11 DEF CausesInv, FaultsInv
<1>17. OutputsInv'
  <2>1. Range(stack') = {frame}
    BY <1>2 DEF Range
  <2>. QED
    BY <1>2, <1>3, <1>6, <1>12, <2>1, OutputsUndisturbed DEF CausesInv
<1>. QED
  BY <1>14, <1>15, <1>16, <1>17 DEF CausesInv

-----------------------------------------------------------------------------
(* Steps that visit or enter a position.                                    *)
\* Nothing comes before what it is on the way to, either.
LEMMA NotBehind ==
    ASSUME NEW a, IsPath(a), NEW b, IsPath(b), Leads(a, b) PROVE ~Before(b, a)
<1>1. SUFFICES ASSUME NEW m \in DOMAIN a, b[m] < a[m] PROVE FALSE
  BY DEF Before
<1>2. a[m] = b[m] /\ a[m] \in Nat
  BY PathShape DEF Leads
<1>. QED
  BY <1>1, <1>2

\* No path leads to itself.
LEMMA NeverToItself ==
    ASSUME NEW a, IsPath(a) PROVE ~Leads(a, a)
BY PathShape DEF Leads

\* An external assembly, which was visited when it was met, is entered.
LEMMA EnterExternalKeepsCauses ==
    ASSUME world \in Worlds, WalkInv, PlacesInv, CausesInv, EnterExternal, stage' # "failed"
    PROVE  CausesInv'
<1>0. PICK k : k = CurrentOutput
  OBVIOUS
<1>1. PICK o : o = Head(queue)
  OBVIOUS
<1>2. PICK d : d = o.document
  OBVIOUS
<1>3. PICK node : node = Document(d).outputs[o.output].node
  OBVIOUS
<1>4. PICK frame : frame = Frame(d, o.output, node, o.configuration, o.path, {}, o.depth)
  OBVIOUS
<1>5. /\ stage = "expand" /\ stack = <<>> /\ queue # <<>> /\ Unexpanded(o)
      /\ Has(Document(d).outputs, o.output) /\ IsAssemblyOutput(d, o.output)
      /\ KnownConfiguration(d, o.configuration)
      /\ ~(Scanning(d, node).scanned > Limit("maxScannedInstances"))
      /\ stack' = <<frame>> /\ charged' = Scanning(d, node) /\ queue' = Tail(queue)
      /\ UNCHANGED <<world, stage, selectedOrder, outputIndex, occurrences>>
  BY <1>1, <1>2, <1>3, <1>4, ExternalChecked, Zenon DEF Refuse
<1>6. WalkPlaces /\ WalkOrder
  BY <1>5 DEF PlacesInv
<1>7. Listed(queue) /\ Range(stack) = {}
  BY <1>5, EmptyList DEF WalkInv, ListsInv
<1>8. /\ Range(queue) = {o} \cup Range(queue')
      /\ \A u \in Range(queue') : Before(o.path, u.path)
  BY <1>1, <1>5, <1>6, <1>7, OrderTail DEF WalkOrder
<1>9. d \in DOMAIN world.documents /\ d \in charged.documents
  <2>1. o \in Range(queue)
    BY <1>8
  <2>2. Met(o) /\ charged.documents \subseteq DOMAIN world.documents
    BY <1>5, <2>1 DEF WalkInv, ListsInv
  <2>. QED
    BY <1>2, <1>5, <2>2 DEF Met, Unexpanded
<1>10. \A u \in Range(queue) : MetAt(k, u) /\ IsPath(u.path)
  <2>1. \A u \in Range(queue) : MetAt(k, u)
    BY <1>0, <1>6 DEF WalkPlaces
  <2>. QED
    BY <2>1, PlacesHavePaths
<1>11. PICK q \in Active(k) : Same(q, o) /\ Enterable(q, o)
  BY <1>5, <1>8, <1>10 DEF MetAt
<1>12. /\ q \in Reached(k) /\ k \in AssemblyOutputs /\ IsPath(o.path) /\ q.path = o.path
       /\ q.document = d
  BY <1>2, <1>8, <1>10, <1>11, ActiveReached DEF MetAt, Same
<1>13. Open(q) /\ q.node = node /\ q.kind = "assembly"
  BY <1>2, <1>3, <1>5, <1>9, <1>11 DEF Enterable, Open, Has
<1>14. frame.path = o.path /\ frame.next = 1 /\ frame.document = d
  BY <1>4 DEF Frame
<1>15. Range(stack') = {frame} /\ CurrentList = Range(queue) /\ CurrentList' = Range(queue')
  BY <1>5 DEF Range, CurrentList
<1>16. PICK x : x = <<k, q>>
  OBVIOUS
<1>17. x \in Places /\ x[1] = k /\ x[2] = q
  BY <1>12, <1>16, PlaceAt
<1>18. /\ Started' = Started /\ Places' = Places
       /\ \A y \in Places : y[1] # k =>
             /\ y \in Passed' <=> y \in Passed
             /\ y \in Entered' <=> y \in Entered
       /\ \A y \in Places : y[1] = k =>
             /\ y \in Passed <=> ~Later(Range(stack), CurrentList, y[2].path)
             /\ y \in Passed' <=> ~Later(Range(stack'), CurrentList', y[2].path)
             /\ y \in Entered <=> /\ y \in Passed /\ y[2].kind = "assembly"
                                  /\ \A u \in CurrentList : u.path # y[2].path
             /\ y \in Entered' <=> /\ y \in Passed' /\ y[2].kind = "assembly"
                                   /\ \A u \in CurrentList' : u.path # y[2].path
  BY <1>0, <1>5, InOneOutput
<1>19. ASSUME NEW p \in Active(k)
       PROVE  /\ Later(Range(stack'), CurrentList', p.path)
                    <=> Later(Range(stack), CurrentList, p.path)
              /\ p # q => o.path # p.path
  <2>1. p \in Reached(k) /\ IsPath(p.path)
    BY <1>12, ActiveReached, ReachedShape
  <2>2. Ahead(p.path, frame.path, frame.next) <=> Leads(o.path, p.path)
    BY <1>12, <1>14, <2>1, AheadOfStart DEF Ahead
  <2>3. p # q => o.path # p.path
    BY <1>12, <2>1, UniquePosition
  <2>. QED
    BY <1>7, <1>8, <1>15, <2>2, <2>3 DEF Later
<1>20. Passed' = Passed
  <2>1. ASSUME NEW y \in Places PROVE y \in Passed' <=> y \in Passed
    <3>1. PICK p : p = y[2]
      OBVIOUS
    <3>2. CASE y[1] = k
      <4>1. p \in Active(k)
        BY <3>1, <3>2, PlaceOf
      <4>2. Later(Range(stack'), CurrentList', p.path) <=> Later(Range(stack), CurrentList, p.path)
        BY <1>19, <4>1
      <4>. QED
        BY <1>18, <3>1, <3>2, <4>2
    <3>. QED
      BY <1>18, <3>2
  <2>2. Passed \subseteq Places /\ Passed' \subseteq Places
    BY <1>18 DEF Passed
  <2>. QED
    BY <2>1, <2>2
<1>21. x \in Passed
  <2>1. \A u \in Range(queue) : ~Leads(u.path, o.path)
    <3>1. ~Leads(o.path, o.path)
      BY <1>12, NeverToItself
    <3>2. ASSUME NEW u \in Range(queue') PROVE ~Leads(u.path, o.path)
      BY <1>8, <1>10, <1>12, NotBehind
    <3>. QED
      BY <1>8, <3>1, <3>2
  <2>2. ~Later(Range(stack), CurrentList, q.path)
    BY <1>7, <1>12, <1>15, <2>1 DEF Later
  <2>. QED
    BY <1>17, <1>18, <2>2
<1>22. x \notin Entered /\ x \in Entered'
  <2>1. \A u \in Range(queue') : u.path # o.path
    BY <1>8, <1>12, BeforeIsStrict
  <2>2. o \in Range(queue)
    BY <1>8
  <2>. QED
    BY <1>12, <1>13, <1>15, <1>17, <1>18, <1>20, <1>21, <2>1, <2>2
<1>23. Entered' = Entered \cup {x}
  <2>1. ASSUME NEW y \in Places, y # x PROVE y \in Entered' <=> y \in Entered
    <3>1. CASE y[1] = k
      <4>1. y[2] \in Active(k) /\ y[2] # q
        BY <1>16, <2>1, <3>1, PlaceOf
      <4>2. o.path # y[2].path
        BY <1>19, <4>1
      <4>. QED
        BY <1>8, <1>15, <1>18, <1>20, <3>1, <4>2
    <3>. QED
      BY <1>18, <3>1
  <2>2. Entered \subseteq Places /\ Entered' \subseteq Places
    BY <1>18, <1>20 DEF Entered, Passed
  <2>. QED
    BY <1>22, <2>1, <2>2
<1>24. /\ charged'.active = charged.active /\ charged'.placements = charged.placements
       /\ charged'.segments = charged.segments /\ charged'.documents = charged.documents
       /\ charged'.parts = charged.parts
       /\ charged'.scanned = charged.scanned + Scans[x]
  <2>1. charged = [scanned |-> charged.scanned, active |-> charged.active,
                  placements |-> charged.placements, segments |-> charged.segments,
                  parts |-> charged.parts, documents |-> charged.documents]
    BY DEF WalkInv, CountersInv
  <2>2. Scans[x] = Len(InstancesOf(d, node))
    BY <1>12, <1>13, <1>17 DEF Scans, Scanned, Open
  <2>3. PICK m : m = Len(InstancesOf(d, node))
    OBVIOUS
  <2>4. charged' = [charged EXCEPT !.scanned = @ + m]
    BY <1>5, <2>3 DEF Scanning
  <2>. QED
    BY <2>1, <2>2, <2>3, <2>4
<1>25. /\ Amount(Scans, Entered \cup {x}) = Amount(Scans, Entered) + Scans[x]
       /\ Amount(StartScans, Started) \in Nat /\ Scans[x] \in Nat
       /\ Amount(Scans, Entered) \in Nat
  <2>1. IsFiniteSet(Places) /\ \A y \in Places : Scans[y] \in Nat
    BY PlacesFinite, NumbersOfPlaces
  <2>2. x \in Places \ Entered /\ Entered \in SUBSET Places
    BY <1>17, <1>22, VisitedPlaces
  <2>3. Amount(StartScans, Started) \in Nat /\ Amount(Scans, Entered) \in Nat
    BY VisitedPlaces, AmountsAreNumbers
  <2>. QED
    BY <2>1, <2>2, <2>3, AmountAdds
<1>26. ChargedInv'
  <2>1. /\ Ones' = Ones /\ Operations' = Operations /\ Segments' = Segments
        /\ Scans' = Scans /\ StartScans' = StartScans
    BY <1>5, SameAmounts
  <2>2. charged'.scanned = Amount(StartScans, Started') + Amount(Scans, Entered')
    BY <1>18, <1>23, <1>24, <1>25 DEF CausesInv, ChargedInv
  <2>. QED
    BY <1>18, <1>20, <1>24, <2>1, <2>2 DEF CausesInv, ChargedInv, Amount, Units
<1>27. WithinInv'
  <2>1. \A name : Limit(name)' = Limit(name)
    BY <1>5 DEF Limit
  <2>2. Limit("maxScannedInstances") \in Nat
    BY LimitsAreNumbers DEF LimitNames
  <2>3. charged'.scanned \in Nat
    BY <1>24, <1>25 DEF CausesInv, ChargedInv
  <2>4. charged'.scanned <= Limit("maxScannedInstances")
    BY <1>5, <2>2, <2>3
  <2>. QED
    BY <1>18, <1>20, <1>24, <2>1, <2>4 DEF CausesInv, WithinInv
<1>28. FaultsInv'
  <2>1. ~x[2].bad
    BY <1>13, <1>17 DEF Open
  <2>. QED
    BY <1>5, <1>20, <1>23, <2>1 DEF CausesInv, FaultsInv
<1>29. OutputsInv'
  BY <1>5, <1>9, <1>14, <1>15, <1>24, OutputsUndisturbed DEF CausesInv
<1>. QED
  BY <1>26, <1>27, <1>28, <1>29 DEF CausesInv

\* Everything that the walk is inside of is an assembly of the same document.
LEMMA ThroughAssemblies ==
    ASSUME world \in Worlds, NEW k \in AssemblyOutputs, NEW x \in Reached(k), Open(x)
    PROVE  \A n \in x.through : KindOf(x.document, n) = "assembly"
<1> DEFINE Fits(q) == Open(q) => \A n \in q.through : KindOf(q.document, n) = "assembly"
           S == {m \in Nat : m \in 0 .. PathBound => \A q \in Level(k)[m] : Fits(q)}
<1>. PathBound \in Nat
  BY WorldsAssumption
<1>1. 0 \in S
  <2>1. Level(k)[0] = {StartOf(k)}
    BY LevelsDefined
  <2>2. Fits(StartOf(k))
    <3>1. PICK q : q = StartOf(k)
      OBVIOUS
    <3>2. Open(q) /\ OpenInv(q) /\ q.through = {q.node}
      BY <3>1, StartShape
    <3>. QED
      BY <3>1, <3>2 DEF OpenInv
  <2>. QED
    BY <2>1, <2>2
<1>2. ASSUME NEW m \in Nat, m \in S PROVE m + 1 \in S
  <2>1. SUFFICES ASSUME m + 1 \in 0 .. PathBound, NEW q \in Level(k)[m + 1], Open(q)
                 PROVE  \A n \in q.through : KindOf(q.document, n) = "assembly"
    OBVIOUS
  <2>2. m + 1 \in 1 .. PathBound /\ (m + 1) - 1 = m /\ m \in 0 .. PathBound
    BY <2>1
  <2>3. PICK p \in Level(k)[m] : \E i \in DOMAIN InstancesOf(p.document, p.node) :
           q = Target(p, i) /\ Open(p)
    BY <2>1, <2>2, Parent
  <2>4. PICK i : q = Target(p, i) /\ Open(p)
    BY <2>3
  <2>5. OpenInv(q)
    BY <2>1, PositionShape
  <2>6. \A n \in p.through : KindOf(p.document, n) = "assembly"
    BY <1>2, <2>2, <2>4
  <2>7. PICK instance : instance = InstancesOf(p.document, p.node)[i]
    OBVIOUS
  <2>8. /\ q.through = (IF IsExternal(instance) THEN {} ELSE p.through) \cup {q.node}
        /\ q.document = IF IsExternal(instance) THEN instance.resource ELSE p.document
    BY <2>4, <2>7 DEF Target
  <2>9. KindOf(q.document, q.node) = "assembly"
    BY <2>1, <2>5 DEF OpenInv
  <2>. QED
    BY <2>6, <2>8, <2>9
<1>3. Nat \subseteq S
  <2>. HIDE DEF S
  <2>. QED
    BY <1>1, <1>2, ByInduction
<1>4. PICK m \in 0 .. PathBound : x \in Level(k)[m]
  BY DEF Reached
<1>. QED
  BY <1>3, <1>4

\* What a visit is checked for, in the order of the checks.
LEMMA VisitChecked ==
    ASSUME world \in Worlds
    PROVE  \/ /\ Refusal = "none"
              /\ ~(AfterVisit.active > Limit("maxActiveOccurrences"))
              /\ ~(AfterVisit.placements > Limit("maxPlacementOperations"))
              /\ ~(Cardinality(AfterVisit.documents) > Limit("maxExternalDocuments"))
              /\ ~(AfterVisit.scanned > Limit("maxScannedInstances"))
              /\ ~(AfterVisit.segments > Limit("maxOccurrencePathSegments"))
           \/ /\ Refusal = "maxActiveOccurrences"
              /\ AfterVisit.active > Limit("maxActiveOccurrences")
           \/ /\ Refusal = "maxPlacementOperations"
              /\ AfterVisit.placements > Limit("maxPlacementOperations")
           \/ Refusal = "boundary" /\ IsExternal(Instance) /\ Top.document # Root
           \/ /\ Refusal = "unsupported" /\ ~IsExternal(Instance)
              /\ ~IsLocal("part") /\ ~IsLocal("assembly")
           \/ Refusal = "placement" /\ ~Instance.placeable
           \/ /\ Refusal = "maxExternalDocuments"
              /\ Cardinality(AfterVisit.documents) > Limit("maxExternalDocuments")
           \/ Refusal = "recursion" /\ IsLocal("assembly") /\ Instance.node \in Top.ancestry
           \/ /\ Refusal = "maxAssemblyDepth" /\ Nests
              /\ Top.depth + 1 > Limit("maxAssemblyDepth")
           \/ /\ Refusal = "configuration" /\ IsLocal("assembly")
              /\ ~KnownConfiguration(Top.document, Configuration)
           \/ /\ Refusal = "maxScannedInstances"
              /\ AfterVisit.scanned > Limit("maxScannedInstances")
              /\ Instance.placeable
              /\ ~(IsLocal("assembly") /\ Instance.node \in Top.ancestry)
              /\ ~(IsLocal("assembly") /\ ~KnownConfiguration(Top.document, Configuration))
           \/ /\ Refusal = "maxOccurrencePathSegments"
              /\ AfterVisit.segments > Limit("maxOccurrencePathSegments")
           \/ /\ Refusal = "maxContextualParts"
              /\ Cardinality(AfterVisit.parts) > Limit("maxContextualParts")
<1> DEFINE Over(name) == <<name, Exceeded(AfterVisit, name)>>
           checks == <<
        Over("maxActiveOccurrences"),
        Over("maxPlacementOperations"),
        <<"boundary", IsExternal(Instance) /\ Top.document # Root>>,
        <<"unsupported", ~IsExternal(Instance) /\ ~IsLocal("part")
                                               /\ ~IsLocal("assembly")>>,
        <<"placement", ~Instance.placeable>>,
        Over("maxExternalDocuments"),
        <<"recursion", IsLocal("assembly") /\ Instance.node \in Top.ancestry>>,
        <<"maxAssemblyDepth", Nests /\ Top.depth + 1 > Limit("maxAssemblyDepth")>>,
        <<"configuration", IsLocal("assembly")
                           /\ ~KnownConfiguration(Top.document, Configuration)>>,
        Over("maxScannedInstances"),
        Over("maxOccurrencePathSegments"),
        Over("maxContextualParts") >>
<1>1. Refusal = FirstFailing(checks)
  BY DEF Refusal
<1>2. DOMAIN checks = 1 .. 12 /\ DOMAIN checks \subseteq Nat
  OBVIOUS
<1>3. /\ checks[1][1] = "maxActiveOccurrences" /\ checks[2][1] = "maxPlacementOperations"
      /\ checks[3][1] = "boundary" /\ checks[4][1] = "unsupported"
      /\ checks[5][1] = "placement" /\ checks[6][1] = "maxExternalDocuments"
      /\ checks[7][1] = "recursion" /\ checks[8][1] = "maxAssemblyDepth"
      /\ checks[9][1] = "configuration" /\ checks[10][1] = "maxScannedInstances"
      /\ checks[11][1] = "maxOccurrencePathSegments" /\ checks[12][1] = "maxContextualParts"
  OBVIOUS
<1>4. /\ checks[1][2] <=> Exceeded(AfterVisit, "maxActiveOccurrences")
      /\ checks[2][2] <=> Exceeded(AfterVisit, "maxPlacementOperations")
      /\ checks[3][2] <=> (IsExternal(Instance) /\ Top.document # Root)
      /\ checks[4][2] <=> (~IsExternal(Instance) /\ ~IsLocal("part") /\ ~IsLocal("assembly"))
      /\ checks[5][2] <=> ~Instance.placeable
      /\ checks[6][2] <=> Exceeded(AfterVisit, "maxExternalDocuments")
      /\ checks[7][2] <=> (IsLocal("assembly") /\ Instance.node \in Top.ancestry)
      /\ checks[8][2] <=> (Nests /\ Top.depth + 1 > Limit("maxAssemblyDepth"))
      /\ checks[9][2] <=> (IsLocal("assembly")
                            /\ ~KnownConfiguration(Top.document, Configuration))
      /\ checks[10][2] <=> Exceeded(AfterVisit, "maxScannedInstances")
      /\ checks[11][2] <=> Exceeded(AfterVisit, "maxOccurrencePathSegments")
      /\ checks[12][2] <=> Exceeded(AfterVisit, "maxContextualParts")
  OBVIOUS
<1>5. /\ Exceeded(AfterVisit, "maxContextualParts") <=>
            Cardinality(AfterVisit.parts) > Limit("maxContextualParts")
      /\ Exceeded(AfterVisit, "maxExternalDocuments") <=>
            Cardinality(AfterVisit.documents) > Limit("maxExternalDocuments")
      /\ Exceeded(AfterVisit, "maxActiveOccurrences") <=>
            AfterVisit.active > Limit("maxActiveOccurrences")
      /\ Exceeded(AfterVisit, "maxPlacementOperations") <=>
            AfterVisit.placements > Limit("maxPlacementOperations")
      /\ Exceeded(AfterVisit, "maxScannedInstances") <=>
            AfterVisit.scanned > Limit("maxScannedInstances")
      /\ Exceeded(AfterVisit, "maxOccurrencePathSegments") <=>
            AfterVisit.segments > Limit("maxOccurrencePathSegments")
  BY DEF Exceeded
<1> HIDE DEF checks
<1>6. \A k \in DOMAIN checks : checks[k][1] # "none"
  BY <1>2, <1>3
<1>7. CASE FirstFailing(checks) = "none" /\ \A k \in DOMAIN checks : ~checks[k][2]
  <2>1. ~checks[1][2] /\ ~checks[2][2] /\ ~checks[6][2] /\ ~checks[10][2] /\ ~checks[11][2]
    BY <1>2, <1>7
  <2>. QED
    BY <1>1, <1>4, <1>5, <1>7, <2>1
<1>8. ASSUME NEW k \in DOMAIN checks, checks[k][2], Refusal = checks[k][1],
             \A m \in DOMAIN checks : m < k => ~checks[m][2], k # 10
      PROVE  \/ /\ Refusal = "maxActiveOccurrences"
                /\ AfterVisit.active > Limit("maxActiveOccurrences")
             \/ /\ Refusal = "maxPlacementOperations"
                /\ AfterVisit.placements > Limit("maxPlacementOperations")
             \/ Refusal = "boundary" /\ IsExternal(Instance) /\ Top.document # Root
             \/ /\ Refusal = "unsupported" /\ ~IsExternal(Instance)
                /\ ~IsLocal("part") /\ ~IsLocal("assembly")
             \/ Refusal = "placement" /\ ~Instance.placeable
             \/ /\ Refusal = "maxExternalDocuments"
                /\ Cardinality(AfterVisit.documents) > Limit("maxExternalDocuments")
             \/ Refusal = "recursion" /\ IsLocal("assembly") /\ Instance.node \in Top.ancestry
             \/ /\ Refusal = "maxAssemblyDepth" /\ Nests
                /\ Top.depth + 1 > Limit("maxAssemblyDepth")
             \/ /\ Refusal = "configuration" /\ IsLocal("assembly")
                /\ ~KnownConfiguration(Top.document, Configuration)
             \/ /\ Refusal = "maxOccurrencePathSegments"
                /\ AfterVisit.segments > Limit("maxOccurrencePathSegments")
             \/ /\ Refusal = "maxContextualParts"
                /\ Cardinality(AfterVisit.parts) > Limit("maxContextualParts")
  <2>1. k \in 1 .. 6 \/ k \in 7 .. 12
    BY <1>2
  <2>2. CASE k \in 1 .. 6
    <3>1. k = 1 \/ k = 2 \/ k = 3 \/ k = 4 \/ k = 5 \/ k = 6
      BY <2>2
    <3>. QED
      BY <1>3, <1>4, <1>5, <1>8, <3>1, Zenon
  <2>3. CASE k \in 7 .. 12
    <3>1. k = 7 \/ k = 8 \/ k = 9 \/ k = 11 \/ k = 12
      BY <1>8, <2>3
    <3>. QED
      BY <1>3, <1>4, <1>5, <1>8, <3>1, Zenon
  <2>. QED
    BY <2>1, <2>2, <2>3
<1>9. ASSUME checks[10][2], Refusal = checks[10][1],
             \A m \in DOMAIN checks : m < 10 => ~checks[m][2]
      PROVE  /\ Refusal = "maxScannedInstances"
             /\ AfterVisit.scanned > Limit("maxScannedInstances")
             /\ Instance.placeable
             /\ ~(IsLocal("assembly") /\ Instance.node \in Top.ancestry)
             /\ ~(IsLocal("assembly") /\ ~KnownConfiguration(Top.document, Configuration))
  <2>1. ~checks[5][2] /\ ~checks[7][2] /\ ~checks[9][2]
    BY <1>2, <1>9
  <2>. QED
    BY <1>3, <1>4, <1>5, <1>9, <2>1, Zenon
<1>10. CASE \E k \in DOMAIN checks :
               /\ checks[k][2] /\ FirstFailing(checks) = checks[k][1]
               /\ \A m \in DOMAIN checks : m < k => ~checks[m][2]
  <2>1. PICK k \in DOMAIN checks :
               /\ checks[k][2] /\ Refusal = checks[k][1]
               /\ \A m \in DOMAIN checks : m < k => ~checks[m][2]
    BY <1>1, <1>10
  <2>2. CASE k = 10
    BY <1>9, <2>1, <2>2
  <2>3. CASE k # 10
    BY <1>8, <2>1, <2>3
  <2>. QED
    BY <2>2, <2>3
<1>. QED
  BY <1>2, <1>6, <1>7, <1>10, ChecksFindFirst

\* The instance that is next leads to position q of output k.
VisitsAt(k, q) ==
    /\ q \in Active(k)
    /\ Extends(q.path, Top.path, Top.next) /\ q.path = Path
    /\ q.configuration = Configuration /\ q.kind = Instance.kind
    /\ q.operations = Instance.placement
    /\ q.document = IF IsExternal(Instance) THEN Instance.resource ELSE Top.document
    /\ q.output = IF IsExternal(Instance) THEN Instance.output ELSE Top.output
    /\ q.node = IF Has(world.documents, q.document)
                THEN Meant(Instance, q.document) ELSE Nothing
    /\ q.through = (IF IsExternal(Instance) THEN {} ELSE Top.ancestry) \cup {q.node}
    /\ q.bad <=> \/ ~Instance.placeable \/ ~Has(world.documents, q.document)
                 \/ IsExternal(Instance) /\ Top.document # Root
                 \/ q.node = Nothing /\ ~(IsExternal(Instance) /\ Instance.kind = "part")
                 \/ ~IsExternal(Instance) /\ q.node \in Top.ancestry
                 \/ Instance.kind = "assembly" /\ ~KnownConfiguration(q.document, Configuration)

\* There is such a position, and the frame on top is at an open one.
LEMMA VisitPosition ==
    ASSUME world \in Worlds, WalkInv, PlacesInv, Visiting
    PROVE  /\ FrameAt(CurrentOutput, Top) /\ CurrentOutput \in AssemblyOutputs
           /\ stage \in {"walk", "expand"} /\ stack # <<>> /\ StackInv /\ WalkPlaces
           /\ IsFrame(Top) /\ (stage = "expand" <=> Top.document # Root)
           /\ Top.depth = Len(Path)
           /\ Instance.kind \in {"part", "assembly"}
           /\ IsExternal(Instance) => Instance.resource # Root
           /\ \A n \in Top.ancestry : KindOf(Top.document, n) = "assembly"
           /\ \E q : VisitsAt(CurrentOutput, q)
<1>0. PICK k : k = CurrentOutput
  OBVIOUS
<1>1. stage \in {"walk", "expand"} /\ stack # <<>> /\ WalkPlaces /\ StackInv
  BY DEF Visiting, Walking, PlacesInv, WalkInv
<1>2. FrameAt(k, Top) /\ k \in AssemblyOutputs /\ Top.next \in Nat \ {0} /\ IsPath(Top.path)
  BY <1>0, <1>1, Frames DEF FrameAt
<1>3. /\ IsFrame(Top) /\ (stage = "expand" <=> Top.document # Root)
      /\ IsExternal(Instance) => Instance.resource # Root
  BY <1>1, TopFrame DEF Visiting
<1>4. \E q : VisitsAt(k, q)
  <2>1. \E q \in Active(k) :
              /\ Extends(q.path, Top.path, Top.next) /\ q.path = Path
              /\ q.configuration = Configuration /\ q.kind = Instance.kind
              /\ q.operations = Instance.placement
              /\ q.document = IF IsExternal(Instance) THEN Instance.resource ELSE Top.document
              /\ q.output = IF IsExternal(Instance) THEN Instance.output ELSE Top.output
              /\ q.node = IF Has(world.documents, q.document)
                          THEN Meant(Instance, q.document) ELSE Nothing
              /\ q.through = (IF IsExternal(Instance) THEN {} ELSE Top.ancestry) \cup {q.node}
              /\ q.bad <=> \/ ~Instance.placeable \/ ~Has(world.documents, q.document)
                           \/ IsExternal(Instance) /\ Top.document # Root
                           \/ q.node = Nothing
                              /\ ~(IsExternal(Instance) /\ Instance.kind = "part")
                           \/ ~IsExternal(Instance) /\ q.node \in Top.ancestry
                           \/ Instance.kind = "assembly"
                              /\ ~KnownConfiguration(q.document, Configuration)
    BY <1>1, <1>2, Visited
  <2>. QED
    BY <2>1, Zenon DEF VisitsAt
<1>5. Top.depth = Len(Path)
  <2>1. Top.depth = Len(Top.path) + 1
    BY <1>2 DEF FrameAt
  <2>2. Extends(Path, Top.path, Top.next)
    BY DEF Path, Extends
  <2>. QED
    BY <1>2, <2>1, <2>2, Extended
<1>6. Instance.kind \in {"part", "assembly"}
  <2>1. ValidInstances(Instances)
    BY <1>3, Worldly DEF IsFrame, Instances
  <2>2. Top.next \in DOMAIN Instances
    <3>1. Listed(Instances)
      BY <1>1, TopFrame
    <3>. QED
      BY <1>2, <3>1, Lists DEF Visiting
  <2>. QED
    BY <2>1, <2>2 DEF ValidInstances, Instance
<1>7. \A n \in Top.ancestry : KindOf(Top.document, n) = "assembly"
  <2>1. PICK p \in Reached(k) : Open(p) /\ p.document = Top.document /\ p.through = Top.ancestry
    BY <1>2 DEF FrameAt
  <2>. QED
    BY <1>2, <2>1, ThroughAssemblies
<1>. QED
  BY <1>0, <1>1, <1>2, <1>3, <1>4, <1>5, <1>6, <1>7

\* A part is counted as what its position is.
LEMMA VisitedKey ==
    ASSUME world \in Worlds, WalkInv, PlacesInv, Visiting, NEW q, VisitsAt(CurrentOutput, q)
    PROVE  PartKeys \subseteq {KeyOf(q)} /\ (PartKeys # {} => q.kind = "part")
<1>1. /\ FrameAt(CurrentOutput, Top) /\ IsFrame(Top) /\ Top.document \in DOMAIN world.documents
      /\ IsExternal(Instance) => Instance.resource # Root
  BY VisitPosition DEF IsFrame
<1>2. CASE IsExternal(Instance)
  BY <1>1, <1>2 DEF PartKeys, KeyOf, VisitsAt
<1>3. CASE ~IsExternal(Instance) /\ ~IsLocal("part")
  BY <1>3 DEF PartKeys
<1>4. CASE ~IsExternal(Instance) /\ IsLocal("part")
  <2>1. /\ Instance.kind = "part" /\ Meant(Instance, Top.document) = Instance.node
    BY <1>1, <1>4, LocalNode
  <2>2. q.document = Top.document /\ q.node = Instance.node /\ q.kind = "part"
        /\ q.configuration = Configuration
        /\ q.through = Top.ancestry \cup {q.node}
    BY <1>1, <1>4, <2>1 DEF VisitsAt, Has
  <2>3. Top.node \in Top.ancestry /\ KindOf(Top.document, Top.node) = "assembly"
    BY <1>1, EnteredItself DEF IsFrame
  <2>4. KindOf(Top.document, Instance.node) = "part"
    BY <1>4 DEF IsLocal
  <2>5. q.through # {q.node}
    BY <2>2, <2>3, <2>4
  <2>. QED
    BY <1>4, <2>2, <2>5 DEF PartKeys, KeyOf
<1>. QED
  BY <1>2, <1>3, <1>4

\* Where a visit comes to, the walk was not before.
LEMMA VisitIsNew ==
    ASSUME world \in Worlds, WalkInv, PlacesInv, Visiting,
           NEW k, k = CurrentOutput, NEW q, VisitsAt(k, q), NEW x, x = <<k, q>>
    PROVE  x \in Places \ Passed /\ x[1] = k /\ x[2] = q
<1>1. /\ k \in AssemblyOutputs /\ stack # <<>> /\ WalkPlaces
  BY VisitPosition
<1>2. IsPath(Top.path) /\ Top.next \in Nat \ {0} /\ Top \in Range(stack)
      /\ Extends(Path, Top.path, Top.next)
  BY <1>1, PathPassed, Frames
<1>3. q \in Active(k) /\ q.path = Path
  BY DEF VisitsAt
<1>4. x \in Places /\ x[1] = k /\ x[2] = q
  BY <1>1, <1>3, PlaceAt
<1>5. Ahead(q.path, Top.path, Top.next)
  <2>1. PICK e : e = Path
    OBVIOUS
  <2>2. Len(Top.path) \in Nat /\ Leads(Top.path, e) /\ e[Len(Top.path) + 1] = Top.next
    BY <1>2, <2>1, Extended
  <2>. QED
    BY <1>2, <1>3, <2>1, <2>2 DEF Ahead
<1>6. Later(FramesOf(k), ListOf(k), q.path)
  BY <1>2, <1>5 DEF Later, FramesOf
<1>. QED
  BY <1>4, <1>6 DEF Passed

\* A visit comes to the position that the next instance leads to, and to nothing else.
LEMMA VisitPasses ==
    ASSUME world \in Worlds, WalkInv, PlacesInv, Visiting,
           UNCHANGED <<world, stage, selectedOrder, outputIndex>>,
           NEW k, k = CurrentOutput, NEW q, VisitsAt(k, q), NEW x, x = <<k, q>>,
           \A r \in Active(k) :
              /\ Later(Range(stack'), CurrentList', r.path)
                    <=> \/ \E f \in Range(Advanced) : Ahead(r.path, f.path, f.next)
                        \/ Leads(Path, r.path)
                        \/ \E o \in CurrentList : Leads(o.path, r.path)
              /\ r.kind = "assembly" /\ r.path # Path =>
                    ((\E o \in CurrentList' : o.path = r.path)
                        <=> (\E o \in CurrentList : o.path = r.path))
    PROVE  /\ x \in Places \ Passed /\ Passed' = Passed \cup {x}
           /\ Started' = Started
           /\ IF q.kind = "assembly" /\ \A o \in CurrentList' : o.path # Path
              THEN Entered' = Entered \cup {x} ELSE Entered' = Entered
           /\ \A o \in CurrentList : o.path # Path
<1>1. /\ FrameAt(k, Top) /\ k \in AssemblyOutputs
      /\ stage \in {"walk", "expand"} /\ stack # <<>> /\ StackInv /\ WalkPlaces /\ WalkOrder
  BY VisitPosition DEF PlacesInv
<1>2. /\ IsPath(Top.path) /\ Top.next \in Nat \ {0} /\ IsPath(Path)
      /\ Extends(Path, Top.path, Top.next) /\ Top \in Range(stack)
      /\ \A f \in Range(Advanced) :
            /\ Path[Len(f.path) + 1] < f.next
            /\ IsPath(f.path) /\ f.next \in Nat \ {0} /\ Leads(f.path, Path)
  BY <1>1, PathPassed, Frames
<1>3. q \in Active(k) /\ q \in Reached(k) /\ q.path = Path
  BY ActiveReached DEF VisitsAt
<1>4. x \in Places /\ x[1] = k /\ x[2] = q
  BY <1>1, <1>3, PlaceAt
<1>5. /\ Started' = Started /\ Places' = Places
      /\ \A y \in Places : y[1] # k =>
            /\ y \in Passed' <=> y \in Passed
            /\ y \in Entered' <=> y \in Entered
      /\ \A y \in Places : y[1] = k =>
            /\ y \in Passed <=> ~Later(Range(stack), CurrentList, y[2].path)
            /\ y \in Passed' <=> ~Later(Range(stack'), CurrentList', y[2].path)
            /\ y \in Entered <=> /\ y \in Passed /\ y[2].kind = "assembly"
                                 /\ \A u \in CurrentList : u.path # y[2].path
            /\ y \in Entered' <=> /\ y \in Passed' /\ y[2].kind = "assembly"
                                  /\ \A u \in CurrentList' : u.path # y[2].path
  BY <1>1, InOneOutput
<1>6. \A o \in CurrentList : MetAt(k, o) /\ IsPath(o.path)
  <2>1. \A o \in CurrentList : MetAt(k, o)
    BY <1>1 DEF CurrentList, WalkPlaces
  <2>. QED
    BY <2>1, PlacesHavePaths
<1>7. \A o \in CurrentList : ~Leads(o.path, Path) /\ o.path # Path
  <2>1. /\ \A o \in Range(occurrences) : Before(o.path, Path)
        /\ \A u \in Range(queue) : Before(Path, u.path)
    BY <1>1, AdvancedOrder
  <2>2. \A o \in CurrentList : Before(o.path, Path) \/ Before(Path, o.path)
    BY <2>1 DEF CurrentList
  <2>. QED
    BY <1>2, <1>6, <2>2, NotBoth, NotBehind, BeforeIsStrict
<1>8. ~Later(Range(stack'), CurrentList', q.path)
  <2>1. \A f \in Range(Advanced) : ~Ahead(Path, f.path, f.next)
    <3>1. ASSUME NEW f \in Range(Advanced) PROVE ~(Path[Len(f.path) + 1] >= f.next)
      <4>1. Len(f.path) \in Nat /\ Len(f.path) + 1 \in 1 .. Len(Path)
        BY <1>2, PathShape DEF Leads
      <4>2. Path[Len(f.path) + 1] \in Nat
        BY <1>2, <4>1, PathShape
      <4>. QED
        BY <1>2, <4>2
    <3>. QED
      BY <3>1 DEF Ahead
  <2>2. ~Leads(Path, Path)
    BY <1>2, NeverToItself
  <2>. QED
    BY <1>3, <1>7, <2>1, <2>2
<1>9. ASSUME NEW r \in Active(k), r # q
      PROVE  /\ r.path # Path
             /\ Later(Range(stack'), CurrentList', r.path)
                   <=> Later(Range(stack), CurrentList, r.path)
  <2>1. r \in Reached(k) /\ IsPath(r.path)
    BY <1>1, ActiveReached, ReachedShape
  <2>2. r.path # Path
    BY <1>1, <1>3, <1>9, <2>1, UniquePosition
  <2>3. ASSUME NEW f \in Range(stack), Ahead(r.path, f.path, f.next)
        PROVE  \/ \E g \in Range(Advanced) : Ahead(r.path, g.path, g.next)
               \/ Leads(Path, r.path)
    BY <1>1, <2>1, <2>2, <2>3, AheadAdvanced
  <2>4. ASSUME NEW g \in Range(Advanced), Ahead(r.path, g.path, g.next)
        PROVE  \E f \in Range(stack) : Ahead(r.path, f.path, f.next)
    BY <1>1, <2>1, <2>4, AheadBefore
  <2>5. ASSUME Leads(Path, r.path)
        PROVE  \E f \in Range(stack) : Ahead(r.path, f.path, f.next)
    <3>1. PICK e : e = Path
      OBVIOUS
    <3>2. /\ Len(Top.path) \in Nat /\ Len(e) = Len(Top.path) + 1
          /\ e[Len(Top.path) + 1] = Top.next
          /\ \A m \in 1 .. Len(Top.path) : e[m] = Top.path[m]
      BY <1>2, <3>1, Extended
    <3>3. Len(e) < Len(r.path) /\ \A m \in 1 .. Len(e) : r.path[m] = e[m]
      BY <2>5, <3>1 DEF Leads
    <3>4. Len(r.path) \in Nat
      BY <2>1, PathShape
    <3>5. Len(Top.path) < Len(r.path) /\ Len(Top.path) + 1 \in 1 .. Len(e)
      BY <3>2, <3>3, <3>4
    <3>6. r.path[Len(Top.path) + 1] = Top.next
      BY <3>2, <3>3, <3>5
    <3>7. \A m \in 1 .. Len(Top.path) : r.path[m] = Top.path[m]
      BY <3>2, <3>3
    <3>8. Ahead(r.path, Top.path, Top.next)
      BY <1>2, <3>5, <3>6, <3>7 DEF Ahead, Leads
    <3>. QED
      BY <1>2, <3>8
  <2>6. Later(Range(stack), CurrentList, r.path)
           <=> \/ \E f \in Range(stack) : Ahead(r.path, f.path, f.next)
               \/ \E o \in CurrentList : Leads(o.path, r.path)
    BY DEF Later
  <2>. QED
    BY <2>2, <2>3, <2>4, <2>5, <2>6
<1>10. x \notin Passed
  BY VisitIsNew
<1>11. x \in Passed'
  BY <1>4, <1>5, <1>8
<1>12. ASSUME NEW y \in Places, y # x
       PROVE  /\ y \in Passed' <=> y \in Passed
              /\ y \in Entered' <=> y \in Entered
  <2>1. CASE y[1] # k
    BY <1>5, <2>1
  <2>2. CASE y[1] = k
    <3>1. PICK r : r = y[2]
      OBVIOUS
    <3>2. r \in Active(k) /\ r # q
      <4>1. y = <<y[1], y[2]>> /\ y[2] \in Active(y[1])
        BY PlaceOf
      <4>. QED
        BY <1>12, <2>2, <3>1, <4>1
    <3>3. /\ r.path # Path
          /\ Later(Range(stack'), CurrentList', r.path)
                <=> Later(Range(stack), CurrentList, r.path)
      BY <1>9, <3>2
    <3>4. r.kind = "assembly" => ((\E o \in CurrentList' : o.path = r.path)
                                    <=> (\E o \in CurrentList : o.path = r.path))
      BY <3>2, <3>3
    <3>. QED
      BY <1>5, <2>2, <3>1, <3>3, <3>4
  <2>. QED
    BY <2>1, <2>2
<1>13. Passed \subseteq Places /\ Passed' \subseteq Places /\ Entered \subseteq Passed
       /\ Entered' \subseteq Passed'
  BY <1>5 DEF Passed, Entered
<1>14. Passed' = Passed \cup {x}
  BY <1>4, <1>11, <1>12, <1>13
<1>15. x \notin Entered
  BY <1>10, <1>13
<1>16. x \in Entered' <=> q.kind = "assembly" /\ \A o \in CurrentList' : o.path # Path
  BY <1>3, <1>4, <1>5, <1>11
<1>17. IF q.kind = "assembly" /\ \A o \in CurrentList' : o.path # Path
       THEN Entered' = Entered \cup {x} ELSE Entered' = Entered
  <2>1. Entered \subseteq Places /\ Entered' \subseteq Places
    BY <1>13
  <2>2. CASE x \in Entered'
    <3>1. Entered' = Entered \cup {x}
      BY <1>4, <1>12, <2>1, <2>2
    <3>. QED
      BY <1>16, <2>2, <3>1
  <2>3. CASE x \notin Entered'
    <3>1. Entered' = Entered
      BY <1>4, <1>12, <1>15, <2>1, <2>3
    <3>. QED
      BY <1>16, <2>3, <3>1
  <2>. QED
    BY <2>2, <2>3
<1>. QED
  BY <1>4, <1>5, <1>7, <1>10, <1>14, <1>17

-----------------------------------------------------------------------------
(* A visit keeps the account.                                               *)
\* What a visit adds to the counters is what its place counts for; what is skipped for
\* an instance that is nothing is no part.
LEMMA VisitCosts ==
    ASSUME world \in Worlds, WalkInv, PlacesInv, OutputsInv, Visiting,
           NEW k, k = CurrentOutput, NEW q, VisitsAt(k, q), NEW x, x = <<k, q>>
    PROVE  /\ AfterVisit.active = charged.active + Ones[x]
           /\ AfterVisit.placements = charged.placements + Operations[x]
           /\ AfterVisit.segments = charged.segments
              \/ AfterVisit.segments = charged.segments + Segments[x]
           /\ Refusal = "none" => \/ AfterVisit.segments = charged.segments + Segments[x]
                                  \/ Segments[x] = 0 /\ AfterVisit.segments = charged.segments
           /\ AfterVisit.documents = charged.documents \cup ({q.document} \ {Root})
           /\ AfterVisit.parts = charged.parts \cup PartKeys
           /\ IsLocal("assembly") =>
                 /\ q.kind = "assembly" /\ q.document = Top.document
                 /\ q.node = Instance.node
                 /\ AfterVisit.scanned = charged.scanned + Scanned(q)
           /\ ~IsLocal("assembly") => AfterVisit.scanned = charged.scanned
<1>1. /\ IsFrame(Top) /\ Top.document \in DOMAIN world.documents /\ stack # <<>> /\ StackInv
      /\ Instance.kind \in {"part", "assembly"}
      /\ IsExternal(Instance) => Instance.resource # Root
  BY VisitPosition DEF IsFrame
<1>2. x \in Places /\ x[2] = q
  BY VisitIsNew
<1>3. /\ q.path = Path /\ q.kind = Instance.kind /\ q.operations = Instance.placement
      /\ q.document = IF IsExternal(Instance) THEN Instance.resource ELSE Top.document
      /\ q.node = IF Has(world.documents, q.document)
                  THEN Meant(Instance, q.document) ELSE Nothing
  BY DEF VisitsAt
<1>4. /\ Ones[x] = 1 /\ Operations[x] = Instance.placement
      /\ Segments[x] = IF Instance.kind = "part" THEN Len(Path) ELSE 0
  BY <1>2, <1>3 DEF Ones, Operations, Segments
<1>5. /\ AfterVisit.active = charged.active + 1
      /\ AfterVisit.placements = charged.placements + Instance.placement
      /\ AfterVisit.segments = (IF PartKeys # {} THEN charged.segments + Len(Path)
                                                 ELSE charged.segments)
      /\ AfterVisit.parts = charged.parts \cup PartKeys
      /\ AfterVisit.documents = (IF IsExternal(Instance)
                                 THEN charged.documents \cup {Instance.resource}
                                 ELSE charged.documents)
      /\ AfterVisit.scanned = (IF IsLocal("assembly")
                               THEN Scanning(Top.document, Instance.node).scanned
                               ELSE charged.scanned)
  BY DEF AfterVisit
<1>6. PartKeys # {} => Instance.kind = "part"
  BY <1>3, VisitedKey
<1>7. Refusal = "none" => (PartKeys # {} <=> Instance.kind = "part")
  <2>1. ASSUME Refusal = "none", Instance.kind = "part" PROVE PartKeys # {}
    <3>1. IsExternal(Instance) \/ IsLocal("part") \/ IsLocal("assembly")
      BY <2>1, Visits
    <3>2. ~IsLocal("assembly")
      BY <2>1 DEF IsLocal
    <3>. QED
      BY <2>1, <3>1, <3>2 DEF PartKeys
  <2>. QED
    BY <1>6, <2>1
<1>8. AfterVisit.documents = charged.documents \cup ({q.document} \ {Root})
  <2>1. Top.document \in {Root} \cup charged.documents
    BY <1>1, TopFrame DEF OutputsInv
  <2>. QED
    BY <1>1, <1>3, <1>5, <2>1
<1>9. ASSUME IsLocal("assembly")
      PROVE  /\ q.kind = "assembly" /\ q.document = Top.document /\ q.node = Instance.node
             /\ AfterVisit.scanned = charged.scanned + Scanned(q)
  <2>1. /\ ~IsExternal(Instance) /\ Instance.kind = "assembly"
        /\ Meant(Instance, Top.document) = Instance.node
    BY <1>1, <1>9, LocalNode
  <2>2. q.kind = "assembly" /\ q.document = Top.document /\ q.node = Instance.node
    BY <1>1, <1>3, <2>1 DEF Has
  <2>3. charged = [scanned |-> charged.scanned, active |-> charged.active,
                   placements |-> charged.placements, segments |-> charged.segments,
                   parts |-> charged.parts, documents |-> charged.documents]
    BY DEF WalkInv, CountersInv
  <2>4. PICK m : m = Len(InstancesOf(Top.document, Instance.node))
    OBVIOUS
  <2>5. Scanning(Top.document, Instance.node) = [charged EXCEPT !.scanned = @ + m]
    BY <2>4 DEF Scanning
  <2>6. Scanning(Top.document, Instance.node).scanned = charged.scanned + m
    BY <2>3, <2>5
  <2>. QED
    BY <1>5, <1>9, <2>2, <2>4, <2>6 DEF Scanned
<1>. QED
  BY <1>4, <1>5, <1>6, <1>7, <1>8, <1>9

\* What the places count for with one more of them.
LEMMA OneMorePlace ==
    ASSUME world \in Worlds, ChargedInv, NEW x \in Places \ Passed
    PROVE  /\ Amount(Ones, Passed \cup {x}) = charged.active + Ones[x]
           /\ Amount(Operations, Passed \cup {x}) = charged.placements + Operations[x]
           /\ Amount(Segments, Passed \cup {x}) = charged.segments + Segments[x]
           /\ Amount(Scans, Entered \cup {x}) = Amount(Scans, Entered) + Scans[x]
           /\ Amount(StartScans, Started) \in Nat /\ Amount(Scans, Entered) \in Nat
           /\ charged.active \in Nat /\ charged.placements \in Nat
           /\ charged.segments \in Nat /\ charged.scanned \in Nat
           /\ Ones[x] \in Nat /\ Operations[x] \in Nat /\ Segments[x] \in Nat
           /\ Scans[x] \in Nat
           /\ charged.active + Ones[x] <= Total("maxActiveOccurrences")
           /\ charged.placements + Operations[x] <= Total("maxPlacementOperations")
           /\ charged.segments + Segments[x] <= Total("maxOccurrencePathSegments")
           /\ charged.segments <= Total("maxOccurrencePathSegments")
           /\ charged.scanned + Scans[x] <= Total("maxScannedInstances")
           /\ charged.scanned <= Total("maxScannedInstances")
<1>1. /\ IsFiniteSet(Places) /\ \A y \in Places : Scans[y] \in Nat
      /\ \A y \in Places : Ones[y] \in Nat /\ Operations[y] \in Nat /\ Segments[y] \in Nat
  BY PlacesFinite, NumbersOfPlaces
<1>2. /\ Passed \in SUBSET Places /\ Entered \in SUBSET Places
      /\ Passed \cup {x} \in SUBSET Places /\ Entered \cup {x} \in SUBSET Places
      /\ x \in Places \ Entered /\ Started \in SUBSET AssemblyOutputs
  BY VisitedPlaces
<1>3. /\ Amount(Ones, Passed \cup {x}) = Amount(Ones, Passed) + Ones[x]
      /\ Amount(Operations, Passed \cup {x}) = Amount(Operations, Passed) + Operations[x]
      /\ Amount(Segments, Passed \cup {x}) = Amount(Segments, Passed) + Segments[x]
      /\ Amount(Scans, Entered \cup {x}) = Amount(Scans, Entered) + Scans[x]
  BY <1>1, <1>2, AmountAdds
<1>4. /\ Amount(Ones, Passed) \in Nat /\ Amount(Operations, Passed) \in Nat
      /\ Amount(Segments, Passed) \in Nat /\ Amount(Scans, Entered) \in Nat
      /\ Amount(StartScans, Started) \in Nat
      /\ Total("maxScannedInstances") \in Nat
      /\ Amount(Segments, Passed) <= Total("maxOccurrencePathSegments")
      /\ Amount(StartScans, Started) + Amount(Scans, Entered) <= Total("maxScannedInstances")
  BY <1>2, AmountsAreNumbers
<1>5. /\ Amount(Ones, Passed \cup {x}) <= Total("maxActiveOccurrences")
      /\ Amount(Operations, Passed \cup {x}) <= Total("maxPlacementOperations")
      /\ Amount(Segments, Passed \cup {x}) <= Total("maxOccurrencePathSegments")
      /\ Amount(StartScans, Started) + Amount(Scans, Entered \cup {x})
            <= Total("maxScannedInstances")
  BY <1>2, AmountsAreNumbers
<1>6. /\ charged.active = Amount(Ones, Passed)
      /\ charged.placements = Amount(Operations, Passed)
      /\ charged.segments = Amount(Segments, Passed)
      /\ charged.scanned = Amount(StartScans, Started) + Amount(Scans, Entered)
  BY DEF ChargedInv
<1>7. charged.scanned + Scans[x] = Amount(StartScans, Started) + Amount(Scans, Entered \cup {x})
  BY <1>1, <1>3, <1>4, <1>6
<1>. QED
  BY <1>1, <1>3, <1>4, <1>5, <1>6, <1>7

\* The documents that are counted are external ones that something active is in.
LEMMA CountedDocuments ==
    ASSUME ChargedInv
    PROVE  /\ charged.documents \subseteq ExternalDocuments
           /\ \A x \in Places : {x[2].document} \ {Root} \subseteq ExternalDocuments
<1>1. \A x \in Places : x[2].document \in {p.document : p \in Everything}
  BY PlaceOf, PlaceAt
<1>. QED
  BY <1>1, VisitedPlaces DEF ChargedInv, ExternalDocuments

\* A visit that is not refused keeps what is charged, and within the limits.
LEMMA VisitKeepsCauses ==
    ASSUME world \in Worlds, WalkInv, PlacesInv, CausesInv, Visiting, Refusal = "none",
           UNCHANGED <<world, stage, selectedOrder, outputIndex>>, charged' = AfterVisit,
           NEW k, k = CurrentOutput, NEW q, VisitsAt(k, q), NEW x, x = <<k, q>>,
           Started' = Started, Passed' = Passed \cup {x},
           Entered' = IF IsLocal("assembly") THEN Entered \cup {x} ELSE Entered,
           \A f \in Range(stack') : f.document \in {Root} \cup charged.documents
    PROVE  CausesInv'
<1>1. x \in Places \ Passed /\ x[1] = k /\ x[2] = q
  BY VisitIsNew
<1>2. /\ charged'.active = charged.active + Ones[x]
      /\ charged'.placements = charged.placements + Operations[x]
      /\ \/ charged'.segments = charged.segments + Segments[x]
         \/ Segments[x] = 0 /\ charged'.segments = charged.segments
      /\ charged'.documents = charged.documents \cup ({q.document} \ {Root})
      /\ charged'.parts = charged.parts \cup PartKeys
      /\ IsLocal("assembly") =>
            /\ q.kind = "assembly" /\ q.document = Top.document /\ q.node = Instance.node
            /\ charged'.scanned = charged.scanned + Scanned(q)
      /\ ~IsLocal("assembly") => charged'.scanned = charged.scanned
  BY VisitCosts DEF CausesInv
<1>3. /\ ~(charged'.active > Limit("maxActiveOccurrences"))
      /\ ~(charged'.placements > Limit("maxPlacementOperations"))
      /\ ~(Cardinality(charged'.documents) > Limit("maxExternalDocuments"))
      /\ ~(charged'.scanned > Limit("maxScannedInstances"))
      /\ ~(charged'.segments > Limit("maxOccurrencePathSegments"))
  <2>1. Refusal \notin LimitNames \cup {"boundary", "unsupported", "placement", "recursion",
                                        "configuration"}
    BY DEF LimitNames
  <2>. QED
    BY <2>1, VisitChecked, Zenon DEF LimitNames
<1>4. /\ ~(IsExternal(Instance) /\ Top.document # Root)
      /\ IsExternal(Instance) \/ IsLocal("part") \/ IsLocal("assembly")
      /\ Instance.placeable
      /\ ~(IsLocal("assembly") /\ Instance.node \in Top.ancestry)
      /\ ~(Nests /\ Top.depth + 1 > Limit("maxAssemblyDepth"))
      /\ ~(IsLocal("assembly") /\ ~KnownConfiguration(Top.document, Configuration))
  BY Visits
<1>5. /\ Amount(Ones, Passed \cup {x}) = charged.active + Ones[x]
      /\ Amount(Operations, Passed \cup {x}) = charged.placements + Operations[x]
      /\ Amount(Segments, Passed \cup {x}) = charged.segments + Segments[x]
      /\ Amount(Scans, Entered \cup {x}) = Amount(Scans, Entered) + Scans[x]
      /\ Amount(StartScans, Started) \in Nat /\ Amount(Scans, Entered) \in Nat
      /\ charged.active \in Nat /\ charged.placements \in Nat
      /\ charged.segments \in Nat /\ charged.scanned \in Nat
      /\ Ones[x] \in Nat /\ Operations[x] \in Nat /\ Segments[x] \in Nat
      /\ Scans[x] \in Nat
  BY <1>1, OneMorePlace DEF CausesInv
<1>6. /\ Top.document \in DOMAIN world.documents
      /\ Instance.kind \in {"part", "assembly"} /\ IsFrame(Top)
      /\ stage \in {"walk", "expand"} /\ Top.depth = Len(Path)
      /\ \A n \in Top.ancestry : KindOf(Top.document, n) = "assembly"
  BY VisitPosition DEF IsFrame
<1>7. /\ q.path = Path /\ q.kind = Instance.kind
      /\ q.document = IF IsExternal(Instance) THEN Instance.resource ELSE Top.document
      /\ q.node = IF Has(world.documents, q.document)
                  THEN Meant(Instance, q.document) ELSE Nothing
      /\ q.bad <=> \/ ~Instance.placeable \/ ~Has(world.documents, q.document)
                   \/ IsExternal(Instance) /\ Top.document # Root
                   \/ q.node = Nothing /\ ~(IsExternal(Instance) /\ Instance.kind = "part")
                   \/ ~IsExternal(Instance) /\ q.node \in Top.ancestry
                   \/ Instance.kind = "assembly" /\ ~KnownConfiguration(q.document, Configuration)
  BY DEF VisitsAt
<1>8. ASSUME q.bad
      PROVE  q.document \notin DOMAIN world.documents \/ (q.kind = "assembly" /\ x \notin Entered')
  <2>1. CASE IsExternal(Instance)
    <3>1. ~IsLocal("assembly") /\ x \notin Entered
      BY <1>1, <2>1, VisitedPlaces DEF IsLocal
    <3>. QED
      BY <1>4, <1>6, <1>7, <1>8, <2>1, <3>1 DEF Has
  <2>2. CASE ~IsExternal(Instance)
    <3>1. PICK kind \in {"part", "assembly"} : IsLocal(kind)
      BY <1>4, <2>2
    <3>2. /\ Instance.kind = kind /\ Meant(Instance, Top.document) = Instance.node
          /\ Instance.node # Nothing /\ KindOf(Top.document, Instance.node) = kind
      BY <1>6, <3>1, LocalNode DEF IsLocal
    <3>3. q.document = Top.document /\ q.node = Instance.node
      BY <1>6, <1>7, <2>2, <3>2 DEF Has
    <3>4. Instance.node \notin Top.ancestry
      BY <1>4, <1>6, <3>1, <3>2
    <3>. QED
      BY <1>4, <1>6, <1>7, <1>8, <2>2, <3>1, <3>2, <3>3, <3>4 DEF Has
  <2>. QED
    BY <2>1, <2>2
<1>9. IsLocal("assembly") => Scans[x] = Scanned(q)
  <2>1. ASSUME IsLocal("assembly") PROVE ~q.bad /\ q.kind = "assembly"
    <3>1. /\ q.kind = "assembly" /\ q.document = Top.document /\ q.node = Instance.node
          /\ ~IsExternal(Instance) /\ Instance.node # Nothing
      BY <1>2, <1>6, <2>1, LocalNode
    <3>. QED
      BY <1>4, <1>6, <1>7, <2>1, <3>1 DEF Has
  <2>. QED
    BY <1>1, <2>1 DEF Scans
<1>10. /\ Ones' = Ones /\ Operations' = Operations /\ Segments' = Segments
       /\ Scans' = Scans /\ StartScans' = StartScans
  BY SameAmounts
<1>11. ChargedInv'
  <2>1. /\ charged'.active = Amount(Ones, Passed')
        /\ charged'.placements = Amount(Operations, Passed')
        /\ charged'.segments = Amount(Segments, Passed')
    BY <1>2, <1>5
  <2>2. charged'.scanned = Amount(StartScans, Started') + Amount(Scans, Entered')
    <3>1. charged.scanned = Amount(StartScans, Started) + Amount(Scans, Entered)
      BY DEF CausesInv, ChargedInv
    <3>2. CASE IsLocal("assembly")
      BY <1>2, <1>5, <1>9, <3>1, <3>2
    <3>3. CASE ~IsLocal("assembly")
      BY <1>2, <3>1, <3>3
    <3>. QED
      BY <3>2, <3>3
  <2>3. charged'.documents = {y[2].document : y \in Passed'} \ {Root}
    BY <1>1, <1>2 DEF CausesInv, ChargedInv
  <2>. QED
    BY <1>10, <2>1, <2>2, <2>3 DEF ChargedInv, Amount, Units
<1>12. WithinInv'
  <2>1. \A name : Limit(name)' = Limit(name)
    BY DEF Limit
  <2>2. \A name \in LimitNames : Limit(name) \in Nat
    BY LimitsAreNumbers
  <2>3. /\ Limit("maxActiveOccurrences") \in Nat /\ Limit("maxPlacementOperations") \in Nat
        /\ Limit("maxExternalDocuments") \in Nat /\ Limit("maxScannedInstances") \in Nat
        /\ Limit("maxOccurrencePathSegments") \in Nat /\ Limit("maxAssemblyDepth") \in Nat
    BY <2>2 DEF LimitNames
  <2>4. charged'.active \in Nat /\ charged'.placements \in Nat /\ charged'.segments \in Nat
    BY <1>2, <1>5
  <2>5. charged'.scanned \in Nat
    BY <1>2, <1>5, <1>9
  <2>6. Cardinality(charged'.documents) \in Nat
    <3>1. charged'.documents \subseteq ExternalDocuments
      BY <1>1, <1>2, CountedDocuments DEF CausesInv
    <3>. QED
      BY <3>1, FiniteSetsCounted, FS_Subset, FS_CardinalityType
  <2>7. q.kind = "assembly" => Len(q.path) + 1 <= Limit("maxAssemblyDepth")
    <3>1. ASSUME q.kind = "assembly" PROVE Nests
      BY <1>4, <1>7, <3>1 DEF Nests, IsLocal
    <3>2. Len(Path) \in Nat
      BY <1>6, VisitPosition, PathPassed, PathShape
    <3>. QED
      BY <1>4, <1>6, <1>7, <2>3, <3>1, <3>2
  <2>8. /\ charged'.active <= Limit("maxActiveOccurrences")
        /\ charged'.placements <= Limit("maxPlacementOperations")
        /\ charged'.segments <= Limit("maxOccurrencePathSegments")
        /\ charged'.scanned <= Limit("maxScannedInstances")
        /\ Cardinality(charged'.documents) <= Limit("maxExternalDocuments")
    BY <1>3, <2>3, <2>4, <2>5, <2>6
  <2>9. /\ Started # {} => 1 <= Limit("maxAssemblyDepth")
        /\ \A y \in Passed' : y[2].kind = "assembly" =>
              Len(y[2].path) + 1 <= Limit("maxAssemblyDepth")
    BY <1>1, <2>7 DEF CausesInv, WithinInv
  <2>. QED
    BY <2>1, <2>8, <2>9 DEF WithinInv
<1>13. FaultsInv'
  <2>1. ASSUME NEW y \in Passed', y[2].bad
        PROVE  y[2].document \notin DOMAIN world.documents
               \/ (y[2].kind = "assembly" /\ y \notin Entered')
    <3>1. CASE y = x
      BY <1>1, <1>8, <2>1, <3>1
    <3>2. CASE y # x
      BY <2>1, <3>2 DEF CausesInv, FaultsInv
    <3>. QED
      BY <3>1, <3>2
  <2>. QED
    BY <2>1 DEF FaultsInv
<1>14. OutputsInv'
  BY <1>2, <1>6, OutputsUndisturbed DEF CausesInv
<1>. QED
  BY <1>11, <1>12, <1>13, <1>14 DEF CausesInv

\* An assembly that is entered is passed, and so is an occurrence that is collected.
LEMMA EnterKeepsCauses ==
    ASSUME world \in Worlds, WalkInv, PlacesInv, CausesInv, Enter
    PROVE  CausesInv'
<1>0. PICK k : k = CurrentOutput
  OBVIOUS
<1>1. PICK g : g = Frame(Top.document, Top.output, Instance.node, Configuration,
                         Path, Top.ancestry, Top.depth + 1)
  OBVIOUS
<1>2. /\ Visiting /\ Refusal = "none" /\ IsLocal("assembly") /\ stack # <<>>
      /\ stack' = Append(Advanced, g) /\ charged' = AfterVisit
      /\ UNCHANGED <<world, stage, selectedOrder, outputIndex, queue, occurrences>>
  BY <1>1 DEF Enter, Visiting, Walking
<1>3. /\ k \in AssemblyOutputs /\ WalkPlaces /\ StackInv
      /\ \E q : VisitsAt(k, q)
  BY <1>0, <1>2, VisitPosition
<1>4. PICK q : VisitsAt(k, q)
  BY <1>3
<1>5. PICK x : x = <<k, q>>
  OBVIOUS
<1>6. g.path = Path /\ g.next = 1 /\ g.document = Top.document
  BY <1>1 DEF Frame
<1>7. Range(stack') = Range(Advanced) \cup {g}
  <2>1. Listed(Advanced)
    BY <1>2, <1>3, AdvancedShape
  <2>. QED
    BY <1>2, <2>1, AppendedRange
<1>8. CurrentList' = CurrentList
  BY <1>2 DEF CurrentList
<1>9. ASSUME NEW r \in Active(k)
      PROVE  Later(Range(stack'), CurrentList', r.path)
                <=> \/ \E f \in Range(Advanced) : Ahead(r.path, f.path, f.next)
                    \/ Leads(Path, r.path)
                    \/ \E o \in CurrentList : Leads(o.path, r.path)
  <2>1. IsPath(r.path) /\ IsPath(Path)
    BY <1>2, <1>3, ActiveReached, ReachedShape, PathPassed
  <2>2. Ahead(r.path, g.path, g.next) <=> Leads(Path, r.path)
    BY <1>6, <2>1, AheadOfStart DEF Ahead
  <2>. QED
    BY <1>7, <1>8, <2>2 DEF Later
<1>10. /\ x \in Places \ Passed /\ Passed' = Passed \cup {x}
       /\ Started' = Started
       /\ IF q.kind = "assembly" /\ \A o \in CurrentList' : o.path # Path
          THEN Entered' = Entered \cup {x} ELSE Entered' = Entered
       /\ \A o \in CurrentList : o.path # Path
  BY <1>0, <1>2, <1>4, <1>5, <1>8, <1>9, VisitPasses
<1>11. q.kind = "assembly"
  BY <1>2, <1>4 DEF VisitsAt, IsLocal
<1>12. \A f \in Range(stack') : f.document \in {Root} \cup charged.documents
  <2>1. \A f \in Range(Advanced) : f.document \in {Root} \cup charged.documents
    BY <1>2, AdvancedDocuments DEF CausesInv
  <2>2. Top.document \in {Root} \cup charged.documents
    BY <1>2, <1>3, TopFrame DEF CausesInv, OutputsInv
  <2>. QED
    BY <1>6, <1>7, <2>1, <2>2
<1>13. Entered' = Entered \cup {x}
  BY <1>8, <1>10, <1>11
<1>14. Entered' = IF IsLocal("assembly") THEN Entered \cup {x} ELSE Entered
  BY <1>2, <1>13
<1>. QED
  BY <1>0, <1>2, <1>4, <1>5, <1>10, <1>12, <1>14, VisitKeepsCauses

\* The walk of an output ends, and what it found becomes the queue.
LEMMA CollectKeepsCauses ==
    ASSUME world \in Worlds, WalkInv, PlacesInv, CausesInv, Collect
    PROVE  CausesInv'
<1>0. PICK k : k = CurrentOutput
  OBVIOUS
<1>1. PICK e : e = Occurrence
  OBVIOUS
<1>2. /\ Visiting /\ Refusal = "none" /\ ~IsLocal("assembly") /\ stack # <<>>
      /\ stack' = Advanced /\ charged' = AfterVisit
      /\ occurrences' = Append(occurrences, e)
      /\ UNCHANGED <<world, stage, selectedOrder, outputIndex, queue>>
  BY <1>1 DEF Collect, Visiting, Walking
<1>3. /\ k \in AssemblyOutputs /\ WalkPlaces /\ StackInv /\ FrameAt(k, Top)
      /\ stage \in {"walk", "expand"}
      /\ \E q : VisitsAt(k, q)
  BY <1>0, <1>2, VisitPosition
<1>4. PICK q : VisitsAt(k, q)
  BY <1>3
<1>5. PICK x : x = <<k, q>>
  OBVIOUS
<1>6. e.path = Path
  BY <1>1 DEF Occurrence
<1>7. stage = "expand" => /\ q.kind = "part"
                          /\ \A r \in Active(k) : ~Leads(Path, r.path)
  <2>1. ASSUME stage = "expand" PROVE FoundAt(k, e)
    BY <1>1, <1>2, <1>3, <2>1, CollectedPosition
  <2>2. q \in Active(k) /\ q.path = Path
    BY <1>4 DEF VisitsAt
  <2>. QED
    BY <1>3, <1>6, <2>1, <2>2, PartsLeadNowhere
<1>8. /\ stage = "walk" => CurrentList' = CurrentList \cup {e}
      /\ stage = "expand" => CurrentList' = CurrentList
  <2>1. Range(occurrences') = Range(occurrences) \cup {e}
    <3>1. Listed(occurrences)
      BY DEF WalkInv, ListsInv
    <3>. QED
      BY <1>2, <3>1, AppendedRange
  <2>. QED
    BY <1>2, <2>1 DEF CurrentList
<1>9. ASSUME NEW r \in Active(k)
      PROVE  /\ Later(Range(stack'), CurrentList', r.path)
                  <=> \/ \E f \in Range(Advanced) : Ahead(r.path, f.path, f.next)
                      \/ Leads(Path, r.path)
                      \/ \E o \in CurrentList : Leads(o.path, r.path)
             /\ r.kind = "assembly" /\ r.path # Path =>
                  ((\E o \in CurrentList' : o.path = r.path)
                      <=> (\E o \in CurrentList : o.path = r.path))
  BY <1>2, <1>3, <1>6, <1>7, <1>8 DEF Later
<1>10. /\ x \in Places \ Passed /\ Passed' = Passed \cup {x}
       /\ Started' = Started
       /\ IF q.kind = "assembly" /\ \A o \in CurrentList' : o.path # Path
          THEN Entered' = Entered \cup {x} ELSE Entered' = Entered
  BY <1>0, <1>2, <1>4, <1>5, <1>9, VisitPasses
<1>11. ~(q.kind = "assembly" /\ \A o \in CurrentList' : o.path # Path)
  BY <1>3, <1>6, <1>7, <1>8
<1>12. \A f \in Range(stack') : f.document \in {Root} \cup charged.documents
  BY <1>2, AdvancedDocuments DEF CausesInv
<1>13. Entered' = IF IsLocal("assembly") THEN Entered \cup {x} ELSE Entered
  BY <1>2, <1>10, <1>11
<1>. QED
  BY <1>0, <1>2, <1>4, <1>5, <1>10, <1>12, <1>13, VisitKeepsCauses

\* Every step keeps the account, unless it fails.
LEMMA CausesStep ==
    ASSUME world \in Worlds, WalkInv, PlacesInv, CausesInv, Next, stage' # "failed"
    PROVE  CausesInv'
<1>1. ~RefuseVisit
  BY DEF RefuseVisit, Refuse
<1>. QED
  BY <1>1, BeginKeepsCauses, SelectDirectKeepsCauses, StartKeepsCauses,
     FinishAssemblyKeepsCauses, PopKeepsCauses, SkipKeepsCauses, EnterKeepsCauses,
     CollectKeepsCauses, AdmitKeepsCauses, KeepKeepsCauses, EnterExternalKeepsCauses,
     ExpansionKeepsCauses DEF Next

-----------------------------------------------------------------------------
(* A traversal that ends has found everything to be in order.                *)
\* It has visited everything, and has entered every assembly.
LEMMA EverythingVisited ==
    ASSUME world \in Worlds, WalkInv, PlacesInv, stage = "traversed"
    PROVE  /\ DOMAIN selectedOrder = DOMAIN world.requested
           /\ Started = AssemblyOutputs /\ Passed = Places
           /\ \A x \in Places : x[2].kind = "assembly" => x \in Entered
<1>1. DOMAIN selectedOrder = DOMAIN world.requested
  <2>1. Listed(selectedOrder) /\ Listed(world.requested)
        /\ Len(selectedOrder) = Len(world.requested)
    BY Worldly DEF WalkInv, SelectedInv, ListsInv, AllSelected
  <2>. QED
    BY <2>1, Lists
<1>2. Started = AssemblyOutputs
  BY <1>1 DEF Started, AssemblyOutputs
<1>3. Range(stack) = {}
  BY EmptyList DEF WalkInv, ListsInv
<1>4. ASSUME NEW k \in AssemblyOutputs
      PROVE  \A o \in ListOf(k) : FoundAt(k, o)
  <2>1. k \in DOMAIN selectedOrder
    BY <1>1 DEF AssemblyOutputs
  <2>2. ListOf(k) = Range(selectedOrder[k].occurrences)
    BY DEF ListOf
  <2>3. \A o \in Range(selectedOrder[k].occurrences) : FoundAt(k, o)
    BY <2>1 DEF PlacesInv, SelectedPlaces, Expanded
  <2>. QED
    BY <2>2, <2>3
<1>5. ASSUME NEW x \in Places
      PROVE  x \in Passed /\ (x[2].kind = "assembly" => x \in Entered)
  <2>1. x[1] \in AssemblyOutputs /\ x[2] \in Active(x[1])
    BY PlaceOf
  <2>2. \A o \in ListOf(x[1]) :
           ~Leads(o.path, x[2].path) /\ (o.path = x[2].path => x[2].kind = "part")
    BY <1>4, <2>1, PartsLeadNowhere
  <2>3. ~Later(FramesOf(x[1]), ListOf(x[1]), x[2].path)
    BY <1>3, <2>2 DEF Later, FramesOf
  <2>4. x \in Passed
    BY <1>2, <2>1, <2>3 DEF Passed
  <2>. QED
    BY <2>2, <2>4 DEF Entered
<1>6. Passed = Places
  BY <1>5, VisitedPlaces
<1>. QED
  BY <1>1, <1>2, <1>5, <1>6

\* Every part is counted then, as an occurrence or as a selected output.
LEMMA EveryPartCounted ==
    ASSUME world \in Worlds, WalkInv, PlacesInv, OutputsInv, stage = "traversed"
    PROVE  ContextualParts \subseteq charged.parts
<1>1. DOMAIN selectedOrder = DOMAIN world.requested
  BY EverythingVisited
<1>2. ASSUME NEW key \in DirectParts PROVE key \in charged.parts
  <2>1. PICK name \in Range(world.requested) :
               /\ key = LocalPart(Document(Root).outputs[name].node, world.configuration)
               /\ Document(Root).outputs[name].kind = "part"
    BY <1>2 DEF DirectParts
  <2>2. PICK k \in DOMAIN world.requested : world.requested[k] = name
    BY <2>1 DEF Range
  <2>3. /\ selectedOrder[k] =
              [name |-> world.requested[k],
               node |-> Document(Root).outputs[world.requested[k]].node,
               kind |-> Document(Root).outputs[world.requested[k]].kind,
               occurrences |-> selectedOrder[k].occurrences]
    BY <1>1, <2>2 DEF WalkInv, SelectedInv
  <2>4. /\ selectedOrder[k].kind = Document(Root).outputs[name].kind
        /\ selectedOrder[k].node = Document(Root).outputs[name].node
    BY <2>2, <2>3
  <2>. QED
    BY <1>1, <2>1, <2>2, <2>4 DEF OutputsInv
<1>3. ASSUME NEW p \in Everything, p.kind = "part" PROVE KeyOf(p) \in charged.parts
  <2>1. PICK k \in AssemblyOutputs : p \in Active(k)
    BY EverythingPlaced
  <2>2. PICK list : list = selectedOrder[k].occurrences
    OBVIOUS
  <2>3. k \in DOMAIN selectedOrder
    BY <1>1 DEF AssemblyOutputs
  <2>4. /\ Listing(list, p.path)
        /\ \A o \in Range(list) : FoundAt(k, o) /\ Found(o)
    BY <1>3, <2>1, <2>2, <2>3 DEF PlacesInv, SelectedPlaces, Expanded, Parts, WalkInv, ListsInv
  <2>5. PICK o \in Range(list) : o.path = p.path
    BY <1>3, <2>1, <2>4, PartListed DEF OnList, Parts
  <2>6. PICK q \in Parts(k) : Same(q, o) /\ OfKind(q, o)
    BY <2>4 DEF FoundAt
  <2>7. q = p
    BY <2>1, <2>5, <2>6, PartsReached, ActiveReached, UniquePosition DEF Same
  <2>8. IsOccurrence(o) /\ PartKey(o) \in charged.parts
    BY <2>4 DEF Found
  <2>9. PartKey(o) = KeyOf(q)
    <3>1. CASE q.document = Root
      <4>1. o.source = "local" /\ o.node = q.node
        BY <2>6, <2>8, <3>1 DEF Same, OfKind, IsOccurrence
      <4>. QED
        BY <2>6, <3>1, <4>1 DEF PartKey, KeyOf, Same
    <3>2. CASE q.document # Root
      <4>1. o.source = "external"
        BY <2>6, <2>8, <3>2 DEF Same, IsOccurrence
      <4>2. IF o.kind = "part" THEN q.through = {q.node}
            ELSE o.node = q.node /\ q.through # {q.node}
        BY <2>6, <3>2 DEF OfKind, Direct
      <4>. QED
        BY <2>6, <3>2, <4>1, <4>2 DEF PartKey, KeyOf, Same
    <3>. QED
      BY <3>1, <3>2
  <2>. QED
    BY <2>7, <2>8, <2>9
<1>. QED
  BY <1>2, <1>3 DEF ContextualParts

\* So what is evaluated can be.
LEMMA EndsEvaluable ==
    ASSUME world \in Worlds, WalkInv, PlacesInv, CausesInv, stage = "traversed"
    PROVE  Evaluable
<1>1. /\ DOMAIN selectedOrder = DOMAIN world.requested /\ Passed = Places
      /\ \A x \in Places : x[2].kind = "assembly" => x \in Entered
  BY EverythingVisited
<1>2. \A x \in Places : x[2].document \in DOMAIN world.documents
  <2>1. Root \in DOMAIN world.documents
    BY Worldly
  <2>2. /\ charged.documents \subseteq DOMAIN world.documents
        /\ charged.documents = {x[2].document : x \in Passed} \ {Root}
    BY DEF CausesInv, OutputsInv, ChargedInv
  <2>. QED
    BY <1>1, <2>1, <2>2
<1>3. \A x \in Places : ~x[2].bad
  BY <1>1, <1>2 DEF CausesInv, FaultsInv
<1>4. ASSUME NEW p \in Everything PROVE ~p.bad
  <2>1. PICK k \in AssemblyOutputs : p \in Active(k) /\ <<k, p>> \in Places
    BY EverythingPlaced
  <2>2. PICK x : x = <<k, p>>
    OBVIOUS
  <2>3. x[2] = p /\ x \in Places
    BY <2>1, <2>2
  <2>. QED
    BY <1>3, <2>3
<1>5. world.requested # <<>> /\ KnownConfiguration(Root, world.configuration)
  BY DEF WalkInv, ListsInv, RequestInv, CausesInv, OutputsInv
<1>6. ASSUME NEW k \in DOMAIN world.requested
      PROVE  /\ Has(Document(Root).outputs, world.requested[k])
             /\ Sound(Root, world.requested[k])
             /\ world.mode = "product" \/ k \in AssemblyOutputs
  BY <1>1 DEF WalkInv, SelectedInv, Has, Sound, CausesInv, OutputsInv
<1>. QED
  BY <1>4, <1>5, <1>6 DEF Evaluable

\* And no total is over its limit.
LEMMA EndsWithin ==
    ASSUME world \in Worlds, WalkInv, PlacesInv, CausesInv, stage = "traversed"
    PROVE  \A name \in LimitNames : Total(name) <= Limit(name)
<1>1. /\ Started = AssemblyOutputs /\ Passed = Places
      /\ \A x \in Places : x[2].kind = "assembly" => x \in Entered
  BY EverythingVisited
<1>2. \A name \in LimitNames : Limit(name) \in Nat
  BY LimitsAreNumbers
<1>3. /\ Total("maxActiveOccurrences") = charged.active
      /\ Total("maxPlacementOperations") = charged.placements
      /\ Total("maxOccurrencePathSegments") = charged.segments
  BY <1>1, CountableTotals DEF CausesInv, ChargedInv
<1>4. Total("maxScannedInstances") = charged.scanned
  <2>1. Units(Scans, Places) = Units(Scans, Entered)
    <3>1. Entered \subseteq Places
      BY VisitedPlaces
    <3>2. \A x \in Places \ Entered : Scans[x] = 0
      BY <1>1 DEF Scans
    <3>3. ASSUME NEW u \in Units(Scans, Places) PROVE u \in Units(Scans, Entered)
      <4>1. u \in Places \X Nat /\ u[2] \in 1 .. Scans[u[1]]
        BY <3>3 DEF Units
      <4>2. u[1] \in Places /\ u = <<u[1], u[2]>> /\ u[2] \in Nat
        BY <4>1
      <4>3. Scans[u[1]] # 0
        BY <4>1
      <4>4. u[1] \in Entered
        BY <3>2, <4>2, <4>3
      <4>5. u \in Entered \X Nat
        BY <4>2, <4>4
      <4>. QED
        BY <4>1, <4>5 DEF Units
    <3>4. Units(Scans, Entered) \subseteq Units(Scans, Places)
      BY <3>1 DEF Units
    <3>. QED
      BY <3>3, <3>4
  <2>. QED
    BY <1>1, <2>1, CountableTotals DEF CausesInv, ChargedInv, Amount
<1>5. ExternalDocuments = charged.documents
  <2>1. \A p \in Everything : \E x \in Places : x[2] = p
    <3>1. ASSUME NEW p \in Everything PROVE \E x \in Places : x[2] = p
      <4>1. PICK k \in AssemblyOutputs : p \in Active(k) /\ <<k, p>> \in Places
        BY EverythingPlaced
      <4>2. <<k, p>>[2] = p
        OBVIOUS
      <4>. QED
        BY <4>1, <4>2
    <3>. QED
      BY <3>1
  <2>2. charged.documents = {x[2].document : x \in Places} \ {Root}
    BY <1>1 DEF CausesInv, ChargedInv
  <2>3. ExternalDocuments \subseteq charged.documents
    BY <2>1, <2>2 DEF ExternalDocuments
  <2>. QED
    BY <2>3, CountedDocuments DEF CausesInv
<1>6. Total("maxAssemblyDepth") <= Limit("maxAssemblyDepth")
  <2>1. Limit("maxAssemblyDepth") \in Nat
    BY <1>2 DEF LimitNames
  <2>2. ASSUME NEW n \in Depths PROVE n \in Nat /\ n <= Limit("maxAssemblyDepth")
    <3>1. CASE n = 1 /\ AssemblyOutputs # {}
      BY <1>1, <3>1 DEF CausesInv, WithinInv
    <3>2. ASSUME NEW p \in Everything, p.kind = "assembly", n = Len(p.path) + 1
          PROVE  n \in Nat /\ n <= Limit("maxAssemblyDepth")
      <4>1. PICK k \in AssemblyOutputs : p \in Active(k) /\ <<k, p>> \in Places
        BY EverythingPlaced
      <4>2. PICK x : x = <<k, p>>
        OBVIOUS
      <4>3. x \in Passed /\ x[2] = p
        BY <1>1, <4>1, <4>2
      <4>4. Len(p.path) + 1 <= Limit("maxAssemblyDepth")
        BY <3>2, <4>3 DEF CausesInv, WithinInv
      <4>5. Len(p.path) \in Nat
        BY <4>1, ActiveReached, ReachedShape
      <4>. QED
        BY <3>2, <4>4, <4>5
    <3>. QED
      BY <2>2, <3>1, <3>2 DEF Depths
  <2>3. PICK S : S = {0} \cup Depths
    OBVIOUS
  <2>4. S \in SUBSET Nat /\ S # {} /\ \A n \in S : n <= Limit("maxAssemblyDepth")
    BY <2>1, <2>2, <2>3
  <2>5. Max(S) \in S
    BY <2>1, <2>4, LargestOf
  <2>6. Total("maxAssemblyDepth") = Max(S)
    BY <2>3 DEF Total
  <2>. QED
    BY <2>4, <2>5, <2>6
<1>7. Total("maxContextualParts") <= Limit("maxContextualParts")
  <2>1. /\ ContextualParts \subseteq charged.parts /\ IsFiniteSet(charged.parts)
        /\ Cardinality(charged.parts) <= Limit("maxContextualParts")
    BY EveryPartCounted DEF CausesInv, WalkInv, CountersInv
  <2>2. /\ Cardinality(ContextualParts) <= Cardinality(charged.parts)
        /\ Cardinality(ContextualParts) \in Nat /\ Cardinality(charged.parts) \in Nat
    BY <2>1, FS_Subset, FS_CardinalityType
  <2>3. Limit("maxContextualParts") \in Nat
    BY <1>2 DEF LimitNames
  <2>. QED
    BY <2>1, <2>2, <2>3 DEF Total
<1>8. Total("maxSelectedOutputs") <= Limit("maxSelectedOutputs")
  BY DEF Total, WalkInv, ListsInv, RequestInv
<1>9. Total("maxExternalDocuments") <= Limit("maxExternalDocuments")
  BY <1>5 DEF Total, CausesInv, WithinInv
<1>10. /\ Total("maxActiveOccurrences") <= Limit("maxActiveOccurrences")
       /\ Total("maxPlacementOperations") <= Limit("maxPlacementOperations")
       /\ Total("maxOccurrencePathSegments") <= Limit("maxOccurrencePathSegments")
       /\ Total("maxScannedInstances") <= Limit("maxScannedInstances")
  BY <1>3, <1>4 DEF CausesInv, WithinInv
<1>. QED
  BY <1>6, <1>7, <1>8, <1>9, <1>10 DEF LimitNames

-----------------------------------------------------------------------------
(* A traversal that fails does so for a cause.                               *)
\* What the reason that is given says of the call.
Cause(reason) ==
    IF reason \in LimitNames THEN Total(reason) > Limit(reason) ELSE ~Evaluable

\* The totals are numbers, and so what exceeds a limit is not within it.
LEMMA TotalsAreNumbers ==
    ASSUME world \in Worlds
    PROVE  /\ \A name \in LimitNames : Total(name) \in Nat /\ Limit(name) \in Nat
           /\ \A n \in Depths : n \in Nat /\ n <= Total("maxAssemblyDepth")
<1>1. /\ Total("maxActiveOccurrences") \in Nat /\ Total("maxPlacementOperations") \in Nat
      /\ Total("maxOccurrencePathSegments") \in Nat /\ Total("maxScannedInstances") \in Nat
  <2>1. {} \in SUBSET Places /\ {} \in SUBSET AssemblyOutputs
    OBVIOUS
  <2>. QED
    BY <2>1, AmountsAreNumbers
<1>2. Total("maxSelectedOutputs") \in Nat
  BY Worldly, Lists DEF Total
<1>3. Total("maxExternalDocuments") \in Nat /\ Total("maxContextualParts") \in Nat
  BY FiniteSetsCounted, FS_CardinalityType DEF Total
<1>4. /\ Total("maxAssemblyDepth") \in Nat
      /\ \A n \in Depths : n \in Nat /\ n <= Total("maxAssemblyDepth")
  <2>1. PICK S : S = {0} \cup Depths
    OBVIOUS
  <2>2. PathBound + 1 \in Nat
    BY LimitsAreNumbers
  <2>3. S \in SUBSET Nat /\ S # {} /\ \A n \in S : n <= PathBound + 1
    BY <2>1, <2>2, FiniteSetsCounted
  <2>4. Max(S) \in S /\ \A n \in S : n <= Max(S)
    BY <2>2, <2>3, LargestOf
  <2>5. Total("maxAssemblyDepth") = Max(S)
    BY <2>1 DEF Total
  <2>. QED
    BY <2>1, <2>3, <2>4, <2>5
<1>. QED
  BY <1>1, <1>2, <1>3, <1>4, LimitsAreNumbers DEF LimitNames

\* A number that is over a limit, or a set that is, of what is counted in all.
LEMMA OverLimit ==
    ASSUME world \in Worlds, NEW name \in LimitNames, NEW n \in Nat, n > Limit(name),
           n <= Total(name)
    PROVE  Cause(name)
<1>1. Total(name) \in Nat /\ Limit(name) \in Nat
  BY TotalsAreNumbers
<1>. QED
  BY <1>1 DEF Cause

\* More parts, or documents, than allowed are too many of what there is.
LEMMA TooMany ==
    ASSUME world \in Worlds, NEW S
    PROVE  /\ S \subseteq ContextualParts /\ Cardinality(S) > Limit("maxContextualParts")
                 => Cause("maxContextualParts")
           /\ S \subseteq ExternalDocuments /\ Cardinality(S) > Limit("maxExternalDocuments")
                 => Cause("maxExternalDocuments")
<1>1. IsFiniteSet(ExternalDocuments) /\ IsFiniteSet(ContextualParts)
  BY FiniteSetsCounted
<1>2. ASSUME S \subseteq ContextualParts, Cardinality(S) > Limit("maxContextualParts")
      PROVE  Cause("maxContextualParts")
  <2>1. Cardinality(S) \in Nat /\ Cardinality(S) <= Cardinality(ContextualParts)
    BY <1>1, <1>2, FS_Subset, FS_CardinalityType
  <2>2. Total("maxContextualParts") = Cardinality(ContextualParts)
    BY DEF Total
  <2>. QED
    BY <1>2, <2>1, <2>2, OverLimit DEF LimitNames
<1>3. ASSUME S \subseteq ExternalDocuments, Cardinality(S) > Limit("maxExternalDocuments")
      PROVE  Cause("maxExternalDocuments")
  <2>1. Cardinality(S) \in Nat /\ Cardinality(S) <= Cardinality(ExternalDocuments)
    BY <1>1, <1>3, FS_Subset, FS_CardinalityType
  <2>2. Total("maxExternalDocuments") = Cardinality(ExternalDocuments)
    BY DEF Total
  <2>. QED
    BY <1>3, <2>1, <2>2, OverLimit DEF LimitNames
<1>. QED
  BY <1>2, <1>3

\* A path that is deeper than allowed.
LEMMA TooDeep ==
    ASSUME world \in Worlds, NEW n \in Depths, n > Limit("maxAssemblyDepth")
    PROVE  Cause("maxAssemblyDepth")
  BY TotalsAreNumbers, OverLimit DEF LimitNames

\* A bad position, or a request that is at fault.
LEMMA Unevaluable ==
    ASSUME NEW reason, reason \notin LimitNames,
           \/ \E p \in Everything : p.bad
           \/ ~KnownConfiguration(Root, world.configuration) \/ world.requested = <<>>
           \/ \E k \in DOMAIN world.requested :
                 \/ ~Has(Document(Root).outputs, world.requested[k])
                 \/ ~Sound(Root, world.requested[k])
                 \/ world.mode # "product" /\ k \notin AssemblyOutputs
    PROVE  Cause(reason)
  BY DEF Cause, Evaluable

\* What was counted as parts are parts.
LEMMA PartsAccounted ==
    AccountedInv <=> charged.parts \subseteq ContextualParts
BY DEF AccountedInv, ContextualParts

\* The request is refused.
LEMMA BeginCaused ==
    ASSUME world \in Worlds, Begin, stage' = "failed"
    PROVE  Cause(failure')
<1>1. CASE ~KnownConfiguration(Root, world.configuration) /\ Refuse("configuration")
  BY <1>1, Unevaluable DEF LimitNames, Refuse
<1>2. CASE Refuse("maxSelectedOutputs") /\ Len(world.requested) > Limit("maxSelectedOutputs")
  BY <1>2 DEF Cause, Total, LimitNames, Refuse
<1>3. CASE Refuse("output") /\ world.requested = <<>>
  BY <1>3, Unevaluable DEF LimitNames, Refuse
<1>. QED
  BY <1>1, <1>2, <1>3, BeginChecked

\* A requested output is refused.
LEMMA DirectCaused ==
    ASSUME world \in Worlds, WalkInv, AccountedInv, SelectDirect, stage' = "failed"
    PROVE  Cause(failure')
<1>1. Selecting /\ stage = "select" /\ Len(selectedOrder) < Len(world.requested)
  BY DirectChecked DEF Selecting
<1>2. PICK n : n = Len(selectedOrder) + 1
  OBVIOUS
<1>3. /\ n \in DOMAIN world.requested /\ Name = world.requested[n]
      /\ n \in AssemblyOutputs <=>
            Has(Document(Root).outputs, Name) /\ IsAssemblyOutput(Root, Name)
  BY <1>1, <1>2, NextSelected
<1>4. Has(Document(Root).outputs, Name) => ~IsAssemblyOutput(Root, Name)
  BY DirectChecked
<1>5. CASE Refuse("output") /\ ~Has(Document(Root).outputs, Name)
  BY <1>3, <1>5, Unevaluable DEF LimitNames, Refuse
<1>6. CASE /\ Refuse("unsupported")
           /\ ~(/\ Has(Document(Root).outputs, Name) /\ world.mode = "product"
                /\ Sound(Root, Name))
  BY <1>3, <1>4, <1>6, Unevaluable DEF LimitNames, Refuse
<1>7. CASE /\ Refuse("maxContextualParts")
           /\ Has(Document(Root).outputs, Name) /\ world.mode = "product" /\ Sound(Root, Name)
           /\ Cardinality(AfterSelection.parts) > Limit("maxContextualParts")
  <2>1. PICK key : key = LocalPart(Reference.node, world.configuration)
    OBVIOUS
  <2>2. Reference.kind = "part" => key \in DirectParts
    BY <1>3, <1>7, <2>1 DEF DirectParts, Reference, Range
  <2>3. charged = [scanned |-> charged.scanned, active |-> charged.active,
                  placements |-> charged.placements, segments |-> charged.segments,
                  parts |-> charged.parts, documents |-> charged.documents]
    BY DEF WalkInv, CountersInv
  <2>4. /\ Reference.kind = "part" => AfterSelection.parts = charged.parts \cup {key}
        /\ Reference.kind # "part" => AfterSelection.parts = charged.parts
    BY <2>1, <2>3 DEF AfterSelection
  <2>5. AfterSelection.parts \subseteq ContextualParts
    BY <2>2, <2>4, PartsAccounted DEF ContextualParts
  <2>. QED
    BY <1>7, <2>5, TooMany DEF Refuse
<1>. QED
  BY <1>5, <1>6, <1>7, DirectChecked DEF Selecting

\* A requested assembly is refused.
LEMMA StartCaused ==
    ASSUME world \in Worlds, WalkInv, CausesInv, StartAssembly, stage' = "failed"
    PROVE  Cause(failure')
<1>1. /\ stage = "select" /\ Len(selectedOrder) < Len(world.requested)
      /\ Has(Document(Root).outputs, Name) /\ IsAssemblyOutput(Root, Name)
  BY StartChecked DEF Selecting
<1>2. PICK n : n = Len(selectedOrder) + 1
  OBVIOUS
<1>3. /\ n \in AssemblyOutputs /\ n \notin DOMAIN selectedOrder /\ Name = world.requested[n]
  BY <1>1, <1>2, NextSelected
<1>4. n \in AssemblyOutputs \ Started
  BY <1>1, <1>3 DEF Started
<1>5. CASE Refuse("maxAssemblyDepth") /\ Limit("maxAssemblyDepth") < 1
  <2>1. 1 \in Depths
    BY <1>3 DEF Depths
  <2>2. Limit("maxAssemblyDepth") \in Nat
    BY LimitsAreNumbers
  <2>3. 1 > Limit("maxAssemblyDepth")
    BY <1>5, <2>2
  <2>. QED
    BY <1>5, <2>1, <2>3, TooDeep DEF Refuse
<1>6. CASE /\ Refuse("maxScannedInstances")
           /\ Scanning(Root, Reference.node).scanned > Limit("maxScannedInstances")
  <2>1. charged = [scanned |-> charged.scanned, active |-> charged.active,
                  placements |-> charged.placements, segments |-> charged.segments,
                  parts |-> charged.parts, documents |-> charged.documents]
    BY DEF WalkInv, CountersInv
  <2>2. StartScans[n] = Len(InstancesOf(Root, Reference.node))
    <3>1. PICK p : p = StartOf(n)
      OBVIOUS
    <3>2. p.document = Root /\ p.node = Reference.node
      BY <1>3, <3>1 DEF StartOf, Reference
    <3>3. StartScans[n] = Scanned(p)
      BY <1>3, <3>1 DEF StartScans
    <3>. QED
      BY <3>2, <3>3 DEF Scanned
  <2>3. PICK m : m = Len(InstancesOf(Root, Reference.node))
    OBVIOUS
  <2>4. Scanning(Root, Reference.node) = [charged EXCEPT !.scanned = @ + m]
    BY <2>3 DEF Scanning
  <2>5. Scanning(Root, Reference.node).scanned = charged.scanned + StartScans[n]
    BY <2>1, <2>2, <2>3, <2>4
  <2>6. /\ Started \in SUBSET AssemblyOutputs /\ Started \cup {n} \in SUBSET AssemblyOutputs
        /\ Entered \in SUBSET Places
    BY <1>3, VisitedPlaces
  <2>7. IsFiniteSet(AssemblyOutputs) /\ \A k \in AssemblyOutputs : StartScans[k] \in Nat
    BY FiniteRequest, NumbersOfPlaces
  <2>8. Amount(StartScans, Started \cup {n}) = Amount(StartScans, Started) + StartScans[n]
    BY <1>4, <2>6, <2>7, AmountAdds
  <2>9. /\ Amount(StartScans, Started) \in Nat /\ Amount(Scans, Entered) \in Nat
        /\ Amount(StartScans, Started \cup {n}) + Amount(Scans, Entered)
              <= Total("maxScannedInstances")
    BY <2>6, AmountsAreNumbers
  <2>10. charged.scanned = Amount(StartScans, Started) + Amount(Scans, Entered)
    BY DEF CausesInv, ChargedInv
  <2>11. StartScans[n] \in Nat
    BY <1>3, <2>7
  <2>12. /\ charged.scanned + StartScans[n] \in Nat
         /\ charged.scanned + StartScans[n] <= Total("maxScannedInstances")
    BY <2>8, <2>9, <2>10, <2>11
  <2>. QED
    BY <1>6, <2>5, <2>12, OverLimit DEF Refuse, LimitNames
<1>. QED
  BY <1>5, <1>6, StartChecked

\* Nothing is in a document that is not there, but bad positions.
LEMMA MissingIsBad ==
    ASSUME world \in Worlds, NEW k \in AssemblyOutputs, NEW q \in Active(k),
           q.document \notin DOMAIN world.documents
    PROVE  q.bad
<1>1. PICK n \in 1 .. PathBound : q \in Level(k)[n]
  BY ActiveLevels
<1>2. PICK p \in Level(k)[n - 1] : \E i \in DOMAIN InstancesOf(p.document, p.node) : q = Target(p, i)
  BY <1>1, Parent
<1>3. PICK i \in DOMAIN InstancesOf(p.document, p.node) : q = Target(p, i)
  BY <1>2
<1>. QED
  BY <1>3 DEF Target, Has

\* A document that was resolved to nothing.
LEMMA AdmitCaused ==
    ASSUME world \in Worlds, WalkInv, CausesInv, AdmitDocuments, stage' = "failed"
    PROVE  Cause(failure')
<1>1. Refuse("resource") /\ \E d \in charged.documents : d \notin DOMAIN world.documents
  BY DEF AdmitDocuments, Has
<1>2. PICK x \in Passed : x[2].document \notin DOMAIN world.documents
  BY <1>1 DEF CausesInv, ChargedInv
<1>3. x[2] \in Everything /\ x[2].bad
  BY <1>2, VisitedPlaces, PlaceOf, PlaceAt, MissingIsBad
<1>. QED
  BY <1>1, <1>3, Unevaluable DEF Refuse, LimitNames

\* A visit is refused.
LEMMA VisitCaused ==
    ASSUME world \in Worlds, WalkInv, PlacesInv, CausesInv, AccountedInv, RefuseVisit
    PROVE  Cause(failure')
<1>0. PICK k : k = CurrentOutput
  OBVIOUS
<1>1. Visiting /\ Refusal # "none" /\ failure' = Refusal
  BY DEF RefuseVisit, Refuse
<1>. SUFFICES Cause(Refusal)
  BY <1>1
<1>2. /\ k \in AssemblyOutputs /\ IsFrame(Top) /\ Top.document \in DOMAIN world.documents
      /\ WalkPlaces /\ stack # <<>>
      /\ Top.depth = Len(Path) /\ Instance.kind \in {"part", "assembly"}
      /\ IsExternal(Instance) => Instance.resource # Root
      /\ \E q : VisitsAt(k, q)
  BY <1>0, <1>1, VisitPosition DEF IsFrame
<1>3. PICK q : VisitsAt(k, q)
  BY <1>2
<1>4. PICK x : x = <<k, q>>
  OBVIOUS
<1>5. x \in Places \ Passed /\ x[1] = k /\ x[2] = q
  BY <1>0, <1>1, <1>3, <1>4, VisitIsNew
<1>6. /\ q \in Active(k) /\ q.path = Path /\ q.kind = Instance.kind
      /\ q.document = IF IsExternal(Instance) THEN Instance.resource ELSE Top.document
      /\ q.node = IF Has(world.documents, q.document)
                  THEN Meant(Instance, q.document) ELSE Nothing
      /\ q.bad <=> \/ ~Instance.placeable \/ ~Has(world.documents, q.document)
                   \/ IsExternal(Instance) /\ Top.document # Root
                   \/ q.node = Nothing /\ ~(IsExternal(Instance) /\ Instance.kind = "part")
                   \/ ~IsExternal(Instance) /\ q.node \in Top.ancestry
                   \/ Instance.kind = "assembly" /\ ~KnownConfiguration(q.document, Configuration)
  BY <1>3 DEF VisitsAt
<1>7. q \in Everything
  BY <1>2, <1>6, PlaceAt
<1>8. /\ AfterVisit.active = charged.active + Ones[x]
      /\ AfterVisit.placements = charged.placements + Operations[x]
      /\ AfterVisit.segments = charged.segments
         \/ AfterVisit.segments = charged.segments + Segments[x]
      /\ AfterVisit.documents = charged.documents \cup ({q.document} \ {Root})
      /\ AfterVisit.parts = charged.parts \cup PartKeys
      /\ IsLocal("assembly") =>
            /\ q.kind = "assembly" /\ q.document = Top.document
            /\ q.node = Instance.node
            /\ AfterVisit.scanned = charged.scanned + Scanned(q)
      /\ ~IsLocal("assembly") => AfterVisit.scanned = charged.scanned
  BY <1>0, <1>1, <1>3, <1>4, VisitCosts DEF CausesInv
<1>9. /\ charged.active \in Nat /\ charged.placements \in Nat
      /\ charged.segments \in Nat /\ charged.scanned \in Nat
      /\ Ones[x] \in Nat /\ Operations[x] \in Nat /\ Segments[x] \in Nat
      /\ Scans[x] \in Nat
      /\ charged.active + Ones[x] <= Total("maxActiveOccurrences")
      /\ charged.placements + Operations[x] <= Total("maxPlacementOperations")
      /\ charged.segments + Segments[x] <= Total("maxOccurrencePathSegments")
      /\ charged.segments <= Total("maxOccurrencePathSegments")
      /\ charged.scanned + Scans[x] <= Total("maxScannedInstances")
      /\ charged.scanned <= Total("maxScannedInstances")
  BY <1>5, OneMorePlace DEF CausesInv
<1>10. ASSUME q.bad, Refusal \notin LimitNames PROVE Cause(Refusal)
  BY <1>7, <1>10, Unevaluable
<1>11. ASSUME NEW name \in LimitNames, Refusal = name, NEW n \in Nat, n > Limit(name),
              n <= Total(name)
       PROVE  Cause(Refusal)
  BY <1>11, OverLimit
<1>12. CASE Refusal = "maxActiveOccurrences" /\ AfterVisit.active > Limit("maxActiveOccurrences")
  <2>1. AfterVisit.active \in Nat /\ AfterVisit.active <= Total("maxActiveOccurrences")
    BY <1>8, <1>9
  <2>. QED
    BY <1>11, <1>12, <2>1 DEF LimitNames
<1>13. CASE /\ Refusal = "maxPlacementOperations"
            /\ AfterVisit.placements > Limit("maxPlacementOperations")
  <2>1. AfterVisit.placements \in Nat /\ AfterVisit.placements <= Total("maxPlacementOperations")
    BY <1>8, <1>9
  <2>. QED
    BY <1>11, <1>13, <2>1 DEF LimitNames
<1>14. CASE Refusal = "boundary" /\ IsExternal(Instance) /\ Top.document # Root
  BY <1>6, <1>10, <1>14 DEF LimitNames
<1>15. CASE /\ Refusal = "unsupported" /\ ~IsExternal(Instance)
            /\ ~IsLocal("part") /\ ~IsLocal("assembly")
  <2>1. ~IsLocal(Instance.kind)
    BY <1>2, <1>15
  <2>2. KindOf(Top.document, Instance.node) # Instance.kind
    BY <1>15, <2>1 DEF IsLocal
  <2>3. Meant(Instance, Top.document) = Nothing
    BY <1>15, <2>2 DEF Meant
  <2>4. q.node = Nothing
    BY <1>2, <1>6, <1>15, <2>3
  <2>. QED
    BY <1>6, <1>10, <1>15, <2>4 DEF LimitNames
<1>16. CASE Refusal = "placement" /\ ~Instance.placeable
  BY <1>6, <1>10, <1>16 DEF LimitNames
<1>17. CASE /\ Refusal = "maxExternalDocuments"
            /\ Cardinality(AfterVisit.documents) > Limit("maxExternalDocuments")
  <2>1. AfterVisit.documents \subseteq ExternalDocuments
    BY <1>5, <1>8, CountedDocuments DEF CausesInv
  <2>. QED
    BY <1>17, <2>1, TooMany
<1>18. CASE Refusal = "recursion" /\ IsLocal("assembly") /\ Instance.node \in Top.ancestry
  <2>1. ~IsExternal(Instance)
    BY <1>18 DEF IsLocal
  <2>. QED
    BY <1>6, <1>8, <1>10, <1>18, <2>1 DEF LimitNames
<1>19. CASE Refusal = "maxAssemblyDepth" /\ Nests /\ Top.depth + 1 > Limit("maxAssemblyDepth")
  <2>1. q.kind = "assembly"
    BY <1>6, <1>19 DEF Nests, IsLocal
  <2>2. Len(q.path) + 1 \in Depths
    BY <1>7, <2>1 DEF Depths
  <2>. QED
    BY <1>2, <1>6, <1>19, <2>2, TooDeep
<1>20. CASE /\ Refusal = "configuration" /\ IsLocal("assembly")
            /\ ~KnownConfiguration(Top.document, Configuration)
  BY <1>6, <1>8, <1>10, <1>20 DEF LimitNames
<1>21. CASE /\ Refusal = "maxScannedInstances"
            /\ AfterVisit.scanned > Limit("maxScannedInstances")
            /\ Instance.placeable
            /\ ~(IsLocal("assembly") /\ Instance.node \in Top.ancestry)
            /\ ~(IsLocal("assembly") /\ ~KnownConfiguration(Top.document, Configuration))
  <2>1. ASSUME IsLocal("assembly") PROVE Scans[x] = Scanned(q)
    <3>1. ~IsExternal(Instance) /\ Instance.node # Nothing
      BY <1>2, <2>1, LocalNode
    <3>2. ~q.bad
      BY <1>2, <1>6, <1>8, <1>21, <2>1, <3>1 DEF Has
    <3>. QED
      BY <1>5, <1>8, <2>1, <3>2 DEF Scans
  <2>2. AfterVisit.scanned \in Nat /\ AfterVisit.scanned <= Total("maxScannedInstances")
    BY <1>8, <1>9, <2>1
  <2>. QED
    BY <1>11, <1>21, <2>2 DEF LimitNames
<1>22. CASE /\ Refusal = "maxOccurrencePathSegments"
            /\ AfterVisit.segments > Limit("maxOccurrencePathSegments")
  <2>1. AfterVisit.segments \in Nat /\ AfterVisit.segments <= Total("maxOccurrencePathSegments")
    BY <1>8, <1>9
  <2>. QED
    BY <1>11, <1>22, <2>1 DEF LimitNames
<1>23. CASE /\ Refusal = "maxContextualParts"
            /\ Cardinality(AfterVisit.parts) > Limit("maxContextualParts")
  <2>1. PartKeys \subseteq {KeyOf(p) : p \in {r \in Everything : r.kind = "part"}}
    BY <1>0, <1>1, <1>3, <1>7, VisitedKey
  <2>2. AfterVisit.parts \subseteq ContextualParts
    BY <1>8, <2>1, PartsAccounted DEF ContextualParts
  <2>. QED
    BY <1>23, <2>2, TooMany
<1>. QED
  BY <1>1, <1>12, <1>13, <1>14, <1>15, <1>16, <1>17, <1>18, <1>19, <1>20, <1>21, <1>22,
     <1>23, VisitChecked, SMTT(30)

\* An assembly directly behind the boundary is bad unless its output is what it is meant
\* to be.
LEMMA DirectIsExternal ==
    ASSUME world \in Worlds, NEW k \in AssemblyOutputs, NEW q \in Active(k),
           q.kind = "assembly", q.through = {q.node}, ~q.bad
    PROVE  /\ Has(Document(q.document).outputs, q.output)
           /\ IsAssemblyOutput(q.document, q.output)
           /\ KnownConfiguration(q.document, q.configuration)
<1>1. PICK n \in 1 .. PathBound : q \in Level(k)[n]
  BY ActiveLevels
<1>2. PICK p \in Level(k)[n - 1] : \E i \in DOMAIN InstancesOf(p.document, p.node) : q = Target(p, i)
  BY <1>1, Parent
<1>3. PICK i \in DOMAIN InstancesOf(p.document, p.node) : q = Target(p, i)
  BY <1>2
<1>4. p \in Reached(k)
  <2>1. PathBound \in Nat
    BY LimitsAreNumbers
  <2>2. n - 1 \in 0 .. PathBound
    BY <2>1
  <2>. QED
    BY <1>2, <2>2 DEF Reached
<1>5. p.node \in p.through
  BY <1>4, ThroughItself
<1>6. PICK instance : instance = InstancesOf(p.document, p.node)[i]
  OBVIOUS
<1>7. PICK c : c = CASE instance.mode = "inherit" -> p.configuration
                     [] instance.mode = "base" -> Base
                     [] instance.mode = "named" -> instance.configuration
  OBVIOUS
<1>8. /\ q.kind = instance.kind /\ q.configuration = c
      /\ q.document = IF IsExternal(instance) THEN instance.resource ELSE p.document
      /\ q.node = IF Has(world.documents, q.document)
                  THEN Meant(instance, q.document) ELSE Nothing
      /\ q.output = IF IsExternal(instance) THEN instance.output ELSE p.output
      /\ q.through = (IF IsExternal(instance) THEN {} ELSE p.through) \cup {q.node}
      /\ q.bad <=> \/ ~instance.placeable \/ ~Has(world.documents, q.document)
                   \/ IsExternal(instance) /\ p.document # Root
                   \/ q.node = Nothing /\ ~(IsExternal(instance) /\ instance.kind = "part")
                   \/ ~IsExternal(instance) /\ q.node \in p.through
                   \/ instance.kind = "assembly" /\ ~KnownConfiguration(q.document, c)
  BY <1>3, <1>6, <1>7 DEF Target
<1>9. IsExternal(instance)
  BY <1>5, <1>8
<1>10. /\ q.node = Meant(instance, q.document) /\ q.node # Nothing
       /\ KnownConfiguration(q.document, c)
  BY <1>8
<1>11. Has(Document(q.document).outputs, q.output)
  BY <1>8, <1>9, <1>10 DEF Meant, Nothing
<1>12. /\ Document(q.document).outputs[q.output].kind = "assembly"
       /\ KindOf(q.document, Document(q.document).outputs[q.output].node) = "assembly"
  BY <1>8, <1>9, <1>10, <1>11 DEF Meant
<1>. QED
  BY <1>8, <1>10, <1>11, <1>12 DEF IsAssemblyOutput, Sound

\* An external assembly is refused.
LEMMA ExternalCaused ==
    ASSUME world \in Worlds, WalkInv, PlacesInv, CausesInv, EnterExternal, stage' = "failed"
    PROVE  Cause(failure')
<1>0. PICK k : k = CurrentOutput
  OBVIOUS
<1>1. PICK o : o = Head(queue)
  OBVIOUS
<1>2. PICK d : d = o.document
  OBVIOUS
<1>3. PICK node : node = Document(d).outputs[o.output].node
  OBVIOUS
<1>4. PICK usable : usable <=> /\ Has(Document(d).outputs, o.output)
                               /\ IsAssemblyOutput(d, o.output)
                               /\ KnownConfiguration(d, o.configuration)
  OBVIOUS
<1>5. /\ stage = "expand" /\ stack = <<>> /\ queue # <<>> /\ Unexpanded(o)
      /\ \/ \E reason \in {"output", "unsupported", "configuration"} :
               failure' = reason /\ ~usable
         \/ /\ failure' = "maxScannedInstances" /\ usable
            /\ Scanning(d, node).scanned > Limit("maxScannedInstances")
  BY <1>1, <1>2, <1>3, <1>4, ExternalChecked, Zenon DEF Refuse
<1>6. WalkPlaces /\ Listed(queue)
  BY <1>5 DEF PlacesInv, WalkInv, ListsInv
<1>7. o \in Range(queue)
  BY <1>1, <1>5, <1>6, OrderTail DEF WalkOrder, PlacesInv
<1>8. /\ d \in DOMAIN world.documents /\ MetAt(k, o)
  <2>1. Met(o) /\ charged.documents \subseteq DOMAIN world.documents
    BY <1>5, <1>7 DEF WalkInv, ListsInv
  <2>. QED
    BY <1>0, <1>2, <1>5, <1>6, <1>7, <2>1 DEF Met, Unexpanded, WalkPlaces
<1>9. k \in AssemblyOutputs /\ \E q \in Active(k) : Same(q, o) /\ Enterable(q, o)
  BY <1>5, <1>8 DEF MetAt
<1>10. PICK q \in Active(k) : Same(q, o) /\ Enterable(q, o)
  BY <1>9
<1>11. /\ q.kind = "assembly" /\ q.through = {q.node} /\ q.document = d
       /\ q.output = o.output /\ q.configuration = o.configuration /\ q.path = o.path
       /\ usable => ~q.bad /\ q.node = node
  BY <1>2, <1>3, <1>4, <1>8, <1>10 DEF Same, Enterable, Has
<1>12. CASE /\ ~usable
            /\ \E reason \in {"output", "unsupported", "configuration"} : failure' = reason
  <2>1. q.bad
    BY <1>4, <1>9, <1>11, <1>12, DirectIsExternal
  <2>2. q \in Everything
    BY <1>9, PlaceAt
  <2>3. failure' \notin LimitNames
    BY <1>12 DEF LimitNames
  <2>. QED
    BY <2>1, <2>2, <2>3, Unevaluable
<1>13. CASE /\ failure' = "maxScannedInstances" /\ usable
            /\ Scanning(d, node).scanned > Limit("maxScannedInstances")
  <2>1. PICK x : x = <<k, q>>
    OBVIOUS
  <2>2. x \in Places /\ x[1] = k /\ x[2] = q
    BY <1>9, <2>1, PlaceAt
  <2>3. x \notin Entered
    <3>1. ListOf(k) = Range(queue)
      BY <1>0, <1>5 DEF ListOf, CurrentOutput
    <3>. QED
      BY <1>7, <1>11, <2>2, <3>1 DEF Entered
  <2>4. Scans[x] = Len(InstancesOf(d, node))
    BY <1>11, <1>13, <2>2 DEF Scans, Scanned
  <2>5. PICK m : m = Len(InstancesOf(d, node))
    OBVIOUS
  <2>6. Scanning(d, node) = [charged EXCEPT !.scanned = @ + m]
    BY <2>5 DEF Scanning
  <2>7. charged = [scanned |-> charged.scanned, active |-> charged.active,
                  placements |-> charged.placements, segments |-> charged.segments,
                  parts |-> charged.parts, documents |-> charged.documents]
    BY DEF WalkInv, CountersInv
  <2>8. Scanning(d, node).scanned = charged.scanned + Scans[x]
    BY <2>4, <2>5, <2>6, <2>7
  <2>9. /\ IsFiniteSet(Places) /\ \A y \in Places : Scans[y] \in Nat
        /\ Entered \in SUBSET Places /\ Entered \cup {x} \in SUBSET Places
        /\ Started \in SUBSET AssemblyOutputs
    BY <2>2, PlacesFinite, NumbersOfPlaces, VisitedPlaces
  <2>10. Amount(Scans, Entered \cup {x}) = Amount(Scans, Entered) + Scans[x]
    BY <2>2, <2>3, <2>9, AmountAdds
  <2>11. /\ Amount(StartScans, Started) \in Nat /\ Amount(Scans, Entered) \in Nat
         /\ Amount(StartScans, Started) + Amount(Scans, Entered \cup {x})
               <= Total("maxScannedInstances")
    BY <2>9, AmountsAreNumbers
  <2>12. charged.scanned = Amount(StartScans, Started) + Amount(Scans, Entered)
    BY DEF CausesInv, ChargedInv
  <2>13. Scans[x] \in Nat
    BY <2>2, <2>9
  <2>14. /\ charged.scanned + Scans[x] \in Nat
         /\ charged.scanned + Scans[x] <= Total("maxScannedInstances")
    BY <2>10, <2>11, <2>12, <2>13
  <2>. QED
    BY <1>13, <2>8, <2>14, OverLimit DEF LimitNames
<1>. QED
  BY <1>5, <1>12, <1>13

\* Every step that fails.
LEMMA CausedStep ==
    ASSUME world \in Worlds, WalkInv, PlacesInv, CausesInv, AccountedInv, Next,
           stage' = "failed"
    PROVE  Cause(failure')
<1>1. CASE Begin
  BY <1>1, BeginCaused
<1>2. CASE SelectDirect
  BY <1>2, DirectCaused
<1>3. CASE StartAssembly
  BY <1>3, StartCaused
<1>4. CASE RefuseVisit
  BY <1>4, VisitCaused
<1>5. CASE AdmitDocuments
  BY <1>5, AdmitCaused
<1>6. CASE EnterExternal
  BY <1>6, ExternalCaused
<1>7. CASE FinishAssembly \/ Pop \/ SkipSuppressed \/ Enter \/ Collect \/ KeepOccurrence
           \/ FinishExpansion
  <2>1. stage # "failed"
    BY DEF WalkInv
  <2>. QED
    BY <1>7, <2>1 DEF FinishAssembly, Pop, SkipSuppressed, Enter, Collect, KeepOccurrence,
       FinishExpansion, FinishOutput
<1>. QED
  BY <1>1, <1>2, <1>3, <1>4, <1>5, <1>6, <1>7 DEF Next

-----------------------------------------------------------------------------
(* Why the traversal fails.                                                  *)
\* Its inductive invariant: while it goes on, what it has charged is what it has seen,
\* and when it has failed, there is a cause.
CausedInv ==
    /\ TraversalInv /\ AccountedInv
    /\ IF stage = "failed" THEN Cause(failure) ELSE CausesInv

\* A call starts with nothing visited.
LEMMA CausesBegin == Init => CausesInv
<1>. SUFFICES ASSUME Init PROVE CausesInv
  OBVIOUS
<1>1. /\ world \in Worlds /\ stage = "begin" /\ selectedOrder = <<>> /\ stack = <<>>
      /\ charged = NothingCharged
  BY DEF Init
<1>2. Started = {} /\ Passed = {} /\ Entered = {}
  BY <1>1 DEF Started, Passed, Entered
<1>3. \A f : Amount(f, {}) = 0
  BY UnitsEmpty, FS_EmptySet DEF Amount
<1>4. ChargedInv
  BY <1>1, <1>2, <1>3 DEF ChargedInv, NothingCharged
<1>5. WithinInv
  <2>1. /\ Limit("maxActiveOccurrences") \in Nat /\ Limit("maxPlacementOperations") \in Nat
        /\ Limit("maxExternalDocuments") \in Nat /\ Limit("maxScannedInstances") \in Nat
        /\ Limit("maxOccurrencePathSegments") \in Nat
    BY <1>1, LimitsAreNumbers DEF LimitNames
  <2>2. Cardinality(charged.documents) = 0
    BY <1>1, FS_EmptySet DEF NothingCharged
  <2>. QED
    BY <1>1, <1>2, <2>1, <2>2 DEF WithinInv, NothingCharged
<1>6. FaultsInv /\ OutputsInv
  BY <1>1, <1>2, EmptyList DEF FaultsInv, OutputsInv
<1>. QED
  BY <1>4, <1>5, <1>6 DEF CausesInv

\* Nothing of it depends on anything but the variables.
LEMMA CausesStutter ==
    ASSUME CausesInv, UNCHANGED vars
    PROVE  CausesInv'
<1>1. UNCHANGED <<world, stage, failure, selectedOrder, outputIndex, queue, occurrences,
                  stack, charged>>
  BY DEF vars
<1>2. AssemblyOutputs' = AssemblyOutputs
  BY <1>1, SameAmounts
<1>3. Started' = Started
  BY <1>1, <1>2 DEF Started
<1>4. \A k : FramesOf(k)' = FramesOf(k) /\ ListOf(k)' = ListOf(k)
  BY <1>1 DEF FramesOf, ListOf, CurrentOutput
<1>5. Passed' = Passed /\ Entered' = Entered
  <2>1. \A k \in Started : \A q \in Active(k) :
           /\ Later(FramesOf(k)', ListOf(k)', q.path)
                 <=> Later(FramesOf(k), ListOf(k), q.path)
           /\ q.kind = "assembly" =>
                 ((\E o \in ListOf(k)' : o.path = q.path)
                     <=> (\E o \in ListOf(k) : o.path = q.path))
    BY <1>4
  <2>. QED
    BY <1>1, <1>3, <2>1, SameVisits
<1>6. ChargedInv' /\ WithinInv' /\ FaultsInv'
  BY <1>1, <1>3, <1>5, ChargesKept DEF CausesInv
<1>7. OutputsInv'
  <2>1. KnownConfiguration(Root, world.configuration)'
           <=> KnownConfiguration(Root, world.configuration)
    BY <1>1 DEF KnownConfiguration, Has, Document
  <2>. QED
    BY <1>1, <1>2, <2>1 DEF CausesInv, OutputsInv, LocalPart
<1>. QED
  BY <1>6, <1>7 DEF CausesInv

\* A cause is one of the call alone.
LEMMA SameCause ==
    ASSUME world' = world, NEW reason
    PROVE  Cause(reason)' <=> Cause(reason)
<1>1. /\ Places' = Places /\ AssemblyOutputs' = AssemblyOutputs
      /\ Ones' = Ones /\ Operations' = Operations /\ Segments' = Segments
      /\ Scans' = Scans /\ StartScans' = StartScans
  BY SameAmounts
<1>2. /\ Everything' = Everything /\ DirectParts' = DirectParts
      /\ \A p : KeyOf(p)' = KeyOf(p)
  BY SameEverything
<1>3. ExternalDocuments' = ExternalDocuments /\ ContextualParts' = ContextualParts
      /\ Depths' = Depths
  BY <1>1, <1>2 DEF ExternalDocuments, ContextualParts, Depths
<1>4. Total(reason)' = Total(reason)
  BY <1>1, <1>3 DEF Total, Sum
<1>5. Limit(reason)' = Limit(reason)
  BY DEF Limit
<1>6. Evaluable' <=> Evaluable
  <2>1. \A d, n : KindOf(d, n)' = KindOf(d, n)
    BY DEF KindOf, Has, Document
  <2>2. KnownConfiguration(Root, world.configuration)'
           <=> KnownConfiguration(Root, world.configuration)
    BY DEF KnownConfiguration, Has, Document
  <2>3. \A name : Sound(Root, name)' <=> Sound(Root, name)
    BY <2>1 DEF Sound, Document
  <2>. QED
    BY <1>1, <1>2, <2>2, <2>3 DEF Evaluable, Has, Document
<1>. QED
  BY <1>4, <1>5, <1>6 DEF Cause

\* The invariant holds of every call, whatever its documents, requests and limits.
THEOREM TraversalIsAccountedFor == Spec => []CausedInv
<1>1. Init => CausedInv
  <2>1. Init => AccountedInv
    BY DEF Init, NothingCharged, AccountedInv
  <2>2. Init => TraversalInv
    <3>1. Init => PlacesInv
      BY DEF Init, PlacesInv, SelectedPlaces
    <3>. QED
      BY <3>1, WalkBegins DEF Init, TraversalInv
  <2>. QED
    BY <2>1, <2>2, CausesBegin DEF CausedInv, Init
<1>2. ASSUME CausedInv, Next PROVE CausedInv'
  <2>1. stage # "failed" /\ world \in Worlds /\ WalkInv /\ PlacesInv /\ CausesInv
        /\ AccountedInv
    BY <1>2, WalkIsOver DEF CausedInv, TraversalInv
  <2>2. world' = world /\ AccountedInv'
    BY <1>2, <2>1, WalkStep, WalkAccounts
  <2>3. TraversalInv'
    BY <1>2, <2>1, <2>2, WalkStep, PlacesStep DEF TraversalInv, Failed
  <2>4. CASE stage' = "failed"
    <3>1. Cause(failure')
      BY <1>2, <2>1, <2>4, CausedStep
    <3>2. PICK reason : reason = failure'
      OBVIOUS
    <3>3. Cause(reason)'
      BY <2>2, <3>1, <3>2, SameCause
    <3>. QED
      BY <2>2, <2>3, <2>4, <3>2, <3>3 DEF CausedInv
  <2>5. CASE stage' # "failed"
    BY <1>2, <2>1, <2>2, <2>3, <2>5, CausesStep DEF CausedInv
  <2>. QED
    BY <2>4, <2>5
<1>3. ASSUME CausedInv, UNCHANGED vars PROVE CausedInv'
  <2>1. world' = world /\ stage' = stage /\ failure' = failure /\ charged' = charged
    BY <1>3 DEF vars
  <2>2. AccountedInv'
    BY <1>3, <2>1, SameEverything DEF CausedInv, AccountedInv
  <2>3. TraversalInv'
    BY <1>3, <2>1, WalkStutter, PlacesStutter DEF CausedInv, TraversalInv
  <2>4. stage # "failed" => CausesInv'
    BY <1>3, CausesStutter DEF CausedInv
  <2>5. stage = "failed" => Cause(failure)'
    BY <1>3, <2>1, SameCause DEF CausedInv, Cause
  <2>. QED
    BY <2>1, <2>2, <2>3, <2>4, <2>5 DEF CausedInv
<1>. QED
  BY <1>1, <1>2, <1>3, PTL DEF Spec

\* A call is evaluated if, and only if, nothing in it is at fault and no total over what
\* is active exceeds its limit, whatever the documents, the request and the limits; and
\* the limit that a failure names is exceeded.
THEOREM FailuresHaveCauses == Spec => []FailsForCause
<1>1. ASSUME CausedInv PROVE FailsForCause
  <2>1. world \in Worlds
    BY <1>1 DEF CausedInv, TraversalInv
  <2>2. CASE stage = "failed"
    <3>1. Cause(failure)
      BY <1>1, <2>2 DEF CausedInv
    <3>2. CASE failure \in LimitNames
      <4>1. Total(failure) > Limit(failure)
        BY <3>1, <3>2 DEF Cause
      <4>2. Total(failure) \in Nat /\ Limit(failure) \in Nat
        BY <2>1, <3>2, TotalsAreNumbers
      <4>3. ~(Total(failure) <= Limit(failure))
        BY <4>1, <4>2
      <4>. QED
        BY <2>2, <3>2, <4>1, <4>3 DEF FailsForCause
    <3>3. CASE failure \notin LimitNames
      BY <2>2, <3>1, <3>3 DEF Cause, FailsForCause
    <3>. QED
      BY <3>2, <3>3
  <2>3. CASE stage # "failed"
    <3>1. WalkInv /\ PlacesInv /\ CausesInv
      BY <1>1, <2>3 DEF CausedInv, TraversalInv
    <3>2. failure \notin LimitNames
      BY <3>1 DEF WalkInv, LimitNames
    <3>3. stage = "traversed" =>
             Evaluable /\ \A name \in LimitNames : Total(name) <= Limit(name)
      BY <2>1, <3>1, EndsEvaluable, EndsWithin
    <3>. QED
      BY <2>3, <3>2, <3>3 DEF FailsForCause
  <2>. QED
    BY <2>2, <2>3
<1>. QED
  BY <1>1, TraversalIsAccountedFor, PTL

=============================================================================
