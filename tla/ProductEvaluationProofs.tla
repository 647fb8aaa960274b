----------------------- MODULE ProductEvaluationProofs -----------------------
(* Whatever the kernel, the resolver and the application do, every native   *)
(* shape of an evaluation is released once or belongs to its result, for    *)
(* every plan and every set of shapes.                                      *)
EXTENDS ProductEvaluation, TLAPS

Families == Seq(SUBSET Shapes)

Disjoint(family) ==
    \A i, j \in DOMAIN family : i # j => family[i] \cap family[j] = {}

Injective(list) == \A i, j \in DOMAIN list : i # j => list[i] # list[j]

\* Every shape made is released, in the making, or owned by a live child.
Accounted ==
    /\ acquired = released \cup CreatedSet \cup Owned(LiveChildren)
    /\ released \cap CreatedSet = {}
    /\ released \cap Owned(LiveChildren) = {}
    /\ overReleased = {}

\* No two of them are the same.
Apart ==
    /\ Injective(createdShapes)
    /\ Disjoint(children)
    /\ CreatedSet \cap Owned(children) = {}

\* What each stage may have in hand, and what the transaction knows.
ByStage ==
    /\ createdShapes # <<>> =>
          stage \in {"graph", "acquired", "graphReturned", "batchReturned"}
    /\ childrenDisposed => stage = "done"
    /\ released # {} => stage \in {"graphFailed", "batchFailed", "done"}
    /\ stage # "done" =>
          ownedShapes = Owned(children) \cup
                        (IF stage = "batchReturned" THEN CreatedSet ELSE {})
    /\ active => stage \in {"graph", "acquired", "graphFailed", "graphReturned"}
    /\ stage = "batchReturned" => kind = "product"
    /\ kind = "single" /\ stage # "done" => children = <<>>
    /\ stage \in {"start", "documents", "geometry"} => children = <<>>

Outcome ==
    /\ stage = "done" <=> result # "none"
    /\ session = "open" => stage # "done"
    /\ result = "failure" => released = acquired
    /\ result = "success" =>
          /\ Owned(children) = acquired
          /\ released = IF childrenDisposed THEN acquired ELSE {}

IInv == TypeOK /\ Accounted /\ Apart /\ ByStage /\ Outcome

-----------------------------------------------------------------------------
(* Families of sets of shapes.                                             *)

LEMMA EmptyFamily ==
    /\ <<>> \in Families
    /\ Owned(<<>>) = {}
    /\ Disjoint(<<>>)
BY DEF Families, Owned, Elements, Disjoint

LEMMA SingleFamily ==
    ASSUME NEW S \in SUBSET Shapes
    PROVE  <<S>> \in Families /\ Owned(<<S>>) = S /\ Disjoint(<<S>>)
<1>1. <<S>> \in Families
  BY DEF Families
<1>2. DOMAIN <<S>> = {1} /\ <<S>>[1] = S
  OBVIOUS
<1>3. Elements(<<S>>) = {S}
  BY <1>2 DEF Elements
<1> QED
  BY <1>1, <1>2, <1>3 DEF Owned, Disjoint

LEMMA JoinedFamilies ==
    ASSUME NEW F \in Families, NEW G \in Families
    PROVE  /\ F \o G \in Families
           /\ Owned(F \o G) = Owned(F) \cup Owned(G)
           /\ Disjoint(F) /\ Disjoint(G) /\ Owned(F) \cap Owned(G) = {}
                 => Disjoint(F \o G)
<1> DEFINE H == F \o G
<1>1. H \in Families
  BY DEF Families
<1>2. Len(F) \in Nat /\ Len(G) \in Nat /\ Len(H) = Len(F) + Len(G)
  BY DEF Families
<1>3. DOMAIN F = 1 .. Len(F) /\ DOMAIN G = 1 .. Len(G) /\ DOMAIN H = 1 .. Len(H)
  BY <1>1 DEF Families
<1>4. ASSUME NEW i \in DOMAIN F PROVE i \in DOMAIN H /\ H[i] = F[i]
  BY <1>2, <1>3, <1>4 DEF Families
<1>5. ASSUME NEW i \in DOMAIN G PROVE Len(F) + i \in DOMAIN H /\ H[Len(F) + i] = G[i]
  BY <1>2, <1>3, <1>5 DEF Families
<1>6. ASSUME NEW i \in DOMAIN H
      PROVE  \/ i \in DOMAIN F /\ H[i] = F[i]
             \/ i - Len(F) \in DOMAIN G /\ H[i] = G[i - Len(F)]
  BY <1>2, <1>3, <1>6 DEF Families
<1>7. Elements(H) = Elements(F) \cup Elements(G)
  <2>1. ASSUME NEW S \in Elements(H) PROVE S \in Elements(F) \cup Elements(G)
    BY <1>6, <2>1 DEF Elements
  <2>2. ASSUME NEW S \in Elements(F) PROVE S \in Elements(H)
    BY <1>4, <2>2 DEF Elements
  <2>3. ASSUME NEW S \in Elements(G) PROVE S \in Elements(H)
    BY <1>5, <2>3 DEF Elements
  <2> QED
    BY <2>1, <2>2, <2>3
<1>8. Owned(H) = Owned(F) \cup Owned(G)
  BY <1>7 DEF Owned
<1>9. ASSUME Disjoint(F), Disjoint(G), Owned(F) \cap Owned(G) = {},
             NEW i \in DOMAIN H, NEW j \in DOMAIN H, i # j
      PROVE  H[i] \cap H[j] = {}
  <2>1. \A k \in DOMAIN F : F[k] \subseteq Owned(F)
    BY DEF Owned, Elements
  <2>2. \A k \in DOMAIN G : G[k] \subseteq Owned(G)
    BY DEF Owned, Elements
  <2>3. CASE i \in DOMAIN F /\ H[i] = F[i]
    <3>1. CASE j \in DOMAIN F /\ H[j] = F[j]
      BY <1>9, <2>3, <3>1 DEF Disjoint
    <3>2. CASE j - Len(F) \in DOMAIN G /\ H[j] = G[j - Len(F)]
      BY <1>9, <2>1, <2>2, <2>3, <3>2
    <3> QED
      BY <1>6, <3>1, <3>2
  <2>4. CASE i - Len(F) \in DOMAIN G /\ H[i] = G[i - Len(F)]
    <3>1. CASE j \in DOMAIN F /\ H[j] = F[j]
      BY <1>9, <2>1, <2>2, <2>4, <3>1
    <3>2. CASE j - Len(F) \in DOMAIN G /\ H[j] = G[j - Len(F)]
      <4>1. i - Len(F) # j - Len(F)
        BY <1>2, <1>3, <1>9
      <4> QED
        BY <1>9, <2>4, <3>2, <4>1 DEF Disjoint
    <3> QED
      BY <1>6, <3>1, <3>2
  <2> QED
    BY <1>6, <2>3, <2>4
<1> QED
  BY <1>1, <1>8, <1>9 DEF Disjoint

LEMMA AppendedFamily ==
    ASSUME NEW F \in Families, NEW S \in SUBSET Shapes
    PROVE  /\ Append(F, S) \in Families
           /\ Owned(Append(F, S)) = Owned(F) \cup S
           /\ Disjoint(F) /\ Owned(F) \cap S = {} => Disjoint(Append(F, S))
<1>1. Append(F, S) = F \o <<S>>
  BY DEF Families
<1> QED
  BY <1>1, SingleFamily, JoinedFamilies

LEMMA ListAsFamily ==
    ASSUME NEW list \in Seq(Shapes)
    PROVE  /\ AsFamily(list) \in Families
           /\ Owned(AsFamily(list)) = Elements(list)
           /\ Injective(list) => Disjoint(AsFamily(list))
<1> DEFINE F == AsFamily(list)
<1>1. DOMAIN list = 1 .. Len(list) /\ Len(list) \in Nat
  OBVIOUS
<1>2. F \in [1 .. Len(list) -> SUBSET Shapes]
  BY <1>1 DEF AsFamily
<1>3. F \in Families
  BY <1>1, <1>2 DEF Families
<1>4. DOMAIN F = DOMAIN list /\ \A i \in DOMAIN list : F[i] = {list[i]}
  BY DEF AsFamily
<1>5. Owned(F) = Elements(list)
  BY <1>4 DEF Owned, Elements
<1>6. Injective(list) => Disjoint(F)
  BY <1>4 DEF Injective, Disjoint
<1> QED
  BY <1>3, <1>5, <1>6

LEMMA AppendedList ==
    ASSUME NEW list \in Seq(Shapes), NEW s \in Shapes
    PROVE  /\ Append(list, s) \in Seq(Shapes)
           /\ Append(list, s) # <<>>
           /\ Elements(Append(list, s)) = Elements(list) \cup {s}
           /\ Injective(list) /\ s \notin Elements(list)
                 => Injective(Append(list, s))
<1> DEFINE new == Append(list, s)
<1>1. new \in Seq(Shapes) /\ new # <<>>
  OBVIOUS
<1>2. DOMAIN list = 1 .. Len(list) /\ Len(list) \in Nat
  OBVIOUS
<1>3. DOMAIN new = 1 .. Len(list) + 1 /\ new[Len(list) + 1] = s
  OBVIOUS
<1>4. \A i \in DOMAIN list : i \in DOMAIN new /\ i # Len(list) + 1 /\ new[i] = list[i]
  BY <1>2, <1>3
<1>5. \A i \in DOMAIN new : i \in DOMAIN list \/ i = Len(list) + 1
  BY <1>2, <1>3
<1>6. Elements(new) = Elements(list) \cup {s}
  BY <1>3, <1>4, <1>5, <1>2 DEF Elements
<1>7. Injective(list) /\ s \notin Elements(list) => Injective(new)
  BY <1>3, <1>4, <1>5 DEF Injective, Elements
<1> QED
  BY <1>1, <1>6, <1>7

-----------------------------------------------------------------------------
(* Disposal.                                                               *)

\* Shapes of a family of disjoint sets which all live are each released once.
LEMMA DisposedOnce ==
    ASSUME NEW F \in Families, Disjoint(F), released \cap Owned(F) = {},
           overReleased = {}, DisposeEach(F)
    PROVE  /\ released' = released \cup Owned(F)
           /\ overReleased' = {}
           /\ acquired' = acquired
<1>1. Shared(F) = {}
  BY DEF Shared, Disjoint
<1> QED
  BY <1>1 DEF DisposeEach

LEMMA NothingCreated == createdShapes = <<>> => CreatedSet = {}
BY DEF CreatedSet, Elements

LEMMA TypedFamilies ==
    ASSUME TypeOK
    PROVE  /\ children \in Families
           /\ LiveChildren \in Families
           /\ CreatedSet \in SUBSET Shapes
           /\ Owned(children) \subseteq Shapes
BY EmptyFamily DEF TypeOK, Families, LiveChildren, CreatedSet, Elements, Owned

\* Giving up with what the graph has made as family F.
LEMMA FailingReleasesAll ==
    ASSUME IInv, stage # "done",
           NEW F \in Families, Disjoint(F), Owned(F) = CreatedSet,
           FailWith(F), ~active',
           UNCHANGED <<kind, batch, node, children, ownedShapes, aborted>>,
           active' \in BOOLEAN
    PROVE  IInv'
<1>1. ~childrenDisposed /\ LiveChildren = children
  BY DEF IInv, ByStage, LiveChildren
<1>2. /\ children \o F \in Families
      /\ Owned(children \o F) = Owned(children) \cup CreatedSet
      /\ Disjoint(children \o F)
  <2>1. children \in Families /\ Disjoint(children) /\ Owned(children) \cap Owned(F) = {}
    BY TypedFamilies DEF IInv, Apart
  <2> QED
    BY <2>1, JoinedFamilies
<1>3. /\ released' = released \cup Owned(children) \cup CreatedSet
      /\ overReleased' = {}
      /\ acquired' = acquired
  <2>1. released \cap Owned(children \o F) = {} /\ overReleased = {}
    BY <1>1, <1>2 DEF IInv, Accounted
  <2>2. DisposeEach(children \o F)
    BY <1>1 DEF FailWith
  <2>3. /\ released' = released \cup Owned(children \o F)
        /\ overReleased' = {}
        /\ acquired' = acquired
    BY <1>2, <2>1, <2>2, DisposedOnce
  <2> QED
    BY <1>2, <2>3
<1>4. released' = acquired'
  BY <1>1, <1>3 DEF IInv, Accounted
<1>5. /\ childrenDisposed' = TRUE /\ createdShapes' = <<>>
      /\ stage' = "done" /\ result' = "failure"
      /\ session' \in {"none", "disposed"}
  BY DEF FailWith, Finish, IInv, TypeOK
<1>6. CreatedSet' = {} /\ LiveChildren' = <<>> /\ Owned(LiveChildren') = {}
  BY <1>5, EmptyFamily DEF CreatedSet, Elements, LiveChildren
<1>7. TypeOK'
  <2>1. Batches' = Batches
    BY DEF Batches
  <2>2. released' \subseteq Shapes /\ overReleased' \subseteq Shapes /\ acquired' \subseteq Shapes
    BY <1>3, <1>4 DEF IInv, TypeOK
  <2> QED
    BY <1>5, <2>1, <2>2 DEF IInv, TypeOK, Stages
<1>8. Accounted'
  BY <1>3, <1>4, <1>6 DEF Accounted
<1>9. Apart'
  <2>1. Injective(createdShapes')
    BY <1>5 DEF Injective
  <2> QED
    BY <2>1, <1>6 DEF IInv, Apart
<1>10. ByStage'
  BY <1>5 DEF ByStage
<1>11. Outcome'
  BY <1>4, <1>5 DEF Outcome
<1> QED
  BY <1>7, <1>8, <1>9, <1>10, <1>11 DEF IInv

\* What a failing graph has made is released once, and nothing else is.
LEMMA FailingGraphReleasesItsOwn ==
    ASSUME IInv, stage \in Executing, NEW refused, GraphFails(refused)
    PROVE  IInv'
<1>1. /\ released' = released \cup CreatedSet
      /\ overReleased' = {}
      /\ acquired' = acquired
  <2>1. /\ AsFamily(createdShapes) \in Families
        /\ Owned(AsFamily(createdShapes)) = CreatedSet
        /\ Disjoint(AsFamily(createdShapes))
    BY ListAsFamily DEF IInv, TypeOK, Apart, CreatedSet
  <2>2. released \cap CreatedSet = {} /\ overReleased = {}
    BY DEF IInv, Accounted
  <2>3. DisposeEach(AsFamily(createdShapes))
    BY DEF GraphFails
  <2> QED
    BY <2>1, <2>2, <2>3, DisposedOnce
<1>2. /\ createdShapes' = <<>> /\ stage' = "graphFailed"
      /\ UNCHANGED <<kind, batch, node, children, childrenDisposed, ownedShapes,
                     active, session, aborted, result>>
  BY DEF GraphFails, owners, transaction
<1>3. CreatedSet' = {} /\ LiveChildren' = LiveChildren
  BY <1>2 DEF CreatedSet, Elements, LiveChildren
<1>4. stage # "done" /\ result = "none" /\ LiveChildren = children
  BY DEF IInv, Outcome, ByStage, Executing, TypeOK, LiveChildren
<1>5. TypeOK'
  <2>1. Batches' = Batches
    BY <1>2 DEF Batches
  <2>2. released' \subseteq Shapes /\ overReleased' \subseteq Shapes /\ acquired' \subseteq Shapes
    BY <1>1, TypedFamilies DEF IInv, TypeOK
  <2> QED
    BY <1>2, <2>1, <2>2 DEF IInv, TypeOK, Stages, Awaits
<1>6. Accounted'
  BY <1>1, <1>3, <1>4 DEF IInv, Accounted, Apart
<1>7. Apart'
  <2>1. Injective(createdShapes')
    BY <1>2 DEF Injective
  <2> QED
    BY <1>2, <1>3, <2>1 DEF IInv, Apart
<1>8. ByStage'
  BY <1>2, <1>4 DEF IInv, ByStage, Executing
<1>9. Outcome'
  BY <1>2, <1>4 DEF Outcome
<1> QED
  BY <1>5, <1>6, <1>7, <1>8, <1>9 DEF IInv

\* Before the kernel is called there is no shape.
LEMMA FinishingEmpty ==
    ASSUME IInv, stage \in {"start", "documents", "geometry"}, Finish("failure"),
           UNCHANGED <<kind, batch, node, createdShapes, owners, transaction,
                       kernelVars, aborted>>
    PROVE  IInv'
<1> USE DEF owners, transaction, kernelVars
<1>1. /\ stage' = "done" /\ result' = "failure"
      /\ session' \in {"none", "disposed"}
  BY DEF Finish, IInv, TypeOK
<1>2. CreatedSet' = CreatedSet /\ LiveChildren' = LiveChildren
  BY DEF CreatedSet, LiveChildren
<1>3. createdShapes = <<>> /\ children = <<>> /\ ~active /\ released = {}
  BY DEF IInv, ByStage
<1>4. CreatedSet = {} /\ Owned(LiveChildren) = {}
  BY <1>3, NothingCreated, EmptyFamily DEF LiveChildren
<1>5. acquired = released
  BY <1>4 DEF IInv, Accounted
<1>6. TypeOK'
  BY <1>1 DEF IInv, TypeOK, Stages, Batches
<1>7. Accounted'
  BY <1>2 DEF IInv, Accounted
<1>8. Apart'
  BY <1>2 DEF IInv, Apart
<1>9. ByStage'
  BY <1>1, <1>3 DEF IInv, ByStage
<1>10. Outcome'
  BY <1>1, <1>5 DEF Outcome
<1> QED
  BY <1>6, <1>7, <1>8, <1>9, <1>10 DEF IInv

\* A step that moves on and touches no shape.
LEMMA MovingOn ==
    ASSUME IInv, TypeOK', stage # "done", stage' # "done",
           UNCHANGED <<kind, createdShapes, owners, kernelVars, ownedShapes, result>>,
           ByStage'
    PROVE  IInv'
<1> USE DEF owners, kernelVars
<1>1. CreatedSet' = CreatedSet /\ LiveChildren' = LiveChildren
  BY DEF CreatedSet, LiveChildren
<1>2. Accounted' /\ Apart'
  BY <1>1 DEF IInv, Accounted, Apart
<1>3. Outcome'
  BY DEF IInv, Outcome
<1> QED
  BY <1>2, <1>3 DEF IInv

-----------------------------------------------------------------------------
(* The invariant.                                                          *)

\* Before anything is made, the accounts are empty.
THEOREM Initially == Init => IInv
<1> SUFFICES ASSUME Init PROVE IInv
  OBVIOUS
<1>1. CreatedSet = {} /\ Owned(children) = {} /\ Owned(LiveChildren) = {}
  BY EmptyFamily, NothingCreated DEF Init, LiveChildren
<1>2. TypeOK
  <2>1. 1 \in Batches
    BY PlanAssumption DEF Batches
  <2>2. <<>> \in Seq(Shapes) /\ <<>> \in Seq(SUBSET Shapes)
    OBVIOUS
  <2>3. createdShapes \in Seq(Shapes) /\ children \in Seq(SUBSET Shapes)
    BY <2>2 DEF Init
  <2> QED
    BY <2>1, <2>3 DEF Init, TypeOK, Stages
<1>3. Accounted
  BY <1>1 DEF Init, Accounted
<1>4. Apart
  BY <1>1, EmptyFamily DEF Init, Apart, Injective
<1>5. ByStage
  BY <1>1 DEF Init, ByStage
<1>6. Outcome
  BY DEF Init, Outcome
<1> QED
  BY <1>2, <1>3, <1>4, <1>5, <1>6 DEF IInv

LEMMA PrepareKeeps == IInv /\ Prepare => IInv'
<1> SUFFICES ASSUME IInv, Prepare PROVE IInv'
  OBVIOUS
<1>1. CASE Finish("failure")
  BY <1>1, FinishingEmpty DEF Prepare
<1>2. CASE /\ session' = IF kind = "product" THEN "open" ELSE "none"
           /\ stage' \in IF kind = "product" THEN {"documents", "geometry"}
                                             ELSE {"geometry", "begin"}
           /\ UNCHANGED result
  <2> USE DEF owners, transaction, kernelVars
  <2>1. TypeOK'
    BY <1>2 DEF Prepare, IInv, TypeOK, Stages, Awaits, Batches
  <2>2. ByStage'
    BY <1>2 DEF Prepare, IInv, ByStage, CreatedSet
  <2> QED
    BY <1>2, <2>1, <2>2, MovingOn DEF Prepare
<1> QED
  BY <1>1, <1>2 DEF Prepare

LEMMA ResolveKeeps == IInv /\ Resolve => IInv'
<1> SUFFICES ASSUME IInv, Resolve PROVE IInv'
  OBVIOUS
<1> USE DEF owners, transaction, kernelVars
<1>1. CASE Finish("failure")
  BY <1>1, FinishingEmpty DEF Resolve, ResolveDocuments, ResolveGeometry
<1>2. CASE /\ stage \in {"documents", "geometry"}
           /\ stage' \in {"geometry", "begin"}
           /\ UNCHANGED <<kind, batch, node, createdShapes, owners, transaction,
                          kernelVars, aborted, session, result>>
  <2>1. TypeOK'
    BY <1>2 DEF IInv, TypeOK, Stages, Awaits, Batches
  <2>2. ByStage'
    BY <1>2 DEF IInv, ByStage, CreatedSet
  <2> QED
    BY <1>2, <2>1, <2>2, MovingOn
<1> QED
  BY <1>1, <1>2 DEF Resolve, ResolveDocuments, ResolveGeometry

LEMMA BeginBatchKeeps == IInv /\ BeginBatch => IInv'
<1> SUFFICES ASSUME IInv, BeginBatch PROVE IInv'
  OBVIOUS
<1>1. stage = "begin" /\ createdShapes = <<>> /\ CreatedSet = {} /\ ~active
  BY NothingCreated DEF BeginBatch, IInv, ByStage
<1>2. CASE FailWith(<<>>) /\ UNCHANGED <<node, active>>
  BY <1>1, <1>2, EmptyFamily, FailingReleasesAll DEF BeginBatch, IInv, TypeOK
<1>3. CASE /\ active' = (kind = "product") /\ node' = 1
           /\ createdShapes' = <<>> /\ stage' = "graph"
           /\ UNCHANGED <<childrenDisposed, kernelVars, session, result>>
  <2> USE DEF owners, kernelVars
  <2>1. TypeOK'
    BY <1>1, <1>3 DEF BeginBatch, IInv, TypeOK, Stages, Executing, Batches
  <2>2. ByStage'
    BY <1>1, <1>3 DEF BeginBatch, IInv, ByStage, CreatedSet
  <2> QED
    BY <1>1, <1>3, <2>1, <2>2, MovingOn DEF BeginBatch
<1> QED
  BY <1>2, <1>3 DEF BeginBatch

LEMMA ReturnShapeKeeps ==
    ASSUME IInv, NEW s \in Shapes, ReturnShape(s)
    PROVE  IInv'
<1>1. CASE Refused(s)
  BY <1>1, FailingGraphReleasesItsOwn DEF ReturnShape, MayCall, Executing
<1>2. CASE ~Refused(s)
  <2> USE DEF owners, transaction
  <2>1. /\ stage = "graph" /\ stage' = "acquired"
        /\ acquired' = acquired \cup {s}
        /\ createdShapes' = Append(createdShapes, s)
        /\ UNCHANGED <<kind, batch, node, children, childrenDisposed, ownedShapes,
                       active, session, released, overReleased, aborted, result>>
    BY <1>2 DEF ReturnShape, MayCall
  <2>2. /\ createdShapes' \in Seq(Shapes)
        /\ createdShapes' # <<>>
        /\ CreatedSet' = CreatedSet \cup {s}
        /\ Injective(createdShapes')
    BY <1>2, <2>1, AppendedList DEF IInv, TypeOK, Apart, CreatedSet, Refused
  <2>3. s \notin Owned(children) /\ s \notin CreatedSet
    BY <1>2, <2>1 DEF IInv, ByStage, Refused
  <2>4. released = {} /\ LiveChildren = children /\ LiveChildren' = children
    BY <2>1 DEF IInv, ByStage, LiveChildren
  <2>5. TypeOK'
    BY <2>1, <2>2 DEF IInv, TypeOK, Stages, Executing, Batches
  <2>6. Accounted'
    BY <2>1, <2>2, <2>4 DEF IInv, Accounted
  <2>7. Apart'
    BY <2>1, <2>2, <2>3 DEF IInv, Apart
  <2>8. ByStage'
    BY <2>1 DEF IInv, ByStage
  <2>9. Outcome'
    BY <2>1 DEF IInv, Outcome
  <2> QED
    BY <2>5, <2>6, <2>7, <2>8, <2>9 DEF IInv
<1> QED
  BY <1>1, <1>2

LEMMA GraphKeeps == IInv /\ (StopGraph \/ ValidateShape \/ GraphSucceeds) => IInv'
<1> SUFFICES ASSUME IInv, StopGraph \/ ValidateShape \/ GraphSucceeds PROVE IInv'
  OBVIOUS
<1>1. CASE stage \in Executing /\ GraphFails(<<>>)
  BY <1>1, FailingGraphReleasesItsOwn
<1>2. CASE /\ stage \in Executing
           /\ stage' \in {"graph", "graphReturned"}
           /\ node' \in {node, node + 1}
           /\ UNCHANGED <<kind, batch, createdShapes, owners, transaction,
                          session, kernelVars, aborted, result>>
  <2> USE DEF owners, transaction, kernelVars
  <2>1. TypeOK'
    BY <1>2 DEF IInv, TypeOK, Stages, Awaits, Executing, Batches
  <2>2. ByStage'
    BY <1>2 DEF IInv, ByStage, CreatedSet, Executing
  <2> QED
    BY <1>2, <2>1, <2>2, MovingOn DEF Executing
<1> QED
  BY <1>1, <1>2 DEF StopGraph, ValidateShape, GraphSucceeds, Executing

LEMMA GraphFailureReturnsKeeps == IInv /\ GraphFailureReturns => IInv'
<1> SUFFICES ASSUME IInv, GraphFailureReturns PROVE IInv'
  OBVIOUS
<1> USE DEF kernelVars, LeaveTransaction
<1>1. /\ stage = "graphFailed" /\ stage' \in {"done", "batchFailed"} /\ active' = FALSE
      /\ UNCHANGED <<kind, batch, node, ownedShapes, children, childrenDisposed,
                     createdShapes, kernelVars, aborted>>
  BY DEF GraphFailureReturns, Finish
<1>2. CreatedSet' = CreatedSet /\ LiveChildren' = LiveChildren /\ createdShapes = <<>>
  BY <1>1 DEF CreatedSet, LiveChildren, IInv, ByStage
<1>3. Accounted' /\ Apart'
  BY <1>1, <1>2 DEF IInv, Accounted, Apart
<1>4. ByStage'
  BY <1>1, <1>2 DEF IInv, ByStage
<1>5. CASE kind = "single" /\ Finish("failure")
  <2>1. TypeOK'
    BY <1>1, <1>5 DEF IInv, TypeOK, Stages, Batches, Finish
  <2>2. children = <<>> /\ CreatedSet = {}
    BY <1>1, <1>2, <1>5, NothingCreated DEF IInv, ByStage
  <2>3. released = acquired
    BY <2>2, EmptyFamily DEF IInv, Accounted, LiveChildren
  <2>4. Outcome'
    BY <1>1, <1>5, <2>3 DEF Outcome, Finish
  <2> QED
    BY <1>3, <1>4, <2>1, <2>4 DEF IInv
<1>6. CASE stage' = "batchFailed" /\ UNCHANGED <<session, result>>
  <2>1. TypeOK'
    BY <1>1, <1>6 DEF IInv, TypeOK, Stages, Awaits, Batches
  <2>2. Outcome'
    BY <1>1, <1>6 DEF IInv, Outcome
  <2> QED
    BY <1>3, <1>4, <2>1, <2>2 DEF IInv
<1> QED
  BY <1>5, <1>6 DEF GraphFailureReturns

LEMMA BatchFailsKeeps == IInv /\ BatchFails => IInv'
<1> SUFFICES ASSUME IInv, BatchFails PROVE IInv'
  OBVIOUS
<1> USE DEF LeaveTransaction
<1>1. /\ stage = "graphReturned" /\ active' = FALSE
      /\ UNCHANGED <<kind, batch, node, ownedShapes, children, aborted>>
  BY DEF BatchFails
<1>2. /\ AsFamily(createdShapes) \in Families
      /\ Owned(AsFamily(createdShapes)) = CreatedSet
      /\ Disjoint(AsFamily(createdShapes))
  BY ListAsFamily DEF IInv, TypeOK, Apart, CreatedSet
<1>3. CASE FailWith(AsFamily(createdShapes))
  BY <1>1, <1>2, <1>3, FailingReleasesAll
<1>4. CASE /\ DisposeEach(AsFamily(createdShapes))
           /\ createdShapes' = <<>>
           /\ stage' = "batchFailed"
           /\ UNCHANGED <<childrenDisposed, session, result>>
  <2>1. released \cap CreatedSet = {} /\ overReleased = {}
    BY DEF IInv, Accounted
  <2>2. /\ released' = released \cup CreatedSet
        /\ overReleased' = {}
        /\ acquired' = acquired
    BY <1>2, <1>4, <2>1, DisposedOnce
  <2>3. CreatedSet' = {} /\ LiveChildren' = LiveChildren /\ LiveChildren = children
    BY <1>1, <1>4 DEF CreatedSet, Elements, LiveChildren, IInv, ByStage
  <2>4. TypeOK'
    <3>1. released' \subseteq Shapes /\ overReleased' \subseteq Shapes /\ acquired' \subseteq Shapes
      BY <2>2, TypedFamilies DEF IInv, TypeOK
    <3>2. batch' \in Batches'
      BY <1>1 DEF Batches, IInv, TypeOK
    <3>3. createdShapes' \in Seq(Shapes) /\ stage' \in Stages
      BY <1>4 DEF Stages, Awaits
    <3> QED
      BY <1>1, <1>4, <3>1, <3>2, <3>3 DEF IInv, TypeOK
  <2>5. Accounted'
    BY <2>2, <2>3 DEF IInv, Accounted, Apart
  <2>6. Apart'
    BY <1>1, <1>4, <2>3 DEF IInv, Apart, Injective
  <2>7. ByStage'
    BY <1>1, <1>4 DEF IInv, ByStage
  <2>8. Outcome'
    BY <1>1, <1>4 DEF IInv, Outcome
  <2> QED
    BY <2>4, <2>5, <2>6, <2>7, <2>8 DEF IInv
<1> QED
  BY <1>3, <1>4 DEF BatchFails

\* The shapes of the graph become a child, and nothing else changes hands.
LEMMA CollectingKeepsAccount ==
    ASSUME IInv, stage # "done",
           children' = Append(children, CreatedSet), createdShapes' = <<>>,
           UNCHANGED <<childrenDisposed, kernelVars>>
    PROVE  /\ children' \in Seq(SUBSET Shapes)
           /\ createdShapes' \in Seq(Shapes)
           /\ Owned(children)' = Owned(children) \cup CreatedSet
           /\ ~childrenDisposed'
           /\ Accounted' /\ Apart'
<1> USE DEF kernelVars
<1>1. children \in Families /\ CreatedSet \in SUBSET Shapes
  BY TypedFamilies DEF IInv
<1>2. /\ children' \in Families
      /\ Owned(children') = Owned(children) \cup CreatedSet
      /\ Disjoint(children')
  BY <1>1, AppendedFamily DEF IInv, Apart
<1>3. ~childrenDisposed /\ ~childrenDisposed' /\ LiveChildren = children
      /\ LiveChildren' = children'
  BY DEF IInv, ByStage, LiveChildren
<1>4. CreatedSet' = {}
  BY DEF CreatedSet, Elements
<1>5. Accounted'
  BY <1>2, <1>3, <1>4 DEF IInv, Accounted
<1>6. Apart'
  <2>1. Injective(createdShapes')
    BY DEF Injective
  <2> QED
    BY <1>2, <1>4, <2>1 DEF Apart
<1>7. createdShapes' \in Seq(Shapes)
  OBVIOUS
<1> QED
  BY <1>2, <1>3, <1>5, <1>6, <1>7 DEF Families

LEMMA BatchSucceedsKeeps == IInv /\ BatchSucceeds => IInv'
<1> SUFFICES ASSUME IInv, BatchSucceeds PROVE IInv'
  OBVIOUS
<1> USE DEF LeaveTransaction
<1>1. /\ stage = "graphReturned" /\ active' = FALSE
      /\ UNCHANGED <<kind, batch, node, childrenDisposed, kernelVars, aborted>>
  BY DEF BatchSucceeds
<1>2. CASE /\ kind = "single" /\ children' = <<CreatedSet>> /\ createdShapes' = <<>>
           /\ Finish("success") /\ UNCHANGED ownedShapes
  <2>1. children = <<>> /\ released = {}
    BY <1>1, <1>2 DEF IInv, ByStage
  <2>2. children' = Append(children, CreatedSet)
    BY <1>2, <2>1
  <2>3. /\ children' \in Seq(SUBSET Shapes)
        /\ createdShapes' \in Seq(Shapes)
        /\ Owned(children)' = Owned(children) \cup CreatedSet
        /\ ~childrenDisposed'
        /\ Accounted' /\ Apart'
    BY <1>1, <1>2, <2>2, CollectingKeepsAccount
  <2>4. /\ stage' = "done" /\ result' = "success"
        /\ session' \in {"none", "disposed"}
    BY <1>2 DEF Finish, IInv, TypeOK
  <2>5. TypeOK'
    BY <1>1, <1>2, <2>3, <2>4 DEF IInv, TypeOK, Stages, Batches, kernelVars
  <2>6. ByStage'
    BY <1>1, <1>2, <2>3, <2>4 DEF IInv, ByStage
  <2>7. Outcome'
    <3>1. acquired = Owned(children) \cup CreatedSet
      BY <1>1, <2>1 DEF IInv, Accounted, ByStage, LiveChildren
    <3> QED
      BY <1>1, <2>1, <2>3, <2>4, <3>1 DEF Outcome, kernelVars
  <2> QED
    BY <2>3, <2>5, <2>6, <2>7 DEF IInv
<1>3. CASE /\ kind = "product" /\ ownedShapes' = ownedShapes \cup CreatedSet
           /\ stage' = "batchReturned"
           /\ UNCHANGED <<children, createdShapes, session, result>>
  <2> USE DEF kernelVars
  <2>1. CreatedSet' = CreatedSet /\ LiveChildren' = LiveChildren
    BY <1>1, <1>3 DEF CreatedSet, LiveChildren
  <2>2. TypeOK'
    BY <1>1, <1>3, TypedFamilies DEF IInv, TypeOK, Stages, Awaits, Batches
  <2>3. Accounted' /\ Apart'
    BY <1>1, <1>3, <2>1 DEF IInv, Accounted, Apart
  <2>4. ByStage'
    BY <1>1, <1>3, <2>1 DEF IInv, ByStage
  <2>5. Outcome'
    BY <1>1, <1>3 DEF IInv, Outcome
  <2> QED
    BY <2>2, <2>3, <2>4, <2>5 DEF IInv
<1> QED
  BY <1>2, <1>3 DEF BatchSucceeds

LEMMA DropKeeps == IInv /\ (BatchFailureReturns \/ DropBatch) => IInv'
<1> SUFFICES ASSUME IInv, BatchFailureReturns \/ DropBatch PROVE IInv'
  OBVIOUS
<1> USE DEF transaction
<1>1. CASE BatchFailureReturns
  <2>1. CreatedSet = {} /\ ~active /\ stage # "done"
    BY <1>1, NothingCreated DEF BatchFailureReturns, IInv, ByStage
  <2> QED
    BY <1>1, <2>1, EmptyFamily, FailingReleasesAll DEF BatchFailureReturns, IInv, TypeOK
<1>2. CASE DropBatch
  <2>1. ~active /\ stage # "done"
    BY <1>2 DEF DropBatch, IInv, ByStage
  <2>2. CreatedSet \in SUBSET Shapes
    BY TypedFamilies DEF IInv
  <2>3. <<CreatedSet>> \in Families /\ Owned(<<CreatedSet>>) = CreatedSet
        /\ Disjoint(<<CreatedSet>>)
    BY <2>2, SingleFamily
  <2> QED
    BY <1>2, <2>1, <2>3, FailingReleasesAll DEF DropBatch, IInv, TypeOK
<1> QED
  BY <1>1, <1>2

LEMMA CollectChildKeeps == IInv /\ CollectChild => IInv'
<1> SUFFICES ASSUME IInv, CollectChild PROVE IInv'
  OBVIOUS
<1> USE DEF transaction
<1>1. /\ stage = "batchReturned" /\ kind = "product" /\ ~active /\ released = {}
      /\ children' = Append(children, CreatedSet) /\ createdShapes' = <<>>
      /\ UNCHANGED <<kind, node, transaction, kernelVars, aborted, childrenDisposed>>
  BY DEF CollectChild, IInv, ByStage
<1>2. /\ children' \in Seq(SUBSET Shapes)
      /\ createdShapes' \in Seq(Shapes)
      /\ Owned(children)' = Owned(children) \cup CreatedSet
      /\ ~childrenDisposed'
      /\ Accounted' /\ Apart'
  BY <1>1, CollectingKeepsAccount
<1>3. CASE batch < Len(Plan) /\ batch' = batch + 1 /\ stage' = "begin"
           /\ UNCHANGED <<session, result>>
  <2>1. batch' \in Batches'
    BY <1>1, <1>3, PlanAssumption DEF IInv, TypeOK, Batches
  <2>2. TypeOK'
    BY <1>1, <1>2, <1>3, <2>1 DEF IInv, TypeOK, Stages, kernelVars
  <2>3. ByStage'
    BY <1>1, <1>2, <1>3 DEF IInv, ByStage, kernelVars
  <2>4. Outcome'
    BY <1>1, <1>3 DEF IInv, Outcome
  <2> QED
    BY <1>2, <2>2, <2>3, <2>4 DEF IInv
<1>4. CASE batch = Len(Plan) /\ Finish("success") /\ UNCHANGED batch
  <2>1. /\ stage' = "done" /\ result' = "success"
        /\ session' \in {"none", "disposed"}
    BY <1>4 DEF Finish, IInv, TypeOK
  <2>2. TypeOK'
    BY <1>1, <1>2, <1>4, <2>1 DEF IInv, TypeOK, Stages, Batches, kernelVars
  <2>3. ByStage'
    BY <1>1, <1>2, <2>1 DEF IInv, ByStage
  <2>4. Outcome'
    <3>1. acquired = Owned(children) \cup CreatedSet
      BY <1>1 DEF IInv, Accounted, ByStage, LiveChildren
    <3>2. acquired' = acquired /\ released' = {}
      BY <1>1 DEF kernelVars
    <3> QED
      BY <1>2, <2>1, <3>1, <3>2 DEF Outcome
  <2> QED
    BY <1>2, <2>2, <2>3, <2>4 DEF IInv
<1> QED
  BY <1>3, <1>4 DEF CollectChild

LEMMA AbortKeeps == IInv /\ Abort => IInv'
<1> SUFFICES ASSUME IInv, Abort PROVE IInv'
  OBVIOUS
<1> USE DEF Abort, transaction, owners, kernelVars
<1>1. TypeOK'
  BY DEF IInv, TypeOK, Batches
<1>2. ByStage'
  BY DEF IInv, ByStage, CreatedSet
<1> QED
  BY <1>1, <1>2, MovingOn

LEMMA DisposeResultKeeps == IInv /\ DisposeResult => IInv'
<1> SUFFICES ASSUME IInv, DisposeResult PROVE IInv'
  OBVIOUS
<1> USE DEF DisposeResult, transaction
<1>1. LiveChildren \in Families /\ Disjoint(LiveChildren)
  BY TypedFamilies, EmptyFamily DEF IInv, Apart, LiveChildren
<1>2. /\ released' = released \cup Owned(LiveChildren)
      /\ overReleased' = {}
      /\ acquired' = acquired
  BY <1>1, DisposedOnce DEF IInv, Accounted
<1>3. stage = "done" /\ createdShapes = <<>> /\ CreatedSet = {} /\ CreatedSet' = {}
      /\ Owned(children) = acquired
  BY NothingCreated DEF IInv, Outcome, ByStage, CreatedSet, Elements
<1>4. released' = acquired
  BY <1>2, <1>3 DEF IInv, Accounted
<1>5. LiveChildren' = <<>> /\ Owned(LiveChildren') = {}
  BY EmptyFamily DEF LiveChildren
<1>6. TypeOK'
  <2>1. released' \subseteq Shapes /\ overReleased' \subseteq Shapes /\ acquired' \subseteq Shapes
    BY <1>2, <1>4 DEF IInv, TypeOK
  <2> QED
    BY <2>1 DEF IInv, TypeOK, Batches
<1>7. Accounted'
  BY <1>2, <1>3, <1>4, <1>5 DEF Accounted
<1>8. Apart'
  BY <1>3 DEF IInv, Apart
<1>9. ByStage'
  BY <1>3 DEF IInv, ByStage
<1>10. Outcome'
  BY <1>2, <1>3, <1>4 DEF IInv, Outcome
<1> QED
  BY <1>6, <1>7, <1>8, <1>9, <1>10 DEF IInv

\* Every step keeps the invariant.
THEOREM Preserved == IInv /\ [Next]_vars => IInv'
<1> SUFFICES ASSUME IInv, [Next]_vars PROVE IInv'
  OBVIOUS
<1>1. CASE Next
  BY <1>1, PrepareKeeps, ResolveKeeps, BeginBatchKeeps, ReturnShapeKeeps, GraphKeeps,
     GraphFailureReturnsKeeps, BatchFailsKeeps, BatchSucceedsKeeps, DropKeeps,
     CollectChildKeeps, AbortKeeps, DisposeResultKeeps DEF Next, Continue
<1>2. CASE UNCHANGED vars
  BY <1>2 DEF vars, owners, transaction, kernelVars, IInv, TypeOK, Batches, Accounted,
     Apart, ByStage, Outcome, CreatedSet, LiveChildren
<1> QED
  BY <1>1, <1>2

\* So it holds in every state the evaluation reaches.
THEOREM Invariant == Spec => []IInv
BY Initially, Preserved, PTL DEF Spec

-----------------------------------------------------------------------------
(* What follows from it.                                                   *)

\* Every variable has its type: the batch is one of the plan.
THEOREM Typed == Spec => []TypeOK
<1>1. IInv => TypeOK
  BY DEF IInv
<1> QED
  BY <1>1, Invariant, PTL

\* disposeShape is never called twice for a shape, though the kernel may have
\* returned it twice; and no failure of a batch frees a shape of an earlier one.
THEOREM ReleasesAreDue == Spec => []ReleasedOnceAndLate
<1>1. IInv => ReleasedOnce
  BY DEF IInv, Accounted, ReleasedOnce
<1>2. IInv => EarlierBatchesSurvive
  BY DEF IInv, Accounted, ByStage, LiveChildren, EarlierBatchesSurvive
<1>3. IInv => ReleasedOnceAndLate
  BY <1>1, <1>2 DEF ReleasedOnceAndLate
<1> QED
  BY <1>3, Invariant, PTL

\* A failure releases every shape, lowers the flag and closes the session.
THEOREM FailuresAreClean == Spec => []FailureFreesEverything
<1>1. IInv => FailureFreesEverything
  BY DEF IInv, Outcome, ByStage, FailureFreesEverything
<1> QED
  BY <1>1, Invariant, PTL

\* A result owns all the shapes made, until it is disposed of.
THEOREM ResultsOwnShapes == Spec => []ResultOwnsItsShapes
<1>1. IInv => ResultOwnsItsShapes
  BY DEF IInv, Outcome, ResultOwnsItsShapes
<1> QED
  BY <1>1, Invariant, PTL

\* After an abort no shape is made, no resource is asked for, nothing succeeds.
THEOREM AbortIsHeeded == Spec => NothingStartsAfterAbort
<1> DEFINE Heeded ==
      aborted => /\ acquired' = acquired
                 /\ stage' \in {"documents", "geometry", "begin"} => stage' = stage
                 /\ result' = "success" => result = "success"
<1>1. ASSUME [Next]_vars PROVE [Heeded]_vars
  <2>1. CASE UNCHANGED vars
    BY <2>1
  <2>2. CASE Prepare \/ Resolve
    BY <2>2 DEF Prepare, Resolve, ResolveDocuments, ResolveGeometry, Finish, kernelVars
  <2>3. CASE BeginBatch
    BY <2>3 DEF BeginBatch, FailWith, DisposeEach, Finish, kernelVars
  <2>4. ASSUME NEW s \in Shapes, ReturnShape(s) PROVE Heeded
    BY <2>4 DEF ReturnShape, MayCall, GraphFails, DisposeEach
  <2>5. CASE StopGraph \/ ValidateShape \/ GraphSucceeds
    BY <2>5 DEF StopGraph, ValidateShape, GraphSucceeds, GraphFails, DisposeEach, kernelVars
  <2>6. CASE GraphFailureReturns
    BY <2>6 DEF GraphFailureReturns, Finish, kernelVars
  <2>7. CASE BatchFails
    BY <2>7 DEF BatchFails, FailWith, DisposeEach, Finish
  <2>8. CASE BatchSucceeds \/ CollectChild
    BY <2>8 DEF BatchSucceeds, CollectChild
  <2>9. CASE BatchFailureReturns \/ DropBatch
    BY <2>9 DEF BatchFailureReturns, DropBatch, FailWith, DisposeEach, Finish
  <2>10. CASE Abort \/ DisposeResult
    BY <2>10 DEF Abort, DisposeResult, DisposeEach, kernelVars
  <2> QED
    BY <1>1, <2>1, <2>2, <2>3, <2>4, <2>5, <2>6, <2>7, <2>8, <2>9, <2>10 DEF Next, Continue
<1> QED
  BY <1>1, PTL DEF Spec, NothingStartsAfterAbort

=============================================================================
