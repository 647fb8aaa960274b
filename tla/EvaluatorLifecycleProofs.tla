---------------------- MODULE EvaluatorLifecycleProofs ----------------------
(***************************************************************************)
(* Proofs about EvaluatorLifecycle for any evaluations, outputs and nodes: *)
(* no shape leaks, none is taken away from an evaluation that waits, and   *)
(* an aborted evaluation does nothing but fail.                            *)
(***************************************************************************)
EXTENDS EvaluatorLifecycle, FiniteSetTheorems, WellFoundedInduction, TLAPS

TypeInv ==
    /\ disposed \in BOOLEAN /\ cacheActive \in BOOLEAN /\ kernelDisposed \in BOOLEAN
    /\ kernel \in {"manifold", "occt"} /\ mode \in Modes
    /\ shape \in [Shapes -> {"none", "live", "freed"}]
    /\ stage \in [Evaluations -> Stages]
    /\ output \in [Evaluations -> 1 .. Last + 1]
    /\ created \in [Evaluations -> SUBSET Nodes]
    /\ aborted \subseteq Signalled

\* Where an evaluation can be: only one with a signal yields, only a private
\* one awaits the cache, and it does so at an output that is a box.
WhereInv ==
    \A e \in Evaluations :
        /\ stage[e] = "idle" => created[e] = {} /\ output[e] = 1
        /\ stage[e] = "yield" => e \in Signalled \ Imported
        /\ stage[e] = "import" => e \in Imported
        /\ stage[e] \in Waits =>
              e \in Private /\ output[e] <= Last /\ Direct[output[e]] # NoNode

EInv == /\ TypeInv /\ WhereInv
        /\ NoShapeLeaks /\ InFlightShapesLive /\ ResultsKeepShapes
        /\ DisposedIsQuiet /\ GuardsCountWhatRuns /\ PrivateNeverOverlaps

\* How many evaluations are at a stage.
Count(table, w) == Cardinality({f \in Evaluations : table[f] = w})

\* The suspended evaluations without e, as every handler computes them.
Others(e) == IF stage[e] = "yield" THEN suspended - 1 ELSE suspended

\* An evaluation that may take a step which is not the start of an import.
MayMove(e) ==
    /\ stage[e] \in InFlight \cup {"idle"}
    /\ ~disposed
    /\ stage[e] = "idle" /\ e \in Private => ~cacheActive

-----------------------------------------------------------------------------
(* A set of evaluations counted before and after one of them moves.         *)
LEMMA Recount ==
    ASSUME TypeInv, NEW e \in Evaluations, NEW what \in Stages, NEW w,
           stage' = [stage EXCEPT ![e] = what]
    PROVE  /\ Count(stage, w) \in Nat /\ Count(stage', w) \in Nat
           /\ stage[e] = w /\ what = w => Count(stage', w) = Count(stage, w)
           /\ stage[e] # w /\ what # w => Count(stage', w) = Count(stage, w)
           /\ stage[e] # w /\ what = w => Count(stage', w) = Count(stage, w) + 1
           /\ stage[e] = w /\ what # w => Count(stage', w) = Count(stage, w) - 1
<1> DEFINE B == {f \in Evaluations : stage[f] = w}
           A == {f \in Evaluations : stage'[f] = w}
<1>1. IsFiniteSet(B) /\ IsFiniteSet(A)
  BY FS_Subset, ConstantsAssumption
<1>2. Cardinality(B) \in Nat /\ Cardinality(A) \in Nat
  BY <1>1, FS_CardinalityType
<1>3. stage'[e] = what /\ \A f \in Evaluations : f # e => stage'[f] = stage[f]
  BY DEF TypeInv
<1>4. stage[e] = w /\ what = w => A = B
  BY <1>3
<1>5. stage[e] # w /\ what # w => A = B
  BY <1>3
<1>6. stage[e] # w /\ what = w => A = B \cup {e} /\ e \notin B
  BY <1>3
<1>7. stage[e] = w /\ what # w => A = B \ {e} /\ e \in B
  BY <1>3
<1>8. /\ e \notin B => Cardinality(B \cup {e}) = Cardinality(B) + 1
      /\ e \in B => Cardinality(B \ {e}) = Cardinality(B) - 1
  BY <1>1, FS_AddElement, FS_RemoveElement
<1> HIDE DEF A, B
<1>9. /\ Cardinality(B) \in Nat /\ Cardinality(A) \in Nat
      /\ stage[e] = w /\ what = w => Cardinality(A) = Cardinality(B)
      /\ stage[e] # w /\ what # w => Cardinality(A) = Cardinality(B)
      /\ stage[e] # w /\ what = w => Cardinality(A) = Cardinality(B) + 1
      /\ stage[e] = w /\ what # w => Cardinality(A) = Cardinality(B) - 1
  BY <1>2, <1>4, <1>5, <1>6, <1>7, <1>8
<1>. QED
  BY <1>9 DEF A, B, Count

(* The guards count an evaluation that ends. *)
LEMMA GuardsAtEnd ==
    ASSUME EInv, NEW e \in Evaluations, MayMove(e),
           NEW what \in {"failed", "result"},
           stage' = [stage EXCEPT ![e] = what],
           suspended' = Others(e), Leave(e), mode' = mode
    PROVE  GuardsCountWhatRuns' /\ PrivateNeverOverlaps'
<1>1. TypeInv /\ WhereInv /\ GuardsCountWhatRuns /\ PrivateNeverOverlaps
  BY DEF EInv
<1>2. stage'[e] = what /\ \A f \in Evaluations : f # e => stage'[f] = stage[f]
  BY <1>1 DEF TypeInv
<1>3. what \in Stages /\ what \notin InFlight
  BY DEF Stages, InFlight, Waits
<1>4. Private' = Private
  BY DEF Private
<1>counts. suspended = Count(stage, "yield") /\ importing = Count(stage, "import")
  BY <1>1 DEF GuardsCountWhatRuns, Count
<1>5. suspended' = Count(stage', "yield")
  BY <1>1, <1>3, <1>counts, Recount DEF Others, InFlight
<1>6. importing' = Count(stage', "import")
  BY <1>1, <1>3, <1>counts, Recount DEF Leave, InFlight
<1>7. cacheActive' <=> \E f \in Private : stage'[f] \in InFlight
  <2>1. CASE e \in Private
    <3>1. \A f \in Private : stage[f] \in InFlight => f = e
      BY <1>1, <2>1 DEF MayMove, GuardsCountWhatRuns, PrivateNeverOverlaps
    <3>. QED
      BY <1>2, <1>3, <2>1, <3>1 DEF Leave, Private
  <2>2. CASE e \notin Private
    BY <1>1, <1>2, <2>2 DEF Leave, GuardsCountWhatRuns, TypeInv, Private
  <2>. QED
    BY <2>1, <2>2
<1>8. PrivateNeverOverlaps'
  BY <1>1, <1>2, <1>3, <1>4 DEF PrivateNeverOverlaps, Private
<1>. QED
  BY <1>4, <1>5, <1>6, <1>7, <1>8 DEF GuardsCountWhatRuns, Count

(* The guards count an evaluation that goes on to wait. *)
LEMMA GuardsAtPause ==
    ASSUME EInv, NEW e \in Evaluations, MayMove(e), stage[e] # "import",
           NEW what \in {"yield"} \cup Waits,
           Await(e, what, Others(e)), mode' = mode
    PROVE  GuardsCountWhatRuns' /\ PrivateNeverOverlaps'
<1>1. TypeInv /\ WhereInv /\ GuardsCountWhatRuns /\ PrivateNeverOverlaps
  BY DEF EInv
<1>2. stage' = [stage EXCEPT ![e] = what]
  BY DEF Await
<1>3. stage'[e] = what /\ \A f \in Evaluations : f # e => stage'[f] = stage[f]
  BY <1>1, <1>2 DEF TypeInv
<1>4. what \in Stages /\ what \in InFlight /\ what # "import"
  BY DEF Stages, InFlight, Waits
<1>5. Private' = Private
  BY DEF Private
<1>counts. suspended = Count(stage, "yield") /\ importing = Count(stage, "import")
  BY <1>1 DEF GuardsCountWhatRuns, Count
<1>moves. /\ suspended' = IF what = "yield" THEN Others(e) + 1 ELSE Others(e)
      /\ importing' = importing
  BY DEF Await
<1>6. suspended' = Count(stage', "yield")
  <2>1. /\ Count(stage, "yield") \in Nat
        /\ stage[e] = "yield" /\ what = "yield" => Count(stage', "yield") = Count(stage, "yield")
        /\ stage[e] # "yield" /\ what # "yield" => Count(stage', "yield") = Count(stage, "yield")
        /\ stage[e] # "yield" /\ what = "yield" => Count(stage', "yield") = Count(stage, "yield") + 1
        /\ stage[e] = "yield" /\ what # "yield" => Count(stage', "yield") = Count(stage, "yield") - 1
    BY <1>1, <1>2, <1>4, Recount
  <2>. QED
    BY <1>counts, <1>moves, <2>1 DEF Others
<1>7. importing' = Count(stage', "import")
  BY <1>1, <1>2, <1>4, <1>counts, <1>moves, Recount
<1>8. cacheActive' <=> \E f \in Private : stage'[f] \in InFlight
  BY <1>1, <1>3, <1>4 DEF Await, GuardsCountWhatRuns, TypeInv, Private, MayMove
<1>9. PrivateNeverOverlaps'
  <2>1. e \in Private => \A f \in Private : stage[f] \in InFlight => f = e
    BY <1>1 DEF MayMove, GuardsCountWhatRuns, PrivateNeverOverlaps
  <2>. QED
    BY <1>1, <1>3, <1>5, <2>1 DEF PrivateNeverOverlaps, Private
<1>. QED
  BY <1>5, <1>6, <1>7, <1>8, <1>9 DEF GuardsCountWhatRuns, Count

-----------------------------------------------------------------------------
(* An evaluation that fails takes its own shapes with it and no others.     *)
LEMMA FailKeepsEInv ==
    ASSUME EInv, NEW e \in Evaluations, MayMove(e), NEW made \in SUBSET Nodes,
           Fail(e, made, Others(e))
    PROVE  EInv'
<1>1. /\ TypeInv /\ WhereInv /\ NoShapeLeaks /\ InFlightShapesLive
      /\ ResultsKeepShapes
  BY DEF EInv
<1>2. /\ created' = [created EXCEPT ![e] = @ \cup made]
      /\ shape' = DisposeShapes(Make(shape, Of(e, made)), Of(e, created[e] \cup made))
      /\ stage' = [stage EXCEPT ![e] = "failed"]
      /\ suspended' = Others(e) /\ Leave(e)
      /\ disposed' = disposed /\ kernel' = kernel /\ mode' = mode
      /\ kernelDisposed' = kernelDisposed /\ output' = output /\ aborted' = aborted
  BY DEF Fail, fixed
<1>3. /\ stage'[e] = "failed" /\ created'[e] = created[e] \cup made
      /\ \A f \in Evaluations : f # e => stage'[f] = stage[f] /\ created'[f] = created[f]
  BY <1>1, <1>2 DEF TypeInv
<1>4. \A f \in Evaluations, n \in Nodes :
         /\ f # e => shape'[<<f, n>>] = shape[<<f, n>>]
         /\ f = e => shape'[<<f, n>>] # "live"
  BY <1>1, <1>2 DEF TypeInv, DisposeShapes, Make, Of, Shapes, NoShapeLeaks
<1>5. "failed" \in Stages /\ "failed" \notin InFlight \cup {"idle", "result"}
  BY DEF Stages, InFlight, Waits
<1>6. TypeInv'
  <2>1. shape' \in [Shapes -> {"none", "live", "freed"}]
    BY <1>1, <1>2 DEF TypeInv, DisposeShapes, Make
  <2>2. cacheActive' \in BOOLEAN
    BY <1>1, <1>2 DEF Leave, TypeInv
  <2>. QED
    BY <1>1, <1>2, <1>5, <2>1, <2>2 DEF TypeInv
<1>7. WhereInv'
  BY <1>1, <1>2, <1>3, <1>5 DEF WhereInv, Private, Waits, InFlight
<1>8. NoShapeLeaks' /\ InFlightShapesLive' /\ ResultsKeepShapes'
  <2>1. NoShapeLeaks'
    <3>1. SUFFICES ASSUME NEW f \in Evaluations, NEW n \in Nodes,
                          shape'[<<f, n>>] = "live"
                   PROVE  n \in created'[f] /\ stage'[f] \in InFlight \cup {"result"}
      BY DEF NoShapeLeaks
    <3>2. f # e /\ shape[<<f, n>>] = "live"
      BY <1>4, <3>1
    <3>. QED
      BY <1>1, <1>3, <3>2 DEF NoShapeLeaks
  <2>2. InFlightShapesLive'
    BY <1>1, <1>3, <1>4, <1>5 DEF InFlightShapesLive, TypeInv
  <2>3. ResultsKeepShapes'
    <3>1. SUFFICES ASSUME NEW f \in Evaluations, stage'[f] = "result", ~kernelDisposed,
                          NEW n \in created'[f]
                   PROVE  shape'[<<f, n>>] = "live"
      BY <1>2 DEF ResultsKeepShapes
    <3>2. f # e /\ stage[f] = "result" /\ n \in created[f] /\ n \in Nodes
      BY <1>1, <1>3, <1>5, <3>1 DEF TypeInv
    <3>. QED
      BY <1>1, <1>4, <3>1, <3>2 DEF ResultsKeepShapes
  <2>. QED
    BY <2>1, <2>2, <2>3
<1>9. DisposedIsQuiet'
  BY <1>2 DEF MayMove, DisposedIsQuiet
<1>. QED
  BY <1>2, <1>6, <1>7, <1>8, <1>9, GuardsAtEnd DEF EInv

(* One that succeeds keeps its shapes, as its result.                       *)
LEMMA SucceedKeepsEInv ==
    ASSUME EInv, NEW e \in Evaluations, MayMove(e), NEW made \in SUBSET Nodes,
           Succeed(e, made, Others(e))
    PROVE  EInv'
<1>1. /\ TypeInv /\ WhereInv /\ NoShapeLeaks /\ InFlightShapesLive
      /\ ResultsKeepShapes
  BY DEF EInv
<1>2. /\ created' = [created EXCEPT ![e] = @ \cup made]
      /\ shape' = Make(shape, Of(e, made))
      /\ stage' = [stage EXCEPT ![e] = "result"]
      /\ suspended' = Others(e) /\ Leave(e)
      /\ disposed' = disposed /\ kernel' = kernel /\ mode' = mode
      /\ kernelDisposed' = kernelDisposed /\ output' = output /\ aborted' = aborted
  BY DEF Succeed, Keep, fixed
<1>3. /\ stage'[e] = "result" /\ created'[e] = created[e] \cup made
      /\ \A f \in Evaluations : f # e => stage'[f] = stage[f] /\ created'[f] = created[f]
  BY <1>1, <1>2 DEF TypeInv
<1>4. \A f \in Evaluations, n \in Nodes :
         shape'[<<f, n>>] = IF f = e /\ n \in made THEN "live" ELSE shape[<<f, n>>]
  BY <1>2 DEF Make, Of, Shapes
<1>5. "result" \in Stages /\ "result" \notin InFlight \cup {"idle"}
  BY DEF Stages, InFlight, Waits
<1>6. TypeInv'
  <2>1. shape' \in [Shapes -> {"none", "live", "freed"}]
    BY <1>1, <1>2 DEF TypeInv, Make
  <2>2. cacheActive' \in BOOLEAN
    BY <1>1, <1>2 DEF Leave, TypeInv
  <2>. QED
    BY <1>1, <1>2, <1>5, <2>1, <2>2 DEF TypeInv
<1>7. WhereInv'
  BY <1>1, <1>2, <1>3, <1>5 DEF WhereInv, Private, Waits, InFlight
<1>8. \A n \in created[e] : shape[<<e, n>>] = "live"
  BY <1>1 DEF MayMove, WhereInv, InFlightShapesLive
<1>9. NoShapeLeaks'
  BY <1>1, <1>3, <1>4 DEF NoShapeLeaks
<1>10. InFlightShapesLive'
  BY <1>1, <1>3, <1>4, <1>5 DEF InFlightShapesLive, TypeInv
<1>11. ResultsKeepShapes'
  BY <1>1, <1>2, <1>3, <1>4, <1>8 DEF ResultsKeepShapes, TypeInv
<1>12. DisposedIsQuiet'
  BY <1>2 DEF MayMove, DisposedIsQuiet
<1>. QED
  BY <1>2, <1>6, <1>7, <1>9, <1>10, <1>11, <1>12, GuardsAtEnd DEF EInv

(* One that goes on to wait keeps its shapes for when it is resumed.        *)
LEMMA PauseKeepsEInv ==
    ASSUME EInv, NEW e \in Evaluations, MayMove(e), stage[e] # "import",
           NEW made \in SUBSET Nodes, NEW what \in {"yield"} \cup Waits,
           NEW o \in 1 .. Last + 1,
           what = "yield" => e \in Signalled \ Imported,
           what # "yield" => e \in Private /\ o <= Last /\ Direct[o] # NoNode,
           Keep(e, made), Await(e, what, Others(e)),
           output' = [output EXCEPT ![e] = o]
    PROVE  EInv'
<1>1. /\ TypeInv /\ WhereInv /\ NoShapeLeaks /\ InFlightShapesLive
      /\ ResultsKeepShapes
  BY DEF EInv
<1>2. /\ created' = [created EXCEPT ![e] = @ \cup made]
      /\ shape' = Make(shape, Of(e, made))
      /\ stage' = [stage EXCEPT ![e] = what]
      /\ disposed' = disposed /\ kernel' = kernel /\ mode' = mode
      /\ kernelDisposed' = kernelDisposed /\ aborted' = aborted
  BY DEF Keep, Await, fixed
<1>3. /\ stage'[e] = what /\ created'[e] = created[e] \cup made /\ output'[e] = o
      /\ \A f \in Evaluations : f # e => /\ stage'[f] = stage[f]
                                       /\ created'[f] = created[f]
                                       /\ output'[f] = output[f]
  BY <1>1, <1>2 DEF TypeInv
<1>4. \A f \in Evaluations, n \in Nodes :
         shape'[<<f, n>>] = IF f = e /\ n \in made THEN "live" ELSE shape[<<f, n>>]
  BY <1>2 DEF Make, Of, Shapes
<1>5. what \in Stages /\ what \in InFlight /\ what \notin {"idle", "import", "result"}
  BY DEF Stages, InFlight, Waits
<1>6. TypeInv'
  <2>1. shape' \in [Shapes -> {"none", "live", "freed"}]
    BY <1>1, <1>2 DEF TypeInv, Make
  <2>2. cacheActive' \in BOOLEAN
    BY <1>1 DEF Await, TypeInv
  <2>. QED
    BY <1>1, <1>2, <1>5, <2>1, <2>2 DEF TypeInv
<1>7. WhereInv'
  <2>1. Private' = Private
    BY <1>2 DEF Private
  <2>. QED
    BY <1>1, <1>3, <1>5, <2>1 DEF WhereInv, Waits
<1>8. \A n \in created[e] : shape[<<e, n>>] = "live"
  BY <1>1 DEF MayMove, WhereInv, InFlightShapesLive
<1>9. NoShapeLeaks'
  BY <1>1, <1>3, <1>4, <1>5 DEF NoShapeLeaks
<1>10. InFlightShapesLive'
  BY <1>1, <1>3, <1>4, <1>8 DEF InFlightShapesLive, TypeInv
<1>11. ResultsKeepShapes'
  BY <1>1, <1>2, <1>3, <1>4, <1>5 DEF ResultsKeepShapes, TypeInv
<1>12. DisposedIsQuiet'
  BY <1>2 DEF MayMove, DisposedIsQuiet
<1>. QED
  BY <1>2, <1>6, <1>7, <1>9, <1>10, <1>11, <1>12, GuardsAtPause DEF EInv

-----------------------------------------------------------------------------
(* The loop over the outputs.                                              *)

LEMMA LeastElement ==
    ASSUME NEW S \in SUBSET Nat, S # {}
    PROVE  \E p \in S : \A q \in S : p <= q
<1>1. PICK p \in S : \A q \in S : ~ (<<q, p>> \in OpToRel(<, Nat))
  BY NatLessThanWellFounded, WFMin
<1>2. \A q \in S : ~ (q < p)
  <2>1. SUFFICES ASSUME NEW q \in S, q < p PROVE FALSE
    OBVIOUS
  <2>2. <<q, p>> \in Nat \X Nat /\ <<q, p>>[1] < <<q, p>>[2]
    BY <2>1
  <2>3. <<q, p>> \in OpToRel(<, Nat)
    BY <2>2 DEF OpToRel
  <2>. QED
    BY <1>1, <2>3
<1>. QED
  BY <1>2

LEMMA NextPauseType ==
    ASSUME NEW e \in Evaluations, NEW o \in 1 .. Last, NEW have
    PROVE  /\ NextPause(e, o, have) \in o + 1 .. Last + 1
           /\ e \notin Signalled /\ NextPause(e, o, have) <= Last =>
                 e \in Private /\ Direct[NextPause(e, o, have)] # NoNode
<1> DEFINE due(p) == have \cup UNION {Needs[i] : i \in o .. p - 1}
           pauses == {p \in o + 1 .. Last : Prepared(e, p, due(p))}
<1>1. Last \in Nat
  BY ConstantsAssumption DEF Last
<1>2. CASE e \in Signalled
  BY <1>1, <1>2 DEF NextPause
<1>3. CASE e \notin Signalled /\ pauses = {}
  <2>1. NextPause(e, o, have) = Last + 1
    BY <1>3 DEF NextPause
  <2>. QED
    BY <1>1, <2>1
<1>4. CASE e \notin Signalled /\ pauses # {}
  <2>1. NextPause(e, o, have) = CHOOSE p \in pauses : \A q \in pauses : p <= q
    BY <1>4 DEF NextPause
  <2>2. \E p \in pauses : \A q \in pauses : p <= q
    <3>1. pauses \in SUBSET Nat
      BY <1>1
    <3> HIDE DEF pauses
    <3>. QED
      BY <1>4, <3>1, LeastElement
  <2>3. NextPause(e, o, have) \in pauses
    <3> HIDE DEF pauses
    <3>. QED
      BY <2>1, <2>2
  <2>. QED
    BY <1>1, <2>3 DEF Prepared
<1>. QED
  BY <1>2, <1>3, <1>4

LEMMA EvaluateOutputsKeepsEInv ==
    ASSUME EInv, NEW e \in Evaluations \ Imported, MayMove(e),
           NEW o \in 1 .. Last, NEW made \in SUBSET Nodes,
           EvaluateOutputs(e, o, made, Others(e))
    PROVE  EInv'
<1> DEFINE have == created[e] \cup made
           p == NextPause(e, o, have)
           due == (UNION {Needs[i] : i \in o .. p - 1}) \ have
<1>1. Last \in Nat /\ Needs \in Seq(SUBSET Nodes)
  BY ConstantsAssumption DEF Last
<1>2. /\ p \in o + 1 .. Last + 1
      /\ e \notin Signalled /\ p <= Last => e \in Private /\ Direct[p] # NoNode
  BY NextPauseType
<1>3. due \in SUBSET Nodes
  <2>1. \A i \in o .. p - 1 : Needs[i] \in SUBSET Nodes
    BY <1>1, <1>2 DEF Last
  <2>. QED
    BY <2>1
<1>4. stage[e] # "import"
  BY DEF EInv, WhereInv
<1>cases. \/ \E part \in SUBSET due : Fail(e, made \cup part, Others(e))
      \/ IF p > Last /\ e \notin Signalled
         THEN Succeed(e, made \cup due, Others(e))
         ELSE /\ Keep(e, made \cup due)
              /\ output' = [output EXCEPT ![e] = p]
              /\ Await(e, IF e \in Signalled THEN "yield" ELSE "key", Others(e))
  BY DEF EvaluateOutputs
<1> HIDE DEF p, due
<1>5. \/ \E part \in SUBSET due : Fail(e, made \cup part, Others(e))
      \/ p > Last /\ Succeed(e, made \cup due, Others(e))
      \/ /\ e \in Signalled \/ p <= Last
         /\ Keep(e, made \cup due)
         /\ output' = [output EXCEPT ![e] = p]
         /\ Await(e, IF e \in Signalled THEN "yield" ELSE "key", Others(e))
  BY <1>1, <1>2, <1>cases
<1>6. CASE \E part \in SUBSET due : Fail(e, made \cup part, Others(e))
  BY <1>3, <1>6, FailKeepsEInv
<1>7. CASE Succeed(e, made \cup due, Others(e))
  BY <1>3, <1>7, SucceedKeepsEInv
<1>8. CASE /\ e \in Signalled \/ p <= Last
           /\ Keep(e, made \cup due)
           /\ output' = [output EXCEPT ![e] = p]
           /\ Await(e, IF e \in Signalled THEN "yield" ELSE "key", Others(e))
  <2>1. made \cup due \in SUBSET Nodes /\ p \in 1 .. Last + 1
    BY <1>1, <1>2, <1>3
  <2>2. CASE e \in Signalled
    BY <1>4, <1>8, <2>1, <2>2, PauseKeepsEInv DEF Waits
  <2>3. CASE e \notin Signalled
    BY <1>2, <1>4, <1>8, <2>1, <2>3, PauseKeepsEInv DEF Waits
  <2>. QED
    BY <2>2, <2>3
<1>. QED
  BY <1>5, <1>6, <1>7, <1>8

\* An evaluation that waits at its output without having made anything new.
LEMMA GoKeepsEInv ==
    ASSUME EInv, NEW e \in Evaluations \ Imported, MayMove(e),
           NEW made \in SUBSET Nodes, NEW what \in {"yield"} \cup Waits,
           what = "yield" => e \in Signalled,
           what # "yield" => /\ e \in Private /\ output[e] <= Last
                             /\ Direct[output[e]] # NoNode,
           Keep(e, made), Await(e, what, Others(e)), output' = output
    PROVE  EInv'
<1>1. /\ output' = [output EXCEPT ![e] = output[e]]
      /\ output[e] \in 1 .. Last + 1
  BY DEF EInv, TypeInv
<1>2. stage[e] # "import"
  BY DEF EInv, WhereInv
<1>. QED
  BY <1>1, <1>2, PauseKeepsEInv

LEMMA EvaluateFromKeepsEInv ==
    ASSUME EInv, NEW e \in Evaluations \ Imported, MayMove(e),
           output[e] \in 1 .. Last, EvaluateFrom(e, output[e], Others(e))
    PROVE  EInv'
<1>1. CASE Prepared(e, output[e], created[e])
  <2>1. e \in Private /\ Direct[output[e]] # NoNode
    BY <1>1 DEF Prepared
  <2>2. \/ Fail(e, {}, Others(e))
        \/ Keep(e, {}) /\ Await(e, "key", Others(e)) /\ output' = output
    BY <1>1 DEF EvaluateFrom
  <2>3. output[e] <= Last
    OBVIOUS
  <2>. QED
    BY <2>1, <2>2, <2>3, FailKeepsEInv, GoKeepsEInv DEF Waits
<1>2. CASE ~Prepared(e, output[e], created[e])
  BY <1>2, EvaluateOutputsKeepsEInv DEF EvaluateFrom
<1>. QED
  BY <1>1, <1>2

-----------------------------------------------------------------------------
(* What an evaluation can rely on when it is resumed from the cache.        *)
LEMMA AtCache ==
    ASSUME EInv, NEW e \in Evaluations, stage[e] \in Waits
    PROVE  /\ MayMove(e) /\ e \in Evaluations \ Imported
           /\ e \in Private /\ output[e] \in 1 .. Last
           /\ Direct[output[e]] # NoNode /\ Box(e) \in SUBSET Nodes
           /\ Others(e) = suspended
<1>1. /\ e \in Private /\ output[e] <= Last /\ Direct[output[e]] # NoNode
      /\ output[e] \in 1 .. Last + 1
  BY DEF EInv, WhereInv, TypeInv
<1>2. Last \in Nat /\ DOMAIN Needs = 1 .. Last
  BY ConstantsAssumption DEF Last
<1>3. output[e] \in 1 .. Last
  BY <1>1, <1>2
<1>4. Direct[output[e]] \in Nodes
  BY <1>1, <1>2, <1>3, ConstantsAssumption
<1>5. MayMove(e)
  BY DEF EInv, DisposedIsQuiet, MayMove, InFlight, Waits
<1>6. e \notin Imported
  BY <1>1 DEF Private
<1>. QED
  BY <1>1, <1>3, <1>4, <1>5, <1>6 DEF Box, Others, Waits

LEMMA BuildKeepsEInv ==
    ASSUME EInv, NEW e \in Evaluations, stage[e] \in Waits,
           NEW shouldWrite \in BOOLEAN, Build(e, shouldWrite)
    PROVE  EInv'
<1>1. /\ MayMove(e) /\ e \in Evaluations \ Imported
      /\ e \in Private /\ output[e] \in 1 .. Last
      /\ Direct[output[e]] # NoNode /\ Box(e) \in SUBSET Nodes
      /\ Others(e) = suspended
  BY AtCache
<1>2. output[e] <= Last
  BY <1>1
<1>3. \/ Fail(e, {}, Others(e))
      \/ Fail(e, Box(e), Others(e))
      \/ Keep(e, Box(e)) /\ Await(e, "write", Others(e)) /\ output' = output
      \/ EvaluateOutputs(e, output[e], Box(e), Others(e))
  BY <1>1 DEF Build
<1>4. CASE Fail(e, {}, Others(e))
  BY <1>1, <1>4, FailKeepsEInv
<1>5. CASE Fail(e, Box(e), Others(e))
  BY <1>1, <1>5, FailKeepsEInv
<1>6. CASE Keep(e, Box(e)) /\ Await(e, "write", Others(e)) /\ output' = output
  BY <1>1, <1>2, <1>6, GoKeepsEInv DEF Waits
<1>7. CASE EvaluateOutputs(e, output[e], Box(e), Others(e))
  BY <1>1, <1>7, EvaluateOutputsKeepsEInv
<1>. QED
  BY <1>3, <1>4, <1>5, <1>6, <1>7

LEMMA GoToCacheKeepsEInv ==
    ASSUME EInv, NEW e \in Evaluations, stage[e] \in Waits,
           NEW what \in Waits, Go(e, what)
    PROVE  EInv'
<1>1. /\ MayMove(e) /\ e \in Evaluations \ Imported
      /\ e \in Private /\ output[e] \in 1 .. Last
      /\ Direct[output[e]] # NoNode /\ Others(e) = suspended
  BY AtCache
<1>2. output[e] <= Last
  BY <1>1
<1>3. Keep(e, {}) /\ Await(e, what, Others(e)) /\ output' = output
  BY <1>1 DEF Go
<1>. QED
  BY <1>1, <1>2, <1>3, GoKeepsEInv DEF Waits

LEMMA AdvanceKeepsEInv ==
    ASSUME EInv, NEW e \in Evaluations, Advance(e)
    PROVE  EInv'
<1>1. CASE Resume(e)
  <2>1. /\ stage[e] = "yield" /\ Others(e) = suspended - 1
        /\ MayMove(e) /\ e \in Evaluations \ Imported
        /\ output[e] \in 1 .. Last + 1
    BY <1>1 DEF EInv, DisposedIsQuiet, MayMove, InFlight, Others, Resume,
                WhereInv, TypeInv
  <2>2. Last \in Nat
    BY ConstantsAssumption DEF Last
  <2>3. \/ Fail(e, {}, Others(e))
        \/ Succeed(e, {}, Others(e))
        \/ ~(output[e] > Last) /\ EvaluateFrom(e, output[e], Others(e))
    BY <1>1, <2>1 DEF Resume
  <2>4. ~(output[e] > Last) => output[e] \in 1 .. Last
    BY <2>1, <2>2
  <2>. QED
    BY <2>1, <2>3, <2>4, FailKeepsEInv, SucceedKeepsEInv, EvaluateFromKeepsEInv
<1>2. CASE ResourcesArrive(e)
  <2>1. /\ stage[e] = "import" /\ MayMove(e) /\ Others(e) = suspended
    BY <1>2 DEF EInv, DisposedIsQuiet, MayMove, InFlight, Others, ResourcesArrive
  <2>2. \/ \E part \in SUBSET ImportedNodes : Fail(e, part, Others(e))
        \/ Succeed(e, ImportedNodes, Others(e))
    BY <1>2, <2>1 DEF ResourcesArrive
  <2>. QED
    BY <2>1, <2>2, FailKeepsEInv, SucceedKeepsEInv, ConstantsAssumption
<1>3. CASE stage[e] \in Waits /\ ~Resume(e) /\ ~ResourcesArrive(e)
  <2>1. /\ MayMove(e) /\ e \in Evaluations \ Imported
        /\ output[e] \in 1 .. Last /\ Box(e) \in SUBSET Nodes
        /\ Others(e) = suspended
    BY <1>3, AtCache
  <2>2. CASE CacheFails(e)
    BY <2>1, <2>2, FailKeepsEInv DEF CacheFails
  <2>3. CASE KeyCreated(e)
    BY <1>3, <2>3, GoToCacheKeepsEInv, BuildKeepsEInv DEF KeyCreated, Waits
  <2>4. CASE ReadAnswers(e)
    BY <1>3, <2>4, GoToCacheKeepsEInv, BuildKeepsEInv DEF ReadAnswers, Waits
  <2>5. CASE Decoded(e)
    BY <2>1, <2>5, FailKeepsEInv, EvaluateOutputsKeepsEInv DEF Decoded
  <2>6. CASE DecodeFails(e)
    BY <1>3, <2>6, GoToCacheKeepsEInv DEF DecodeFails, Waits
  <2>7. CASE DeleteAnswers(e)
    BY <1>3, <2>7, BuildKeepsEInv DEF DeleteAnswers
  <2>8. CASE WriteAnswers(e)
    BY <2>1, <2>8, EvaluateOutputsKeepsEInv DEF WriteAnswers
  <2>. QED
    BY <1>3, <2>2, <2>3, <2>4, <2>5, <2>6, <2>7, <2>8 DEF Advance
<1>4. stage[e] \in Waits \/ Resume(e) \/ ResourcesArrive(e)
  BY DEF Advance, CacheFails, KeyCreated, ReadAnswers, Decoded, DecodeFails,
         DeleteAnswers, WriteAnswers, Answered, Waits
<1>. QED
  BY <1>1, <1>2, <1>3, <1>4

-----------------------------------------------------------------------------
(* The calls, and the rest of the host.                                     *)

LEMMA RefusalKeepsEInv ==
    ASSUME EInv, NEW e \in Evaluations, stage[e] = "idle",
           stage' = [stage EXCEPT ![e] = "refused"],
           UNCHANGED <<guards, fixed, kernelDisposed, shape, output, created, aborted>>
    PROVE  EInv'
<1>1. /\ TypeInv /\ WhereInv /\ NoShapeLeaks /\ InFlightShapesLive
      /\ ResultsKeepShapes /\ DisposedIsQuiet
      /\ GuardsCountWhatRuns /\ PrivateNeverOverlaps
  BY DEF EInv
<1>2. stage'[e] = "refused" /\ \A f \in Evaluations : f # e => stage'[f] = stage[f]
  BY <1>1 DEF TypeInv
<1>3. "refused" \in Stages /\ {"refused", "idle"} \cap (InFlight \cup {"result"}) = {}
  BY DEF Stages, InFlight, Waits
<1>4. /\ disposed' = disposed /\ cacheActive' = cacheActive
      /\ suspended' = suspended /\ importing' = importing
      /\ kernel' = kernel /\ mode' = mode /\ kernelDisposed' = kernelDisposed
      /\ shape' = shape /\ output' = output /\ created' = created /\ aborted' = aborted
      /\ Private' = Private
  BY DEF guards, fixed, Private
<1>5. TypeInv'
  BY <1>1, <1>3, <1>4 DEF TypeInv
<1>6. WhereInv'
  BY <1>1, <1>2, <1>4 DEF WhereInv, Waits
<1>7. NoShapeLeaks' /\ InFlightShapesLive' /\ ResultsKeepShapes' /\ DisposedIsQuiet'
  BY <1>1, <1>2, <1>3, <1>4
     DEF NoShapeLeaks, InFlightShapesLive, ResultsKeepShapes, DisposedIsQuiet
<1>8. GuardsCountWhatRuns'
  <2>1. suspended = Count(stage, "yield") /\ importing = Count(stage, "import")
    BY <1>1 DEF GuardsCountWhatRuns, Count
  <2>2. suspended = Count(stage', "yield") /\ importing = Count(stage', "import")
    BY <1>1, <1>3, <2>1, Recount
  <2>3. cacheActive <=> \E f \in Private : stage'[f] \in InFlight
    BY <1>1, <1>2, <1>3 DEF GuardsCountWhatRuns, Private
  <2>. QED
    BY <1>4, <2>2, <2>3 DEF GuardsCountWhatRuns, Count
<1>9. PrivateNeverOverlaps'
  BY <1>1, <1>2, <1>3, <1>4 DEF PrivateNeverOverlaps, Private
<1>. QED
  BY <1>5, <1>6, <1>7, <1>8, <1>9 DEF EInv

LEMMA EvaluateKeepsEInv ==
    ASSUME EInv, NEW e \in Evaluations, Evaluate(e)
    PROVE  EInv'
<1>1. /\ e \in Evaluations \ Imported /\ stage[e] = "idle" /\ Others(e) = suspended
      /\ output[e] = 1
  BY DEF Evaluate, Others, EInv, WhereInv
<1>2. CASE disposed \/ (e \in Private /\ cacheActive)
  BY <1>1, <1>2, RefusalKeepsEInv DEF Evaluate
<1>3. CASE ~(disposed \/ (e \in Private /\ cacheActive))
  <2>1. MayMove(e)
    BY <1>1, <1>3 DEF MayMove
  <2>2. \/ Fail(e, {}, Others(e))
        \/ /\ e \in Signalled /\ Keep(e, {}) /\ Await(e, "yield", Others(e))
           /\ output' = output
        \/ EvaluateFrom(e, output[e], Others(e))
    BY <1>1, <1>3 DEF Evaluate
  <2>3. output[e] \in 1 .. Last
    BY <1>1, ConstantsAssumption DEF Last
  <2>. QED
    BY <1>1, <2>1, <2>2, <2>3, FailKeepsEInv, GoKeepsEInv, EvaluateFromKeepsEInv
<1>. QED
  BY <1>2, <1>3

LEMMA EvaluateImportedBodyKeepsEInv ==
    ASSUME EInv, NEW e \in Evaluations, EvaluateImportedBody(e)
    PROVE  EInv'
<1>1. e \in Imported /\ stage[e] = "idle" /\ Others(e) = suspended
  BY DEF EvaluateImportedBody, Others
<1>2. CASE disposed
  BY <1>1, <1>2, RefusalKeepsEInv DEF EvaluateImportedBody
<1>3. CASE ~disposed /\ Fail(e, {}, suspended)
  <2>1. MayMove(e)
    BY <1>1, <1>3 DEF MayMove, Private
  <2>. QED
    BY <1>1, <1>3, <2>1, FailKeepsEInv
<1>4. CASE /\ ~disposed
           /\ stage' = [stage EXCEPT ![e] = "import"]
           /\ importing' = importing + 1
           /\ UNCHANGED <<disposed, cacheActive, suspended, fixed,
                          kernelDisposed, shape, output, created, aborted>>
  <2>1. /\ TypeInv /\ WhereInv /\ NoShapeLeaks /\ InFlightShapesLive
        /\ ResultsKeepShapes /\ DisposedIsQuiet
        /\ GuardsCountWhatRuns /\ PrivateNeverOverlaps
    BY DEF EInv
  <2>2. stage'[e] = "import" /\ \A f \in Evaluations : f # e => stage'[f] = stage[f]
    BY <1>4, <2>1 DEF TypeInv
  <2>3. "import" \in Stages /\ "import" \in InFlight
    BY DEF Stages, InFlight
  <2>4. /\ disposed' = disposed /\ cacheActive' = cacheActive
        /\ suspended' = suspended
        /\ kernel' = kernel /\ mode' = mode /\ kernelDisposed' = kernelDisposed
        /\ shape' = shape /\ output' = output /\ created' = created
        /\ aborted' = aborted /\ Private' = Private
    BY <1>4 DEF fixed, Private
  <2>5. TypeInv'
    BY <1>4, <2>1, <2>3, <2>4 DEF TypeInv
  <2>6. WhereInv'
    BY <1>1, <2>1, <2>2, <2>4 DEF WhereInv, Waits
  <2>7. NoShapeLeaks'
    BY <1>1, <2>1, <2>2, <2>4 DEF NoShapeLeaks, InFlight, Waits
  <2>8. InFlightShapesLive'
    BY <1>1, <2>1, <2>2, <2>4 DEF InFlightShapesLive, WhereInv
  <2>9. ResultsKeepShapes'
    BY <2>1, <2>2, <2>4 DEF ResultsKeepShapes
  <2>10. DisposedIsQuiet'
    BY <1>4, <2>4 DEF DisposedIsQuiet
  <2>11. GuardsCountWhatRuns'
    <3>1. suspended = Count(stage, "yield") /\ importing = Count(stage, "import")
      BY <2>1 DEF GuardsCountWhatRuns, Count
    <3>2. suspended = Count(stage', "yield") /\ importing' = Count(stage', "import")
      BY <1>1, <1>4, <2>1, <2>3, <3>1, Recount
    <3>3. e \notin Private
      BY <1>1 DEF Private
    <3>4. cacheActive <=> \E f \in Private : stage'[f] \in InFlight
      BY <2>1, <2>2, <3>3 DEF GuardsCountWhatRuns, Private
    <3>. QED
      BY <2>4, <3>2, <3>4 DEF GuardsCountWhatRuns, Count
  <2>12. PrivateNeverOverlaps'
    <3>1. e \notin Private
      BY <1>1 DEF Private
    <3>. QED
      BY <2>1, <2>2, <2>4, <3>1 DEF PrivateNeverOverlaps, Private
  <2>. QED
    BY <2>5, <2>6, <2>7, <2>8, <2>9, <2>10, <2>11, <2>12 DEF EInv
<1>. QED
  BY <1>2, <1>3, <1>4 DEF EvaluateImportedBody

LEMMA AbortKeepsEInv ==
    ASSUME EInv, NEW e \in Evaluations, Abort(e)
    PROVE  EInv'
  BY DEF Abort, guards, fixed, EInv, TypeInv, WhereInv, Private, NoShapeLeaks,
         InFlightShapesLive, ResultsKeepShapes, DisposedIsQuiet,
         GuardsCountWhatRuns, PrivateNeverOverlaps

LEMMA DisposeResultKeepsEInv ==
    ASSUME EInv, NEW e \in Evaluations, DisposeResult(e)
    PROVE  EInv'
<1>1. /\ TypeInv /\ WhereInv /\ NoShapeLeaks /\ InFlightShapesLive
      /\ ResultsKeepShapes /\ DisposedIsQuiet
      /\ GuardsCountWhatRuns /\ PrivateNeverOverlaps
  BY DEF EInv
<1>2. /\ stage[e] = "result" /\ stage' = [stage EXCEPT ![e] = "released"]
      /\ shape' = DisposeShapes(shape, Of(e, created[e]))
      /\ disposed' = disposed /\ cacheActive' = cacheActive
      /\ suspended' = suspended /\ importing' = importing
      /\ kernel' = kernel /\ mode' = mode /\ kernelDisposed' = kernelDisposed
      /\ output' = output /\ created' = created /\ aborted' = aborted
      /\ Private' = Private
  BY DEF DisposeResult, guards, fixed, Private
<1>3. stage'[e] = "released" /\ \A f \in Evaluations : f # e => stage'[f] = stage[f]
  BY <1>1, <1>2 DEF TypeInv
<1>4. /\ "released" \in Stages
      /\ {"released", "result"} \cap (InFlight \cup {"idle"}) = {}
  BY DEF Stages, InFlight, Waits
<1>5. \A f \in Evaluations, n \in Nodes :
         /\ f # e => shape'[<<f, n>>] = shape[<<f, n>>]
         /\ f = e => shape'[<<f, n>>] # "live"
         /\ shape'[<<f, n>>] = "live" => shape[<<f, n>>] = "live"
  BY <1>1, <1>2 DEF TypeInv, DisposeShapes, Of, Shapes, NoShapeLeaks
<1>6. TypeInv'
  <2>1. shape' \in [Shapes -> {"none", "live", "freed"}]
    BY <1>1, <1>2 DEF TypeInv, DisposeShapes
  <2>. QED
    BY <1>1, <1>2, <1>4, <2>1 DEF TypeInv
<1>7. WhereInv'
  BY <1>1, <1>2, <1>3 DEF WhereInv, Waits
<1>8. NoShapeLeaks' /\ InFlightShapesLive' /\ ResultsKeepShapes'
  <2>1. NoShapeLeaks'
    <3>1. SUFFICES ASSUME NEW f \in Evaluations, NEW n \in Nodes,
                          shape'[<<f, n>>] = "live"
                   PROVE  n \in created'[f] /\ stage'[f] \in InFlight \cup {"result"}
      BY DEF NoShapeLeaks
    <3>2. f # e /\ shape[<<f, n>>] = "live"
      BY <1>5, <3>1
    <3>. QED
      BY <1>1, <1>2, <1>3, <3>2 DEF NoShapeLeaks
  <2>2. InFlightShapesLive'
    BY <1>1, <1>2, <1>3, <1>4, <1>5 DEF InFlightShapesLive, TypeInv
  <2>3. ResultsKeepShapes'
    BY <1>1, <1>2, <1>3, <1>5 DEF ResultsKeepShapes, TypeInv
  <2>. QED
    BY <2>1, <2>2, <2>3
<1>9. DisposedIsQuiet'
  <2>1. ASSUME disposed, NEW s \in Shapes PROVE shape'[s] # "live"
    BY <1>1, <1>2, <2>1 DEF DisposedIsQuiet, DisposeShapes
  <2>2. \A f \in Evaluations : stage'[f] \in InFlight => stage[f] \in InFlight
    BY <1>3, <1>4
  <2>. QED
    BY <1>1, <1>2, <2>1, <2>2 DEF DisposedIsQuiet
<1>10. GuardsCountWhatRuns'
  <2>1. suspended = Count(stage, "yield") /\ importing = Count(stage, "import")
    BY <1>1 DEF GuardsCountWhatRuns, Count
  <2>2. suspended = Count(stage', "yield") /\ importing = Count(stage', "import")
    <3>1. Count(stage', "yield") = Count(stage, "yield")
      BY <1>1, <1>2, <1>4, Recount
    <3>2. Count(stage', "import") = Count(stage, "import")
      BY <1>1, <1>2, <1>4, Recount
    <3>. QED
      BY <2>1, <3>1, <3>2
  <2>3. cacheActive <=> \E f \in Private : stage'[f] \in InFlight
    BY <1>1, <1>2, <1>3, <1>4 DEF GuardsCountWhatRuns, Private
  <2>. QED
    BY <1>2, <2>2, <2>3 DEF GuardsCountWhatRuns, Count
<1>11. PrivateNeverOverlaps'
  BY <1>1, <1>2, <1>3, <1>4 DEF PrivateNeverOverlaps, Private
<1>. QED
  BY <1>6, <1>7, <1>8, <1>9, <1>10, <1>11 DEF EInv

(* Where the guards let a disposal through, nothing is in flight.           *)
LEMMA DisposeEvaluatorKeepsEInv ==
    ASSUME EInv, DisposeEvaluator
    PROVE  EInv'
<1>1. /\ TypeInv /\ WhereInv /\ NoShapeLeaks /\ InFlightShapesLive
      /\ ResultsKeepShapes /\ DisposedIsQuiet
      /\ GuardsCountWhatRuns /\ PrivateNeverOverlaps
  BY DEF EInv
<1>2. /\ ~cacheActive /\ suspended = 0 /\ importing = 0
      /\ shape' = DisposeShapes(shape, Shapes)
      /\ kernelDisposed' = TRUE /\ disposed' \in BOOLEAN
      /\ cacheActive' = cacheActive /\ suspended' = suspended
      /\ importing' = importing /\ kernel' = kernel /\ mode' = mode
      /\ stage' = stage /\ output' = output /\ created' = created
      /\ aborted' = aborted /\ Private' = Private
  BY DEF DisposeEvaluator, DisposeAllowed, fixed, Private
<1>3. \A e \in Evaluations : stage[e] \notin InFlight
  <2>1. ASSUME NEW w, Cardinality({e \in Evaluations : stage[e] = w}) = 0,
               NEW e \in Evaluations
        PROVE  stage[e] # w
    <3>1. IsFiniteSet({f \in Evaluations : stage[f] = w})
      BY FS_Subset, ConstantsAssumption
    <3>2. {f \in Evaluations : stage[f] = w} = {}
      BY <2>1, <3>1, FS_EmptySet
    <3>. QED
      BY <3>2
  <2>2. \A e \in Evaluations : stage[e] # "yield" /\ stage[e] # "import"
    BY <1>1, <1>2, <2>1 DEF GuardsCountWhatRuns
  <2>3. \A e \in Evaluations : stage[e] \notin Waits
    BY <1>1, <1>2 DEF GuardsCountWhatRuns, WhereInv, InFlight
  <2>. QED
    BY <2>2, <2>3 DEF InFlight
<1>4. \A s \in Shapes : shape'[s] # "live"
  BY <1>2 DEF DisposeShapes
<1>5. shape' \in [Shapes -> {"none", "live", "freed"}]
  BY <1>1, <1>2 DEF TypeInv, DisposeShapes
<1>6. TypeInv' /\ WhereInv'
  BY <1>1, <1>2, <1>5 DEF TypeInv, WhereInv
<1>7. NoShapeLeaks' /\ InFlightShapesLive' /\ ResultsKeepShapes' /\ DisposedIsQuiet'
  BY <1>2, <1>3, <1>4
     DEF NoShapeLeaks, InFlightShapesLive, ResultsKeepShapes, DisposedIsQuiet, Shapes
<1>8. GuardsCountWhatRuns' /\ PrivateNeverOverlaps'
  BY <1>1, <1>2 DEF GuardsCountWhatRuns, PrivateNeverOverlaps, Private
<1>. QED
  BY <1>6, <1>7, <1>8 DEF EInv

-----------------------------------------------------------------------------
(* The theorems.                                                           *)

LEMMA InitEInv == Init => EInv
<1>1. SUFFICES ASSUME Init PROVE EInv
  OBVIOUS
<1>2. Last \in Nat \ {0}
  BY ConstantsAssumption DEF Last
<1>3. \A w \in {"yield", "import"} : {e \in Evaluations : stage[e] = w} = {}
  BY <1>1 DEF Init
<1>4. Cardinality({}) = 0
  BY FS_EmptySet
<1>5. TypeInv
  <2>1. 1 \in 1 .. Last + 1 /\ {} \subseteq Signalled
    BY <1>2
  <2>2. "idle" \in Stages /\ TRUE \in BOOLEAN /\ FALSE \in BOOLEAN
    BY DEF Stages
  <2>3. /\ output \in [Evaluations -> 1 .. Last + 1]
        /\ stage \in [Evaluations -> Stages]
        /\ shape \in [Shapes -> {"none", "live", "freed"}]
        /\ created \in [Evaluations -> SUBSET Nodes]
    BY <1>1, <2>1, <2>2 DEF Init
  <2>4. /\ disposed \in BOOLEAN /\ cacheActive \in BOOLEAN
        /\ kernelDisposed \in BOOLEAN
        /\ kernel \in {"manifold", "occt"} /\ mode \in Modes
        /\ aborted \subseteq Signalled
    BY <1>1 DEF Init
  <2>. QED
    BY <2>3, <2>4 DEF TypeInv
<1>6. WhereInv /\ NoShapeLeaks /\ InFlightShapesLive /\ ResultsKeepShapes
      /\ DisposedIsQuiet /\ PrivateNeverOverlaps
  BY <1>1 DEF Init, WhereInv, NoShapeLeaks, InFlightShapesLive, ResultsKeepShapes,
              DisposedIsQuiet, PrivateNeverOverlaps, InFlight, Waits, Shapes, Private
<1>7. GuardsCountWhatRuns
  BY <1>1, <1>3, <1>4 DEF Init, GuardsCountWhatRuns, InFlight, Waits, Private
<1>. QED
  BY <1>5, <1>6, <1>7 DEF EInv

LEMMA NextKeepsEInv == EInv /\ [Next]_vars => EInv'
<1>1. SUFFICES ASSUME EInv, [Next]_vars PROVE EInv'
  OBVIOUS
<1>2. ASSUME NEW e \in Evaluations,
             \/ Evaluate(e) \/ EvaluateImportedBody(e)
             \/ Advance(e) \/ Abort(e) \/ DisposeResult(e)
      PROVE  EInv'
  BY <1>1, <1>2, EvaluateKeepsEInv, EvaluateImportedBodyKeepsEInv,
     AdvanceKeepsEInv, AbortKeepsEInv, DisposeResultKeepsEInv
<1>3. CASE DisposeEvaluator
  BY <1>1, <1>3, DisposeEvaluatorKeepsEInv
<1>4. CASE UNCHANGED vars
  BY <1>1, <1>4
     DEF vars, guards, fixed, EInv, TypeInv, WhereInv, Private, NoShapeLeaks,
         InFlightShapesLive, ResultsKeepShapes, DisposedIsQuiet,
         GuardsCountWhatRuns, PrivateNeverOverlaps
<1>. QED
  BY <1>1, <1>2, <1>3, <1>4 DEF Next

LEMMA Inductive == Spec => []EInv
  BY InitEInv, NextKeepsEInv, PTL DEF Spec

\* The state of the evaluator, of its kernel and of the evaluations has the
\* type the code gives it, and the two counts stay within the calls that can
\* be counted.
THEOREM Typed == Spec => []TypeOK
<1>1. EInv => TypeOK
  <2>1. SUFFICES ASSUME EInv PROVE TypeOK
    OBVIOUS
  <2>2. TypeInv /\ WhereInv /\ GuardsCountWhatRuns
    BY <2>1 DEF EInv
  <2>3. IsFiniteSet(Signalled) /\ IsFiniteSet(Imported)
    BY FS_Subset, ConstantsAssumption
  <2>4. /\ Cardinality(Signalled) \in Nat /\ Cardinality(Imported) \in Nat
    BY <2>3, FS_CardinalityType
  <2>5. /\ {e \in Evaluations : stage[e] = "yield"} \in SUBSET Signalled
        /\ {e \in Evaluations : stage[e] = "import"} \in SUBSET Imported
    BY <2>2 DEF WhereInv
  <2>6. suspended \in 0 .. Cardinality(Signalled)
    BY <2>2, <2>3, <2>4, <2>5, FS_Subset, FS_CardinalityType DEF GuardsCountWhatRuns
  <2>7. importing \in 0 .. Cardinality(Imported)
    BY <2>2, <2>3, <2>4, <2>5, FS_Subset, FS_CardinalityType DEF GuardsCountWhatRuns
  <2>. QED
    BY <2>2, <2>6, <2>7 DEF TypeInv, TypeOK
<1>. QED
  BY <1>1, Inductive, PTL

\* Whatever fails, is aborted or is disposed of, at whichever await, every
\* shape that is alive belongs to an evaluation under way or to a result
\* that is not disposed of.
THEOREM NothingLeaks == Spec => []NoShapeLeaks
<1>1. EInv => NoShapeLeaks
  BY DEF EInv
<1>. QED
  BY <1>1, Inductive, PTL

\* An evaluation that waits finds all its shapes alive when it is resumed:
\* the guards of Evaluator.dispose and the fact that each evaluation cleans
\* up its own shapes suffice.
THEOREM ShapesStayAlive == Spec => []InFlightShapesLive
<1>1. EInv => InFlightShapesLive
  BY DEF EInv
<1>. QED
  BY <1>1, Inductive, PTL

\* A result keeps all its shapes until it or the kernel is disposed of,
\* whatever the other evaluations of the same kernel do.
THEOREM ResultsAreKept == Spec => []ResultsKeepShapes
<1>1. EInv => ResultsKeepShapes
  BY DEF EInv
<1>. QED
  BY <1>1, Inductive, PTL

\* A disposed evaluator has nothing under way and its kernel holds nothing.
THEOREM DisposedStaysQuiet == Spec => []DisposedIsQuiet
<1>1. EInv => DisposedIsQuiet
  BY DEF EInv
<1>. QED
  BY <1>1, Inductive, PTL

\* The guards of Evaluator.dispose count exactly what is under way.
THEOREM GuardsAreExact == Spec => []GuardsCountWhatRuns
<1>1. EInv => GuardsCountWhatRuns
  BY DEF EInv
<1>. QED
  BY <1>1, Inductive, PTL

\* The guard of evaluate keeps two evaluations from using the bound artifact
\* cache at the same time.
THEOREM CacheIsExclusive == Spec => []PrivateNeverOverlaps
<1>1. EInv => PrivateNeverOverlaps
  BY DEF EInv
<1>. QED
  BY <1>1, Inductive, PTL

\* An aborted evaluation does nothing but fail, at any of its awaits.
THEOREM AbortIsFinal == Spec => AbortEndsEvaluation
<1>1. ASSUME EInv, [Next]_vars, NEW e \in aborted, stage[e] \in InFlight
      PROVE  stage'[e] \in {stage[e], "failed"}
  <2>1. e \in Evaluations /\ stage \in [Evaluations -> Stages]
    BY <1>1, ConstantsAssumption DEF EInv, TypeInv
  <2>2. stage[e] \notin {"idle", "result"}
    BY <1>1 DEF InFlight, Waits
  <2>3. ASSUME NEW f \in Evaluations, f # e,
               \/ Evaluate(f) \/ EvaluateImportedBody(f)
               \/ Advance(f) \/ Abort(f) \/ DisposeResult(f)
        PROVE  stage'[e] = stage[e]
    BY <2>1, <2>3
       DEF Evaluate, EvaluateImportedBody, Advance, Abort, DisposeResult, Resume,
           CacheFails, KeyCreated, ReadAnswers, Decoded, DecodeFails, DeleteAnswers,
           WriteAnswers, ResourcesArrive, EvaluateFrom, EvaluateOutputs, Build, Go,
           Fail, Succeed, Await
  <2>4. Advance(e) => stage'[e] \in {stage[e], "failed"}
    BY <1>1, <2>1
       DEF Advance, Resume, CacheFails, KeyCreated, ReadAnswers, Decoded, DecodeFails,
           DeleteAnswers, WriteAnswers, ResourcesArrive, Answered, Fail
  <2>5. ~Evaluate(e) /\ ~EvaluateImportedBody(e) /\ ~DisposeResult(e)
    BY <2>2 DEF Evaluate, EvaluateImportedBody, DisposeResult
  <2>6. Abort(e) \/ DisposeEvaluator \/ UNCHANGED vars => stage' = stage
    BY DEF Abort, DisposeEvaluator, vars
  <2>. QED
    BY <1>1, <2>1, <2>3, <2>4, <2>5, <2>6 DEF Next
<1>2. EInv /\ [Next]_vars =>
        \A e \in aborted : stage[e] \in InFlight => stage'[e] \in {stage[e], "failed"}
  BY <1>1
<1>. QED
  BY <1>2, Inductive, PTL DEF Spec, AbortEndsEvaluation

\* No shape is freed while an evaluation under way or a result needs it.
THEOREM ShapesOutliveTheirUse == Spec => []ShapesOutliveUse
  BY ShapesStayAlive, ResultsAreKept, PTL DEF ShapesOutliveUse

\* The guards of evaluate and dispose are exact and keep private evaluations
\* apart.
THEOREM GuardsHold == Spec => []GuardsAreSound
  BY GuardsAreExact, CacheIsExclusive, PTL DEF GuardsAreSound
=============================================================================
