\* Two evaluations with a signal, one without, and an import, on a Manifold or an
\* OCCT kernel, without a cache and with a private one in each mode, when timers
\* fire and the cache and the resolver answer.
SPECIFICATION FairSpec
CONSTANTS
    box1 = box1
    box2 = box2
    box3 = box3
    signalled1 = signalled1
    signalled2 = signalled2
    plain = plain
    import = import
    NoNode = NoNode
    Evaluations = {signalled1, signalled2, plain, import}
    Signalled <- WithSignal
    Imported <- Imports
    Nodes = {box1, box2, box3}
    Needs <- BoxesAndFeature
    Direct <- BoxesOnly
    ImportedNodes = {box1}
INVARIANTS NoShapeLeaks ShapesOutliveUse GuardsAreSound
PROPERTIES AbortEndsEvaluation EveryEvaluationSettles
CHECK_DEADLOCK FALSE
