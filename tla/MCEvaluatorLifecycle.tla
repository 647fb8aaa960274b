------------------------ MODULE MCEvaluatorLifecycle ------------------------
(* A document of a box, a feature made from this box and a second one, the  *)
(* second box, which has a shape by then, and a third, which has none while *)
(* others have.                                                             *)
EXTENDS EvaluatorLifecycle

CONSTANTS box1, box2, box3, signalled1, signalled2, plain, import

BoxesAndFeature == <<{box1}, {box1, box2}, {box2}, {box3}>>
BoxesOnly == <<box1, NoNode, box2, box3>>

WithSignal == {signalled1, signalled2, import}
Imports == {import}
=============================================================================
