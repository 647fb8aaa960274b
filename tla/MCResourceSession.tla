-------------------------- MODULE MCResourceSession --------------------------
(* Requests that overlap, conflict with each other and exceed the limits.   *)
EXTENDS ResourceSession

CONSTANTS c1, c2, a, b, x, y

Lengths == [c \in {x, y} |-> IF c = x THEN 1 ELSE 2]

Asked ==
    {{},                                   \* nothing at all
     {{<<a, x>>}},                         \* one resource
     {{<<a, x>>}, {<<a, x>>, <<b, y>>}},   \* two, one of them in both batches
     {{<<b, x>>}},                         \* another commitment for b
     {{<<a, x>>}, {<<a, y>>}},             \* a conflict within the request
     {{<<a, y>>, <<b, y>>}}}               \* four bytes
=============================================================================
