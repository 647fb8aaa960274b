------------------------ MODULE MCArtifactCacheSession ------------------------
(* Small instances of ArtifactCacheSession.                                 *)
EXTENDS ArtifactCacheSession, TLC

CONSTANTS o1, o2, o3, s1, s2, k1, k2

\* One intact record, one whose digest does not match, one above the entry
\* limit and one of another key: under k1 and k2 they are also misrouted.
Foreign ==
    {[key |-> k1, bytes |-> 2, intact |-> TRUE],
     [key |-> k1, bytes |-> 2, intact |-> FALSE],
     [key |-> k1, bytes |-> 3, intact |-> TRUE],
     MalformedRecord}

\* A store that is empty or holds the record the sessions will look for.
Known == {[key |-> k1, bytes |-> 2, intact |-> TRUE]}

CacheSymmetry == Permutations(Ops)

\* Sibling sessions, and the operations without a signal, are interchangeable.
SiblingSymmetry == Permutations(Sessions) \cup Permutations(Ops \ Signalled)
=============================================================================
