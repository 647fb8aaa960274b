----------------------------- MODULE VerifiedStore -----------------------------
(***************************************************************************)
(* What a resource-resolution session promises its callers, without the    *)
(* resolver, the buffers and the generations it is made of: a call is      *)
(* served at one moment, and then everything it asked for is there under   *)
(* the commitment it asked for, or it is refused and nothing has changed.  *)
(* What is there stays until all of it goes.  Once closed, the store       *)
(* serves nobody.  ResourceSession implements this specification.          *)
(***************************************************************************)
CONSTANTS Calls,        \* each call is served or refused at most once
          Keys, Commitments,
          Requests,     \* sets of batches of keys with their commitments
          Nothing       \* the commitment of a key that is not there

VARIABLES contents,     \* the commitment each key is there under
          open,
          outcome       \* "none", "served" or "refused", for each call

storeVars == <<contents, open, outcome>>

Empty == [k \in Keys |-> Nothing]

StoreInit ==
    /\ contents = Empty
    /\ open = TRUE
    /\ outcome = [c \in Calls |-> "none"]

Settles(c, how) ==
    /\ outcome[c] = "none"
    /\ outcome' = [outcome EXCEPT ![c] = how]

Serve(c, request) ==
    /\ open /\ Settles(c, "served")
    /\ contents' \in [Keys -> Commitments \cup {Nothing}]
    /\ \A p \in UNION request :
          contents[p[1]] \in {Nothing, p[2]} /\ contents'[p[1]] = p[2]
    /\ \A k \in Keys :
          (\A p \in UNION request : p[1] # k) => contents'[k] = contents[k]
    /\ UNCHANGED open

Refuse(c) == Settles(c, "refused") /\ UNCHANGED <<contents, open>>

Drop == contents' = Empty /\ UNCHANGED <<open, outcome>>

\* A store may be closed with what it has, or without.
Close ==
    /\ open' = FALSE
    /\ contents' \in {contents, Empty}
    /\ UNCHANGED outcome

StoreNext ==
    \/ \E c \in Calls : Refuse(c) \/ \E r \in Requests : Serve(c, r)
    \/ Drop \/ Close

StoreSpec == StoreInit /\ [][StoreNext]_storeVars
=============================================================================
