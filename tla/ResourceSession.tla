---------------------------- MODULE ResourceSession ----------------------------
(***************************************************************************)
(* DocumentV7ResourceResolutionSession                                     *)
(* (src/internal/document-v7-resource-resolution-session.ts) with          *)
(* resolveResourcesV7 (src/resource-resolution.ts): verified bytes of the  *)
(* resources of a document, kept for the calls that follow.                *)
(*                                                                         *)
(* A call preflights all of its batches, then asks the application's       *)
(* resolver for one resource after the other, and keeps what it got only   *)
(* if all of them verify.  clear() and dispose() may run between any two   *)
(* steps: they wipe what is kept and start a new generation, which the     *)
(* call in flight notices when it resumes.  Readers handed out earlier die *)
(* with their generation.                                                  *)
(*                                                                         *)
(* Bytes are not modelled, only the buffers they live in: a buffer is the  *)
(* copy a call made of a resource.                                         *)
(***************************************************************************)
EXTENDS Naturals, FiniteSets, FiniteSetsExt

CONSTANTS
    Calls,          \* calls of resolve(), each made at most once
    Keys,           \* document scope and resource id together
    Commitments,    \* what a definition says of a resource: digest, length, ...
    Length,         \* the byte length of each commitment
    Requests,       \* the arguments of resolve(): sets of batches
    MaxResources,   \* the stricter of maxRequestedResourceIds and
                    \* maxResolvedResources: the session counts both alike
    MaxBytes,       \* maxTotalResourceBytes
    MaxClears,      \* bound: how often clear() changes the generation
    NoEntry

\* A batch lists some keys, each with one commitment; two batches of a request
\* may disagree on a key.  Batches are arrays: a request lists finitely many.
ASSUME LengthAssumption == Length \in [Commitments -> Nat]
ASSUME RequestsAssumption ==
    /\ Requests \subseteq SUBSET SUBSET (Keys \X Commitments)
    /\ \A request \in Requests : IsFiniteSet(UNION request)
ASSUME LimitsAssumption == {MaxResources, MaxBytes, MaxClears} \subseteq Nat
ASSUME NoEntryAssumption == NoEntry \notin Calls \X Commitments

VARIABLES
    generation,  \* #generation
    disposed,    \* #disposed
    active,      \* #active
    aborted,     \* whether the session's signal has fired
    entries,     \* #entries: the buffer kept for each key, and its commitment
    count,       \* #requested, which is also #resolved
    bytes,       \* #consumedBytes
    stage,       \* where each call is
    started,     \* the generation a call started in
    pending,     \* what a call still has to ask for
    current,     \* the key it is asking for
    temporary,   \* the keys it holds verified buffers of
    answer,      \* what came of the current key
    result,      \* what the caller was told
    reader,      \* the entries a successful call's reader reads from
    wiped        \* the buffers that were overwritten with zeros

callVars == <<stage, started, pending, current, temporary, answer, result, reader>>
vars == <<generation, disposed, active, aborted, entries, count, bytes, wiped,
          callVars>>

Stages == {"new", "asking", "hashing", "answered", "done"}
Answers == {"none", "ok", "forged", "failed", "aborted"}
Results == {"none", "ok", "rejected", "invalid", "limit", "failed", "aborted",
            "invalidated"}

\* The buffer a call makes of a resource, with the commitment it verified.
Buffer(c, key) == <<c, key>>
Kept == {k \in Keys : entries[k] # NoEntry}
NoEntries == [k \in Keys |-> NoEntry]

Init ==
    /\ generation = 0 /\ disposed = FALSE /\ active = FALSE /\ aborted = FALSE
    /\ entries = NoEntries /\ count = 0 /\ bytes = 0
    /\ stage = [c \in Calls |-> "new"]
    /\ started = [c \in Calls |-> 0]
    /\ pending = [c \in Calls |-> {}]
    /\ current = [c \in Calls |-> NoEntry]
    /\ temporary = [c \in Calls |-> {}]
    /\ answer = [c \in Calls |-> "none"]
    /\ result = [c \in Calls |-> "none"]
    /\ reader = [c \in Calls |-> NoEntries]
    /\ wiped = {}

-----------------------------------------------------------------------------
(* #preflight                                                              *)
LengthOf(pairs) == MapThenSumSet(LAMBDA p : Length[p[2]], pairs)

\* Two commitments for one key, in the request or between it and the cache.
Conflict(request) ==
    \E p \in UNION request :
        \/ \E q \in UNION request : p[1] = q[1] /\ p[2] # q[2]
        \/ entries[p[1]] # NoEntry /\ entries[p[1]][2] # p[2]

\* What is in neither an earlier batch nor the cache.
Missing(request) == {p \in UNION request : entries[p[1]] = NoEntry}

\* The limits hold for every batch by itself, cached resources included, and
\* for what the whole request adds to what is kept.
OverLimit(request) ==
    \/ \E batch \in request :
          Cardinality(batch) > MaxResources \/ LengthOf(batch) > MaxBytes
    \/ Cardinality(Missing(request)) > MaxResources - count
    \/ LengthOf(Missing(request)) > MaxBytes - bytes

\* Mutation: the buffers of a failed call are left alone.
FailWithoutWiping(c, why) ==
    /\ stage' = [stage EXCEPT ![c] = "done"]
    /\ result' = [result EXCEPT ![c] = why]
    /\ active' = FALSE
    /\ UNCHANGED <<generation, disposed, aborted, entries, count, bytes, wiped,
                   started, pending, current, temporary, answer, reader>>

\* The call ends without committing: its buffers are wiped.
Fail(c, why) ==
    /\ stage' = [stage EXCEPT ![c] = "done"]
    /\ result' = [result EXCEPT ![c] = why]
    /\ wiped' = wiped \cup {Buffer(c, k) : k \in temporary[c]}
    /\ active' = FALSE
    /\ UNCHANGED <<generation, disposed, aborted, entries, count, bytes, started,
                   pending, current, temporary, answer, reader>>

\* A disposed or busy session refuses without touching its state.
Reject(c) ==
    /\ stage[c] = "new"
    /\ disposed \/ active
    /\ stage' = [stage EXCEPT ![c] = "done"]
    /\ result' = [result EXCEPT ![c] = "rejected"]
    /\ UNCHANGED <<generation, disposed, active, aborted, entries, count, bytes,
                   wiped, started, pending, current, temporary, answer, reader>>

Free(c) == stage[c] = "new" /\ ~disposed /\ ~active

RefuseAborted(c) == Free(c) /\ aborted /\ Fail(c, "aborted")

RefuseRequest(c, request) ==
    /\ Free(c) /\ ~aborted
    /\ Conflict(request) \/ OverLimit(request)
    /\ \/ Conflict(request) /\ Fail(c, "invalid")
       \/ OverLimit(request) /\ Fail(c, "limit")

Admitted(c, request) ==
    Free(c) /\ ~aborted /\ ~Conflict(request) /\ ~OverLimit(request)

\* The new entries replace the old ones in one assignment, and the counters
\* grow by what was added.
Retain(c, added) ==
    LET kept == [k \in Keys |->
                    IF \E p \in added : p[1] = k
                    THEN <<c, (CHOOSE p \in added : p[1] = k)[2]>>
                    ELSE entries[k]]
    IN /\ entries' = kept
       /\ reader' = [reader EXCEPT ![c] = kept]
       /\ count' = count + Cardinality(added)
       /\ bytes' = bytes + LengthOf(added)
       /\ stage' = [stage EXCEPT ![c] = "done"]
       /\ result' = [result EXCEPT ![c] = "ok"]
       /\ active' = FALSE

\* Everything requested is cached: the call succeeds without an await.
ServeCached(c, request) ==
    /\ Admitted(c, request)
    /\ Missing(request) = {}
    /\ started' = [started EXCEPT ![c] = generation]
    /\ Retain(c, {})
    /\ UNCHANGED <<generation, disposed, aborted, wiped, pending, current,
                   temporary, answer>>

\* The next resource in order; CHOOSE stands for the sorted order.
NextKey(pairs) == (CHOOSE p \in pairs : TRUE)[1]

StartResolving(c, request) ==
    /\ Admitted(c, request)
    /\ Missing(request) # {}
    /\ active' = TRUE
    /\ started' = [started EXCEPT ![c] = generation]
    /\ pending' = [pending EXCEPT ![c] = Missing(request)]
    /\ current' = [current EXCEPT ![c] = NextKey(Missing(request))]
    /\ stage' = [stage EXCEPT ![c] = "asking"]
    /\ UNCHANGED <<generation, disposed, aborted, entries, count, bytes, wiped,
                   temporary, answer, result, reader>>

-----------------------------------------------------------------------------
(* resolveResourcesV7 for the current key.                                 *)
Reach(c, to, what) ==
    /\ stage' = [stage EXCEPT ![c] = to]
    /\ answer' = [answer EXCEPT ![c] = what]
    /\ UNCHANGED <<generation, disposed, active, aborted, entries, count, bytes,
                   wiped, started, pending, current, temporary, result, reader>>

\* The application answers with the committed bytes, with others of the same
\* length, or it fails: no bytes, too many, or not as many as committed.
ResolverAnswers(c) ==
    /\ stage[c] = "asking" /\ ~aborted
    /\ \/ \E what \in {"ok", "forged"} : Reach(c, "hashing", what)
       \/ Reach(c, "answered", "failed")

\* Mutation: the signal is looked at only when the resolver has answered.
StopAfterAnswer(c) ==
    /\ stage[c] = "hashing" /\ aborted
    /\ Reach(c, "answered", "aborted")

\* The abort listener settles the wait, however long the resolver takes.
StopAsking(c) ==
    /\ stage[c] = "asking" /\ aborted
    /\ Reach(c, "answered", "aborted")

HashEnds(c) ==
    /\ stage[c] = "hashing"
    /\ Reach(c, "answered", IF aborted THEN "aborted"
                            ELSE IF answer[c] = "ok" THEN "ok" ELSE "failed")

-----------------------------------------------------------------------------
(* Back in resolve(): the generation is checked before anything else.      *)
Stale(c) == generation # started[c] \/ disposed

Invalidated(c) ==
    /\ stage[c] = "answered" /\ Stale(c)
    /\ Fail(c, "invalidated")

StopResolving(c) ==
    /\ stage[c] = "answered" /\ ~Stale(c)
    /\ aborted \/ answer[c] # "ok"
    /\ Fail(c, IF aborted THEN "aborted" ELSE answer[c])

Verified(c) ==
    stage[c] = "answered" /\ ~Stale(c) /\ ~aborted /\ answer[c] = "ok"

Left(c) == {p \in pending[c] : p[1] \notin temporary[c] \cup {current[c]}}

\* Mutation: a verified resource is kept at once.
AskNextKeeping(c) ==
    /\ Verified(c) /\ Left(c) # {}
    /\ temporary' = [temporary EXCEPT ![c] = @ \cup {current[c]}]
    /\ entries' = [entries EXCEPT ![current[c]] =
                      <<c, (CHOOSE p \in pending[c] : p[1] = current[c])[2]>>]
    /\ current' = [current EXCEPT ![c] = NextKey(Left(c))]
    /\ stage' = [stage EXCEPT ![c] = "asking"]
    /\ answer' = [answer EXCEPT ![c] = "none"]
    /\ UNCHANGED <<generation, disposed, active, aborted, count, bytes, wiped,
                   started, pending, result, reader>>

AskNext(c) ==
    /\ Verified(c) /\ Left(c) # {}
    /\ temporary' = [temporary EXCEPT ![c] = @ \cup {current[c]}]
    /\ current' = [current EXCEPT ![c] = NextKey(Left(c))]
    /\ stage' = [stage EXCEPT ![c] = "asking"]
    /\ answer' = [answer EXCEPT ![c] = "none"]
    /\ UNCHANGED <<generation, disposed, active, aborted, entries, count, bytes,
                   wiped, started, pending, result, reader>>

Commit(c) ==
    /\ Verified(c) /\ Left(c) = {}
    /\ temporary' = [temporary EXCEPT ![c] = @ \cup {current[c]}]
    /\ Retain(c, pending[c])
    /\ UNCHANGED <<generation, disposed, aborted, wiped, started, pending, current,
                   answer>>

-----------------------------------------------------------------------------
\* Mutation: the generation goes on.
ClearSameGeneration ==
    /\ wiped' = wiped \cup {Buffer(entries[k][1], k) : k \in Kept}
    /\ entries' = NoEntries
    /\ count' = 0 /\ bytes' = 0
    /\ UNCHANGED generation

\* Mutation: the budgets are not given back.
ClearKeepingCounters ==
    /\ wiped' = wiped \cup {Buffer(entries[k][1], k) : k \in Kept}
    /\ entries' = NoEntries
    /\ generation' = generation + 1
    /\ UNCHANGED <<count, bytes>>

\* #clearRetained
ClearRetained ==
    /\ wiped' = wiped \cup {Buffer(entries[k][1], k) : k \in Kept}
    /\ entries' = NoEntries
    /\ count' = 0 /\ bytes' = 0
    /\ generation' = generation + 1

Clear ==
    /\ generation < MaxClears
    /\ ClearRetained
    /\ UNCHANGED <<disposed, active, aborted, callVars>>

Dispose ==
    /\ ~disposed
    /\ disposed' = TRUE
    /\ ClearRetained
    /\ UNCHANGED <<active, aborted, callVars>>

AbortSession ==
    /\ ~aborted
    /\ aborted' = TRUE
    /\ UNCHANGED <<generation, disposed, active, entries, count, bytes, wiped,
                   callVars>>

\* What the event loop owes to a call, apart from the resolver's answer.
Continue(c) ==
    StopAsking(c) \/ HashEnds(c) \/ Invalidated(c) \/ StopResolving(c)
        \/ AskNext(c) \/ Commit(c)

Resolve(c) ==
    \/ Reject(c) \/ RefuseAborted(c)
    \/ \E r \in Requests :
          RefuseRequest(c, r) \/ ServeCached(c, r) \/ StartResolving(c, r)

Next ==
    \/ \E c \in Calls : Resolve(c) \/ ResolverAnswers(c) \/ Continue(c)
    \/ Clear \/ Dispose \/ AbortSession

Spec == Init /\ [][Next]_vars

\* A resolver may hang for ever; the session's own code goes on.
LoopSpec == Spec /\ \A c \in Calls : WF_vars(Continue(c))

-----------------------------------------------------------------------------
Entries == [Keys -> (Calls \X Commitments) \cup {NoEntry}]

TypeOK ==
    /\ generation \in Nat /\ count \in Nat /\ bytes \in Nat
    /\ disposed \in BOOLEAN /\ active \in BOOLEAN /\ aborted \in BOOLEAN
    /\ entries \in Entries
    /\ stage \in [Calls -> Stages]
    /\ started \in [Calls -> Nat]
    /\ pending \in [Calls -> SUBSET (Keys \X Commitments)]
    /\ current \in [Calls -> Keys \cup {NoEntry}]
    /\ temporary \in [Calls -> SUBSET Keys]
    /\ answer \in [Calls -> Answers]
    /\ result \in [Calls -> Results]
    /\ reader \in [Calls -> Entries]
    /\ wiped \subseteq Calls \X Keys

InFlight(c) == stage[c] \in {"asking", "hashing", "answered"}

\* At most one call is between its start and its end, and #active says so.
OneCallInFlight ==
    /\ \A c, d \in Calls : InFlight(c) /\ InFlight(d) => c = d
    /\ active <=> \E c \in Calls : InFlight(c)

Live(c) == result[c] = "ok" /\ started[c] = generation /\ ~disposed

\* A reader that still answers reads committed bytes that nobody wiped, also
\* when later calls replaced the session's map of entries.
LiveReadersAreIntact ==
    \A c \in Calls :
        Live(c) =>
            \A k \in Keys :
                reader[c][k] # NoEntry =>
                    /\ Buffer(reader[c][k][1], k) \notin wiped
                    /\ entries[k] = reader[c][k]

\* The counters that the limits are checked against are those of the kept
\* entries, through clears, failures and commits.
CountersMatchEntries ==
    /\ count = Cardinality(Kept)
    /\ bytes = MapThenSumSet(LAMBDA k : Length[entries[k][2]], Kept)
    /\ count <= MaxResources /\ bytes <= MaxBytes

\* Every buffer that is not wiped is kept by the session or held by the call
\* in flight: neither a failed, cleared nor disposed session leaves bytes.
NoBufferLeaks ==
    \A c \in Calls : \A k \in temporary[c] :
        Buffer(c, k) \notin wiped =>
            InFlight(c) \/ (entries[k] # NoEntry /\ entries[k][1] = c)

\* A disposed session keeps nothing, whatever call was in flight.
NothingAfterDispose == disposed => Kept = {} /\ count = 0 /\ bytes = 0

\* The store a caller sees: what is there under which commitment.
OutcomeOf(c) ==
    CASE result[c] = "none" -> "none"
      [] result[c] = "ok" -> "served"
      [] OTHER -> "refused"

Contents == [k \in Keys |-> IF entries[k] = NoEntry THEN NoEntry ELSE entries[k][2]]

Store == INSTANCE VerifiedStore WITH
    Nothing <- NoEntry,
    contents <- Contents,
    open <- ~disposed /\ ~aborted,
    outcome <- [c \in Calls |-> OutcomeOf(c)]

\* A call is atomic for its caller although it awaits the resolver once for every
\* resource, while clear, dispose and an abort run in between: if it succeeds, all
\* it asked for is there at that moment under the commitments asked for, and if it
\* does not, nothing has changed.
ImplementsVerifiedStore == Store!StoreSpec

\* A call settles, or waits for ever for a resolver that nobody aborts.
EveryCallSettles ==
    \A c \in Calls :
        InFlight(c) ~> (stage[c] = "done" \/ [](stage[c] = "asking" /\ ~aborted))
=============================================================================
