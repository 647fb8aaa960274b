------------------------ MODULE ResourceSessionProofs ------------------------
(***************************************************************************)
(* Proofs about ResourceSession for any calls, keys, commitments, requests *)
(* and limits: one call at a time, readers that never see a wiped buffer,  *)
(* no buffer left behind, the store of VerifiedStore implemented, and the  *)
(* counters of the budgets exact.                                          *)
(***************************************************************************)
EXTENDS ResourceSession, FiniteSetTheorems, TLAPS

\* The types the other parts need.  Those of count and bytes, which are sums over
\* sets, follow from AccountInv below.
TypeInv ==
    /\ generation \in Nat
    /\ disposed \in BOOLEAN /\ active \in BOOLEAN /\ aborted \in BOOLEAN
    /\ entries \in Entries
    /\ stage \in [Calls -> Stages]
    /\ started \in [Calls -> Nat]
    /\ pending \in [Calls -> SUBSET (Keys \X Commitments)]
    /\ current \in [Calls -> Keys \cup {NoEntry}]
    /\ temporary \in [Calls -> SUBSET Keys]
    /\ answer \in [Calls -> Answers]
    /\ result \in [Calls -> Results]
    /\ reader \in [Calls -> Entries]
    /\ wiped \subseteq Calls \X Keys

\* The keys a call was missing when it started.
Requested(c) == {p[1] : p \in pending[c]}

\* What a call in flight holds is among what it was missing, nobody wipes it,
\* and until the generation changes nobody else adds an entry for it.
CallInv ==
    \A c \in Calls :
        /\ stage[c] = "new" => temporary[c] = {}
        /\ result[c] # "none" => stage[c] = "done"
        /\ started[c] <= generation
        /\ stage[c] # "done" => \A k \in Keys : <<c, k>> \notin wiped
        /\ stage[c] = "answered" => answer[c] \in {"ok", "failed", "aborted"}
        /\ InFlight(c) => current[c] \in Requested(c) /\ temporary[c] \subseteq Requested(c)
        /\ InFlight(c) /\ ~Stale(c) => \A k \in Requested(c) : entries[k] = NoEntry

\* What is kept comes from calls that are over and is not wiped.
EntriesInv ==
    \A k \in Keys : entries[k] # NoEntry =>
        stage[entries[k][1]] = "done" /\ <<entries[k][1], k>> \notin wiped

RInv == /\ TypeInv /\ OneCallInFlight /\ CallInv /\ EntriesInv
        /\ LiveReadersAreIntact /\ NoBufferLeaks /\ NothingAfterDispose

-----------------------------------------------------------------------------
LEMMA EntryTypes ==
    ASSUME NEW table \in Entries, NEW k \in Keys, table[k] # NoEntry
    PROVE  /\ table[k][1] \in Calls
           /\ table[k] = <<table[k][1], table[k][2]>>
  BY DEF Entries

(* A call that fails, before it was admitted or in flight.                  *)
LEMMA FailKeepsRInv ==
    ASSUME RInv, NEW c \in Calls, NEW why \in Results \ {"none", "ok"},
           Free(c) \/ InFlight(c), Fail(c, why)
    PROVE  RInv'
<1>1. /\ TypeInv /\ OneCallInFlight /\ CallInv /\ EntriesInv
      /\ LiveReadersAreIntact /\ NoBufferLeaks /\ NothingAfterDispose
  BY DEF RInv
<1>2. /\ stage' = [stage EXCEPT ![c] = "done"]
      /\ result' = [result EXCEPT ![c] = why]
      /\ wiped' = wiped \cup {<<c, k>> : k \in temporary[c]}
      /\ active' = FALSE
      /\ generation' = generation /\ disposed' = disposed /\ aborted' = aborted
      /\ entries' = entries /\ count' = count /\ bytes' = bytes
      /\ started' = started /\ pending' = pending /\ current' = current
      /\ temporary' = temporary /\ answer' = answer /\ reader' = reader
  BY DEF Fail, Buffer
<1>3. /\ stage'[c] = "done" /\ result'[c] = why
      /\ \A d \in Calls : d # c => stage'[d] = stage[d] /\ result'[d] = result[d]
  BY <1>1, <1>2 DEF TypeInv
<1>4. \A d \in Calls, k \in Keys :
         /\ d # c => (<<d, k>> \in wiped' <=> <<d, k>> \in wiped)
         /\ <<c, k>> \in wiped' <=> <<c, k>> \in wiped \/ k \in temporary[c]
  BY <1>2
<1>5. stage[c] # "done" /\ result[c] = "none"
  BY <1>1 DEF Free, InFlight, CallInv
<1>6. \A d \in Calls : d # c => ~InFlight(d)
  BY <1>1 DEF Free, OneCallInFlight, TypeInv
<1>7. TypeInv'
  <2>1. wiped' \subseteq Calls \X Keys
    BY <1>1, <1>2 DEF TypeInv
  <2>2. /\ stage' \in [Calls -> Stages] /\ result' \in [Calls -> Results]
        /\ active' \in BOOLEAN
    BY <1>1, <1>2 DEF TypeInv, Stages
  <2>. QED
    BY <1>1, <1>2, <2>1, <2>2 DEF TypeInv
<1>8. OneCallInFlight'
  BY <1>2, <1>3, <1>6 DEF OneCallInFlight, InFlight
<1>9. CallInv'
  <2>1. SUFFICES ASSUME NEW d \in Calls
                 PROVE  /\ stage'[d] = "new" => temporary[d] = {}
                        /\ result'[d] # "none" => stage'[d] = "done"
                        /\ started[d] <= generation
                        /\ stage'[d] # "done" => \A k \in Keys : <<d, k>> \notin wiped'
                        /\ stage'[d] # "answered" /\ ~InFlight(d)'
    BY <1>2 DEF CallInv
  <2>2. CASE d = c
    BY <1>1, <1>3, <2>2 DEF CallInv, InFlight
  <2>3. CASE d # c
    BY <1>1, <1>3, <1>4, <1>6, <2>3 DEF CallInv, InFlight
  <2>. QED
    BY <2>2, <2>3
<1>10. EntriesInv'
  <2>1. SUFFICES ASSUME NEW k \in Keys, entries[k] # NoEntry
                 PROVE  stage'[entries[k][1]] = "done" /\ <<entries[k][1], k>> \notin wiped'
    BY <1>2 DEF EntriesInv
  <2>2. entries[k][1] \in Calls /\ entries[k][1] # c
    BY <1>1, <1>5, <2>1, EntryTypes DEF EntriesInv, TypeInv
  <2>. QED
    BY <1>1, <1>3, <1>4, <2>1, <2>2 DEF EntriesInv
<1>11. LiveReadersAreIntact'
  <2>1. SUFFICES ASSUME NEW d \in Calls, Live(d)', NEW k \in Keys, reader[d][k] # NoEntry
                 PROVE  <<reader[d][k][1], k>> \notin wiped' /\ entries[k] = reader[d][k]
    BY <1>2 DEF LiveReadersAreIntact, Buffer
  <2>2. d # c /\ Live(d)
    BY <1>2, <1>3, <2>1 DEF Live
  <2>3. entries[k] = reader[d][k]
    BY <1>1, <2>1, <2>2 DEF LiveReadersAreIntact
  <2>. QED
    BY <1>2, <1>10, <2>1, <2>3 DEF EntriesInv
<1>12. NoBufferLeaks'
  BY <1>1, <1>2, <1>3, <1>4, <1>6 DEF NoBufferLeaks, InFlight, Buffer, TypeInv
<1>13. NothingAfterDispose'
  BY <1>1, <1>2 DEF NothingAfterDispose, Kept
<1>. QED
  BY <1>7, <1>8, <1>9, <1>10, <1>11, <1>12, <1>13 DEF RInv

(* A call that was refused because the session was busy or disposed.        *)
LEMMA RejectKeepsRInv ==
    ASSUME RInv, NEW c \in Calls, Reject(c)
    PROVE  RInv'
<1>1. /\ TypeInv /\ OneCallInFlight /\ CallInv /\ EntriesInv
      /\ LiveReadersAreIntact /\ NoBufferLeaks /\ NothingAfterDispose
  BY DEF RInv
<1>2. /\ stage[c] = "new"
      /\ stage' = [stage EXCEPT ![c] = "done"]
      /\ result' = [result EXCEPT ![c] = "rejected"]
      /\ generation' = generation /\ disposed' = disposed /\ active' = active
      /\ aborted' = aborted /\ entries' = entries /\ count' = count
      /\ bytes' = bytes /\ wiped' = wiped /\ started' = started
      /\ pending' = pending /\ current' = current /\ temporary' = temporary
      /\ answer' = answer /\ reader' = reader
  BY DEF Reject
<1>3. /\ stage'[c] = "done" /\ result'[c] = "rejected"
      /\ \A d \in Calls : d # c => stage'[d] = stage[d] /\ result'[d] = result[d]
  BY <1>1, <1>2 DEF TypeInv
<1>4. \A d \in Calls : InFlight(d)' <=> InFlight(d)
  BY <1>2, <1>3 DEF InFlight
<1>5. TypeInv'
  <2>1. stage' \in [Calls -> Stages] /\ result' \in [Calls -> Results]
    BY <1>1, <1>2 DEF TypeInv, Stages, Results
  <2>. QED
    BY <1>1, <1>2, <2>1 DEF TypeInv
<1>6. OneCallInFlight'
  BY <1>1, <1>2, <1>4 DEF OneCallInFlight
<1>7. CallInv'
  <2>1. SUFFICES ASSUME NEW d \in Calls
                 PROVE  /\ stage'[d] = "new" => temporary[d] = {}
                        /\ result'[d] # "none" => stage'[d] = "done"
                        /\ started[d] <= generation
                        /\ stage'[d] # "done" => \A k \in Keys : <<d, k>> \notin wiped
                        /\ stage'[d] = "answered" => answer[d] \in {"ok", "failed", "aborted"}
                        /\ InFlight(d) => current[d] \in Requested(d)
                                          /\ temporary[d] \subseteq Requested(d)
                        /\ InFlight(d) /\ ~Stale(d) =>
                               \A k \in Requested(d) : entries[k] = NoEntry
    BY <1>2, <1>4 DEF CallInv, Requested, Stale
  <2>. QED
    BY <1>1, <1>3 DEF CallInv
<1>8. EntriesInv'
  <2>1. SUFFICES ASSUME NEW k \in Keys, entries[k] # NoEntry
                 PROVE  stage'[entries[k][1]] = "done" /\ <<entries[k][1], k>> \notin wiped
    BY <1>2 DEF EntriesInv
  <2>2. entries[k][1] \in Calls
    BY <1>1, <2>1, EntryTypes DEF TypeInv
  <2>. QED
    BY <1>1, <1>3, <2>1, <2>2 DEF EntriesInv
<1>9. LiveReadersAreIntact'
  <2>1. \A d \in Calls : Live(d)' => Live(d)
    BY <1>2, <1>3 DEF Live
  <2>. QED
    BY <1>1, <1>2, <2>1 DEF LiveReadersAreIntact, Buffer
<1>10. NoBufferLeaks'
  BY <1>1, <1>2, <1>4 DEF NoBufferLeaks, Buffer
<1>11. NothingAfterDispose'
  BY <1>1, <1>2 DEF NothingAfterDispose, Kept
<1>. QED
  BY <1>5, <1>6, <1>7, <1>8, <1>9, <1>10, <1>11 DEF RInv

(* A call that succeeds: added is what it was missing, holding what it holds.*)
LEMMA RetainKeepsRInv ==
    ASSUME RInv, NEW c \in Calls, Free(c) \/ InFlight(c), ~disposed,
           NEW added \in SUBSET (Keys \X Commitments),
           \A p \in added : entries[p[1]] = NoEntry,
           temporary' \in [Calls -> SUBSET Keys],
           \A d \in Calls : d # c => temporary'[d] = temporary[d],
           \A k \in temporary'[c] : \E p \in added : p[1] = k,
           started' \in [Calls -> Nat], started'[c] = generation,
           \A d \in Calls : d # c => started'[d] = started[d],
           Retain(c, added),
           UNCHANGED <<generation, disposed, aborted, wiped, pending, current, answer>>
    PROVE  RInv'
<1> DEFINE kept == [k \in Keys |->
                    IF \E p \in added : p[1] = k
                    THEN <<c, (CHOOSE p \in added : p[1] = k)[2]>>
                    ELSE entries[k]]
<1>1. /\ TypeInv /\ OneCallInFlight /\ CallInv /\ EntriesInv
      /\ LiveReadersAreIntact /\ NoBufferLeaks /\ NothingAfterDispose
  BY DEF RInv
<1>2. /\ entries' = kept
      /\ reader' = [reader EXCEPT ![c] = kept]
      /\ stage' = [stage EXCEPT ![c] = "done"]
      /\ result' = [result EXCEPT ![c] = "ok"]
      /\ active' = FALSE
      /\ generation' = generation /\ disposed' = disposed /\ aborted' = aborted
      /\ wiped' = wiped /\ pending' = pending /\ current' = current
      /\ answer' = answer
  BY DEF Retain
<1>3. /\ stage'[c] = "done" /\ result'[c] = "ok" /\ reader'[c] = kept
      /\ \A d \in Calls : d # c => /\ stage'[d] = stage[d]
                                   /\ result'[d] = result[d]
                                   /\ reader'[d] = reader[d]
  BY <1>1, <1>2 DEF TypeInv
<1>4. kept \in Entries
  <2>1. ASSUME NEW k \in Keys, \E p \in added : p[1] = k
        PROVE  (CHOOSE p \in added : p[1] = k)[2] \in Commitments
    BY <2>1
  <2>. QED
    BY <1>1, <2>1 DEF TypeInv, Entries
<1>5. \A k \in Keys : \/ kept[k] = entries[k]
                      \/ entries[k] = NoEntry /\ kept[k] # NoEntry /\ kept[k][1] = c
  <2>1. SUFFICES ASSUME NEW k \in Keys, \E p \in added : p[1] = k
                 PROVE  entries[k] = NoEntry /\ kept[k] # NoEntry /\ kept[k][1] = c
    OBVIOUS
  <2>2. (CHOOSE p \in added : p[1] = k)[2] \in Commitments
    BY <2>1
  <2>. QED
    BY <2>1, <2>2, NoEntryAssumption
<1>6. \A k \in temporary'[c] : kept[k] # NoEntry /\ kept[k][1] = c
  <2>1. SUFFICES ASSUME NEW k \in temporary'[c]
                 PROVE  kept[k] # NoEntry /\ kept[k][1] = c
    OBVIOUS
  <2>2. k \in Keys /\ \E p \in added : p[1] = k
    BY <2>1
  <2>3. (CHOOSE p \in added : p[1] = k)[2] \in Commitments
    BY <2>2
  <2>. QED
    BY <2>2, <2>3, NoEntryAssumption
<1> HIDE DEF kept
<1>7. \A d \in Calls : ~InFlight(d)'
  BY <1>1, <1>3 DEF Free, InFlight, OneCallInFlight, TypeInv
<1>8. stage[c] # "done"
  BY DEF Free, InFlight
<1>9. TypeInv'
  <2>1. /\ stage' \in [Calls -> Stages] /\ result' \in [Calls -> Results]
        /\ reader' \in [Calls -> Entries] /\ active' \in BOOLEAN
    BY <1>1, <1>2, <1>4 DEF TypeInv, Stages, Results
  <2>. QED
    BY <1>1, <1>2, <1>4, <2>1 DEF TypeInv
<1>10. OneCallInFlight'
  BY <1>2, <1>7 DEF OneCallInFlight
<1>11. CallInv'
  <2>1. SUFFICES ASSUME NEW d \in Calls
                 PROVE  /\ stage'[d] = "new" => temporary'[d] = {}
                        /\ result'[d] # "none" => stage'[d] = "done"
                        /\ started'[d] <= generation
                        /\ stage'[d] # "done" => \A k \in Keys : <<d, k>> \notin wiped
                        /\ stage'[d] = "answered" => answer[d] \in {"ok", "failed", "aborted"}
    BY <1>2, <1>7 DEF CallInv
  <2>2. CASE d = c
    BY <1>1, <1>3, <2>2 DEF TypeInv
  <2>3. CASE d # c
    BY <1>1, <1>3, <2>3 DEF CallInv
  <2>. QED
    BY <2>2, <2>3
<1>12. EntriesInv'
  <2>1. SUFFICES ASSUME NEW k \in Keys, kept[k] # NoEntry
                 PROVE  stage'[kept[k][1]] = "done" /\ <<kept[k][1], k>> \notin wiped
    BY <1>2 DEF EntriesInv
  <2>2. CASE kept[k] = entries[k]
    <3>1. entries[k][1] \in Calls
      BY <1>1, <2>1, <2>2, EntryTypes DEF TypeInv
    <3>. QED
      BY <1>1, <1>3, <2>1, <2>2, <3>1 DEF EntriesInv
  <2>3. CASE kept[k][1] = c
    BY <1>1, <1>3, <1>8, <2>3 DEF CallInv
  <2>. QED
    BY <1>5, <2>2, <2>3
<1>13. LiveReadersAreIntact'
  <2>1. SUFFICES ASSUME NEW d \in Calls, Live(d)', NEW k \in Keys, reader'[d][k] # NoEntry
                 PROVE  <<reader'[d][k][1], k>> \notin wiped /\ kept[k] = reader'[d][k]
    BY <1>2 DEF LiveReadersAreIntact, Buffer
  <2>2. kept[k] = reader'[d][k]
    <3>1. CASE d = c
      BY <1>3, <3>1
    <3>2. CASE d # c
      <4>1. Live(d)
        BY <1>2, <1>3, <2>1, <3>2 DEF Live
      <4>2. reader'[d] = reader[d] /\ entries[k] = reader[d][k]
        BY <1>1, <1>3, <2>1, <3>2, <4>1 DEF LiveReadersAreIntact
      <4>. QED
        BY <1>5, <2>1, <4>2
    <3>. QED
      BY <3>1, <3>2
  <2>. QED
    BY <1>2, <1>12, <2>1, <2>2 DEF EntriesInv
<1>14. NoBufferLeaks'
  <2>1. SUFFICES ASSUME NEW d \in Calls, NEW k \in temporary'[d], <<d, k>> \notin wiped
                 PROVE  kept[k] # NoEntry /\ kept[k][1] = d
    BY <1>2 DEF NoBufferLeaks, Buffer
  <2>2. CASE d = c
    BY <1>6, <2>1, <2>2
  <2>3. CASE d # c
    <3>1. temporary'[d] = temporary[d] /\ k \in Keys
      BY <1>1, <2>1, <2>3 DEF TypeInv
    <3>2. ~InFlight(d)
      BY <1>3, <1>7, <2>3 DEF InFlight
    <3>3. entries[k] # NoEntry /\ entries[k][1] = d
      BY <1>1, <2>1, <3>1, <3>2 DEF NoBufferLeaks, Buffer
    <3>. QED
      BY <1>5, <3>1, <3>3
  <2>. QED
    BY <2>2, <2>3
<1>15. NothingAfterDispose'
  BY <1>2 DEF NothingAfterDispose
<1>. QED
  BY <1>9, <1>10, <1>11, <1>12, <1>13, <1>14, <1>15 DEF RInv

(* A call goes on without anything being kept, wiped or told to anyone.      *)
LEMMA AdvanceKeepsRInv ==
    ASSUME RInv, NEW c \in Calls, Free(c) \/ InFlight(c),
           active' = TRUE,
           stage' \in [Calls -> Stages], stage'[c] \in {"asking", "hashing", "answered"},
           \A d \in Calls : d # c => stage'[d] = stage[d],
           started' \in [Calls -> Nat], started'[c] <= generation,
           \A d \in Calls : d # c => started'[d] = started[d],
           pending' \in [Calls -> SUBSET (Keys \X Commitments)],
           \A d \in Calls : d # c => pending'[d] = pending[d],
           current' \in [Calls -> Keys \cup {NoEntry}],
           temporary' \in [Calls -> SUBSET Keys],
           \A d \in Calls : d # c => temporary'[d] = temporary[d],
           answer' \in [Calls -> Answers],
           \A d \in Calls : d # c => answer'[d] = answer[d],
           stage'[c] = "answered" => answer'[c] \in {"ok", "failed", "aborted"},
           current'[c] \in Requested(c)', temporary'[c] \subseteq Requested(c)',
           ~Stale(c)' => \A k \in Requested(c)' : entries[k] = NoEntry,
           UNCHANGED <<generation, disposed, aborted, entries, count, bytes, wiped,
                      result, reader>>
    PROVE  RInv'
<1>1. /\ TypeInv /\ OneCallInFlight /\ CallInv /\ EntriesInv
      /\ LiveReadersAreIntact /\ NoBufferLeaks /\ NothingAfterDispose
  BY DEF RInv
<1>2. /\ generation' = generation /\ disposed' = disposed /\ aborted' = aborted
      /\ entries' = entries /\ count' = count /\ bytes' = bytes
      /\ wiped' = wiped /\ result' = result /\ reader' = reader
  OBVIOUS
<1>3. \A d \in Calls : d # c => ~InFlight(d) /\ ~InFlight(d)'
  BY <1>1 DEF Free, InFlight, OneCallInFlight, TypeInv
<1>4. InFlight(c)' /\ stage[c] # "done" /\ result[c] = "none"
  BY <1>1 DEF Free, InFlight, CallInv
<1>5. TypeInv'
  BY <1>1, <1>2 DEF TypeInv
<1>6. OneCallInFlight'
  BY <1>3, <1>4 DEF OneCallInFlight
<1>7. CallInv'
  <2>1. SUFFICES ASSUME NEW d \in Calls
                 PROVE  /\ stage'[d] = "new" => temporary'[d] = {}
                        /\ result[d] # "none" => stage'[d] = "done"
                        /\ started'[d] <= generation
                        /\ stage'[d] # "done" => \A k \in Keys : <<d, k>> \notin wiped
                        /\ stage'[d] = "answered" => answer'[d] \in {"ok", "failed", "aborted"}
                        /\ InFlight(d)' => /\ current'[d] \in Requested(d)'
                                           /\ temporary'[d] \subseteq Requested(d)'
                        /\ InFlight(d)' /\ ~Stale(d)' =>
                               \A k \in Requested(d)' : entries[k] = NoEntry
    BY <1>2 DEF CallInv
  <2>2. CASE d = c
    BY <1>1, <1>4, <2>2 DEF CallInv, InFlight
  <2>3. CASE d # c
    BY <1>1, <1>3, <2>3 DEF CallInv
  <2>. QED
    BY <2>2, <2>3
<1>8. EntriesInv'
  <2>1. SUFFICES ASSUME NEW k \in Keys, entries[k] # NoEntry
                 PROVE  stage'[entries[k][1]] = "done" /\ <<entries[k][1], k>> \notin wiped
    BY <1>2 DEF EntriesInv
  <2>2. entries[k][1] \in Calls /\ entries[k][1] # c
    BY <1>1, <1>4, <2>1, EntryTypes DEF EntriesInv, TypeInv
  <2>. QED
    BY <1>1, <2>1, <2>2 DEF EntriesInv
<1>9. LiveReadersAreIntact'
  <2>1. \A d \in Calls : Live(d)' => Live(d)
    BY <1>2, <1>4 DEF Live
  <2>. QED
    BY <1>1, <1>2, <2>1 DEF LiveReadersAreIntact, Buffer
<1>10. NoBufferLeaks'
  BY <1>1, <1>2, <1>3, <1>4 DEF NoBufferLeaks, Buffer
<1>11. NothingAfterDispose'
  BY <1>1, <1>2 DEF NothingAfterDispose, Kept
<1>. QED
  BY <1>5, <1>6, <1>7, <1>8, <1>9, <1>10, <1>11 DEF RInv

-----------------------------------------------------------------------------
(* The actions.                                                            *)

LEMMA StartResolvingKeepsRInv ==
    ASSUME RInv, NEW c \in Calls, NEW request \in Requests, StartResolving(c, request)
    PROVE  RInv'
<1>1. TypeInv /\ CallInv
  BY DEF RInv
<1>2. /\ Missing(request) \in SUBSET (Keys \X Commitments)
      /\ \A p \in Missing(request) : entries[p[1]] = NoEntry
  BY RequestsAssumption DEF Missing
<1>3. NextKey(Missing(request)) \in {p[1] : p \in Missing(request)}
  BY DEF NextKey, StartResolving
<1>4. NextKey(Missing(request)) \in Keys
  BY <1>2, <1>3
<1>5. /\ Free(c) /\ active' = TRUE
      /\ stage' = [stage EXCEPT ![c] = "asking"]
      /\ started' = [started EXCEPT ![c] = generation]
      /\ pending' = [pending EXCEPT ![c] = Missing(request)]
      /\ current' = [current EXCEPT ![c] = NextKey(Missing(request))]
      /\ temporary' = temporary /\ answer' = answer
      /\ UNCHANGED <<generation, disposed, aborted, entries, count, bytes, wiped,
                     result, reader>>
  BY DEF StartResolving, Admitted
<1>6. /\ stage' \in [Calls -> Stages] /\ stage'[c] = "asking"
      /\ started' \in [Calls -> Nat] /\ started'[c] = generation
      /\ pending' \in [Calls -> SUBSET (Keys \X Commitments)]
      /\ pending'[c] = Missing(request)
      /\ current' \in [Calls -> Keys \cup {NoEntry}]
      /\ current'[c] = NextKey(Missing(request))
      /\ generation \in Nat
  BY <1>1, <1>2, <1>4, <1>5 DEF TypeInv, Stages
<1>7. \A d \in Calls : d # c => /\ stage'[d] = stage[d] /\ started'[d] = started[d]
                              /\ pending'[d] = pending[d]
  BY <1>1, <1>5 DEF TypeInv
<1>8. temporary'[c] = {} /\ Requested(c)' = {p[1] : p \in Missing(request)}
  BY <1>1, <1>5, <1>6 DEF CallInv, Free, Requested
<1>9. \A k \in Requested(c)' : entries[k] = NoEntry
  BY <1>2, <1>8
<1>10. /\ temporary' \in [Calls -> SUBSET Keys] /\ answer' \in [Calls -> Answers]
       /\ \A d \in Calls : temporary'[d] = temporary[d] /\ answer'[d] = answer[d]
  BY <1>1, <1>5 DEF TypeInv
<1>. QED
  BY <1>3, <1>5, <1>6, <1>7, <1>8, <1>9, <1>10, AdvanceKeepsRInv

LEMMA ReachKeepsRInv ==
    ASSUME RInv, NEW c \in Calls, InFlight(c),
           NEW to \in {"hashing", "answered"}, NEW what \in Answers,
           to = "answered" => what \in {"ok", "failed", "aborted"},
           Reach(c, to, what)
    PROVE  RInv'
<1>1. TypeInv /\ CallInv /\ OneCallInFlight
  BY DEF RInv
<1>2. /\ stage' = [stage EXCEPT ![c] = to] /\ answer' = [answer EXCEPT ![c] = what]
      /\ active' = active /\ started' = started /\ pending' = pending
      /\ current' = current /\ temporary' = temporary
      /\ UNCHANGED <<generation, disposed, aborted, entries, count, bytes, wiped,
                     result, reader>>
  BY DEF Reach
<1>3. /\ stage' \in [Calls -> Stages] /\ stage'[c] = to
      /\ answer' \in [Calls -> Answers] /\ answer'[c] = what
      /\ \A d \in Calls : d # c => stage'[d] = stage[d] /\ answer'[d] = answer[d]
  BY <1>1, <1>2 DEF TypeInv, Stages
<1>4. active = TRUE
  BY <1>1 DEF OneCallInFlight, TypeInv
<1>5. Requested(c)' = Requested(c) /\ (Stale(c)' <=> Stale(c))
  BY <1>2 DEF Requested, Stale
<1>6. /\ current[c] \in Requested(c) /\ temporary[c] \subseteq Requested(c)
      /\ ~Stale(c) => \A k \in Requested(c) : entries[k] = NoEntry
      /\ started[c] <= generation
  BY <1>1 DEF CallInv
<1>7. /\ started' \in [Calls -> Nat]
      /\ pending' \in [Calls -> SUBSET (Keys \X Commitments)]
      /\ current' \in [Calls -> Keys \cup {NoEntry}]
      /\ temporary' \in [Calls -> SUBSET Keys]
  BY <1>1, <1>2 DEF TypeInv
<1>. QED
  BY <1>2, <1>3, <1>4, <1>5, <1>6, <1>7, AdvanceKeepsRInv

LEMMA AskNextKeepsRInv ==
    ASSUME RInv, NEW c \in Calls, AskNext(c)
    PROVE  RInv'
<1>1. TypeInv /\ CallInv /\ OneCallInFlight
  BY DEF RInv
<1>2. /\ InFlight(c) /\ Left(c) # {}
      /\ temporary' = [temporary EXCEPT ![c] = @ \cup {current[c]}]
      /\ current' = [current EXCEPT ![c] = NextKey(Left(c))]
      /\ stage' = [stage EXCEPT ![c] = "asking"]
      /\ answer' = [answer EXCEPT ![c] = "none"]
      /\ active' = active /\ started' = started /\ pending' = pending
      /\ UNCHANGED <<generation, disposed, aborted, entries, count, bytes, wiped,
                     result, reader>>
  BY DEF AskNext, Verified, InFlight
<1>3. /\ current[c] \in Requested(c) /\ temporary[c] \subseteq Requested(c)
      /\ ~Stale(c) => \A k \in Requested(c) : entries[k] = NoEntry
      /\ started[c] <= generation
  BY <1>1, <1>2 DEF CallInv
<1>4. Requested(c) \subseteq Keys
  BY <1>1 DEF Requested, TypeInv
<1>5. NextKey(Left(c)) \in Requested(c)
  BY <1>2 DEF NextKey, Left, Requested
<1>6. /\ stage' \in [Calls -> Stages] /\ stage'[c] = "asking"
      /\ answer' \in [Calls -> Answers]
      /\ current' \in [Calls -> Keys \cup {NoEntry}] /\ current'[c] = NextKey(Left(c))
      /\ temporary' \in [Calls -> SUBSET Keys]
      /\ temporary'[c] = temporary[c] \cup {current[c]}
  BY <1>1, <1>2, <1>3, <1>4, <1>5 DEF TypeInv, Stages, Answers
<1>7. \A d \in Calls : d # c => /\ stage'[d] = stage[d] /\ answer'[d] = answer[d]
                              /\ temporary'[d] = temporary[d]
  BY <1>1, <1>2 DEF TypeInv
<1>8. active = TRUE
  BY <1>1, <1>2 DEF OneCallInFlight, TypeInv
<1>9. Requested(c)' = Requested(c) /\ (Stale(c)' <=> Stale(c))
  BY <1>2 DEF Requested, Stale
<1>10. /\ started' \in [Calls -> Nat]
       /\ pending' \in [Calls -> SUBSET (Keys \X Commitments)]
  BY <1>1, <1>2 DEF TypeInv
<1>. QED
  BY <1>2, <1>3, <1>5, <1>6, <1>7, <1>8, <1>9, <1>10, AdvanceKeepsRInv

LEMMA ServeCachedKeepsRInv ==
    ASSUME RInv, NEW c \in Calls, NEW request \in Requests, ServeCached(c, request)
    PROVE  RInv'
<1>1. TypeInv /\ CallInv
  BY DEF RInv
<1>2. /\ Free(c) /\ ~disposed
      /\ started' = [started EXCEPT ![c] = generation] /\ temporary' = temporary
      /\ Retain(c, {})
      /\ UNCHANGED <<generation, disposed, aborted, wiped, pending, current, answer>>
  BY DEF ServeCached, Admitted, Free
<1>3. /\ started' \in [Calls -> Nat] /\ started'[c] = generation
      /\ \A d \in Calls : d # c => started'[d] = started[d]
      /\ temporary' \in [Calls -> SUBSET Keys] /\ temporary'[c] = {}
  BY <1>1, <1>2 DEF TypeInv, CallInv, Free
<1>. QED
  BY <1>2, <1>3, RetainKeepsRInv

\* What a committing call adds is what it was missing, and still is missing.
LEMMA CommitAdds ==
    ASSUME RInv, NEW c \in Calls, Commit(c)
    PROVE  /\ InFlight(c) /\ ~disposed /\ started[c] = generation
           /\ pending[c] \in SUBSET (Keys \X Commitments)
           /\ \A p \in pending[c] : entries[p[1]] = NoEntry
           /\ \A k \in temporary'[c] : \E p \in pending[c] : p[1] = k
<1>1. TypeInv /\ CallInv
  BY DEF RInv
<1>2. /\ InFlight(c) /\ ~Stale(c)
      /\ temporary' = [temporary EXCEPT ![c] = @ \cup {current[c]}]
  BY DEF Commit, Verified, InFlight
<1>3. /\ current[c] \in Requested(c) /\ temporary[c] \subseteq Requested(c)
      /\ \A k \in Requested(c) : entries[k] = NoEntry
  BY <1>1, <1>2 DEF CallInv
<1>4. temporary'[c] = temporary[c] \cup {current[c]}
  BY <1>1, <1>2 DEF TypeInv
<1>. QED
  BY <1>1, <1>2, <1>3, <1>4 DEF Requested, Stale, TypeInv

LEMMA CommitKeepsRInv ==
    ASSUME RInv, NEW c \in Calls, Commit(c)
    PROVE  RInv'
<1>1. TypeInv /\ CallInv
  BY DEF RInv
<1>2. /\ InFlight(c) /\ ~disposed /\ started[c] = generation
      /\ pending[c] \in SUBSET (Keys \X Commitments)
      /\ \A p \in pending[c] : entries[p[1]] = NoEntry
      /\ \A k \in temporary'[c] : \E p \in pending[c] : p[1] = k
  BY CommitAdds
<1>3. /\ temporary' = [temporary EXCEPT ![c] = @ \cup {current[c]}]
      /\ started' = started /\ Retain(c, pending[c])
      /\ UNCHANGED <<generation, disposed, aborted, wiped, pending, current, answer>>
  BY DEF Commit
<1>4. /\ \A d \in Calls : d # c => temporary'[d] = temporary[d]
      /\ temporary' \in [Calls -> SUBSET Keys]
  <2>1. current[c] \in Keys
    BY <1>1, <1>2 DEF CallInv, Requested
  <2>. QED
    BY <1>1, <1>3, <2>1 DEF TypeInv
<1>5. started' \in [Calls -> Nat]
  BY <1>1, <1>3 DEF TypeInv
<1>. QED
  BY <1>2, <1>3, <1>4, <1>5, RetainKeepsRInv

\* clear and dispose: a new generation, and everything kept is wiped.
LEMMA ClearKeepsRInv ==
    ASSUME RInv, ClearRetained, disposed' \in BOOLEAN,
           UNCHANGED <<active, aborted, callVars>>
    PROVE  RInv'
<1>1. /\ TypeInv /\ OneCallInFlight /\ CallInv /\ EntriesInv
      /\ LiveReadersAreIntact /\ NoBufferLeaks /\ NothingAfterDispose
  BY DEF RInv
<1>2. /\ wiped' = wiped \cup {<<entries[k][1], k>> : k \in Kept}
      /\ entries' = NoEntries /\ count' = 0 /\ bytes' = 0
      /\ generation' = generation + 1
      /\ active' = active /\ aborted' = aborted /\ stage' = stage
      /\ started' = started /\ pending' = pending /\ current' = current
      /\ temporary' = temporary /\ answer' = answer /\ result' = result
      /\ reader' = reader
  BY DEF ClearRetained, callVars, Buffer
<1>3. \A k \in Keys : entries'[k] = NoEntry
  BY <1>2 DEF NoEntries
<1>4. \A k \in Kept : k \in Keys /\ entries[k][1] \in Calls
                     /\ stage[entries[k][1]] = "done"
  BY <1>1, EntryTypes DEF Kept, EntriesInv, TypeInv
<1>5. \A d \in Calls, k \in Keys :
         <<d, k>> \in wiped' <=> <<d, k>> \in wiped \/ (k \in Kept /\ entries[k][1] = d)
  BY <1>2
<1>6. TypeInv'
  <2>1. wiped' \subseteq Calls \X Keys
    BY <1>1, <1>2, <1>4 DEF TypeInv
  <2>2. entries' \in Entries
    BY <1>2 DEF Entries, NoEntries
  <2>. QED
    BY <1>1, <1>2, <2>1, <2>2 DEF TypeInv
<1>7. OneCallInFlight'
  BY <1>1, <1>2 DEF OneCallInFlight, InFlight
<1>8. CallInv'
  <2>1. \A d \in Calls : InFlight(d)' <=> InFlight(d)
    BY <1>2 DEF InFlight
  <2>2. SUFFICES ASSUME NEW d \in Calls
                 PROVE  /\ stage[d] = "new" => temporary[d] = {}
                        /\ result[d] # "none" => stage[d] = "done"
                        /\ started[d] <= generation + 1
                        /\ stage[d] # "done" => \A k \in Keys : <<d, k>> \notin wiped'
                        /\ stage[d] = "answered" => answer[d] \in {"ok", "failed", "aborted"}
                        /\ InFlight(d) => current[d] \in Requested(d)
                                          /\ temporary[d] \subseteq Requested(d)
                        /\ \A k \in Requested(d) : entries'[k] = NoEntry
    BY <1>2, <2>1 DEF CallInv, Requested
  <2>3. started[d] <= generation + 1
    BY <1>1 DEF CallInv, TypeInv
  <2>4. stage[d] # "done" => \A k \in Keys : <<d, k>> \notin wiped'
    BY <1>1, <1>4, <1>5 DEF CallInv
  <2>5. \A k \in Requested(d) : entries'[k] = NoEntry
    BY <1>1, <1>3 DEF Requested, TypeInv
  <2>. QED
    BY <1>1, <2>3, <2>4, <2>5 DEF CallInv
<1>9. EntriesInv'
  BY <1>3 DEF EntriesInv
<1>10. LiveReadersAreIntact'
  <2>1. \A d \in Calls : started[d] # generation + 1
    BY <1>1 DEF CallInv, TypeInv
  <2>. QED
    BY <1>2, <2>1 DEF LiveReadersAreIntact, Live
<1>11. NoBufferLeaks'
  <2>1. SUFFICES ASSUME NEW d \in Calls, NEW k \in temporary[d], <<d, k>> \notin wiped'
                 PROVE  InFlight(d)
    BY <1>2 DEF NoBufferLeaks, Buffer, InFlight
  <2>2. k \in Keys
    BY <1>1, <2>1 DEF TypeInv
  <2>. QED
    BY <1>1, <1>5, <2>1, <2>2 DEF NoBufferLeaks, Buffer, Kept
<1>12. NothingAfterDispose'
  BY <1>2, <1>3 DEF NothingAfterDispose, Kept
<1>. QED
  BY <1>6, <1>7, <1>8, <1>9, <1>10, <1>11, <1>12 DEF RInv

LEMMA StutterKeepsRInv ==
    ASSUME RInv, aborted' \in BOOLEAN,
           UNCHANGED <<generation, disposed, active, entries, count, bytes, wiped,
                      callVars>>
    PROVE  RInv'
  BY DEF callVars, RInv, TypeInv, OneCallInFlight, InFlight, CallInv, Requested, Stale,
         EntriesInv, LiveReadersAreIntact, Live, NoBufferLeaks, NothingAfterDispose, Kept

-----------------------------------------------------------------------------
(* The theorems.                                                           *)

LEMMA InitRInv == Init => RInv
<1>1. SUFFICES ASSUME Init PROVE RInv
  OBVIOUS
<1>2. TypeInv
  <2>1. NoEntries \in Entries
    BY DEF NoEntries, Entries
  <2>2. /\ "new" \in Stages /\ "none" \in Answers /\ "none" \in Results /\ 0 \in Nat
    BY DEF Stages, Answers, Results
  <2>. QED
    BY <1>1, <2>1, <2>2 DEF Init, TypeInv
<1>3. \A c \in Calls : stage[c] = "new" /\ ~InFlight(c)
  BY <1>1 DEF Init, InFlight
<1>4. OneCallInFlight
  BY <1>1, <1>3 DEF Init, OneCallInFlight
<1>5. CallInv
  BY <1>1, <1>3 DEF Init, CallInv
<1>6. EntriesInv
  BY <1>1 DEF Init, EntriesInv, NoEntries
<1>7. LiveReadersAreIntact /\ NoBufferLeaks /\ NothingAfterDispose
  BY <1>1 DEF Init, LiveReadersAreIntact, Live, NoBufferLeaks, NothingAfterDispose
<1>. QED
  BY <1>2, <1>4, <1>5, <1>6, <1>7 DEF RInv

LEMMA NextKeepsRInv == RInv /\ [Next]_vars => RInv'
<1>1. SUFFICES ASSUME RInv, [Next]_vars PROVE RInv'
  OBVIOUS
<1>2. ASSUME NEW c \in Calls, Resolve(c) PROVE RInv'
  <2>1. CASE Reject(c)
    BY <1>1, <2>1, RejectKeepsRInv
  <2>2. CASE RefuseAborted(c)
    BY <1>1, <2>2, FailKeepsRInv DEF RefuseAborted, Results
  <2>3. ASSUME NEW r \in Requests, RefuseRequest(c, r) PROVE RInv'
    BY <1>1, <2>3, FailKeepsRInv DEF RefuseRequest, Results
  <2>4. ASSUME NEW r \in Requests, ServeCached(c, r) PROVE RInv'
    BY <1>1, <2>4, ServeCachedKeepsRInv
  <2>5. ASSUME NEW r \in Requests, StartResolving(c, r) PROVE RInv'
    BY <1>1, <2>5, StartResolvingKeepsRInv
  <2>. QED
    BY <1>2, <2>1, <2>2, <2>3, <2>4, <2>5 DEF Resolve
<1>3. ASSUME NEW c \in Calls, ResolverAnswers(c) PROVE RInv'
  <2>1. InFlight(c)
    BY <1>3 DEF ResolverAnswers, InFlight
  <2>. QED
    BY <1>1, <1>3, <2>1, ReachKeepsRInv DEF ResolverAnswers, Answers
<1>4. ASSUME NEW c \in Calls, Continue(c) PROVE RInv'
  <2>1. InFlight(c)
    BY <1>4 DEF Continue, StopAsking, HashEnds, Invalidated, StopResolving, AskNext,
                Commit, Verified, InFlight
  <2>2. CASE StopAsking(c)
    BY <1>1, <2>1, <2>2, ReachKeepsRInv DEF StopAsking, Answers
  <2>3. CASE HashEnds(c)
    <3>1. PICK what \in {"ok", "failed", "aborted"} : Reach(c, "answered", what)
      BY <2>3 DEF HashEnds
    <3>. QED
      BY <1>1, <2>1, <3>1, ReachKeepsRInv DEF Answers
  <2>4. CASE Invalidated(c)
    BY <1>1, <2>1, <2>4, FailKeepsRInv DEF Invalidated, Results
  <2>5. CASE StopResolving(c)
    <3>1. answer[c] \in {"ok", "failed", "aborted"}
      BY <1>1, <2>5 DEF StopResolving, RInv, CallInv
    <3>2. PICK why \in {"failed", "aborted"} : Fail(c, why)
      BY <2>5, <3>1 DEF StopResolving
    <3>. QED
      BY <1>1, <2>1, <3>2, FailKeepsRInv DEF Results
  <2>6. CASE AskNext(c)
    BY <1>1, <2>6, AskNextKeepsRInv
  <2>7. CASE Commit(c)
    BY <1>1, <2>7, CommitKeepsRInv
  <2>. QED
    BY <1>4, <2>2, <2>3, <2>4, <2>5, <2>6, <2>7 DEF Continue
<1>5. CASE Clear
  BY <1>1, <1>5, ClearKeepsRInv DEF Clear, RInv, TypeInv
<1>6. CASE Dispose
  BY <1>1, <1>6, ClearKeepsRInv DEF Dispose
<1>7. CASE AbortSession
  BY <1>1, <1>7, StutterKeepsRInv DEF AbortSession
<1>8. CASE UNCHANGED vars
  BY <1>1, <1>8, StutterKeepsRInv DEF vars, callVars, RInv, TypeInv
<1>. QED
  BY <1>1, <1>2, <1>3, <1>4, <1>5, <1>6, <1>7, <1>8 DEF Next

LEMMA Inductive == Spec => []RInv
  BY InitRInv, NextKeepsRInv, PTL DEF Spec

\* The session is serial, and #active says whether a call is under way.
THEOREM CallsAreSerial == Spec => []OneCallInFlight
<1>1. RInv => OneCallInFlight
  BY DEF RInv
<1>. QED
  BY <1>1, Inductive, PTL

\* A reader that still answers reads buffers nobody wiped, and the session
\* keeps the same ones: no clear, dispose, failure or later call gets between.
THEOREM ReadersAreIntact == Spec => []LiveReadersAreIntact
<1>1. RInv => LiveReadersAreIntact
  BY DEF RInv
<1>. QED
  BY <1>1, Inductive, PTL

\* Whatever becomes of a call, a buffer it copied is wiped, kept by the
\* session, or still in the hands of the call.
THEOREM BuffersAreWiped == Spec => []NoBufferLeaks
<1>1. RInv => NoBufferLeaks
  BY DEF RInv
<1>. QED
  BY <1>1, Inductive, PTL

\* A call in flight when the session is disposed of leaves nothing behind.
THEOREM DisposedIsEmpty == Spec => []NothingAfterDispose
<1>1. RInv => NothingAfterDispose
  BY DEF RInv
<1>. QED
  BY <1>1, Inductive, PTL

-----------------------------------------------------------------------------
(* The session implements a VerifiedStore.                                 *)

\* While a call that may still succeed is in flight, the entries are those its
\* request was checked against.
AskedInv ==
    \A c \in Calls : InFlight(c) /\ ~Stale(c) =>
        \E r \in Requests : pending[c] = Missing(r) /\ ~Conflict(r)

\* Both are state functions of the entries alone.
LEMMA ChecksReadEntries ==
    ASSUME entries' = entries, NEW r
    PROVE  Missing(r)' = Missing(r) /\ (Conflict(r)' <=> Conflict(r))
  BY DEF Missing, Conflict

\* Steps that leave the entries alone, and put no call in flight.
LEMMA UnchangedKeepsAsked ==
    ASSUME RInv, AskedInv, entries' = entries, pending' = pending, started' = started,
           generation' = generation, disposed' = disposed,
           \A c \in Calls : InFlight(c)' => InFlight(c)
    PROVE  AskedInv'
<1>1. SUFFICES ASSUME NEW c \in Calls, InFlight(c)', ~Stale(c)'
               PROVE  \E r \in Requests : pending'[c] = Missing(r)' /\ ~Conflict(r)'
  BY DEF AskedInv
<1>2. InFlight(c) /\ ~Stale(c)
  BY <1>1 DEF Stale
<1>3. PICK r \in Requests : pending[c] = Missing(r) /\ ~Conflict(r)
  BY <1>2 DEF AskedInv
<1>. QED
  BY <1>3, ChecksReadEntries

LEMMA NextKeepsAsked == RInv /\ AskedInv /\ [Next]_vars => AskedInv'
<1>1. SUFFICES ASSUME RInv, AskedInv, [Next]_vars PROVE AskedInv'
  OBVIOUS
<1>2. TypeInv /\ CallInv /\ OneCallInFlight
  BY <1>1 DEF RInv
<1>3. ASSUME NEW c \in Calls, stage' = [stage EXCEPT ![c] = "done"]
      PROVE  \A d \in Calls : InFlight(d)' => InFlight(d) /\ d # c
  BY <1>2, <1>3 DEF TypeInv, InFlight
<1>4. ASSUME NEW c \in Calls, NEW why, Fail(c, why) PROVE AskedInv'
  BY <1>1, <1>3, <1>4, UnchangedKeepsAsked DEF Fail
<1>5. ASSUME NEW c \in Calls, NEW r \in Requests, StartResolving(c, r) PROVE AskedInv'
  <2>1. /\ entries' = entries /\ pending' = [pending EXCEPT ![c] = Missing(r)]
        /\ stage' = [stage EXCEPT ![c] = "asking"]
        /\ ~Conflict(r) /\ ~active
    BY <1>5 DEF StartResolving, Admitted, Free
  <2>2. \A d \in Calls : d # c => ~InFlight(d)'
    BY <1>2, <2>1 DEF OneCallInFlight, TypeInv, InFlight
  <2>3. pending'[c] = Missing(r)' /\ ~Conflict(r)'
    BY <1>2, <2>1, ChecksReadEntries DEF TypeInv
  <2>. QED
    BY <2>2, <2>3 DEF AskedInv
<1>6. ASSUME NEW c \in Calls, NEW added, Retain(c, added), Free(c) \/ InFlight(c)
      PROVE  AskedInv'
  <2>1. \A d \in Calls : ~InFlight(d)'
    <3>1. stage' = [stage EXCEPT ![c] = "done"]
      BY <1>6 DEF Retain
    <3>2. \A d \in Calls : d # c => ~InFlight(d)
      BY <1>2, <1>6 DEF OneCallInFlight, Free
    <3>. QED
      BY <1>3, <3>1, <3>2
  <2>. QED
    BY <2>1 DEF AskedInv
<1>7. ASSUME NEW c \in Calls, NEW to, NEW what, InFlight(c), Reach(c, to, what)
      PROVE  AskedInv'
  <2>1. \A d \in Calls : InFlight(d)' => InFlight(d)
    BY <1>2, <1>7 DEF Reach, TypeInv, InFlight
  <2>. QED
    BY <1>1, <1>7, <2>1, UnchangedKeepsAsked DEF Reach
<1>8. ASSUME NEW c \in Calls, AskNext(c) PROVE AskedInv'
  <2>1. \A d \in Calls : InFlight(d)' => InFlight(d)
    BY <1>2, <1>8 DEF AskNext, Verified, TypeInv, InFlight
  <2>. QED
    BY <1>1, <1>8, <2>1, UnchangedKeepsAsked DEF AskNext
<1>9. ASSUME NEW c \in Calls, Reject(c) PROVE AskedInv'
  BY <1>1, <1>3, <1>9, UnchangedKeepsAsked DEF Reject
<1>10. CASE ClearRetained /\ started' = started
  <2>1. \A d \in Calls : started'[d] # generation'
    BY <1>2, <1>10 DEF ClearRetained, CallInv, TypeInv
  <2>. QED
    BY <2>1 DEF AskedInv, Stale
<1>11. CASE AbortSession \/ UNCHANGED vars
  BY <1>1, <1>11, UnchangedKeepsAsked DEF AbortSession, vars, callVars, InFlight
<1>12. ASSUME NEW c \in Calls, Resolve(c) PROVE AskedInv'
  BY <1>4, <1>5, <1>6, <1>9, <1>12
     DEF Resolve, RefuseAborted, RefuseRequest, ServeCached, Admitted
<1>13. ASSUME NEW c \in Calls, ResolverAnswers(c) PROVE AskedInv'
  BY <1>7, <1>13 DEF ResolverAnswers, InFlight
<1>14. ASSUME NEW c \in Calls, Continue(c) PROVE AskedInv'
  <2>1. CASE StopAsking(c) \/ HashEnds(c)
    BY <1>7, <2>1 DEF StopAsking, HashEnds, InFlight
  <2>2. CASE Commit(c)
    BY <1>6, <2>2 DEF Commit, Verified, InFlight
  <2>. QED
    BY <1>4, <1>8, <1>14, <2>1, <2>2 DEF Continue, Invalidated, StopResolving
<1>. QED
  BY <1>1, <1>10, <1>11, <1>12, <1>13, <1>14 DEF Next, Clear, Dispose, callVars

LEMMA Asked == Spec => [](RInv /\ AskedInv)
<1>1. Init => AskedInv
  BY DEF Init, AskedInv, InFlight
<1>. QED
  BY <1>1, InitRInv, NextKeepsRInv, NextKeepsAsked, PTL DEF Spec

\* What the caller of a call is told, seen from the store.
LEMMA OutcomeChanges ==
    ASSUME TypeInv, NEW c \in Calls, NEW why, result' = [result EXCEPT ![c] = why]
    PROVE  LET out == [d \in Calls |-> OutcomeOf(d)]
               told == IF why = "none" THEN "none" ELSE IF why = "ok" THEN "served"
                       ELSE "refused"
           IN  [d \in Calls |-> OutcomeOf(d)]' = [out EXCEPT ![c] = told]
<1>1. \A d \in Calls : result'[d] = IF d = c THEN why ELSE result[d]
  BY DEF TypeInv
<1>. QED
  BY <1>1 DEF OutcomeOf

LEMMA Refuses ==
    ASSUME TypeInv, NEW c \in Calls, NEW why \in Results \ {"none", "ok"}, result[c] = "none",
           result' = [result EXCEPT ![c] = why], UNCHANGED <<entries, disposed, aborted>>
    PROVE  Store!Refuse(c)
<1>1. [d \in Calls |-> OutcomeOf(d)]' = [[d \in Calls |-> OutcomeOf(d)] EXCEPT ![c] = "refused"]
  BY OutcomeChanges
<1>2. OutcomeOf(c) = "none"
  BY DEF OutcomeOf
<1>3. Contents' = Contents
  BY DEF Contents
<1>. QED
  BY <1>1, <1>2, <1>3 DEF Store!Refuse, Store!Settles

LEMMA Serves ==
    ASSUME TypeInv, NEW c \in Calls, NEW r \in Requests, ~Conflict(r), Retain(c, Missing(r)),
           result[c] = "none", ~disposed, ~aborted, UNCHANGED <<disposed, aborted>>
    PROVE  Store!Serve(c, r)
<1>1. entries' = [k \in Keys |->
                    IF \E p \in Missing(r) : p[1] = k
                    THEN <<c, (CHOOSE p \in Missing(r) : p[1] = k)[2]>>
                    ELSE entries[k]]
  BY DEF Retain
<1>2. UNION r \subseteq Keys \X Commitments
  BY RequestsAssumption
<1>3. \A p \in Missing(r) : p \in UNION r /\ entries[p[1]] = NoEntry
  BY DEF Missing
<1>4. ASSUME NEW p \in UNION r
      PROVE  Contents[p[1]] \in {NoEntry, p[2]} /\ Contents'[p[1]] = p[2]
  <2>1. p[1] \in Keys /\ p[2] \in Commitments
    BY <1>2
  <2>2. /\ Contents[p[1]] = IF entries[p[1]] = NoEntry THEN NoEntry ELSE entries[p[1]][2]
        /\ Contents'[p[1]] = IF entries'[p[1]] = NoEntry THEN NoEntry ELSE entries'[p[1]][2]
    BY <2>1 DEF Contents
  <2>3. CASE entries[p[1]] = NoEntry
    <3>1. p \in Missing(r)
      BY <2>3 DEF Missing
    <3>2. PICK q \in Missing(r) : q[1] = p[1] /\ entries'[p[1]] = <<c, q[2]>>
      BY <1>1, <2>1, <3>1
    <3>3. q[2] = p[2]
      BY <1>3, <3>2 DEF Conflict
    <3>4. entries'[p[1]] # NoEntry
      BY <2>1, <3>2, <3>3, NoEntryAssumption
    <3>. QED
      BY <2>2, <2>3, <3>2, <3>3, <3>4
  <2>4. CASE entries[p[1]] # NoEntry
    <3>1. entries[p[1]][2] = p[2]
      BY <2>4 DEF Conflict
    <3>2. entries'[p[1]] = entries[p[1]]
      BY <1>1, <1>3, <2>1, <2>4
    <3>. QED
      BY <2>2, <2>4, <3>1, <3>2
  <2>. QED
    BY <2>3, <2>4
<1>5. ASSUME NEW k \in Keys, \A p \in UNION r : p[1] # k
      PROVE  Contents'[k] = Contents[k]
  <2>1. entries'[k] = entries[k]
    BY <1>1, <1>3, <1>5
  <2>. QED
    BY <2>1 DEF Contents
<1>6. ASSUME NEW k \in Keys PROVE Contents'[k] \in Commitments \cup {NoEntry}
  <2>1. CASE \E p \in UNION r : p[1] = k
    BY <1>2, <1>4, <2>1
  <2>2. CASE \A p \in UNION r : p[1] # k
    <3>1. Contents[k] \in Commitments \cup {NoEntry}
      BY DEF TypeInv, Entries, Contents
    <3>. QED
      BY <1>5, <2>2, <3>1
  <2>. QED
    BY <2>1, <2>2
<1>7. Contents' \in [Keys -> Commitments \cup {NoEntry}]
  BY <1>6 DEF Contents
<1>8. [d \in Calls |-> OutcomeOf(d)]' = [[d \in Calls |-> OutcomeOf(d)] EXCEPT ![c] = "served"]
  BY OutcomeChanges DEF Retain
<1>9. OutcomeOf(c) = "none"
  BY DEF OutcomeOf
<1>. QED
  BY <1>4, <1>5, <1>7, <1>8, <1>9 DEF Store!Serve, Store!Settles

\* Everything goes, and the store may be closed with it.
LEMMA Empties ==
    ASSUME ClearRetained, result' = result, aborted' = aborted,
           disposed' = disposed \/ disposed' = TRUE
    PROVE  Store!Drop \/ Store!Close
<1>1. Contents' = Store!Empty
  BY DEF ClearRetained, NoEntries, Contents, Store!Empty
<1>2. [d \in Calls |-> OutcomeOf(d)]' = [d \in Calls |-> OutcomeOf(d)]
  BY DEF OutcomeOf
<1>3. CASE disposed' = disposed
  BY <1>1, <1>2, <1>3 DEF Store!Drop
<1>4. CASE disposed' = TRUE
  BY <1>1, <1>2, <1>4 DEF Store!Close
<1>. QED
  BY <1>3, <1>4

\* A step of the inside is none of the store's.
LEMMA Stutters ==
    ASSUME result' = result, UNCHANGED <<entries, disposed, aborted>>
    PROVE  UNCHANGED Store!storeVars
<1>1. Contents' = Contents
  BY DEF Contents
<1>2. [d \in Calls |-> OutcomeOf(d)]' = [d \in Calls |-> OutcomeOf(d)]
  BY DEF OutcomeOf
<1>. QED
  BY <1>1, <1>2 DEF Store!storeVars

LEMMA StoreStep == RInv /\ AskedInv /\ [Next]_vars => [Store!StoreNext]_(Store!storeVars)
<1>1. SUFFICES ASSUME RInv, AskedInv, [Next]_vars
               PROVE  Store!StoreNext \/ UNCHANGED Store!storeVars
  OBVIOUS
<1>2. TypeInv /\ CallInv
  BY <1>1 DEF RInv
<1>3. \A c \in Calls : Free(c) \/ stage[c] = "new" \/ InFlight(c) => result[c] = "none"
  BY <1>2 DEF CallInv, Free, InFlight, TypeInv
<1>4. ASSUME NEW c \in Calls, NEW why \in Results \ {"none", "ok"}, Fail(c, why),
             result[c] = "none"
      PROVE  Store!StoreNext
  BY <1>2, <1>4, Refuses DEF Fail, Store!StoreNext
<1>5. ASSUME NEW c \in Calls, Resolve(c)
      PROVE  Store!StoreNext \/ UNCHANGED Store!storeVars
  <2>1. CASE Reject(c)
    BY <1>2, <1>3, <2>1, Refuses DEF Reject, Results, Store!StoreNext
  <2>2. CASE RefuseAborted(c)
    BY <1>3, <1>4, <2>2 DEF RefuseAborted, Results
  <2>3. ASSUME NEW r \in Requests, RefuseRequest(c, r) PROVE Store!StoreNext
    BY <1>3, <1>4, <2>3 DEF RefuseRequest, Results
  <2>4. ASSUME NEW r \in Requests, ServeCached(c, r) PROVE Store!StoreNext
    <3>1. Free(c) /\ ~aborted /\ ~disposed /\ ~Conflict(r) /\ Retain(c, Missing(r))
      BY <2>4 DEF ServeCached, Admitted, Free
    <3>2. UNCHANGED <<disposed, aborted>>
      BY <2>4 DEF ServeCached
    <3>. QED
      BY <1>2, <1>3, <3>1, <3>2, Serves DEF Store!StoreNext
  <2>5. ASSUME NEW r \in Requests, StartResolving(c, r) PROVE UNCHANGED Store!storeVars
    BY <2>5, Stutters DEF StartResolving
  <2>. QED
    BY <1>5, <2>1, <2>2, <2>3, <2>4, <2>5 DEF Resolve
<1>6. ASSUME NEW c \in Calls, ResolverAnswers(c) PROVE UNCHANGED Store!storeVars
  BY <1>6, Stutters DEF ResolverAnswers, Reach
<1>7. ASSUME NEW c \in Calls, Continue(c)
      PROVE  Store!StoreNext \/ UNCHANGED Store!storeVars
  <2>1. InFlight(c) /\ result[c] = "none"
    BY <1>3, <1>7 DEF Continue, StopAsking, HashEnds, Invalidated, StopResolving, AskNext,
                      Commit, Verified, InFlight
  <2>2. CASE StopAsking(c) \/ HashEnds(c)
    BY <2>2, Stutters DEF StopAsking, HashEnds, Reach
  <2>3. CASE Invalidated(c)
    BY <1>4, <2>1, <2>3 DEF Invalidated, Results
  <2>4. CASE StopResolving(c)
    <3>1. PICK why \in {"failed", "aborted"} : Fail(c, why)
      BY <1>2, <2>4 DEF StopResolving, CallInv
    <3>. QED
      BY <1>4, <2>1, <3>1 DEF Results
  <2>5. CASE AskNext(c)
    BY <2>5, Stutters DEF AskNext
  <2>6. CASE Commit(c)
    <3>1. ~Stale(c) /\ ~disposed /\ ~aborted /\ Retain(c, pending[c])
          /\ UNCHANGED <<disposed, aborted>>
      BY <2>6 DEF Commit, Verified, Stale
    <3>2. PICK r \in Requests : pending[c] = Missing(r) /\ ~Conflict(r)
      BY <1>1, <2>1, <3>1 DEF AskedInv
    <3>. QED
      BY <1>2, <2>1, <3>1, <3>2, Serves DEF Store!StoreNext
  <2>. QED
    BY <1>7, <2>2, <2>3, <2>4, <2>5, <2>6 DEF Continue
<1>8. CASE Clear \/ Dispose
  BY <1>8, Empties DEF Clear, Dispose, callVars, Store!StoreNext
<1>9. CASE AbortSession
  <2>1. Contents' = Contents /\ [d \in Calls |-> OutcomeOf(d)]' = [d \in Calls |-> OutcomeOf(d)]
    BY <1>9 DEF AbortSession, callVars, Contents, OutcomeOf
  <2>2. Store!Close
    BY <1>9, <2>1 DEF AbortSession, Store!Close
  <2>. QED
    BY <2>2 DEF Store!StoreNext
<1>10. CASE UNCHANGED vars
  BY <1>10, Stutters DEF vars, callVars
<1>. QED
  BY <1>1, <1>5, <1>6, <1>7, <1>8, <1>9, <1>10 DEF Next

\* A call takes effect for its caller at one moment, whatever runs between its
\* awaits: the session implements a store that serves or refuses.
THEOREM SessionIsAStore == Spec => ImplementsVerifiedStore
<1>1. Init => Store!StoreInit
  BY DEF Init, Store!StoreInit, Store!Empty, NoEntries, Contents, OutcomeOf
<1>. QED
  BY <1>1, Asked, StoreStep, PTL DEF Spec, ImplementsVerifiedStore, Store!StoreSpec

-----------------------------------------------------------------------------
(***************************************************************************)
(* A sum over a finite set is the number of its units.  The sum of the     *)
(* model picks its elements in an order of its own; units are counted in   *)
(* none, so what FiniteSetTheorems knows of cardinalities is known of sums.*)
(* No induction rule that takes a predicate is needed: the subsets of a    *)
(* finite set at which an equation fails have a smallest one, because the  *)
(* order of strict subsets is well founded.                                *)
(***************************************************************************)
\* As many pairs as f says for each element of S.
Units(f, S) == {u \in S \X Nat : u[2] \in 1 .. f[u[1]]}

\* A family of subsets of a finite set has a member none of whose strict subsets
\* is in it.
LEMMA SmallestCounterexample ==
  ASSUME NEW S, IsFiniteSet(S), NEW T \in SUBSET SUBSET S, T # {}
  PROVE \E s \in T : \A t \in T : ~(t \subseteq s /\ t # s)
<1>1. T \subseteq FiniteSubsetsOf(S)
  BY FS_Subset DEF FiniteSubsetsOf
<1>2. \E s \in T : \A t \in T : <<t, s>> \notin StrictSubsetOrdering(S)
  BY <1>1, FS_StrictSubsetOrderingWellFounded, WFMin
<1> QED
  BY <1>2 DEF StrictSubsetOrdering

\* Nothing has no units.
LEMMA UnitsEmpty == ASSUME NEW f PROVE Units(f, {}) = {}
  BY DEF Units

\* One element more has as many units more as f says.
LEMMA UnitsRemove ==
  ASSUME NEW f, NEW S, \A s \in S : f[s] \in Nat, NEW x \in S,
         IsFiniteSet(Units(f, S \ {x}))
  PROVE /\ IsFiniteSet(Units(f, S))
        /\ Cardinality(Units(f, S)) = f[x] + Cardinality(Units(f, S \ {x}))
<1> DEFINE A == {x} \X (1 .. f[x])
           B == Units(f, S \ {x})
<1>1. /\ IsFiniteSet({x}) /\ Cardinality({x}) = 1
      /\ IsFiniteSet(1 .. f[x]) /\ Cardinality(1 .. f[x]) = f[x]
  <2>1. f[x] \in Nat
    OBVIOUS
  <2>2. IsFiniteSet(1 .. f[x]) /\ Cardinality(1 .. f[x]) = f[x]
    BY <2>1, FS_Interval
  <2> QED
    BY <2>2, FS_Singleton
<1>2. IsFiniteSet(A) /\ Cardinality(A) = f[x]
  <2>1. /\ IsFiniteSet({x} \X (1 .. f[x]))
        /\ Cardinality({x} \X (1 .. f[x])) = 1 * f[x]
    BY <1>1, FS_Product
  <2> QED
    BY <2>1
<1>3. A \cap B = {} /\ A \cup B = Units(f, S)
  BY DEF Units
<1>4. Cardinality(B) \in Nat
  BY FS_CardinalityType
<1> HIDE DEF A, B
<1>5. /\ IsFiniteSet(A \cup B)
      /\ Cardinality(A \cup B)
            = Cardinality(A) + Cardinality(B) - Cardinality(A \cap B)
  BY <1>2, FS_Union DEF B
<1>6. Cardinality(A \cap B) = 0
  BY <1>3, FS_EmptySet
<1>7. f[x] \in Nat
  OBVIOUS
<1>8. /\ IsFiniteSet(Units(f, S))
      /\ Cardinality(Units(f, S)) = Cardinality(A) + Cardinality(B) - Cardinality(A \cap B)
  BY <1>3, <1>5, Zenon
<1>9. Cardinality(Units(f, S)) = f[x] + Cardinality(B)
  BY <1>2, <1>4, <1>6, <1>7, <1>8
<1> QED
  BY <1>8, <1>9, Zenon DEF B

\* A finite set has finitely many units.
LEMMA UnitsFinite ==
  ASSUME NEW f, NEW S, IsFiniteSet(S), \A s \in S : f[s] \in Nat
  PROVE IsFiniteSet(Units(f, S)) /\ Cardinality(Units(f, S)) \in Nat
<1> DEFINE T == {s \in SUBSET S : ~IsFiniteSet(Units(f, s))}
<1>1. ASSUME T # {} PROVE FALSE
  <2>1. PICK s \in T : \A t \in T : ~(t \subseteq s /\ t # s)
    <3>1. T \in SUBSET SUBSET S
      OBVIOUS
    <3> HIDE DEF T
    <3> QED
      BY <1>1, <3>1, SmallestCounterexample
  <2>2. s # {}
    BY UnitsEmpty, FS_EmptySet
  <2>3. PICK x \in s : TRUE
    BY <2>2
  <2>4. IsFiniteSet(Units(f, s \ {x}))
    BY <2>1
  <2> QED
    BY <2>4, UnitsRemove
<1> QED
  BY <1>1, FS_CardinalityType

\* The sum is the number of units.
LEMMA SumIsUnits ==
  ASSUME NEW f, NEW S, IsFiniteSet(S), \A s \in S : f[s] \in Nat
  PROVE MapThenSumSet(LAMBDA s : f[s], S) = Cardinality(Units(f, S))
<1> DEFINE ch(s) == CHOOSE x \in s : TRUE
           next(g) == [s \in SUBSET S |-> IF s = {} THEN 0 ELSE f[ch(s)] + g[s \ {ch(s)}]]
           h == [s \in SUBSET S |-> Cardinality(Units(f, s))]
<1>1. MapThenSumSet(LAMBDA s : f[s], S) = (CHOOSE g : g = next(g))[S]
  BY DEF MapThenSumSet, MapThenFoldSet
<1>2. ASSUME NEW s \in SUBSET S, s # {}
      PROVE /\ ch(s) \in s
            /\ Cardinality(Units(f, s)) = f[ch(s)] + Cardinality(Units(f, s \ {ch(s)}))
  <2>1. ch(s) \in s
    BY <1>2
  <2>2. IsFiniteSet(s \ {ch(s)})
    BY FS_Subset
  <2> HIDE DEF ch
  <2>3. IsFiniteSet(Units(f, s \ {ch(s)}))
    BY <2>2, UnitsFinite
  <2> QED
    BY <2>1, <2>3, UnitsRemove
<1> HIDE DEF ch
<1>3. h = next(h)
  BY <1>2, UnitsEmpty, FS_EmptySet
<1>4. ASSUME NEW g, g = next(g) PROVE g[S] = Cardinality(Units(f, S))
  <2> DEFINE T == {s \in SUBSET S : g[s] # Cardinality(Units(f, s))}
  <2>1. ASSUME T # {} PROVE FALSE
    <3>1. PICK s \in T : \A t \in T : ~(t \subseteq s /\ t # s)
      <4>1. T \in SUBSET SUBSET S
        OBVIOUS
      <4> HIDE DEF T
      <4> QED
        BY <2>1, <4>1, SmallestCounterexample
    <3>2. g[s] = IF s = {} THEN 0 ELSE f[ch(s)] + g[s \ {ch(s)}]
      BY <1>4
    <3>3. s # {}
      BY <3>1, <3>2, UnitsEmpty, FS_EmptySet
    <3>4. g[s \ {ch(s)}] = Cardinality(Units(f, s \ {ch(s)}))
      BY <3>1, <3>3, <1>2
    <3> QED
      BY <3>1, <3>2, <3>3, <3>4, <1>2
  <2> QED
    BY <2>1
<1> HIDE DEF next, h
<1>5. (CHOOSE g : g = next(g)) = next(CHOOSE g : g = next(g))
  BY <1>3
<1> QED
  BY <1>1, <1>4, <1>5

-----------------------------------------------------------------------------
\* A kept resource as the pair of its key and its commitment, and its bytes.
PairLength == [p \in Keys \X Commitments |-> Length[p[2]]]
BytesIn(pairs) == Cardinality(Units(PairLength, pairs))
KeptPairs == {p \in Keys \X Commitments : entries[p[1]] # NoEntry /\ entries[p[1]][2] = p[2]}

\* The counters are those of what is kept, and a call in flight that will be
\* retained fits the budgets together with what is kept: it was admitted against
\* counters nobody else has raised since.
AccountInv ==
    /\ IsFiniteSet(KeptPairs)
    /\ count = Cardinality(KeptPairs) /\ count <= MaxResources
    /\ bytes = BytesIn(KeptPairs) /\ bytes <= MaxBytes
    /\ \A c \in Calls : InFlight(c) /\ ~Stale(c) =>
          /\ count + Cardinality(pending[c]) <= MaxResources
          /\ bytes + BytesIn(pending[c]) <= MaxBytes

\* The sum of the model is the number of units.
LEMMA LengthsOfPairs ==
    ASSUME NEW pairs \in SUBSET (Keys \X Commitments), IsFiniteSet(pairs)
    PROVE  /\ IsFiniteSet(Units(PairLength, pairs))
           /\ Cardinality(pairs) \in Nat /\ BytesIn(pairs) \in Nat
           /\ LengthOf(pairs) = BytesIn(pairs)
<1>. DEFINE one(s) == CHOOSE x \in s : TRUE
            sum(g) == [s \in SUBSET pairs |->
                          IF s = {} THEN 0 ELSE PairLength[one(s)] + g[s \ {one(s)}]]
            length(g) == [s \in SUBSET pairs |->
                             IF s = {} THEN 0 ELSE Length[one(s)[2]] + g[s \ {one(s)}]]
<1>1. MapThenSumSet(LAMBDA p : PairLength[p], pairs) = (CHOOSE g : g = sum(g))[pairs]
  BY DEF MapThenSumSet, MapThenFoldSet
<1>2. LengthOf(pairs) = (CHOOSE g : g = length(g))[pairs]
  BY DEF MapThenSumSet, MapThenFoldSet, LengthOf
<1>3. \A p \in pairs : PairLength[p] = Length[p[2]] /\ PairLength[p] \in Nat
  BY LengthAssumption DEF PairLength
<1>4. ASSUME NEW g PROVE sum(g) = length(g)
  BY <1>3
<1>. HIDE DEF sum, length
<1>5. (CHOOSE g : g = sum(g)) = (CHOOSE g : g = length(g))
  BY <1>4
<1>6. LengthOf(pairs) = BytesIn(pairs)
  BY <1>1, <1>2, <1>3, <1>5, SumIsUnits DEF BytesIn
<1>. QED
  BY <1>3, <1>6, UnitsFinite, FS_CardinalityType DEF BytesIn

\* What is added is counted once.
LEMMA JoinPairs ==
    ASSUME NEW S \in SUBSET (Keys \X Commitments), IsFiniteSet(S),
           NEW T \in SUBSET (Keys \X Commitments), IsFiniteSet(T), S \cap T = {}
    PROVE  /\ IsFiniteSet(S \cup T)
           /\ Cardinality(S \cup T) = Cardinality(S) + Cardinality(T)
           /\ BytesIn(S \cup T) = BytesIn(S) + BytesIn(T)
<1> DEFINE A == Units(PairLength, S)
           B == Units(PairLength, T)
<1>1. /\ IsFiniteSet(A) /\ IsFiniteSet(B)
      /\ Cardinality(S) \in Nat /\ Cardinality(T) \in Nat
      /\ Cardinality(A) \in Nat /\ Cardinality(B) \in Nat
  BY LengthsOfPairs DEF BytesIn
<1>2. A \cap B = {} /\ Units(PairLength, S \cup T) = A \cup B
  BY DEF Units
<1>3. Cardinality({}) = 0
  BY FS_EmptySet
<1> HIDE DEF A, B
<1>4. /\ IsFiniteSet(S \cup T)
      /\ Cardinality(S \cup T) = Cardinality(S) + Cardinality(T) - Cardinality(S \cap T)
  BY FS_Union, Zenon
<1>5. Cardinality(A \cup B) = Cardinality(A) + Cardinality(B) - Cardinality(A \cap B)
  BY <1>1, FS_Union, Zenon
<1>6. Cardinality(S \cup T) = Cardinality(S) + Cardinality(T)
  <2>1. Cardinality(S \cap T) = 0
    BY <1>3
  <2> QED
    BY <1>1, <1>4, <2>1
<1>7. Cardinality(A \cup B) = Cardinality(A) + Cardinality(B)
  <2>1. Cardinality(A \cap B) = 0
    BY <1>2, <1>3
  <2> QED
    BY <1>1, <1>5, <2>1
<1>. QED
  BY <1>2, <1>4, <1>6, <1>7 DEF BytesIn, A, B

\* A request is missing finitely many resources, one per key unless it conflicts.
LEMMA RequestFinite ==
    ASSUME NEW r \in Requests
    PROVE  /\ Missing(r) \in SUBSET (Keys \X Commitments)
           /\ IsFiniteSet(Missing(r))
           /\ ~Conflict(r) =>
                 \A p, q \in Missing(r) : p[1] = q[1] => p = q
<1>1. UNION r \subseteq Keys \X Commitments /\ IsFiniteSet(UNION r)
  BY RequestsAssumption
<1>2. IsFiniteSet(Missing(r))
  BY <1>1, FS_Subset DEF Missing
<1>3. ASSUME ~Conflict(r), NEW p \in Missing(r), NEW q \in Missing(r), p[1] = q[1]
      PROVE  p = q
  <2>1. p \in Keys \X Commitments /\ q \in Keys \X Commitments
    BY <1>1 DEF Missing
  <2>2. p[2] = q[2]
    BY <1>3 DEF Conflict, Missing
  <2> QED
    BY <1>3, <2>1, <2>2
<1>. QED
  BY <1>1, <1>2, <1>3 DEF Missing

\* Steps that change neither what is kept nor what is missing.
LEMMA QuietKeepsAccount ==
    ASSUME AccountInv, entries' = entries, count' = count, bytes' = bytes,
           pending' = pending, started' = started, generation' = generation,
           disposed' = disposed, \A c \in Calls : InFlight(c)' => InFlight(c)
    PROVE  AccountInv'
<1>1. KeptPairs' = KeptPairs
  BY DEF KeptPairs
<1>2. \A c \in Calls : Stale(c)' = Stale(c)
  BY DEF Stale
<1>3. \A c \in Calls : BytesIn(pending[c])' = BytesIn(pending[c])
  BY DEF BytesIn, PairLength
<1>4. BytesIn(KeptPairs)' = BytesIn(KeptPairs)
  BY <1>1 DEF BytesIn, PairLength
<1>. QED
  BY <1>1, <1>2, <1>3, <1>4 DEF AccountInv

\* A call is admitted when what it is missing fits the budgets.
LEMMA StartKeepsAccount ==
    ASSUME RInv, AccountInv, NEW c \in Calls, NEW r \in Requests, StartResolving(c, r)
    PROVE  AccountInv'
<1>1. TypeInv /\ OneCallInFlight
  BY DEF RInv
<1>2. /\ entries' = entries /\ count' = count /\ bytes' = bytes
      /\ pending' = [pending EXCEPT ![c] = Missing(r)]
      /\ stage' = [stage EXCEPT ![c] = "asking"]
      /\ ~OverLimit(r) /\ ~active
  BY DEF StartResolving, Admitted, Free
<1>3. \A d \in Calls : d # c => ~InFlight(d)'
  BY <1>1, <1>2 DEF OneCallInFlight, TypeInv, InFlight
<1>4. pending'[c] = Missing(r)
  BY <1>1, <1>2 DEF TypeInv
<1>5. /\ KeptPairs \in SUBSET (Keys \X Commitments) /\ IsFiniteSet(KeptPairs)
      /\ count = Cardinality(KeptPairs) /\ count <= MaxResources
      /\ bytes = BytesIn(KeptPairs) /\ bytes <= MaxBytes
  BY DEF AccountInv, KeptPairs
<1>6. /\ count \in Nat /\ bytes \in Nat
      /\ Cardinality(Missing(r)) \in Nat /\ BytesIn(Missing(r)) \in Nat
      /\ LengthOf(Missing(r)) = BytesIn(Missing(r))
  BY <1>5, RequestFinite, LengthsOfPairs
<1>7. MaxResources \in Nat /\ MaxBytes \in Nat
  BY LimitsAssumption
<1>8. /\ count + Cardinality(Missing(r)) <= MaxResources
      /\ bytes + BytesIn(Missing(r)) <= MaxBytes
  <2>1. /\ ~(Cardinality(Missing(r)) > MaxResources - count)
        /\ ~(BytesIn(Missing(r)) > MaxBytes - bytes)
    BY <1>2, <1>6 DEF OverLimit
  <2>. QED
    BY <1>6, <1>7, <2>1
<1>9. KeptPairs' = KeptPairs
  BY <1>2 DEF KeptPairs
<1>10. BytesIn(KeptPairs)' = BytesIn(KeptPairs) /\ BytesIn(pending[c])' = BytesIn(Missing(r))
  BY <1>4, <1>9 DEF BytesIn, PairLength
<1>. QED
  BY <1>2, <1>3, <1>4, <1>5, <1>8, <1>9, <1>10 DEF AccountInv

\* What is kept after a call retained what it added.
LEMMA RetainKeepsAccount ==
    ASSUME RInv, AccountInv, NEW c \in Calls, Free(c) \/ InFlight(c),
           NEW added \in SUBSET (Keys \X Commitments), IsFiniteSet(added),
           \A p, q \in added : p[1] = q[1] => p = q,
           \A p \in added : entries[p[1]] = NoEntry,
           count + Cardinality(added) <= MaxResources,
           bytes + BytesIn(added) <= MaxBytes,
           Retain(c, added)
    PROVE  AccountInv'
<1> DEFINE kept == [k \in Keys |->
                    IF \E p \in added : p[1] = k
                    THEN <<c, (CHOOSE p \in added : p[1] = k)[2]>>
                    ELSE entries[k]]
<1>1. TypeInv /\ OneCallInFlight
  BY DEF RInv
<1>2. /\ entries' = kept /\ stage' = [stage EXCEPT ![c] = "done"]
      /\ count' = count + Cardinality(added)
      /\ bytes' = bytes + LengthOf(added)
  BY DEF Retain
<1>3. \A d \in Calls : ~InFlight(d)'
  BY <1>1, <1>2 DEF Free, InFlight, OneCallInFlight, TypeInv
<1>4. KeptPairs' = KeptPairs \cup added /\ KeptPairs \cap added = {}
  <2>1. ASSUME NEW p \in Keys \X Commitments, \E q \in added : q[1] = p[1]
        PROVE  p \in KeptPairs' <=> p \in added
    <3>1. PICK q \in added : q[1] = p[1]
      BY <2>1
    <3>2. (CHOOSE x \in added : x[1] = p[1]) = q
      BY <3>1
    <3>3. kept[p[1]] = <<c, q[2]>>
      BY <3>1, <3>2
    <3>4. p \in added <=> p[2] = q[2]
      BY <3>1
    <3>5. <<c, q[2]>> # NoEntry
      BY NoEntryAssumption
    <3> HIDE DEF kept
    <3>. QED
      BY <1>2, <3>3, <3>4, <3>5 DEF KeptPairs
  <2>2. ASSUME NEW p \in Keys \X Commitments, ~\E q \in added : q[1] = p[1]
        PROVE  p \in KeptPairs' <=> p \in KeptPairs
    <3>1. kept[p[1]] = entries[p[1]]
      BY <2>2
    <3> HIDE DEF kept
    <3>. QED
      BY <1>2, <3>1 DEF KeptPairs
  <2>3. KeptPairs \cap added = {}
    BY DEF KeptPairs
  <2>4. ASSUME NEW p \in Keys \X Commitments
        PROVE  p \in KeptPairs' <=> p \in KeptPairs \/ p \in added
    <3>1. CASE \E q \in added : q[1] = p[1]
      BY <2>1, <3>1 DEF KeptPairs
    <3>2. CASE ~\E q \in added : q[1] = p[1]
      BY <2>2, <3>2
    <3> QED
      BY <3>1, <3>2
  <2>5. KeptPairs' \subseteq Keys \X Commitments /\ KeptPairs \subseteq Keys \X Commitments
    BY DEF KeptPairs
  <2>. QED
    BY <2>3, <2>4, <2>5
<1> HIDE DEF kept
<1>5. /\ KeptPairs \in SUBSET (Keys \X Commitments) /\ IsFiniteSet(KeptPairs)
      /\ count = Cardinality(KeptPairs) /\ bytes = BytesIn(KeptPairs)
  BY DEF AccountInv, KeptPairs
<1>6. /\ IsFiniteSet(KeptPairs')
      /\ Cardinality(KeptPairs') = count + Cardinality(added)
      /\ BytesIn(KeptPairs \cup added) = bytes + BytesIn(added)
  BY <1>4, <1>5, JoinPairs
<1>7. BytesIn(KeptPairs)' = BytesIn(KeptPairs \cup added)
  BY <1>4 DEF BytesIn, PairLength
<1>8. LengthOf(added) = BytesIn(added)
  BY LengthsOfPairs
<1>. QED
  BY <1>2, <1>3, <1>6, <1>7, <1>8 DEF AccountInv

\* A session that keeps nothing.
LEMMA EmptyAccount ==
    ASSUME entries = NoEntries, count = 0, bytes = 0,
           \A c \in Calls : InFlight(c) => Stale(c)
    PROVE  AccountInv
<1>1. KeptPairs = {}
  BY DEF KeptPairs, NoEntries
<1>2. IsFiniteSet({}) /\ Cardinality({}) = 0 /\ BytesIn({}) = 0
  BY FS_EmptySet, UnitsEmpty DEF BytesIn
<1>. QED
  BY <1>1, <1>2, LimitsAssumption DEF AccountInv

\* The steps of one call.
LEMMA ResolveKeepsAccount ==
    ASSUME RInv, AccountInv, NEW c \in Calls, Resolve(c)
    PROVE  AccountInv'
<1>1. TypeInv
  BY DEF RInv
<1>2. ASSUME stage' = [stage EXCEPT ![c] = "done"]
      PROVE  \A d \in Calls : InFlight(d)' => InFlight(d)
  BY <1>1, <1>2 DEF TypeInv, InFlight
<1>3. CASE Reject(c)
  BY <1>2, <1>3, QuietKeepsAccount DEF Reject
<1>4. ASSUME NEW why, Fail(c, why) PROVE AccountInv'
  BY <1>2, <1>4, QuietKeepsAccount DEF Fail
<1>5. ASSUME NEW r \in Requests, ServeCached(c, r) PROVE AccountInv'
  <2>1. Free(c) /\ Retain(c, {})
    BY <1>5 DEF ServeCached, Admitted
  <2>2. IsFiniteSet({}) /\ Cardinality({}) = 0 /\ BytesIn({}) = 0
    BY FS_EmptySet, UnitsEmpty DEF BytesIn
  <2>3. /\ count = Cardinality(KeptPairs) /\ count <= MaxResources
        /\ bytes = BytesIn(KeptPairs) /\ bytes <= MaxBytes
        /\ IsFiniteSet(KeptPairs)
    BY DEF AccountInv
  <2>4. count \in Nat /\ bytes \in Nat
    <3>1. KeptPairs \in SUBSET (Keys \X Commitments)
      BY DEF KeptPairs
    <3>. QED
      BY <2>3, <3>1, LengthsOfPairs
  <2>5. /\ count + Cardinality({}) <= MaxResources
        /\ bytes + BytesIn({}) <= MaxBytes
    BY <2>2, <2>3, <2>4
  <2>. QED
    BY <2>1, <2>2, <2>5, RetainKeepsAccount
<1>. QED
  BY <1>3, <1>4, <1>5, StartKeepsAccount DEF Resolve, RefuseAborted, RefuseRequest

\* The steps of a call in flight and the answers it gets.
LEMMA ContinueKeepsAccount ==
    ASSUME RInv, AskedInv, AccountInv, NEW c \in Calls, Continue(c) \/ ResolverAnswers(c)
    PROVE  AccountInv'
<1>1. TypeInv
  BY DEF RInv
<1>2. ASSUME NEW to, NEW what, InFlight(c), Reach(c, to, what) PROVE AccountInv'
  <2>1. \A d \in Calls : InFlight(d)' => InFlight(d)
    BY <1>1, <1>2 DEF Reach, TypeInv, InFlight
  <2>. QED
    BY <1>2, <2>1, QuietKeepsAccount DEF Reach
<1>3. ASSUME NEW why, Fail(c, why) PROVE AccountInv'
  <2>1. \A d \in Calls : InFlight(d)' => InFlight(d)
    BY <1>1, <1>3 DEF Fail, TypeInv, InFlight
  <2>. QED
    BY <1>3, <2>1, QuietKeepsAccount DEF Fail
<1>4. CASE AskNext(c)
  <2>1. \A d \in Calls : InFlight(d)' => InFlight(d)
    BY <1>1, <1>4 DEF AskNext, Verified, TypeInv, InFlight
  <2>. QED
    BY <1>4, <2>1, QuietKeepsAccount DEF AskNext
<1>5. CASE Commit(c)
  <2>1. InFlight(c) /\ ~Stale(c) /\ Retain(c, pending[c])
    BY <1>5 DEF Commit, Verified, InFlight
  <2>2. /\ pending[c] \in SUBSET (Keys \X Commitments)
        /\ \A p \in pending[c] : entries[p[1]] = NoEntry
    BY <1>5, CommitAdds
  <2>3. PICK r \in Requests : pending[c] = Missing(r) /\ ~Conflict(r)
    BY <2>1 DEF AskedInv
  <2>4. /\ IsFiniteSet(pending[c])
        /\ \A p, q \in pending[c] : p[1] = q[1] => p = q
    BY <2>3, RequestFinite
  <2>5. /\ count + Cardinality(pending[c]) <= MaxResources
        /\ bytes + BytesIn(pending[c]) <= MaxBytes
    BY <2>1 DEF AccountInv
  <2>. QED
    BY <2>1, <2>2, <2>4, <2>5, RetainKeepsAccount
<1>. QED
  BY <1>2, <1>3, <1>4, <1>5
     DEF Continue, ResolverAnswers, StopAsking, HashEnds, Invalidated, StopResolving,
         InFlight

\* Clearing zeroes the counters and makes every call in flight stale.
LEMMA ClearKeepsAccount ==
    ASSUME RInv, ClearRetained, started' = started
    PROVE  AccountInv'
<1>1. \A c \in Calls : started'[c] # generation'
  BY DEF RInv, CallInv, TypeInv, ClearRetained
<1>2. KeptPairs' = {}
  BY DEF KeptPairs, NoEntries, ClearRetained
<1>3. IsFiniteSet({}) /\ Cardinality({}) = 0 /\ BytesIn({})' = 0
  BY FS_EmptySet, UnitsEmpty DEF BytesIn
<1>4. \A c \in Calls : Stale(c)'
  BY <1>1 DEF Stale
<1>5. count' = 0 /\ bytes' = 0 /\ MaxResources \in Nat /\ MaxBytes \in Nat
  BY LimitsAssumption DEF ClearRetained
<1>6. BytesIn(KeptPairs)' = 0
  BY <1>2, <1>3 DEF BytesIn
<1>. QED
  BY <1>2, <1>3, <1>4, <1>5, <1>6 DEF AccountInv

\* Every step keeps the accounts.
LEMMA NextKeepsAccount == RInv /\ AskedInv /\ AccountInv /\ [Next]_vars => AccountInv'
<1>1. SUFFICES ASSUME RInv, AskedInv, AccountInv, [Next]_vars PROVE AccountInv'
  OBVIOUS
<1>2. CASE Clear \/ Dispose
  BY <1>1, <1>2, ClearKeepsAccount DEF Clear, Dispose, callVars
<1>3. CASE AbortSession \/ UNCHANGED vars
  BY <1>1, <1>3, QuietKeepsAccount DEF AbortSession, vars, callVars, InFlight
<1>. QED
  BY <1>1, <1>2, <1>3, ResolveKeepsAccount, ContinueKeepsAccount DEF Next

\* The inductive invariant of the budgets.
LEMMA Accounted == Spec => [](RInv /\ AccountInv)
<1>1. Init => AccountInv
  BY EmptyAccount DEF Init, InFlight
<1>. QED
  BY <1>1, Asked, Inductive, NextKeepsAccount, PTL DEF Spec

\* Every entry is one pair.
LEMMA KeptPairsAreKept ==
    ASSUME TypeInv, IsFiniteSet(KeptPairs)
    PROVE  /\ IsFiniteSet(Kept) /\ Cardinality(Kept) = Cardinality(KeptPairs)
           /\ MapThenSumSet(LAMBDA k : Length[entries[k][2]], Kept) = BytesIn(KeptPairs)
<1> DEFINE pair == [k \in Kept |-> <<k, entries[k][2]>>]
           f == [k \in Kept |-> Length[entries[k][2]]]
           unit == [u \in Units(f, Kept) |-> <<pair[u[1]], u[2]>>]
<1>1. ASSUME NEW k \in Kept
      PROVE  pair[k] \in KeptPairs /\ pair[k][1] = k /\ PairLength[pair[k]] = f[k]
             /\ f[k] \in Nat
  <2>1. k \in Keys /\ entries[k] # NoEntry /\ entries[k][2] \in Commitments
    BY DEF TypeInv, Entries, Kept
  <2>2. <<k, entries[k][2]>> \in KeptPairs
    BY <2>1 DEF KeptPairs
  <2>3. Length[entries[k][2]] \in Nat
    BY <2>1, LengthAssumption
  <2>4. PairLength[<<k, entries[k][2]>>] = Length[entries[k][2]]
    BY <2>1 DEF PairLength
  <2>. QED
    BY <2>2, <2>3, <2>4
<1>2. ASSUME NEW p \in KeptPairs PROVE p[1] \in Kept /\ pair[p[1]] = p
  BY DEF Kept, KeptPairs
<1>3. pair \in Bijection(Kept, KeptPairs)
  <2>1. pair \in [Kept -> KeptPairs]
    BY <1>1
  <2>2. \A j, k \in Kept : pair[j] = pair[k] => j = k
    BY <1>1
  <2>3. \A p \in KeptPairs : \E k \in Kept : pair[k] = p
    BY <1>2
  <2> HIDE DEF pair
  <2> QED
    BY <2>1, <2>2, <2>3 DEF Bijection, Injection, Surjection, IsInjective
<1>4. \A u \in Units(f, Kept) : u \in Kept \X Nat /\ u[2] \in 1 .. f[u[1]]
  BY DEF Units
<1>5. \A v \in Units(PairLength, KeptPairs) :
         v \in KeptPairs \X Nat /\ v[2] \in 1 .. PairLength[v[1]]
  BY DEF Units
<1> HIDE DEF pair, f
<1>6. unit \in Bijection(Units(f, Kept), Units(PairLength, KeptPairs))
  <2>1. unit \in [Units(f, Kept) -> Units(PairLength, KeptPairs)]
    <3>1. ASSUME NEW u \in Units(f, Kept)
          PROVE  <<pair[u[1]], u[2]>> \in Units(PairLength, KeptPairs)
      BY <1>1, <1>4 DEF Units
    <3> QED
      BY <3>1
  <2>2. \A u, w \in Units(f, Kept) : unit[u] = unit[w] => u = w
    <3>1. SUFFICES ASSUME NEW u \in Units(f, Kept), NEW w \in Units(f, Kept),
                          pair[u[1]] = pair[w[1]], u[2] = w[2]
                   PROVE  u = w
      OBVIOUS
    <3>2. u[1] = w[1]
      BY <1>1, <1>4, <3>1
    <3> QED
      BY <1>4, <3>1, <3>2
  <2>3. ASSUME NEW v \in Units(PairLength, KeptPairs)
        PROVE  \E u \in Units(f, Kept) : unit[u] = v
    <3>1. v[1] \in KeptPairs /\ v = <<v[1], v[2]>> /\ v[2] \in Nat
          /\ v[2] \in 1 .. PairLength[v[1]]
      BY <1>5
    <3>2. v[1][1] \in Kept /\ pair[v[1][1]] = v[1] /\ f[v[1][1]] = PairLength[v[1]]
      BY <1>1, <1>2, <3>1
    <3>3. <<v[1][1], v[2]>> \in Units(f, Kept)
      BY <3>1, <3>2 DEF Units
    <3>4. unit[<<v[1][1], v[2]>>] = v
      BY <3>1, <3>2, <3>3
    <3> QED
      BY <3>3, <3>4
  <2> HIDE DEF unit
  <2> QED
    BY <2>1, <2>2, <2>3 DEF Bijection, Injection, Surjection, IsInjective
<1>7. IsFiniteSet(Kept) /\ Cardinality(Kept) = Cardinality(KeptPairs)
  BY <1>3, FS_Injection DEF Bijection
<1>8. IsFiniteSet(Units(PairLength, KeptPairs))
  BY LengthsOfPairs DEF KeptPairs
<1>9. Cardinality(Units(f, Kept)) = BytesIn(KeptPairs)
  <2> HIDE DEF unit
  <2> QED
    BY <1>6, <1>8, FS_Injection DEF Bijection, BytesIn
<1>10. MapThenSumSet(LAMBDA k : Length[entries[k][2]], Kept) = Cardinality(Units(f, Kept))
  <2> DEFINE one(s) == CHOOSE x \in s : TRUE
             sum(g) == [s \in SUBSET Kept |->
                           IF s = {} THEN 0 ELSE f[one(s)] + g[s \ {one(s)}]]
             length(g) == [s \in SUBSET Kept |->
                              IF s = {} THEN 0
                              ELSE Length[entries[one(s)][2]] + g[s \ {one(s)}]]
  <2>1. MapThenSumSet(LAMBDA k : f[k], Kept) = (CHOOSE g : g = sum(g))[Kept]
    BY DEF MapThenSumSet, MapThenFoldSet
  <2>2. MapThenSumSet(LAMBDA k : Length[entries[k][2]], Kept)
            = (CHOOSE g : g = length(g))[Kept]
    BY DEF MapThenSumSet, MapThenFoldSet
  <2>3. \A k \in Kept : f[k] = Length[entries[k][2]]
    BY DEF f
  <2>4. ASSUME NEW g PROVE sum(g) = length(g)
    BY <2>3
  <2>. HIDE DEF sum, length
  <2>5. (CHOOSE g : g = sum(g)) = (CHOOSE g : g = length(g))
    BY <2>4
  <2>. QED
    BY <1>1, <1>7, <2>1, <2>2, <2>5, SumIsUnits
<1> QED
  BY <1>7, <1>9, <1>10

\* A state is accounted for: its types, counters included, and its counters.
LEMMA Counters ==
    ASSUME RInv, AccountInv
    PROVE  TypeOK /\ CountersMatchEntries
<1>1. TypeInv /\ KeptPairs \in SUBSET (Keys \X Commitments)
  BY DEF RInv, KeptPairs
<1>2. /\ IsFiniteSet(KeptPairs)
      /\ count = Cardinality(KeptPairs) /\ count <= MaxResources
      /\ bytes = BytesIn(KeptPairs) /\ bytes <= MaxBytes
  BY DEF AccountInv
<1>3. count \in Nat /\ bytes \in Nat
  BY <1>1, <1>2, LengthsOfPairs
<1>4. TypeOK
  BY <1>1, <1>3 DEF TypeInv, TypeOK
<1>5. CountersMatchEntries
  BY <1>1, <1>2, KeptPairsAreKept DEF CountersMatchEntries
<1>. QED
  BY <1>4, <1>5

\* Type correctness for any calls, requests and limits, the counters included.
THEOREM TypeCorrect == Spec => []TypeOK
  BY Accounted, Counters, PTL

\* The counters the budgets are checked against are exactly the number and the bytes
\* of the entries kept, whatever calls ran, failed or were invalidated, and they are
\* within the limits.
THEOREM CountersAreExact == Spec => []CountersMatchEntries
  BY Accounted, Counters, PTL
=============================================================================
