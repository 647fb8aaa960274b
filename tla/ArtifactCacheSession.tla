------------------------- MODULE ArtifactCacheSession -------------------------
(***************************************************************************)
(* ArtifactCacheSession (src/artifact-cache.ts): reads, writes, deletes    *)
(* and encode-and-writes of the sessions that share one store.  TurnQueue  *)
(* serializes the operations of a session; this module adds what an        *)
(* operation does while it holds the turn, one action per stretch of code  *)
(* between two awaits.                                                     *)
(*                                                                         *)
(* A session has budgets: operations, bytes read and bytes written.  An    *)
(* operation computes what it may still spend before it calls the store or *)
(* the encoder, and charges what it got after the await; the budget holds  *)
(* because nobody else of the session runs in between.  Sibling sessions   *)
(* (createSibling) share the store, the mode and the limits, but have      *)
(* counters and a queue of their own.                                      *)
(*                                                                         *)
(* The store and the encoder are external.  The store may hold anything at *)
(* the start, may ignore the byte ceiling it is given, and may fail with or*)
(* without having done its work.                                           *)
(***************************************************************************)
EXTENDS TurnQueue, FiniteSetsExt

CONSTANTS
    Keys,               \* well-formed cache keys
    MalformedKey,       \* any key that does not match its own metadata
    PayloadBytes,       \* the sizes a payload may have
    Supplied,           \* the records that come from outside: already in the
                        \* store, or given to write()
    NoRecord,           \* what the store returns for an unknown key
    MalformedRecord,    \* any value that is not a record envelope
    MaxOperations,      \* the four limits of the session
    MaxEntryBytes,
    MaxTotalReadBytes,
    MaxTotalWriteBytes

ASSUME LimitsAssumption ==
    {MaxOperations, MaxEntryBytes, MaxTotalReadBytes, MaxTotalWriteBytes}
        \subseteq Nat
ASSUME BytesAssumption == PayloadBytes \subseteq Nat
ASSUME KeysAssumption == MalformedKey \notin Keys

Modes == {"read-write", "read-only", "write-only"}
Kinds == {"read", "write", "encode", "delete"}

\* An intact record has a payload whose digest matches.
Records == [key : Keys, bytes : PayloadBytes, intact : BOOLEAN]

ASSUME RecordsAssumption ==
    /\ NoRecord \notin Records /\ MalformedRecord \notin Records
    /\ Supplied \subseteq Records \cup {MalformedRecord}

VARIABLES
    mode,        \* of every session
    opCount,     \* #operationCount of each session
    readBytes,   \* #readByteCount
    writeBytes,  \* #writeByteCount
    records,     \* what the store holds under each key
    task         \* what each operation does

sessionVars == <<mode, opCount, readBytes, writeBytes, records, task>>
cacheVars == <<queueVars, sessionVars>>

Steps == {"none", "stopping", "keying", "calling", "answered", "validating",
          "encoding", "ended"}
Judgements == {"ok", "invalid", "limit", "error"}
Verdicts == {"none", "hit", "miss", "written", "deleted", "bypassed"}
                \cup {"aborted"} \cup (Judgements \ {"ok"})

Tasks == [kind : Kinds,
          key : Keys \cup {MalformedKey},
          step : Steps,                    \* the await the operation is at
          record : Records \cup {NoRecord, MalformedRecord},
          judged : Judgements,             \* of the store call or the record
          limit : Nat,                     \* payloadLimit.limit
          verdict : Verdicts]

NoTask == [kind |-> "read", key |-> MalformedKey, step |-> "none",
           record |-> NoRecord, judged |-> "ok", limit |-> 0,
           verdict |-> "none"]

CacheInit ==
    /\ QueueInit
    /\ mode \in Modes
    /\ opCount = [s \in Sessions |-> 0]
    /\ readBytes = [s \in Sessions |-> 0]
    /\ writeBytes = [s \in Sessions |-> 0]
    /\ records \in [Keys -> Supplied \cup {NoRecord}]
    /\ task = [op \in Ops |-> NoTask]

-----------------------------------------------------------------------------
Running(op, step) == phase[op] = "running" /\ task[op].step = step

At(op, step) == task' = [task EXCEPT ![op].step = step]

\* The operation ends with a verdict and releases its turn.
Settle(op, verdict) ==
    /\ Exit(op)
    /\ task' = [task EXCEPT ![op].step = "ended", ![op].verdict = verdict]

Budgets == <<opCount, readBytes, writeBytes>>

\* read(), write(), delete() and the private encodeAndWrite(): the request is
\* captured before the operation takes its turn.
SubmitTask(op, s) ==
    /\ Submit(op, s)
    /\ \E k \in Keys \cup {MalformedKey} :
          task' = [task EXCEPT ![op] =
                      [NoTask EXCEPT !.kind = "read", !.key = k]]
       \/ task' = [task EXCEPT ![op] =
                      [NoTask EXCEPT !.kind = "delete", !.key = k]]
       \/ task' = [task EXCEPT ![op] =
                      [NoTask EXCEPT !.kind = "encode", !.key = k]]
       \/ \E r \in Supplied :
             /\ IF r = MalformedRecord THEN k = MalformedKey ELSE k = r.key
             /\ task' = [task EXCEPT ![op] =
                            [NoTask EXCEPT !.kind = "write", !.key = k,
                                           !.record = r]]
    /\ UNCHANGED <<mode, Budgets, records>>

\* The operation has the turn; it looks at its signal and normalizes its key.
Begin(op) ==
    /\ Enter(op)
    /\ At(op, IF op \in aborted THEN "stopping" ELSE "keying")
    /\ UNCHANGED <<mode, Budgets, records>>

StopAborted(op) ==
    /\ Running(op, "stopping")
    /\ Settle(op, "aborted")
    /\ UNCHANGED <<mode, Budgets, records>>

RefuseKey(op) ==
    /\ Running(op, "keying")
    /\ task[op].key = MalformedKey
    /\ Settle(op, "invalid")
    /\ UNCHANGED <<mode, Budgets, records>>

\* The second look at the signal, after the key was normalized.
StopKeyed(op) ==
    /\ Running(op, "keying")
    /\ task[op].key # MalformedKey
    /\ op \in aborted
    /\ Settle(op, "aborted")
    /\ UNCHANGED <<mode, Budgets, records>>

-----------------------------------------------------------------------------
Keyed(op) ==
    Running(op, "keying") /\ task[op].key # MalformedKey /\ op \notin aborted

\* Mutation: a read-only session still deletes.
BypassedUnlessDelete(op) ==
    CASE task[op].kind = "read" -> mode = "write-only"
      [] task[op].kind = "delete" -> FALSE
      [] OTHER -> mode = "read-only"

Bypassed(op) ==
    IF task[op].kind = "read" THEN mode = "write-only" ELSE mode = "read-only"

Bypass(op) ==
    /\ Keyed(op) /\ Bypassed(op)
    /\ Settle(op, IF task[op].kind = "read" THEN "miss" ELSE "bypassed")
    /\ UNCHANGED <<mode, Budgets, records>>

RefuseOperation(op) ==
    /\ Keyed(op) /\ ~Bypassed(op)
    /\ opCount[session[op]] + 1 > MaxOperations
    /\ Settle(op, "limit")
    /\ UNCHANGED <<mode, Budgets, records>>

\* #reserveOperation
Reserve(op, kind) ==
    /\ Keyed(op) /\ ~Bypassed(op)
    /\ task[op].kind = kind
    /\ opCount[session[op]] + 1 <= MaxOperations
    /\ opCount' = [opCount EXCEPT ![session[op]] = @ + 1]

\* Mutation: what was already spent is not deducted.
StricterOfTotals(total, spent) ==
    IF total < MaxEntryBytes THEN total ELSE MaxEntryBytes

\* stricterPayloadLimit of maxEntryBytes and what is left of a total.
Stricter(total, spent) ==
    IF total - spent < MaxEntryBytes THEN total - spent ELSE MaxEntryBytes

ReadLimit(op) == Stricter(MaxTotalReadBytes, readBytes[session[op]])
WriteLimit(op) == Stricter(MaxTotalWriteBytes, writeBytes[session[op]])

CallRead(op) ==
    /\ Reserve(op, "read")
    /\ task' = [task EXCEPT ![op].step = "calling", ![op].limit = ReadLimit(op)]
    /\ UNCHANGED <<queueVars, mode, readBytes, writeBytes, records>>

CallDelete(op) ==
    /\ Reserve(op, "delete")
    /\ At(op, "calling")
    /\ UNCHANGED <<queueVars, mode, readBytes, writeBytes, records>>

\* Mutation: a record of another key is taken for the requested one.
JudgeAnyKey(record, key, charged) ==
    IF ~charged THEN "limit" ELSE IF record.intact THEN "ok" ELSE "invalid"

\* What validateCapturedArtifactCacheRecord will say of a record once its
\* digest is known, and whether its bytes are charged on the way.
Chargeable(record, limit, total, spent) ==
    record.bytes <= limit /\ spent + record.bytes <= total

Judge(record, key, charged) ==
    IF ~charged THEN "limit"
    ELSE IF record.key = key /\ record.intact THEN "ok" ELSE "invalid"

\* A write charges its bytes and starts hashing in the same step.
CallWrite(op) ==
    /\ Reserve(op, "write")
    /\ LET s == session[op]
           charged == Chargeable(task[op].record, WriteLimit(op),
                                 MaxTotalWriteBytes, writeBytes[s])
       IN /\ writeBytes' = [writeBytes EXCEPT ![s] =
                               @ + IF charged THEN task[op].record.bytes ELSE 0]
          /\ task' = [task EXCEPT
                         ![op].step = "validating",
                         ![op].limit = WriteLimit(op),
                         ![op].judged =
                             Judge(task[op].record, task[op].key, charged)]
    /\ UNCHANGED <<queueVars, mode, readBytes, records>>

CallEncoder(op) ==
    /\ Reserve(op, "encode")
    /\ WriteLimit(op) # 0
    /\ task' = [task EXCEPT ![op].step = "encoding", ![op].limit = WriteLimit(op)]
    /\ UNCHANGED <<queueVars, mode, readBytes, writeBytes, records>>

\* No byte is left: the operation is spent and the encoder never called.
RefuseEncode(op) ==
    /\ Reserve(op, "encode")
    /\ WriteLimit(op) = 0
    /\ Settle(op, "limit")
    /\ UNCHANGED <<mode, readBytes, writeBytes, records>>

-----------------------------------------------------------------------------
(* The store.  A refusal of the byte ceiling and an AbortError of its own  *)
(* end the operation as any other error does, only the code differs.       *)
Answer(op, judgement, record) ==
    task' = [task EXCEPT ![op].step = "answered", ![op].judged = judgement,
                         ![op].record = record]

StoreReads(op) ==
    /\ Running(op, "calling") /\ task[op].kind = "read"
    /\ \/ Answer(op, "ok", records[task[op].key])
       \/ Answer(op, "error", NoRecord)
    /\ UNCHANGED <<queueVars, mode, Budgets, records>>

\* A failed write or delete may have reached the store all the same.
StoreWrites(op) ==
    /\ Running(op, "calling") /\ task[op].kind \in {"write", "encode"}
    /\ LET r == task[op].record
           stored == [records EXCEPT ![r.key] = r]
       IN \/ Answer(op, "ok", r) /\ records' = stored
          \/ Answer(op, "error", r) /\ records' \in {records, stored}
    /\ UNCHANGED <<queueVars, mode, Budgets>>

StoreDeletes(op) ==
    /\ Running(op, "calling") /\ task[op].kind = "delete"
    /\ LET emptied == [records EXCEPT ![task[op].key] = NoRecord]
       IN \/ Answer(op, "ok", NoRecord) /\ records' = emptied
          \/ Answer(op, "error", NoRecord) /\ records' \in {records, emptied}
    /\ UNCHANGED <<queueVars, mode, Budgets>>

-----------------------------------------------------------------------------
(* After the await of the store.                                           *)
\* Mutation: a failed store call gets the bytes of its payload back.
StopAnsweredRefunding(op) ==
    /\ Running(op, "answered")
    /\ op \in aborted \/ task[op].judged # "ok"
    /\ Settle(op, IF op \in aborted THEN "aborted" ELSE task[op].judged)
    /\ writeBytes' =
          IF task[op].kind \in {"write", "encode"} /\ task[op].judged = "error"
          THEN [writeBytes EXCEPT ![session[op]] = @ - task[op].record.bytes]
          ELSE writeBytes
    /\ UNCHANGED <<mode, opCount, readBytes, records>>

StopAnswered(op) ==
    /\ Running(op, "answered")
    /\ op \in aborted \/ task[op].judged # "ok"
    /\ Settle(op, IF op \in aborted THEN "aborted" ELSE task[op].judged)
    /\ UNCHANGED <<mode, Budgets, records>>

\* Mutation: the signal is not looked at after the store answered.
AnsweredUnchecked(op) == Running(op, "answered") /\ task[op].judged = "ok"

Answered(op) ==
    Running(op, "answered") /\ op \notin aborted /\ task[op].judged = "ok"

FinishMutation(op) ==
    /\ Answered(op)
    /\ task[op].kind # "read"
    /\ Settle(op, IF task[op].kind = "delete" THEN "deleted" ELSE "written")
    /\ UNCHANGED <<mode, Budgets, records>>

FinishMiss(op) ==
    /\ Answered(op)
    /\ task[op].kind = "read"
    /\ task[op].record \notin Records
    /\ Settle(op, IF task[op].record = NoRecord THEN "miss" ELSE "invalid")
    /\ UNCHANGED <<mode, Budgets, records>>

\* A record came back: its bytes are charged, then its digest is computed.
CheckRead(op) ==
    /\ Answered(op)
    /\ task[op].kind = "read"
    /\ task[op].record \in Records
    /\ LET s == session[op]
           charged == Chargeable(task[op].record, task[op].limit,
                                 MaxTotalReadBytes, readBytes[s])
       IN /\ readBytes' = [readBytes EXCEPT ![s] =
                               @ + IF charged THEN task[op].record.bytes ELSE 0]
          /\ task' = [task EXCEPT
                         ![op].step = "validating",
                         ![op].judged =
                             Judge(task[op].record, task[op].key, charged)]
    /\ UNCHANGED <<queueVars, mode, opCount, writeBytes, records>>

(* After the await of the encoder.  Its own refusal of the ceiling is      *)
(* reported as a limit even when the signal has fired.                     *)
StopEncoding(op) ==
    /\ Running(op, "encoding")
    /\ \/ Settle(op, "limit")
       \/ Settle(op, IF op \in aborted THEN "aborted" ELSE "error")
       \/ op \notin aborted /\ Settle(op, "invalid")
    /\ UNCHANGED <<mode, Budgets, records>>

\* The payload fits the ceiling computed before the await and is charged.
FinishEncoding(op) ==
    /\ Running(op, "encoding")
    /\ op \notin aborted
    /\ \E b \in PayloadBytes :
          /\ b <= task[op].limit
          /\ writeBytes' = [writeBytes EXCEPT ![session[op]] = @ + b]
          /\ task' = [task EXCEPT
                         ![op].step = "validating",
                         ![op].judged = "ok",
                         ![op].record = [key |-> task[op].key, bytes |-> b,
                                         intact |-> TRUE]]
    /\ UNCHANGED <<queueVars, mode, opCount, readBytes, records>>

(* After the await of the digest.                                          *)
StopValidated(op) ==
    /\ Running(op, "validating")
    /\ op \in aborted \/ task[op].judged # "ok"
    /\ Settle(op, IF op \in aborted THEN "aborted" ELSE task[op].judged)
    /\ UNCHANGED <<mode, Budgets, records>>

\* Mutation: the signal is not looked at after the digest.
ValidatedUnchecked(op) == Running(op, "validating") /\ task[op].judged = "ok"

Validated(op) ==
    Running(op, "validating") /\ op \notin aborted /\ task[op].judged = "ok"

FinishHit(op) ==
    /\ Validated(op)
    /\ task[op].kind = "read"
    /\ Settle(op, "hit")
    /\ UNCHANGED <<mode, Budgets, records>>

CallStoreWrite(op) ==
    /\ Validated(op)
    /\ task[op].kind # "read"
    /\ At(op, "calling")
    /\ UNCHANGED <<queueVars, mode, Budgets, records>>

-----------------------------------------------------------------------------
\* What the session itself does with the turn.
Body(op) ==
    \/ StopAborted(op) \/ RefuseKey(op) \/ StopKeyed(op)
    \/ Bypass(op) \/ RefuseOperation(op)
    \/ CallRead(op) \/ CallDelete(op) \/ CallWrite(op)
    \/ CallEncoder(op) \/ RefuseEncode(op)
    \/ StopAnswered(op) \/ FinishMutation(op) \/ FinishMiss(op) \/ CheckRead(op)
    \/ StopValidated(op) \/ FinishHit(op) \/ CallStoreWrite(op)

\* What the store and the encoder do.
External(op) ==
    \/ StoreReads(op) \/ StoreWrites(op) \/ StoreDeletes(op)
    \/ StopEncoding(op) \/ FinishEncoding(op)

QueueOnly(op) ==
    /\ \/ Abort(op) \/ RefuseAborted(op)
       \/ \E s \in Sessions : AttachFails(op, s)
       \/ Acquire(op) \/ CancelQueued(op) \/ PassOn(op)
    /\ UNCHANGED sessionVars

CacheNext ==
    \E op \in Ops :
        \/ QueueOnly(op)
        \/ \E s \in Sessions : SubmitTask(op, s)
        \/ Begin(op)
        \/ Body(op)
        \/ External(op)

CacheSpec == CacheInit /\ [][CacheNext]_cacheVars

\* The event loop runs the continuations; the store and the encoder answer.
CacheContinue(op) ==
    \/ (Acquire(op) \/ CancelQueued(op) \/ PassOn(op)) /\ UNCHANGED sessionVars
    \/ Begin(op)
    \/ Body(op)

FairCacheSpec ==
    /\ CacheSpec
    /\ \A op \in Ops : WF_cacheVars(CacheContinue(op)) /\ WF_cacheVars(External(op))

-----------------------------------------------------------------------------
CacheTypeOK ==
    /\ QueueTypeOK
    /\ mode \in Modes
    /\ opCount \in [Sessions -> Nat]
    /\ readBytes \in [Sessions -> Nat]
    /\ writeBytes \in [Sessions -> Nat]
    /\ records \in [Keys -> Records \cup {NoRecord, MalformedRecord}]
    /\ task \in [Ops -> Tasks]

\* The aggregate limits of a session are never exceeded, although an encode
\* checks its bytes against a ceiling computed before the encoder was awaited.
WithinLimits ==
    \A s \in Sessions :
        /\ opCount[s] <= MaxOperations
        /\ readBytes[s] <= MaxTotalReadBytes
        /\ writeBytes[s] <= MaxTotalWriteBytes

BytesOf(ops) == MapThenSumSet(LAMBDA op : task[op].record.bytes, ops)

\* Bytes are paid for: a session was charged for every record it delivered as
\* a hit and for every record it handed to the store, also when the store call
\* failed: it "consumes failed work conservatively" (docs/architecture.md).
EveryBytePaid ==
    \A s \in Sessions :
        LET mine == {op \in Ops : session[op] = s}
            hits == {op \in mine : task[op].verdict = "hit"}
            puts == {op \in mine :
                        /\ task[op].kind \in {"write", "encode"}
                        /\ \/ task[op].step \in {"calling", "answered"}
                           \/ task[op].verdict = "written"
                           \/ task[op].judged = "error"}
        IN BytesOf(hits) <= readBytes[s] /\ BytesOf(puts) <= writeBytes[s]

\* A hit is an intact record of the requested key within the entry limit,
\* whatever the store held and however careless it is about the ceiling.
HitIsIntact ==
    \A op \in Ops :
        task[op].verdict = "hit" =>
            /\ task[op].record \in Records
            /\ task[op].record.key = task[op].key
            /\ task[op].record.intact
            /\ task[op].record.bytes <= MaxEntryBytes

\* Sessions put only intact records of at most maxEntryBytes into the store,
\* each under its own key, and a read-only session puts and deletes nothing.
StoreStaysIntact ==
    [][\A k \in Keys :
          records'[k] # records[k] =>
              /\ mode # "read-only"
              /\ \/ records'[k] = NoRecord
                 \/ /\ records'[k] \in Records
                    /\ records'[k].key = k
                    /\ records'[k].intact
                    /\ records'[k].bytes <= MaxEntryBytes]_cacheVars

\* Once the signal has fired the operation opens no store call any more, not
\* even the write it was hashing or encoding a payload for.
NoCallAfterAbort ==
    [][\A op \in aborted :
          task[op].step # "calling" => task'[op].step # "calling"]_cacheVars

\* An operation aborted before it settles is never reported as a success.
AbortedNeverSucceeds ==
    [][\A op \in aborted :
          phase[op] # "settled" /\ phase'[op] = "settled"
              => task'[op].verdict \in {"none", "aborted", "invalid", "limit"}]_cacheVars

\* An abort is heeded at every await: nothing is called and nothing succeeds.
AbortIsHeeded == NoCallAfterAbort /\ AbortedNeverSucceeds

\* Every operation of a session settles if the store and the encoder answer: no
\* cancelled, failed or refused operation leaves the queue stuck.
EveryTaskSettles ==
    \A op \in Ops : phase[op] = "queued" ~> phase[op] = "settled"
=============================================================================
