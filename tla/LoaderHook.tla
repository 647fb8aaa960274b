----------------------------- MODULE LoaderHook -----------------------------
(***************************************************************************)
(* loadAttestedOcctRuntime (src/src/occt-runtime-node.ts and               *)
(* occt-runtime-browser.ts): a verified JavaScript source is offered to    *)
(* the host's module loader under a private name, imported once, and       *)
(* withdrawn.  How it is offered depends on the host:                      *)
(*                                                                         *)
(*   "thread"   one hook for the process, on a thread of its own which the *)
(*              library talks to over a message port; the library waits    *)
(*              for an answer, at most HOOK_READY_TIMEOUT_MS;              *)
(*   "inline"   a synchronous hook per load;                               *)
(*   "blob"     a Blob URL per load, in a browser.                         *)
(*                                                                         *)
(* Loads overlap.  A message, a timer and what the import calls come in    *)
(* any order; only the messages of one direction keep theirs.  The id, the *)
(* specifier and the URL of a load are random: they are the load.          *)
(***************************************************************************)
EXTENDS Naturals, Sequences, FiniteSets

CONSTANTS Loads     \* calls of loadAttestedOcctRuntime

ASSUME LoadsAssumption == IsFiniteSet(Loads)

VARIABLES host,         \* what the host offers
          stage,        \* where each load stands
          refd,         \* port.ref(), which is undone by one unref()
          waiters,      \* the loads that have a waiter in hookWaiters
          timers,       \* the loads whose timeout is armed
          toThread,     \* messages to the hook thread
          toMain,       \* and from it: the ids that are ready
          bySpecifier,  \* the hook thread's two maps
          byUrl,
          hooks,        \* the registered synchronous hooks
          offered       \* pendingSource of such a hook, or the Blob URL

waiting == <<refd, waiters, timers>>
messages == <<toThread, toMain>>
threadVars == <<bySpecifier, byUrl>>
inlineVars == <<hooks, offered>>
vars == <<host, stage, waiting, messages, threadVars, inlineVars>>

Importing == {"resolving", "loading", "evaluating"}
Stages == {"idle", "verifying", "waiting", "done", "failed"} \cup Importing

\* m is one of the messages, or loads, in the sequence s.
Has(s, m) == \E i \in 1 .. Len(s) : s[i] = m

Install(l) == [kind |-> "install", load |-> l]
Cancel(l) == [kind |-> "cancel", load |-> l]

Init ==
    /\ host \in {"thread", "inline", "blob"}
    /\ stage = [l \in Loads |-> "idle"]
    /\ refd = FALSE
    /\ waiters = {} /\ timers = {}
    /\ toThread = <<>> /\ toMain = <<>>
    /\ bySpecifier = {} /\ byUrl = {}
    /\ hooks = {} /\ offered = {}

-----------------------------------------------------------------------------
(* The library.                                                            *)

Move(l, where) == stage' = [stage EXCEPT ![l] = where]

\* verifyOcctRuntimeRelease up to its first digest.
Call(l) ==
    /\ stage[l] = "idle"
    /\ Move(l, "verifying") \/ Move(l, "failed")
    /\ UNCHANGED <<host, waiting, messages, threadVars, inlineVars>>

\* A digest differs, or the host refuses: nodeHookPort, registerHooks or
\* createObjectURL throws.
NotInstalled(l) ==
    /\ stage[l] = "verifying" /\ Move(l, "failed")
    /\ UNCHANGED <<host, waiting, messages, threadVars, inlineVars>>

\* installVerifiedModuleWithAsynchronousHooks up to its await.
InstallOnThread(l) ==
    /\ host = "thread" /\ stage[l] = "verifying"
    /\ \/ /\ refd' = TRUE
          /\ waiters' = waiters \cup {l} /\ timers' = timers \cup {l}
          /\ toThread' = Append(toThread, Install(l))
          /\ Move(l, "waiting")
       \/ \* postMessage throws: the waiter goes, its timer with it.
          /\ refd' = FALSE
          /\ UNCHANGED <<waiters, timers>>
          /\ toThread' = Append(toThread, Cancel(l))
          /\ Move(l, "failed")
    /\ UNCHANGED <<host, toMain, threadVars, inlineVars>>

\* installVerifiedModuleWithSynchronousHooks
InstallInline(l) ==
    /\ host = "inline" /\ stage[l] = "verifying"
    /\ hooks' = hooks \cup {l} /\ offered' = offered \cup {l}
    /\ Move(l, "resolving")
    /\ UNCHANGED <<host, waiting, messages, threadVars>>

CreateBlobUrl(l) ==
    /\ host = "blob" /\ stage[l] = "verifying"
    /\ offered' = offered \cup {l}
    /\ Move(l, "loading")
    /\ UNCHANGED <<host, waiting, messages, threadVars, hooks>>

\* Mutation: nothing is cancelled after a failed wait.
GiveUpQuietly(gone) ==
    /\ stage' = [l \in Loads |-> IF Has(gone, l) THEN "failed" ELSE stage[l]]
    /\ refd' = FALSE
    /\ UNCHANGED toThread

\* The waits of gone are rejected one after the other: the catch and finally
\* blocks of installVerifiedModuleWithAsynchronousHooks.
GiveUp(gone) ==
    /\ stage' = [l \in Loads |-> IF Has(gone, l) THEN "failed" ELSE stage[l]]
    /\ refd' = FALSE
    /\ toThread' = toThread \o [i \in 1 .. Len(gone) |-> Cancel(gone[i])]

\* Mutation: the timer removes the waiter and forgets to reject it.
TimesOutSilently(l) ==
    /\ l \in timers /\ timers' = timers \ {l}
    /\ waiters' = waiters \ {l}
    /\ UNCHANGED <<host, stage, refd, toThread, toMain, threadVars, inlineVars>>

TimesOut(l) ==
    /\ l \in timers /\ timers' = timers \ {l}
    /\ waiters' = waiters \ {l}
    /\ GiveUp(<<l>>)
    /\ UNCHANGED <<host, toMain, threadVars, inlineVars>>

\* The port's "message" listener: an answer that comes too late has no waiter.
Ready ==
    /\ toMain # <<>> /\ toMain' = Tail(toMain)
    /\ LET l == Head(toMain) IN
          IF l \in waiters
          THEN /\ waiters' = waiters \ {l} /\ timers' = timers \ {l}
               /\ Move(l, "resolving")
               /\ refd' = FALSE
          ELSE UNCHANGED <<waiters, timers, stage, refd>>
    /\ UNCHANGED <<host, toThread, threadVars, inlineVars>>

\* In which order the Map is walked: the oldest first, but nothing depends on it.
Orders(S) == {order \in [1 .. Cardinality(S) -> S] : \A l \in S : Has(order, l)}

\* The same with an answer that does not make sense, or "messageerror".
Spoiled ==
    /\ toMain # <<>> /\ toMain' = Tail(toMain)
    /\ waiters' = {} /\ timers' = timers \ waiters
    /\ IF waiters = {} THEN UNCHANGED <<stage, refd, toThread>>
       ELSE \E order \in Orders(waiters) : GiveUp(order)
    /\ UNCHANGED <<host, threadVars, inlineVars>>

-----------------------------------------------------------------------------
(* The hook thread.                                                        *)

\* The listener of initialize.
ThreadReceives ==
    /\ toThread # <<>> /\ toThread' = Tail(toThread)
    /\ LET l == Head(toThread).load IN
          IF Head(toThread).kind = "install"
          THEN /\ bySpecifier' = bySpecifier \cup {l} /\ byUrl' = byUrl \cup {l}
               /\ toMain' = Append(toMain, l)
          ELSE /\ bySpecifier' = bySpecifier \ {l}
               /\ byUrl' = IF l \in bySpecifier THEN byUrl \ {l} ELSE byUrl
               /\ UNCHANGED toMain
    /\ UNCHANGED <<host, stage, waiting, inlineVars>>

ThreadResolves(l) ==
    /\ host = "thread" /\ stage[l] = "resolving" /\ l \in bySpecifier
    /\ Move(l, "loading")
    /\ UNCHANGED <<host, waiting, messages, threadVars, inlineVars>>

ThreadLoads(l) ==
    /\ host = "thread" /\ stage[l] = "loading" /\ l \in byUrl
    /\ bySpecifier' = bySpecifier \ {l} /\ byUrl' = byUrl \ {l}
    /\ Move(l, "evaluating")
    /\ UNCHANGED <<host, waiting, messages, inlineVars>>

-----------------------------------------------------------------------------
(* A synchronous hook, and the Blob URL.                                   *)

HookResolves(l) ==
    /\ host = "inline" /\ stage[l] = "resolving" /\ l \in hooks
    /\ Move(l, "loading")
    /\ UNCHANGED <<host, waiting, messages, threadVars, inlineVars>>

HookLoads(l) ==
    /\ host = "inline" /\ stage[l] = "loading" /\ l \in hooks \cap offered
    /\ offered' = offered \ {l}
    /\ Move(l, "evaluating")
    /\ UNCHANGED <<host, waiting, messages, threadVars, hooks>>

BlobLoads(l) ==
    /\ host = "blob" /\ stage[l] = "loading" /\ l \in offered
    /\ Move(l, "evaluating")
    /\ UNCHANGED <<host, waiting, messages, threadVars, inlineVars>>

-----------------------------------------------------------------------------
(* The end of the import.  Whatever else takes part in it may make it fail  *)
(* at any point: another hook, the thread, the module itself.               *)

\* installed.cleanup, or the revocation.
Cleanup(l) ==
    /\ toThread' = IF host = "thread" THEN Append(toThread, Cancel(l)) ELSE toThread
    /\ hooks' = hooks \ {l} /\ offered' = offered \ {l}

\* finishLoadingAttestedOcctRuntime refuses a module without a factory.
ImportSettles(l) ==
    /\ stage[l] \in Importing
    /\ \/ Move(l, "failed")
       \/ stage[l] = "evaluating" /\ Move(l, "done")
    /\ Cleanup(l)
    /\ UNCHANGED <<host, waiting, toMain, threadVars>>

-----------------------------------------------------------------------------
Installs(l) == NotInstalled(l) \/ InstallOnThread(l) \/ InstallInline(l) \/ CreateBlobUrl(l)

Next ==
    \/ \E l \in Loads :
          \/ Call(l) \/ Installs(l) \/ TimesOut(l)
          \/ ThreadResolves(l) \/ ThreadLoads(l)
          \/ HookResolves(l) \/ HookLoads(l) \/ BlobLoads(l)
          \/ ImportSettles(l)
    \/ Ready \/ Spoiled \/ ThreadReceives

Spec == Init /\ [][Next]_vars

\* Digests end and timers fire.  The hook thread need not do anything.
FairSpec == Spec /\ \A l \in Loads : WF_vars(Installs(l)) /\ WF_vars(TimesOut(l))

-----------------------------------------------------------------------------
(* Properties.                                                             *)

TypeOK ==
    /\ host \in {"thread", "inline", "blob"}
    /\ stage \in [Loads -> Stages]
    /\ refd \in BOOLEAN
    /\ waiters \subseteq Loads /\ timers \subseteq Loads
    /\ toThread \in Seq([kind : {"install", "cancel"}, load : Loads])
    /\ toMain \in Seq(Loads)
    /\ bySpecifier \subseteq Loads /\ byUrl \subseteq Loads
    /\ hooks \subseteq Loads /\ offered \subseteq Loads

\* The sources some hook or URL still holds.
Held == bySpecifier \cup byUrl \cup offered

\* An import never falls through to the host's own loader: whatever overlaps
\* and whichever messages are under way, its source is there when it is asked
\* for, and on Node it is given out once.
ImportsFindTheirSource ==
    \A l \in Loads :
        /\ stage[l] = "resolving" =>
              l \in (IF host = "thread" THEN bySpecifier ELSE hooks)
        /\ stage[l] \in {"resolving", "loading"} =>
              l \in (IF host = "thread" THEN byUrl ELSE offered)
        /\ stage[l] = "evaluating" /\ host # "blob" => l \notin Held

\* A load that has settled leaves nothing behind once its last message has
\* arrived, not even when its installation arrives after it was given up: no
\* source, no hook, no waiter, no timer.  The port keeps the process alive only
\* while somebody waits; who does is kept alive by the timer at least, for one
\* unref undoes every ref.
SettledLeavesNothing ==
    /\ \A l \in Loads : stage[l] \in {"done", "failed"} =>
          /\ l \in Held \cup hooks => Has(toThread, Cancel(l))
          /\ \A i \in DOMAIN toThread : toThread[i] = Install(l) =>
                \E j \in i + 1 .. Len(toThread) : toThread[j] = Cancel(l)
          /\ l \notin waiters \cup timers
    /\ refd => waiters # {}
    /\ waiters = timers

\* Both sides of one promise: a source serves its own import, and no longer.
SourcesServeOneLoad == ImportsFindTheirSource /\ SettledLeavesNothing

\* Every load is installed or fails, even if the hook thread hangs: its timer
\* survives whatever happens to the other waiters.
InstallationSettles ==
    \A l \in Loads : stage[l] \in {"verifying", "waiting"} ~>
                     stage[l] \notin {"verifying", "waiting"}
=============================================================================
