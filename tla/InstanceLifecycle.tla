-------------------------- MODULE InstanceLifecycle --------------------------
(***************************************************************************)
(* The life of native FreeRDP instances, from freerdpNew to freerdpFree.   *)
(* LibFreeRDP.ets runs on the JS main thread and knows an instance by its  *)
(* address; each instance's worker thread reports through thread-safe      *)
(* functions whose calls the main thread runs later.                       *)
(*   LibFreeRDP.ets        - instanceState, pendingFree, callbacks         *)
(*   harmonyos_freerdp.cpp - connect, disconnect, free, thread_func        *)
(*   harmonyos_napi.cpp    - the thread-safe functions                     *)
(* An address freed may be the address of the next instance.               *)
(***************************************************************************)
EXTENDS Integers, Sequences, SequencesExt

CONSTANTS
  Addresses,           \* addresses freerdp_client_context_new may return
  Limit,               \* bound: instances made in all
  Reuse,               \* the address of a freed instance may be returned again
  InOrder,             \* calls of different thread-safe functions keep their order
  Prompt               \* an abort that the worker sees stops it within 3 s

ASSUME LifecycleAssumption ==
  /\ Limit \in Nat
  /\ Addresses # {}
  /\ {Reuse, InOrder, Prompt} \subseteq BOOLEAN

Instances == 1..Limit
None == 0

VARIABLES
  made,                \* instances made so far: 1..made
  addr,                \* addr[i]: the address of instance i
  ctx,                 \* ctx[i]: its context: unmade, live, freed, or torn: freed
                       \* under the thread that was using it
  worker,              \* worker[i]: where its thread is, none before connect
  abort,               \* abort[i]: rdp->abortEvent
  asked,               \* instances with a disconnect event in their queue
  instanceState,       \* addresses instanceState maps to true
  pendingFree,         \* pendingFree
  calls,               \* calls posted to thread-safe functions and not yet run
  freeing,             \* the instance freerdp_harmonyos_free waits for, or None
  released             \* instances the application has passed to freeInstance

jsVars == <<instanceState, pendingFree, freeing, released>>
vars == <<made, addr, ctx, worker, abort, asked, calls, jsVars>>

WorkerStates == {"none", "starting", "connecting", "failed", "refused", "established",
                 "running", "stopping", "reporting", "leaving", "exited"}

\* The thread dereferences the instance until freerdp_client_stop has returned.
Using(i) == worker[i] \in {"starting", "connecting", "failed", "established", "running", "stopping"}

Call == [fn : {"success", "disconnected"}, addr : Addresses, of : Instances]

TypeOK ==
  /\ made \in 0..Limit
  /\ addr \in [Instances -> Addresses]
  /\ ctx \in [Instances -> {"unmade", "live", "freed", "torn"}]
  /\ worker \in [Instances -> WorkerStates]
  /\ abort \in [Instances -> BOOLEAN]
  /\ asked \in SUBSET Instances
  /\ instanceState \in SUBSET Addresses
  /\ pendingFree \in SUBSET Addresses
  /\ calls \in Seq(Call)
  /\ freeing \in Instances \cup {None}
  /\ released \in SUBSET Instances

\* The native module is loaded and initCallbacks has registered the callbacks.
Init ==
  /\ made = 0
  /\ addr = [i \in Instances |-> CHOOSE a \in Addresses : TRUE]
  /\ ctx = [i \in Instances |-> "unmade"]
  /\ worker = [i \in Instances |-> "none"]
  /\ abort = [i \in Instances |-> FALSE]
  /\ asked = {}
  /\ instanceState = {}
  /\ pendingFree = {}
  /\ calls = <<>>
  /\ freeing = None
  /\ released = {}

\* The instance a native call with this address reaches: the last one made there.
At(a) == CHOOSE i \in 1..made :
           /\ addr[i] = a
           /\ \A j \in i + 1..made : addr[j] # a

-----------------------------------------------------------------------------
(* The application's calls.  They run on the main thread, which is not      *)
(* available while freerdp_harmonyos_free waits.                            *)

NewInstance(a) ==
  /\ freeing = None
  /\ made < Limit
  /\ \A i \in 1..made : ctx[i] = "live" \/ ~Reuse => addr[i] # a
  /\ made' = made + 1
  /\ addr' = [addr EXCEPT ![made + 1] = a]
  /\ ctx' = [ctx EXCEPT ![made + 1] = "live"]
  /\ UNCHANGED <<worker, abort, asked, calls, jsVars>>

\* LibFreeRDP.connect throws when instanceState holds the address.
CanConnect(i) ==
  /\ freeing = None
  /\ ctx[i] = "live"
  /\ worker[i] = "none"
  /\ addr[i] \notin instanceState

\* CreateThread; when it fails nothing changes.
Connect(i) ==
  /\ CanConnect(i)
  /\ i \notin released
  /\ worker' = [worker EXCEPT ![i] = "starting"]
  /\ UNCHANGED <<made, addr, ctx, abort, asked, calls, jsVars>>

\* freerdp_harmonyos_disconnect: push a disconnect event, then abort.
NativeDisconnect(i) ==
  /\ asked' = asked \cup {i}
  /\ abort' = [abort EXCEPT ![i] = TRUE]

\* freerdp_harmonyos_free up to its wait.  Without a thread it does not wait.
BeginFree(i) ==
  /\ freeing' = i
  /\ abort' = [abort EXCEPT ![i] = worker[i] # "none" \/ abort[i]]
  /\ UNCHANGED asked

\* disconnect, and cancelConnection, which is the same code: only an instance
\* known as connected is disconnected.
Disconnect(i) ==
  /\ freeing = None
  /\ i \notin released
  /\ addr[i] \in instanceState
  /\ NativeDisconnect(i)
  /\ UNCHANGED <<made, addr, ctx, worker, calls, jsVars>>

\* Mutants, here and below: what a plausible bug would make of the definition
\* that follows.  No specification uses them.
MutantFreeAtOnce(i) ==
  /\ freeing = None
  /\ ctx[i] = "live"
  /\ i \notin released
  /\ released' = released \cup {i}
  /\ pendingFree' = IF addr[i] \in instanceState THEN pendingFree \cup {addr[i]} ELSE pendingFree
  /\ BeginFree(i)
  /\ UNCHANGED <<made, addr, ctx, worker, calls, instanceState>>

MutantFreeForgetsPending(i) ==
  /\ freeing = None
  /\ ctx[i] = "live"
  /\ i \notin released
  /\ released' = released \cup {i}
  /\ IF addr[i] \in instanceState
     THEN NativeDisconnect(i) /\ UNCHANGED freeing
     ELSE BeginFree(i)
  /\ UNCHANGED <<made, addr, ctx, worker, calls, instanceState, pendingFree>>

\* freeInstance: a connected instance is disconnected and freed by its
\* disconnect callback, any other is freed here.
FreeInstance(i) ==
  /\ freeing = None
  /\ ctx[i] = "live"
  /\ i \notin released
  /\ released' = released \cup {i}
  /\ \/ /\ addr[i] \in instanceState
        /\ pendingFree' = pendingFree \cup {addr[i]}
        /\ NativeDisconnect(i)
        /\ UNCHANGED <<instanceState, freeing>>
     \/ /\ addr[i] \notin instanceState
        /\ BeginFree(i)
        /\ UNCHANGED <<instanceState, pendingFree>>
  /\ UNCHANGED <<made, addr, ctx, worker, calls>>

-----------------------------------------------------------------------------
(* freerdp_harmonyos_free: WaitForSingleObject(thread, 3000), then the      *)
(* context is freed whatever the wait returned.                             *)

FreeContext(i) ==
  /\ ctx' = [ctx EXCEPT ![i] = IF Using(i) THEN "torn" ELSE "freed"]
  /\ freeing' = None
  /\ UNCHANGED <<made, addr, worker, abort, asked, calls, instanceState, pendingFree, released>>

FreeEnds ==
  /\ freeing # None
  /\ worker[freeing] \in {"none", "exited"}
  /\ FreeContext(freeing)

\* A thread that saw the abort ends in time when Prompt holds.  The abort may
\* also be gone: freerdp_connect_begin resets it.
FreeTimesOut ==
  /\ freeing # None
  /\ worker[freeing] \notin {"none", "exited"}
  /\ Prompt => ~abort[freeing]
  /\ FreeContext(freeing)

-----------------------------------------------------------------------------
(* harmonyos_thread_func.  On a freed context the thread may do anything;   *)
(* that it carries on is the outcome modelled.                              *)

Post(fn, i) == calls' = Append(calls, [fn |-> fn, addr |-> addr[i], of |-> i])

Goto(i, from, to) ==
  /\ worker[i] \in from
  /\ worker' = [worker EXCEPT ![i] = to]

\* freerdp_client_start, then freerdp_connect_begin resets the abort event.  So
\* does freerdp_reconnect, which freerdp_connect tries when the transport failed.
ConnectBegins(i) ==
  /\ Goto(i, {"starting", "connecting"}, "connecting")
  /\ abort' = [abort EXCEPT ![i] = FALSE]
  /\ UNCHANGED <<made, addr, ctx, asked, calls, jsVars>>

StartFails(i) ==
  /\ Goto(i, {"starting"}, "reporting")
  /\ UNCHANGED <<made, addr, ctx, abort, asked, calls, jsVars>>

\* freerdp_connect gives up: refused, timed out, aborted, or a failure after
\* PostConnect.  It then runs freerdp_disconnect, which aborts.
ConnectFails(i) ==
  /\ Goto(i, {"connecting", "established"}, "failed")
  /\ abort' = [abort EXCEPT ![i] = TRUE]
  /\ UNCHANGED <<made, addr, ctx, asked, calls, jsVars>>

ConnectReturns(i) ==
  /\ Goto(i, {"failed"}, "refused")
  /\ UNCHANGED <<made, addr, ctx, abort, asked, calls, jsVars>>

\* harmonyos_post_connect reports success from inside freerdp_connect.
PostConnect(i) ==
  /\ Goto(i, {"connecting"}, "established")
  /\ Post("success", i)
  /\ UNCHANGED <<made, addr, ctx, abort, asked, jsVars>>

Runs(i) ==
  /\ Goto(i, {"established"}, "running")
  /\ UNCHANGED <<made, addr, ctx, abort, asked, calls, jsVars>>

\* The loop ends on an abort, and the disconnect event it drains aborts.
RunIsTold(i) ==
  /\ abort[i] \/ i \in asked
  /\ Goto(i, {"running"}, "stopping")
  /\ abort' = [abort EXCEPT ![i] = TRUE]
  /\ UNCHANGED <<made, addr, ctx, asked, calls, jsVars>>

\* The server ends the session, or the network does.  freerdp_disconnect aborts.
RunBreaks(i) ==
  /\ Goto(i, {"running"}, "stopping")
  /\ abort' = [abort EXCEPT ![i] = TRUE]
  /\ UNCHANGED <<made, addr, ctx, asked, calls, jsVars>>

\* freerdp_disconnect, post_disconnect, freerdp_client_stop.
Stops(i) ==
  /\ Goto(i, {"stopping"}, "reporting")
  /\ UNCHANGED <<made, addr, ctx, abort, asked, calls, jsVars>>

MutantReportsOnlyRuns(i) ==
  /\ Goto(i, {"reporting", "refused"}, "leaving")
  /\ IF abort[i] THEN UNCHANGED calls ELSE Post("disconnected", i)
  /\ UNCHANGED <<made, addr, ctx, abort, asked, jsVars>>

MutantReportsFailure(i) ==
  /\ Goto(i, {"reporting", "refused"}, "leaving")
  /\ Post(IF worker[i] = "refused" THEN "failure" ELSE "disconnected", i)
  /\ UNCHANGED <<made, addr, ctx, abort, asked, jsVars>>

\* The fail label: reconnectAttempts is always 0 there, so every end of the
\* thread is reported by OnDisconnected.
Reports(i) ==
  /\ Goto(i, {"reporting", "refused"}, "leaving")
  /\ Post("disconnected", i)
  /\ UNCHANGED <<made, addr, ctx, abort, asked, jsVars>>

Exits(i) ==
  /\ Goto(i, {"leaving"}, "exited")
  /\ UNCHANGED <<made, addr, ctx, abort, asked, calls, jsVars>>

-----------------------------------------------------------------------------
(* The main thread runs the posted calls.  Those of one function run in the *)
(* order they were posted; N-API says nothing of calls of two functions.    *)

Due(n) ==
  /\ freeing = None
  /\ n \in 1..Len(calls)
  /\ \A k \in 1..n - 1 : ~InOrder /\ calls[k].fn # calls[n].fn

OnSuccess(n) ==
  /\ Due(n)
  /\ calls[n].fn = "success"
  /\ calls' = RemoveAt(calls, n)
  /\ instanceState' = instanceState \cup {calls[n].addr}
  /\ UNCHANGED <<made, addr, ctx, worker, abort, asked, pendingFree, freeing, released>>

\* The disconnect callback, freeNativeIfPending included.
OnDisconnected(n) ==
  LET a == calls[n].addr IN
  /\ Due(n)
  /\ calls[n].fn = "disconnected"
  /\ calls' = RemoveAt(calls, n)
  /\ instanceState' = instanceState \ {a}
  /\ pendingFree' = pendingFree \ {a}
  /\ \/ /\ a \in pendingFree
        /\ BeginFree(At(a))
     \/ /\ a \notin pendingFree
        /\ UNCHANGED <<freeing, abort, asked>>
  /\ UNCHANGED <<made, addr, ctx, worker, released>>

-----------------------------------------------------------------------------

WorkerMoves(i) ==
  \/ ConnectBegins(i) \/ StartFails(i) \/ ConnectFails(i) \/ ConnectReturns(i)
  \/ PostConnect(i) \/ Runs(i) \/ RunIsTold(i) \/ Stops(i) \/ Reports(i) \/ Exits(i)

WorkerStep(i) == WorkerMoves(i) \/ RunBreaks(i)

Callback == \E n \in 1..Len(calls) : OnSuccess(n) \/ OnDisconnected(n)

Application ==
  \/ \E a \in Addresses : NewInstance(a)
  \/ \E i \in Instances : Connect(i) \/ Disconnect(i) \/ FreeInstance(i)

Next ==
  \/ Application
  \/ Callback
  \/ FreeEnds \/ FreeTimesOut
  \/ \E i \in Instances : WorkerStep(i)

Spec == Init /\ [][Next]_vars

\* The threads are scheduled, posted calls are run and waits end; nothing makes
\* the server end a session.
Fairness ==
  /\ \A i \in Instances : WF_vars(WorkerMoves(i))
  /\ WF_vars(Callback)
  /\ WF_vars(FreeEnds \/ FreeTimesOut)

FairSpec == Spec /\ Fairness

-----------------------------------------------------------------------------

\* A context is freed once, and freerdpFree is never called with the address of
\* a context that is gone (pendingFree and the immediate free of freeInstance
\* never both apply).
FreedOnce == freeing # None => ctx[freeing] = "live"

\* Why: an address has one live instance, the last made there; pendingFree holds
\* addresses of live instances, known as connected, that are not being freed.
LiveIsLast == \A i, j \in 1..made : i < j /\ addr[i] = addr[j] => ctx[i] # "live"

PendingIsLive ==
  \A a \in pendingFree :
    /\ a \in instanceState
    /\ freeing # None => addr[freeing] # a
    /\ \E i \in 1..made : addr[i] = a /\ ctx[i] = "live"

LiveIsMade == \A i \in Instances : ctx[i] = "live" => i <= made

FreeInvariant == FreedOnce /\ LiveIsLast /\ PendingIsLive /\ LiveIsMade

\* freerdp_harmonyos_free never frees a context under the thread that uses it
\* (its comment: the thread must have exited before freerdp_client_context_free).
NoUseAfterFree == \A i \in Instances : ctx[i] # "torn"

\* The end of instance i's session has still to reach the main thread.
EndIsToCome(i) ==
  \/ worker[i] \notin {"none", "leaving", "exited"}
  \/ \E n \in 1..Len(calls) : calls[n].fn = "disconnected" /\ calls[n].of = i

\* instanceState holds no address of which no disconnect callback will remove
\* it: a dead session is not taken for a connected one for ever, if the callbacks
\* run in the order in which they were posted.
StateIsTruthful ==
  NoUseAfterFree => \A a \in instanceState :
    \E i \in Instances : addr[i] = a /\ EndIsToCome(i)

\* When the disconnect callback frees an instance, the thread no longer uses it,
\* so the main thread does not wait (freeInstance: do not busy-wait).  The code
\* does not keep it once an address is used again (README, section 7).
DeferredFreeFindsThreadDone ==
  [][NoUseAfterFree /\ pendingFree' # pendingFree /\ freeing' # freeing
       => worker[freeing'] \in {"none", "leaving", "exited"}]_vars

\* An instance passed to freeInstance is freed in the end, whatever it was doing
\* and whichever callbacks were under way, if these run in the order in which they
\* were posted (InOrder; README, section 7, for the other case); unless a context
\* was freed under its thread, after which nothing is promised.
ReleasedIsFreed == \A i \in Instances : i \in released ~> ctx[i] = "freed" \/ ~NoUseAfterFree

=============================================================================
