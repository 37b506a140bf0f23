------------------------------ MODULE Session ------------------------------
(***************************************************************************)
(* A remote session as the application sees it: SessionPage.ets opens an   *)
(* instance and shows its state, NetworkManager.ets makes new instances    *)
(* for the session when the network comes back.  Both run on the JS main   *)
(* thread and hear of the instances through LibFreeRDP's callbacks; the    *)
(* instances are those of InstanceLifecycle.                               *)
(* A handler that makes two LibFreeRDP calls takes two steps, between      *)
(* which the worker threads run but no other handler does (task).          *)
(* Here no address is used again, so the n-th instance may have address n, *)
(* and the timer's handler has one path (TimerFires); README, section 7,   *)
(* says what reuse would add.                                              *)
(***************************************************************************)
EXTENDS Integers, Sequences

CONSTANTS
  Limit, InOrder, Prompt,              \* as in InstanceLifecycle
  MaxAttempts          \* MAX_RECONNECT_ATTEMPTS

ASSUME SessionAssumption ==
  /\ Limit \in Nat \ {0}
  /\ {InOrder, Prompt} \subseteq BOOLEAN
  /\ MaxAttempts \in Nat \ {0}

VARIABLES
  made, addr, ctx, worker, abort, asked, calls,          \* InstanceLifecycle
  instanceState, pendingFree, freeing, released,
  task,                \* the handler the main thread is in the middle of
  up,                  \* the network is there, as its last event told
  probe,               \* what hasDefaultNet, still awaited, may answer
  net,                 \* isNetworkAvailable
  session,             \* currentSession.instance, or None
  phase,               \* sessionConnectionPhase
  reconnecting,        \* isReconnecting
  attempts,            \* reconnectAttempts
  timer,               \* the reconnect timer is armed
  stranded,            \* history: an attempt failed offline and left the next undone
  page,                \* the session page is open
  pageInstance,        \* SessionPage.session's instance, or None
  service,             \* the page has made its RdpBackgroundService
  clearing,            \* a closed page awaits stop() before clearSessionInfo
  ui                   \* SessionPage.connectionState

L == INSTANCE InstanceLifecycle WITH Addresses <- 1..Limit, Reuse <- FALSE

lifecycleVars == <<made, addr, ctx, worker, abort, asked, calls,
                   instanceState, pendingFree, freeing, released>>
networkVars == <<up, probe, net>>
attemptVars == <<reconnecting, attempts, timer, stranded>>
managerVars == <<networkVars, session, phase, attemptVars>>
pageVars    == <<page, pageInstance, service, clearing, ui>>
vars == <<lifecycleVars, task, managerVars, pageVars>>

None == L!None

SessionTypeOK ==
  /\ L!TypeOK
  /\ task \in {"none", "open", "reconnect", "reconnectMade"}
  /\ {up, net, stranded} \subseteq BOOLEAN
  /\ probe \subseteq BOOLEAN
  /\ session \in L!Instances \cup {None}
  /\ phase \in {"connecting", "connected", "disconnected"}
  /\ reconnecting \in BOOLEAN
  /\ attempts \in 0..MaxAttempts
  /\ timer \in BOOLEAN
  /\ page \in BOOLEAN
  /\ pageInstance \in L!Instances \cup {None}
  /\ service \in BOOLEAN
  /\ clearing \in BOOLEAN
  /\ ui \in {"DISCONNECTED", "CONNECTING", "CONNECTED", "RECONNECTING"}

Init ==
  /\ L!Init
  /\ task = "none"
  /\ up \in BOOLEAN /\ probe = {} /\ net = FALSE
  /\ session = None /\ phase = "disconnected"
  /\ reconnecting = FALSE /\ attempts = 0 /\ timer = FALSE /\ stranded = FALSE
  /\ page = FALSE /\ pageInstance = None /\ service = FALSE /\ clearing = FALSE
  /\ ui = "DISCONNECTED"

\* The main thread is free for another handler.
Free == freeing = None /\ task = "none"

-----------------------------------------------------------------------------
(* NetworkManager.                                                          *)

CancelReconnect ==
  timer' = FALSE /\ reconnecting' = FALSE /\ attempts' = 0 /\ stranded' = FALSE

\* markConnected and markDisconnected ignore every instance but the present one.
Current(a) == session # None /\ addr[session] = a

\* Mutants, here and below: what a plausible bug would make of the definition
\* that follows.  No specification uses them.
MutantMarkConnectedKeepsTimer(a) ==
  /\ phase' = IF Current(a) THEN "connected" ELSE phase
  /\ UNCHANGED attemptVars

MarkConnected(a) ==
  \/ /\ Current(a)
     /\ phase' = "connected"
     /\ CancelReconnect
  \/ /\ ~Current(a)
     /\ UNCHANGED <<phase, attemptVars>>

MutantMarkDisconnectedOnlyConnected(a) ==
  phase' = IF Current(a) /\ phase = "connected" THEN "disconnected" ELSE phase

MarkDisconnected(a) == phase' = IF Current(a) THEN "disconnected" ELSE phase

\* clearSessionInfo.
ClearSessionInfo ==
  /\ session' = None
  /\ phase' = "disconnected"
  /\ CancelReconnect

\* initialize awaits hasDefaultNet; the answer is the network's state at some time
\* since.  A page opened before the answer of the last one's shares it.
Probe == probe' = probe \cup {up}

\* The events reach NetworkManager once a page has registered for them.
Hears(there) ==
  /\ Free
  /\ page \/ made > 0
  /\ up' = there
  /\ net' = there
  /\ probe' = IF probe = {} THEN {} ELSE probe \cup {there}

\* netAvailable, startReconnect and its attemptReconnect.
StartsReconnect == session # None /\ phase = "disconnected" /\ ~reconnecting

FirstAttempt == reconnecting' = TRUE /\ attempts' = 1 /\ timer' = TRUE /\ stranded' = FALSE

MutantAlwaysReconnects ==
  /\ Hears(TRUE)
  /\ \/ /\ session # None /\ ~reconnecting
        /\ FirstAttempt
     \/ /\ session = None \/ reconnecting
        /\ UNCHANGED attemptVars
  /\ UNCHANGED <<lifecycleVars, task, session, phase, pageVars>>

NetAvailable ==
  /\ Hears(TRUE)
  /\ \/ /\ StartsReconnect
        /\ FirstAttempt
     \/ /\ ~StartsReconnect
        /\ UNCHANGED attemptVars
  /\ UNCHANGED <<lifecycleVars, task, session, phase, pageVars>>

\* netLost, with the page's callback.
NetLost ==
  /\ Hears(FALSE)
  /\ ui' = "RECONNECTING"
  /\ UNCHANGED <<lifecycleVars, task, session, phase, attemptVars,
                 page, pageInstance, service, clearing>>

\* initialize goes on with the answer, which may be older than the last event, or
\* the await threw.
NetProbed ==
  /\ Free
  /\ probe # {}
  /\ net' \in probe \cup {net}
  /\ probe' = {}
  /\ UNCHANGED <<lifecycleVars, task, up, session, phase, attemptVars, pageVars>>

MutantRetriesForEver ==
  /\ timer' = net
  /\ UNCHANGED <<reconnecting, attempts, stranded>>

MutantRetryCountsOneMore ==
  \/ /\ attempts <= MaxAttempts
     /\ net
     /\ attempts' = attempts + 1
     /\ timer' = TRUE
     /\ UNCHANGED <<reconnecting, stranded>>
  \/ /\ attempts > MaxAttempts
     /\ reconnecting' = FALSE
     /\ UNCHANGED <<attempts, timer, stranded>>

MutantRetryNotArmed ==
  \/ /\ attempts < MaxAttempts
     /\ attempts' = attempts + 1
     /\ UNCHANGED <<reconnecting, timer, stranded>>
  \/ /\ attempts = MaxAttempts
     /\ reconnecting' = FALSE
     /\ UNCHANGED <<attempts, timer, stranded>>

\* doReconnect's catch: another attempt, which attemptReconnect does not make
\* without a network, or the end of the attempts.
Retry ==
  \/ /\ attempts < MaxAttempts
     /\ net
     /\ attempts' = attempts + 1
     /\ timer' = TRUE
     /\ UNCHANGED <<reconnecting, stranded>>
  \/ /\ attempts < MaxAttempts
     /\ ~net
     /\ stranded' = TRUE
     /\ UNCHANGED <<attempts, timer, reconnecting>>
  \/ /\ attempts = MaxAttempts
     /\ reconnecting' = FALSE
     /\ UNCHANGED <<attempts, timer, stranded>>

\* The timer runs doReconnect.  What doReconnect and attemptReconnect would do for
\* no session, or one still known as connected, does not come up (NoStrayTimer).
TimerFires ==
  /\ Free
  /\ timer
  /\ timer' = FALSE
  /\ task' = "reconnect"
  /\ UNCHANGED <<lifecycleVars, networkVars, session, phase, reconnecting, attempts, stranded,
                 pageVars>>

\* newInstance returned 0, or setConnectionInfo returned false for an instance
\* that nobody will free.
ReconnectMakesNothing ==
  /\ task = "reconnect" /\ freeing = None
  /\ task' = "none"
  /\ Retry
  /\ UNCHANGED <<lifecycleVars, networkVars, session, phase, pageVars>>

ReconnectMakes ==
  /\ task = "reconnect"
  /\ L!NewInstance(made + 1)
  /\ task' = "reconnectMade"
  /\ UNCHANGED <<managerVars, pageVars>>

ReconnectNoInfo ==
  /\ task = "reconnectMade"
  /\ task' = "none"
  /\ Retry
  /\ UNCHANGED <<lifecycleVars, networkVars, session, phase, pageVars>>

\* connect returned false, or threw.
ReconnectFails ==
  /\ task = "reconnectMade"
  /\ task' = "none"
  /\ session' = made
  /\ phase' = "connecting"
  /\ Retry
  /\ UNCHANGED <<lifecycleVars, networkVars, pageVars>>

\* connect has started the thread; that is taken for a connection.
ReconnectConnects ==
  /\ task = "reconnectMade"
  /\ L!Connect(made)
  /\ task' = "none"
  /\ session' = made
  /\ phase' = "connected"
  /\ CancelReconnect
  /\ ui' = "CONNECTED"
  /\ UNCHANGED <<networkVars, page, pageInstance, service, clearing>>

-----------------------------------------------------------------------------
(* SessionPage.                                                             *)

\* aboutToAppear, with NetworkManager.initialize, and initSession up to newInstance.
OpenPage ==
  /\ Free
  /\ ~page
  /\ L!NewInstance(made + 1)
  /\ task' = "open"
  /\ page' = TRUE
  /\ pageInstance' = made + 1
  /\ service' = FALSE
  /\ ui' = "CONNECTING"
  /\ Probe
  /\ UNCHANGED <<up, net, session, phase, attemptVars, clearing>>

\* newInstance returned 0: a page without an instance.
OpenNothing ==
  /\ Free
  /\ ~page
  /\ page' = TRUE
  /\ pageInstance' = None
  /\ service' = FALSE
  /\ ui' = "DISCONNECTED"
  /\ Probe
  /\ UNCHANGED <<lifecycleVars, task, up, net, session, phase, attemptVars, clearing>>

\* setConnectionInfo returned false.
OpenFails ==
  /\ task = "open"
  /\ task' = "none"
  /\ ui' = "DISCONNECTED"
  /\ UNCHANGED <<lifecycleVars, managerVars, page, pageInstance, service, clearing>>

\* setSessionInfo, markConnecting, connect.
OpenConnects ==
  /\ task = "open"
  /\ L!Connect(made)
  /\ task' = "none"
  /\ session' = made
  /\ phase' = "connecting"
  /\ UNCHANGED <<networkVars, attemptVars, pageVars>>

\* connect returned false.
OpenNoThread ==
  /\ task = "open"
  /\ task' = "none"
  /\ session' = made
  /\ phase' = "connecting"
  /\ ui' = "DISCONNECTED"
  /\ UNCHANGED <<lifecycleVars, networkVars, attemptVars, page, pageInstance, service, clearing>>

\* goBack: disconnect, before the router takes the page away.
GoBack ==
  /\ Free
  /\ page
  /\ pageInstance # None
  /\ L!Disconnect(pageInstance)
  /\ UNCHANGED <<task, managerVars, pageVars>>

\* aboutToDisappear, cleanup: freeInstance, then clearSessionInfo once the
\* background service, if there is one and it runs, has stopped.
ClosePage ==
  /\ Free
  /\ page
  /\ \/ pageInstance # None /\ L!FreeInstance(pageInstance)
     \/ pageInstance = None /\ UNCHANGED lifecycleVars
  /\ page' = FALSE
  /\ \/ /\ ClearSessionInfo
        /\ UNCHANGED clearing
     \/ /\ service
        /\ clearing' = TRUE
        /\ UNCHANGED <<session, phase, attemptVars>>
  /\ UNCHANGED <<task, networkVars, pageInstance, service, ui>>

\* The rest of cleanup.
CleanupEnds ==
  /\ Free
  /\ clearing
  /\ clearing' = FALSE
  /\ ClearSessionInfo
  /\ UNCHANGED <<lifecycleVars, task, networkVars, page, pageInstance, service, ui>>

-----------------------------------------------------------------------------
(* LibFreeRDP's callbacks with the page's listener, which stays registered.  *)

OnSuccess(n) ==
  /\ task = "none"
  /\ L!OnSuccess(n)
  /\ MarkConnected(calls[n].addr)
  /\ ui' = "CONNECTED"
  /\ service' = TRUE
  /\ UNCHANGED <<task, networkVars, session, page, pageInstance, clearing>>

MutantSpinnerStays(n) ==
  /\ task = "none"
  /\ L!OnDisconnected(n)
  /\ MarkDisconnected(calls[n].addr)
  /\ ui' = IF ui = "RECONNECTING" THEN ui ELSE "DISCONNECTED"
  /\ UNCHANGED <<task, networkVars, session, attemptVars, page, pageInstance, service, clearing>>

OnDisconnected(n) ==
  /\ task = "none"
  /\ L!OnDisconnected(n)
  /\ MarkDisconnected(calls[n].addr)
  /\ ui' = "DISCONNECTED"
  /\ UNCHANGED <<task, networkVars, session, attemptVars, page, pageInstance, service, clearing>>

\* The instances' threads and the wait in freerdp_harmonyos_free.
FreeReturns ==
  /\ L!FreeEnds \/ L!FreeTimesOut
  /\ UNCHANGED <<task, managerVars, pageVars>>

ThreadMoves(i) ==
  /\ L!WorkerMoves(i)
  /\ UNCHANGED <<task, managerVars, pageVars>>

Native ==
  \/ FreeReturns
  \/ \E i \in L!Instances : ThreadMoves(i)
  \/ /\ \E i \in L!Instances : L!RunBreaks(i)
     /\ UNCHANGED <<task, managerVars, pageVars>>

Manager ==
  \/ NetAvailable \/ NetLost \/ NetProbed \/ TimerFires
  \/ ReconnectMakesNothing \/ ReconnectNoInfo \/ ReconnectMakes \/ ReconnectFails \/ ReconnectConnects

Page ==
  \/ OpenPage \/ OpenNothing \/ OpenFails \/ OpenConnects \/ OpenNoThread \/ GoBack \/ ClosePage \/ CleanupEnds

Callback == \E n \in 1..Len(calls) : OnSuccess(n) \/ OnDisconnected(n)

Next == Native \/ Manager \/ Page \/ Callback

SessionSpec == Init /\ [][Next]_vars

\* Handlers finish, timers fire, the threads are scheduled.  The page need not be
\* closed, the network need not change.
FairSpec ==
  /\ SessionSpec
  /\ WF_vars(\/ TimerFires
             \/ ReconnectMakesNothing \/ ReconnectNoInfo \/ ReconnectFails \/ ReconnectConnects
             \/ OpenFails \/ OpenConnects \/ OpenNoThread)
  /\ WF_vars(FreeReturns)
  /\ \A i \in L!Instances : WF_vars(ThreadMoves(i))

-----------------------------------------------------------------------------

\* The timer is armed only for a session that waits to be connected, so that the
\* timer of an earlier connection never makes another instance of a session
\* (markConnected: a successful connection cancels any pending timer).
NoStrayTimer ==
  timer => /\ reconnecting
           /\ session # None
           /\ phase # "connected"
           /\ addr[session] \notin instanceState

\* The connection of instance i may still be, or become, a session on the server.
Live(i) ==
  /\ ctx[i] = "live"
  /\ worker[i] \in {"starting", "connecting", "established", "running"}
  /\ ~abort[i]

\* The manager never starts a second instance for a session whose own is alive
\* (sessionConnectionPhase: CONNECTING must not be mistaken for a disconnected
\* session): the first one would be thrown out by the server.  It may while the
\* cleanup of a closed page still waits to forget that page's session (README,
\* section 7).
NoSecondInstance ==
  [][task = "reconnectMade" /\ task' = "none" /\ session' # session /\ ~clearing
       => ~Live(session)]_vars

\* Attempts end if the network is there for them: one succeeds or the last has failed.
AttemptsEnd == [](reconnecting => net) => (reconnecting ~> ~reconnecting)

\* An attempt is made or will be, by the timer that is armed for it.
UnderWay == timer \/ task \in {"reconnect", "reconnectMade"}

\* The last attempt has failed.
GivenUp == attempts = MaxAttempts /\ ~reconnecting

\* A page that waits for a session known to be lost, with the network back, has an
\* attempt under way, whatever came between the loss and netAvailable and however
\* late hasDefaultNet answered; unless all have failed, or one failed while the
\* manager knew of no network and nothing follows (ReconnectIsUnderWay).  That the
\* manager says to be reconnecting is not enough.
LostSessionIsTried ==
  page /\ ui = "RECONNECTING" /\ up /\ session # None /\ phase = "disconnected"
    => UnderWay \/ stranded \/ GivenUp

\* A session that the manager takes for connected, though connect has only started
\* a thread, or for connecting, has its end still to come, in its thread or as a
\* callback, or its thread was never made: no end passes that the manager does not
\* hear of, so that a lost session becomes one to reconnect (markDisconnected).
PhaseIsTruthful ==
  session # None /\ phase # "disconnected" =>
    \/ L!EndIsToCome(session)
    \/ phase = "connecting" /\ worker[session] = "none"

-----------------------------------------------------------------------------
(* What the code does not keep (README, section 7).                          *)

\* With the network there, reconnecting means that an attempt is under way
\* (attemptReconnect: "network lost during reconnection, waiting").
ReconnectIsUnderWay == reconnecting /\ net => timer \/ task # "none"

\* A session lost while the network is there is tried again: only netAvailable
\* starts the attempts, and none comes (initialize: reconnect only after a
\* previously active connection has reported that it is disconnected).
EveryLossIsTried ==
  page /\ up /\ session # None /\ phase = "disconnected" => UnderWay \/ GivenUp

\* The page says that it waits for a reconnection only while there is none to be
\* had or one under way: it does not hide a session that outlived a short loss of
\* the network (onNetworkLost: "network lost, waiting for the reconnection").
WaitHasAnEnd ==
  page /\ ui = "RECONNECTING" /\ net => reconnecting \/ phase = "connecting" \/ task # "none"

\* The manager never starts a second instance for a live session, not even while
\* a closed page's cleanup waits (markConnected: cancelled before it can create
\* another instance for the same Windows session).
NeverASecondInstance ==
  [][task = "reconnectMade" /\ task' = "none" /\ session' # session => ~Live(session)]_vars

\* At most one instance of the application is alive on the server: they compete
\* for one Windows session.
OneSession ==
  \A i, j \in L!Instances : Live(i) /\ Live(j) /\ worker[i] = "running" /\ worker[j] = "running" => i = j

=============================================================================
