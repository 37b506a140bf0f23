--------------------------- MODULE Session_proofs ---------------------------
(* Proofs about Session, for any number of instances and attempts.  The      *)
(* invariant of InstanceLifecycle is carried over to the instances of a      *)
(* session; the rest relates the manager's timer and phase to them.          *)
EXTENDS Session, TLAPS

P == INSTANCE InstanceLifecycle_proofs WITH Addresses <- 1..Limit, Reuse <- FALSE

USE DEF None, L!None, L!Instances

-----------------------------------------------------------------------------
(* The two instances of InstanceLifecycle say the same.                      *)

LEMMA SameNext == L!Next => P!Next
<1> USE DEF P!Instances, P!None, L!jsVars, P!jsVars
<1>1. ASSUME NEW a, L!NewInstance(a) PROVE P!NewInstance(a)
  BY <1>1 DEF L!NewInstance, P!NewInstance
<1>2. ASSUME NEW i, L!Connect(i) PROVE P!Connect(i)
  BY <1>2 DEF L!Connect, P!Connect, L!CanConnect, P!CanConnect
<1>3. ASSUME NEW i, L!Disconnect(i) PROVE P!Disconnect(i)
  BY <1>3 DEF L!Disconnect, P!Disconnect, L!NativeDisconnect, P!NativeDisconnect
<1>4. ASSUME NEW i, L!FreeInstance(i) PROVE P!FreeInstance(i)
  BY <1>4 DEF L!FreeInstance, P!FreeInstance, L!BeginFree, P!BeginFree,
              L!NativeDisconnect, P!NativeDisconnect
<1>5. (L!FreeEnds => P!FreeEnds) /\ (L!FreeTimesOut => P!FreeTimesOut)
  BY DEF L!FreeEnds, P!FreeEnds, L!FreeTimesOut, P!FreeTimesOut,
         L!FreeContext, P!FreeContext, L!Using, P!Using
<1>6. ASSUME NEW i, L!WorkerStep(i) PROVE P!WorkerStep(i)
  BY <1>6
     DEF L!Goto, L!Post, L!ConnectBegins, L!StartFails, L!ConnectFails, L!ConnectReturns,
         L!PostConnect, L!Runs, L!RunIsTold, L!RunBreaks, L!Stops, L!Reports, L!Exits,
         L!WorkerMoves, L!WorkerStep,
         P!Goto, P!Post, P!ConnectBegins, P!StartFails, P!ConnectFails, P!ConnectReturns,
         P!PostConnect, P!Runs, P!RunIsTold, P!RunBreaks, P!Stops, P!Reports, P!Exits,
         P!WorkerMoves, P!WorkerStep
<1>7. ASSUME NEW n, L!OnSuccess(n) PROVE P!OnSuccess(n)
  BY <1>7 DEF L!OnSuccess, P!OnSuccess, L!Due, P!Due, L!RemoveAt, P!RemoveAt
<1>8. ASSUME NEW n, L!OnDisconnected(n) PROVE P!OnDisconnected(n)
  BY <1>8 DEF L!OnDisconnected, P!OnDisconnected, L!Due, P!Due, L!RemoveAt, P!RemoveAt,
              L!At, P!At, L!BeginFree, P!BeginFree
<1>. QED BY <1>1, <1>2, <1>3, <1>4, <1>5, <1>6, <1>7, <1>8
         DEF L!Next, P!Next, L!Application, P!Application, L!Callback, P!Callback

LEMMA SameState ==
  /\ L!Init <=> P!Init
  /\ L!TypeOK <=> P!TypeOK
  /\ L!FreeInvariant <=> P!FreeInvariant
<1> USE DEF P!Instances, P!None, L!jsVars, P!jsVars
<1>1. L!Init <=> P!Init
  BY DEF L!Init, P!Init
<1>2. L!TypeOK <=> P!TypeOK
  BY DEF L!TypeOK, P!TypeOK, L!WorkerStates, P!WorkerStates, L!Call, P!Call
<1>3. L!FreeInvariant <=> P!FreeInvariant
  BY DEF L!FreeInvariant, P!FreeInvariant, L!FreedOnce, P!FreedOnce, L!LiveIsLast, P!LiveIsLast,
         L!PendingIsLive, P!PendingIsLive, L!LiveIsMade, P!LiveIsMade
<1>. QED BY <1>1, <1>2, <1>3

LEMMA LifecycleAssumed == P!LifecycleAssumption
<1>1. Limit \in Nat /\ 1 \in 1..Limit
  BY SessionAssumption
<1>2. {FALSE, InOrder, Prompt} \subseteq BOOLEAN
  BY Zenon, SessionAssumption
<1>. QED BY <1>1, <1>2, Zenon DEF P!LifecycleAssumption

\* What InstanceLifecycle_proofs shows of a step.
LEMMA LifecycleStep ==
  ASSUME L!TypeOK, L!FreeInvariant, [L!Next]_(L!vars)
  PROVE  L!TypeOK' /\ L!FreeInvariant'
<1>1. P!LifecycleAssumption
  BY LifecycleAssumed
<1>2. P!TypeOK /\ P!FreeInvariant
  BY SameState
<1>3. [P!Next]_(P!vars)
  BY SameNext DEF L!vars, P!vars, L!jsVars, P!jsVars
<1>4. P!TypeOK' /\ P!FreeInvariant'
  BY <1>1, <1>2, <1>3, P!TypeStep, P!FreeStep
<1>5. (L!TypeOK <=> P!TypeOK)' /\ (L!FreeInvariant <=> P!FreeInvariant)'
  BY SameState, PTL
<1>. QED BY <1>4, <1>5

LEMMA LifecycleInit == L!Init => L!TypeOK /\ L!FreeInvariant
<1>1. P!LifecycleAssumption
  BY LifecycleAssumed
<1>. QED BY <1>1, P!InitInvariant, SameState

-----------------------------------------------------------------------------
(* A step of the session is one of the instances, or leaves them alone, so    *)
(* that what was proved of instances holds here.  A handler that has made an  *)
(* instance connects that one.                                               *)

Making == task \in {"open", "reconnectMade"}

MadeExists == Making => made \in L!Instances

LEMMA Bounds == Limit \in Nat /\ MaxAttempts \in Nat \ {0}
BY Zenon, SessionAssumption

LEMMA StepRefines ==
  ASSUME SessionTypeOK, MadeExists, [Next]_vars
  PROVE  [L!Next]_(L!vars)
<1> USE DEF L!Next, L!Application
<1>0. made \in 0..Limit /\ (made < Limit => made + 1 \in 1..Limit)
  BY Bounds DEF SessionTypeOK, L!TypeOK
<1>1. ASSUME UNCHANGED lifecycleVars PROVE UNCHANGED L!vars
  BY <1>1 DEF lifecycleVars, L!vars, L!jsVars
<1>2. CASE Native
  BY <1>2 DEF Native, FreeReturns, ThreadMoves, L!WorkerStep
<1>3. CASE Manager
  <2>1. ASSUME ReconnectMakes PROVE L!Next
    BY <1>0, <2>1 DEF ReconnectMakes, L!NewInstance
  <2>2. ASSUME ReconnectConnects PROVE L!Next
    BY <2>2 DEF ReconnectConnects, MadeExists, Making
  <2>3. ASSUME \/ NetAvailable \/ NetLost \/ NetProbed \/ TimerFires
               \/ ReconnectMakesNothing \/ ReconnectNoInfo \/ ReconnectFails
        PROVE  UNCHANGED lifecycleVars
    BY <2>3 DEF NetAvailable, NetLost, NetProbed, TimerFires, ReconnectMakesNothing,
                ReconnectNoInfo, ReconnectFails
  <2>. QED BY <1>1, <1>3, <2>1, <2>2, <2>3 DEF Manager
<1>4. CASE Page
  <2>1. ASSUME OpenPage PROVE L!Next
    BY <1>0, <2>1 DEF OpenPage, L!NewInstance
  <2>2. ASSUME OpenConnects PROVE L!Next
    BY <2>2 DEF OpenConnects, MadeExists, Making
  <2>3. ASSUME GoBack PROVE L!Next
    BY <2>3 DEF GoBack, SessionTypeOK
  <2>4. ASSUME ClosePage PROVE L!Next \/ UNCHANGED lifecycleVars
    BY <2>4 DEF ClosePage, SessionTypeOK
  <2>5. ASSUME OpenNothing \/ OpenFails \/ OpenNoThread \/ CleanupEnds
        PROVE  UNCHANGED lifecycleVars
    BY <2>5 DEF OpenNothing, OpenFails, OpenNoThread, CleanupEnds
  <2>. QED BY <1>1, <1>4, <2>1, <2>2, <2>3, <2>4, <2>5 DEF Page
<1>5. CASE Callback
  BY <1>5 DEF Callback, OnSuccess, OnDisconnected, L!Callback
<1>6. CASE UNCHANGED vars
  BY <1>1, <1>6 DEF vars
<1>. QED BY <1>2, <1>3, <1>4, <1>5, <1>6 DEF Next

-----------------------------------------------------------------------------
(* Types.                                                                    *)

SessionInvariant == SessionTypeOK /\ L!FreeInvariant /\ MadeExists

\* The manager's and the page's own variables: what they remember, and whether.
Values ==
  /\ task \in {"none", "open", "reconnect", "reconnectMade"}
  /\ session \in 0..Limit
  /\ phase \in {"connecting", "connected", "disconnected"}
  /\ attempts \in 0..MaxAttempts
  /\ pageInstance \in 0..Limit
  /\ ui \in {"DISCONNECTED", "CONNECTING", "CONNECTED", "RECONNECTING"}

Flags ==
  /\ {up, net, reconnecting, timer, stranded, page, service, clearing} \subseteq BOOLEAN
  /\ probe \subseteq BOOLEAN

LEMMA OwnTypes == SessionTypeOK <=> L!TypeOK /\ Values /\ Flags
<1>1. 1..Limit \cup {0} = 0..Limit
  BY Bounds
<1>. QED BY <1>1 DEF SessionTypeOK, Values, Flags

LEMMA InitSession == Init => SessionInvariant
<1> SUFFICES ASSUME Init PROVE SessionInvariant
  OBVIOUS
<1>1. Values /\ MadeExists
  BY Bounds DEF Init, Values, MadeExists, Making
<1>2. Flags
  BY Zenon DEF Init, Flags
<1>. QED BY <1>1, <1>2, LifecycleInit, OwnTypes DEF Init, SessionInvariant

LEMMA ValuesStep ==
  ASSUME SessionInvariant, [Next]_vars
  PROVE  Values' /\ MadeExists'
<1> USE DEF Values, MadeExists, Making, managerVars, networkVars, attemptVars, pageVars
<1>0. /\ Values /\ MadeExists /\ made \in 0..Limit
      /\ 0 \in 0..Limit /\ 0 \in 0..MaxAttempts /\ 1 \in 0..MaxAttempts
      /\ \A i \in 1..Limit : i \in 0..Limit
  BY Bounds, OwnTypes DEF SessionInvariant, L!TypeOK
<1>1. CASE Native
  <2>1. UNCHANGED <<task, managerVars, pageVars>>
    BY <1>1 DEF Native, FreeReturns, ThreadMoves
  <2>2. UNCHANGED made
    BY <1>1 DEF Native, FreeReturns, L!FreeEnds, L!FreeTimesOut, L!FreeContext, ThreadMoves,
                L!WorkerMoves, L!ConnectBegins, L!StartFails, L!ConnectFails, L!ConnectReturns,
                L!PostConnect, L!Runs, L!RunIsTold, L!RunBreaks, L!Stops, L!Reports, L!Exits
  <2>. QED BY <1>0, <2>1, <2>2
<1>2. CASE NetAvailable \/ NetLost \/ NetProbed \/ TimerFires
  BY <1>0, <1>2, Zenon
     DEF NetAvailable, NetLost, NetProbed, TimerFires, Hears, FirstAttempt, Free, lifecycleVars
<1>3. Retry => attempts' \in 0..MaxAttempts
  <2>1. Retry => attempts' = attempts \/ (attempts < MaxAttempts /\ attempts' = attempts + 1)
    BY Zenon DEF Retry
  <2>2. attempts < MaxAttempts => attempts + 1 \in 0..MaxAttempts
    BY <1>0, Bounds
  <2>. QED BY <1>0, <2>1, <2>2, Zenon
<1>4. CASE ReconnectMakesNothing \/ ReconnectNoInfo \/ ReconnectFails
  BY <1>0, <1>3, <1>4, Zenon
     DEF ReconnectMakesNothing, ReconnectNoInfo, ReconnectFails, lifecycleVars
<1>5. ASSUME ReconnectMakes \/ OpenPage PROVE  Values' /\ MadeExists'
  <2>1. made' = made + 1 /\ made' \in 1..Limit
    BY <1>0, <1>5, Bounds DEF ReconnectMakes, OpenPage, L!NewInstance
  <2>. QED BY <1>0, <1>5, <2>1, Zenon DEF ReconnectMakes, OpenPage
<1>6. CASE ReconnectConnects \/ OpenConnects
  BY <1>0, <1>6, Zenon DEF ReconnectConnects, OpenConnects, CancelReconnect
<1>7. CASE OpenNothing \/ OpenFails \/ OpenNoThread
  BY <1>0, <1>7, Zenon DEF OpenNothing, OpenFails, OpenNoThread, Free, lifecycleVars
<1>8. CASE GoBack \/ CleanupEnds
  BY <1>0, <1>8, Zenon DEF GoBack, CleanupEnds, ClearSessionInfo, CancelReconnect, Free
<1>9. CASE ClosePage
  BY <1>0, <1>9, Zenon DEF ClosePage, ClearSessionInfo, CancelReconnect, Free
<1>10. ASSUME NEW n \in 1..Len(calls), OnSuccess(n) \/ OnDisconnected(n)
       PROVE  Values' /\ MadeExists'
  BY <1>0, <1>10, Zenon
     DEF OnSuccess, OnDisconnected, MarkConnected, MarkDisconnected, CancelReconnect
<1>11. CASE UNCHANGED vars
  BY <1>0, <1>11, Zenon DEF vars, lifecycleVars
<1>. QED BY <1>1, <1>2, <1>4, <1>5, <1>6, <1>7, <1>8, <1>9, <1>10, <1>11
         DEF Next, Manager, Page, Callback

LEMMA FlagsStep ==
  ASSUME Flags, [Next]_vars
  PROVE  Flags'
<1> USE DEF Flags, managerVars, networkVars, attemptVars, pageVars
<1>1. CASE Native
  BY <1>1, Zenon DEF Native, FreeReturns, ThreadMoves
<1>2. CASE Manager
  BY <1>2, Zenon
     DEF Manager, NetAvailable, NetLost, NetProbed, Hears, FirstAttempt, TimerFires,
         ReconnectMakesNothing, ReconnectNoInfo, ReconnectFails, ReconnectConnects, ReconnectMakes,
         Retry, CancelReconnect
<1>3. CASE Page
  BY <1>3, Zenon
     DEF Page, OpenPage, OpenNothing, Probe, OpenFails, OpenConnects, OpenNoThread, GoBack,
         ClosePage, CleanupEnds, ClearSessionInfo, CancelReconnect
<1>4. CASE Callback
  BY <1>4, Zenon DEF Callback, OnSuccess, OnDisconnected, MarkConnected, CancelReconnect
<1>5. CASE UNCHANGED vars
  BY <1>5, Zenon DEF vars
<1>. QED BY <1>1, <1>2, <1>3, <1>4, <1>5 DEF Next

LEMMA SessionStep ==
  ASSUME SessionInvariant, [Next]_vars
  PROVE  SessionInvariant'
<1>1. L!TypeOK' /\ L!FreeInvariant'
  BY StepRefines, LifecycleStep, OwnTypes DEF SessionInvariant
<1>2. Values' /\ Flags' /\ MadeExists'
  BY ValuesStep, FlagsStep, OwnTypes DEF SessionInvariant
<1>3. (SessionTypeOK <=> L!TypeOK /\ Values /\ Flags)'
  BY OwnTypes, PTL
<1>. QED BY <1>1, <1>2, <1>3 DEF SessionInvariant

LEMMA SessionInvariantHolds == SessionSpec => []SessionInvariant
BY InitSession, SessionStep, PTL DEF SessionSpec

\* Type correctness, of the instances and of what the page and the manager know
\* of them: an instance they use is one that was made.
THEOREM TypeCorrect == SessionSpec => []SessionTypeOK
<1>1. SessionInvariant => SessionTypeOK
  BY DEF SessionInvariant
<1>. QED BY <1>1, SessionInvariantHolds, PTL

\* The manager says to be reconnecting only while an attempt is under way, or after
\* one that failed offline.
ReconnectingIsFor == reconnecting => UnderWay \/ stranded

LEMMA ReconnectingStep ==
  ASSUME ReconnectingIsFor, [Next]_vars
  PROVE  ReconnectingIsFor'
<1> USE DEF ReconnectingIsFor, UnderWay, managerVars, networkVars, attemptVars, pageVars
<1>1. CASE Native
  BY <1>1, Zenon DEF Native, FreeReturns, ThreadMoves
<1>2. CASE Manager
  <2>1. CASE NetAvailable \/ NetLost \/ NetProbed
    BY <2>1, Zenon DEF NetAvailable, NetLost, NetProbed, Hears, FirstAttempt, Free
  <2>2. CASE TimerFires \/ ReconnectMakes
    BY <2>2 DEF TimerFires, ReconnectMakes
  <2>3. CASE ReconnectMakesNothing \/ ReconnectNoInfo \/ ReconnectFails
    BY <2>3, Zenon DEF ReconnectMakesNothing, ReconnectNoInfo, ReconnectFails, Retry
  <2>4. CASE ReconnectConnects
    BY <2>4, Zenon DEF ReconnectConnects, CancelReconnect
  <2>. QED BY <1>2, <2>1, <2>2, <2>3, <2>4 DEF Manager
<1>3. CASE Page
  <2>1. CASE OpenPage \/ OpenNothing \/ OpenFails \/ OpenConnects \/ OpenNoThread \/ GoBack
    <3>1. UNCHANGED <<reconnecting, timer, stranded>>
      BY <2>1, Zenon
         DEF OpenPage, OpenNothing, OpenFails, OpenConnects, OpenNoThread, GoBack
    <3>2. task' = task \/ task \in {"none", "open"}
      BY <2>1, Zenon
         DEF OpenPage, OpenNothing, OpenFails, OpenConnects, OpenNoThread, GoBack, Free
    <3>. QED BY <3>1, <3>2
  <2>2. CASE ClosePage \/ CleanupEnds
    BY <2>2, Zenon DEF ClosePage, CleanupEnds, ClearSessionInfo, CancelReconnect
  <2>. QED BY <1>3, <2>1, <2>2 DEF Page
<1>4. CASE Callback
  <2>1. /\ UNCHANGED task
        /\ UNCHANGED <<reconnecting, timer, stranded>> \/ reconnecting' = FALSE
    BY <1>4, Zenon DEF Callback, OnSuccess, OnDisconnected, MarkConnected, CancelReconnect
  <2>. QED BY <2>1, Zenon
<1>5. CASE UNCHANGED vars
  BY <1>5, Zenon DEF vars
<1>. QED BY <1>1, <1>2, <1>3, <1>4, <1>5 DEF Next

\* A page that waits for a session known to be lost, with the network back, has an
\* attempt under way, unless all have failed or one failed offline: nothing that
\* comes between the loss and netAvailable hides it, and no late answer of
\* hasDefaultNet does.
THEOREM LostSessionAlwaysTried == SessionSpec => []LostSessionIsTried
<1> USE DEF managerVars, networkVars, attemptVars, pageVars
<1>1. Init => LostSessionIsTried /\ ReconnectingIsFor
  BY Zenon DEF Init, LostSessionIsTried, ReconnectingIsFor
<1>2. ASSUME LostSessionIsTried, ReconnectingIsFor, [Next]_vars PROVE LostSessionIsTried'
  <2> USE DEF LostSessionIsTried, UnderWay, GivenUp
  <2>1. CASE Native
    BY <1>2, <2>1, Zenon DEF Native, FreeReturns, ThreadMoves
  <2>2. CASE Manager
    <3>1. CASE NetLost
      BY <3>1, Zenon DEF NetLost, Hears
    <3>2. CASE NetAvailable
      <4>1. CASE StartsReconnect
        BY <3>2, <4>1, Zenon DEF NetAvailable, FirstAttempt
      <4>2. CASE ~StartsReconnect
        <5>1. UNCHANGED <<task, session, phase, reconnecting, timer, stranded>>
          BY <3>2, <4>2, Zenon DEF NetAvailable
        <5>2. session = None \/ phase # "disconnected" \/ reconnecting
          BY <4>2, Zenon DEF StartsReconnect
        <5>3. session = None \/ phase # "disconnected" \/ UnderWay \/ stranded
          BY <1>2, <5>2, Zenon DEF ReconnectingIsFor
        <5>. QED BY <5>1, <5>3, Zenon
      <4>. QED BY <4>1, <4>2
    <3>3. CASE NetProbed
      BY <1>2, <3>3, Zenon DEF NetProbed
    <3>4. CASE TimerFires \/ ReconnectMakes
      <4>1. task' \in {"reconnect", "reconnectMade"}
        BY <3>4 DEF TimerFires, ReconnectMakes
      <4>. QED BY <4>1, Zenon
    <3>5. CASE ReconnectMakesNothing \/ ReconnectNoInfo
      <4>1. Retry
        BY <3>5, Zenon DEF ReconnectMakesNothing, ReconnectNoInfo
      <4>2. timer' \/ stranded' \/ (attempts = MaxAttempts /\ attempts' = attempts /\ ~reconnecting')
        BY <4>1, Zenon DEF Retry
      <4>. QED BY <4>2
    <3>6. CASE ReconnectFails \/ ReconnectConnects
      <4>1. phase' # "disconnected"
        BY <3>6 DEF ReconnectFails, ReconnectConnects
      <4>. QED BY <4>1, Zenon
    <3>. QED BY <2>2, <3>1, <3>2, <3>3, <3>4, <3>5, <3>6 DEF Manager
  <2>3. CASE Page
    <3>1. CASE OpenPage \/ OpenNothing \/ OpenFails \/ OpenConnects \/ OpenNoThread
      <4>1. ui' # "RECONNECTING" \/ phase' # "disconnected"
        BY <3>1 DEF OpenPage, OpenNothing, OpenFails, OpenConnects, OpenNoThread
      <4>. QED BY <4>1, Zenon
    <3>2. CASE GoBack \/ ClosePage \/ CleanupEnds
      BY <1>2, <3>2, Zenon DEF GoBack, ClosePage, CleanupEnds, ClearSessionInfo
    <3>. QED BY <2>3, <3>1, <3>2 DEF Page
  <2>4. CASE Callback
    <3>1. ui' # "RECONNECTING"
      BY <2>4 DEF Callback, OnSuccess, OnDisconnected
    <3>. QED BY <3>1, Zenon
  <2>5. CASE UNCHANGED vars
    BY <1>2, <2>5, Zenon DEF vars
  <2>. QED BY <1>2, <2>1, <2>2, <2>3, <2>4, <2>5 DEF Next
<1>. QED BY <1>1, <1>2, ReconnectingStep, PTL DEF SessionSpec

-----------------------------------------------------------------------------
(* The instances: an address names one, and                                   *)
(* what has been posted or is remembered is of an instance that was made.    *)

Ending == {"leaving", "exited"}

Unique == \A i, j \in 1..made : addr[i] = addr[j] => i = j

Begun == \A i \in 1..Limit : worker[i] # "none" => i \in 1..made

\* The calls that may be posted.
Sound == {c \in L!Call : /\ c.of \in 1..made
                         /\ c.addr = addr[c.of]
                         /\ c.fn = "disconnected" => worker[c.of] \in Ending}

Stored == calls \in Seq(Sound)

Known == \A a \in instanceState : \E i \in 1..made : addr[i] = a

InstancesInvariant == Unique /\ Begun /\ Stored /\ Known

LEMMA SeqMonotone ==
  ASSUME NEW S, NEW T, S \subseteq T, NEW s \in Seq(S)
  PROVE  s \in Seq(T)
OBVIOUS

\* A step in which no instance is made and none comes to be known.
LEMMA QuietStep ==
  ASSUME L!TypeOK, InstancesInvariant, UNCHANGED <<made, addr>>,
         instanceState' \subseteq instanceState,
         \A i \in 1..Limit : /\ worker'[i] # "none" => worker[i] # "none" \/ i \in 1..made
                             /\ worker[i] \in Ending => worker'[i] \in Ending
  PROVE  /\ Unique' /\ Begun' /\ Known' /\ Sound \subseteq Sound'
         /\ UNCHANGED calls => Stored'
<1>1. Unique' /\ Begun' /\ Known'
  BY DEF InstancesInvariant, Unique, Begun, Known
<1>2. 1..made \subseteq 1..Limit
  BY Bounds DEF L!TypeOK
<1>3. Sound \subseteq Sound'
  BY <1>2 DEF Sound, L!Call
<1>4. UNCHANGED calls => Stored'
  BY <1>3, SeqMonotone DEF InstancesInvariant, Stored
<1>. QED BY <1>1, <1>3, <1>4

LEMMA InstancesStep ==
  ASSUME L!TypeOK, L!FreeInvariant, InstancesInvariant, [L!Next]_(L!vars)
  PROVE  InstancesInvariant'
<1>0. /\ made \in 0..Limit /\ addr \in [1..Limit -> 1..Limit]
      /\ worker \in [1..Limit -> L!WorkerStates] /\ calls \in Seq(L!Call)
      /\ Unique /\ Begun /\ Stored /\ Known
  BY DEF L!TypeOK, InstancesInvariant
<1>1. ASSUME NEW a \in 1..Limit, L!NewInstance(a) PROVE InstancesInvariant'
  <2>1. /\ made' = made + 1 /\ made' \in 1..Limit /\ addr' = [addr EXCEPT ![made + 1] = a]
        /\ UNCHANGED <<worker, calls, instanceState>>
        /\ \A i \in 1..made : addr[i] # a
    BY <1>0, <1>1, Bounds DEF L!NewInstance, L!jsVars
  <2>2. /\ \A i \in 1..made : i \in 1..made' /\ addr'[i] = addr[i]
        /\ addr'[made + 1] = a /\ \A i \in 1..made' : i = made + 1 \/ i \in 1..made
    <3>1. made \in Nat /\ made + 1 \in 1..Limit
      BY <1>0, <2>1
    <3>2. \A i \in 1..made : i \in 1..Limit /\ i # made + 1
      BY <1>0, <3>1, Bounds
    <3>3. (\A i \in 1..made : i \in 1..made + 1)
            /\ (\A i \in 1..made + 1 : i = made + 1 \/ i \in 1..made)
      BY <3>1
    <3>4. addr \in [1..Limit -> 1..Limit] /\ made' = made + 1 /\ addr' = [addr EXCEPT ![made + 1] = a]
      BY <1>0, <2>1
    <3>5. addr'[made + 1] = a /\ \A i \in 1..made : addr'[i] = addr[i]
      BY <3>1, <3>2, <3>4
    <3>. QED BY <3>3, <3>4, <3>5
  <2>3. Unique'
    BY <1>0, <2>1, <2>2 DEF Unique
  <2>4. Begun' /\ Known'
    BY <1>0, <2>1, <2>2 DEF Begun, Known
  <2>5. Sound \subseteq Sound'
    BY <2>1, <2>2 DEF Sound, L!Call
  <2>6. Stored'
    BY <1>0, <2>1, <2>5, SeqMonotone DEF Stored
  <2>. QED BY <2>3, <2>4, <2>6 DEF InstancesInvariant
<1>2. ASSUME UNCHANGED <<made, addr, worker, calls, instanceState>>
      PROVE  InstancesInvariant'
  BY <1>2, QuietStep DEF InstancesInvariant
<1>3. ASSUME NEW i \in 1..Limit, NEW to \in L!WorkerStates,
             worker[i] # "none" \/ i \in 1..made, worker[i] \in Ending => to \in Ending,
             worker' = [worker EXCEPT ![i] = to],
             UNCHANGED <<made, addr, calls, instanceState>>
      PROVE  InstancesInvariant'
  <2>1. \A j \in 1..Limit : /\ worker'[j] # "none" => worker[j] # "none" \/ j \in 1..made
                            /\ worker[j] \in Ending => worker'[j] \in Ending
    BY <1>0, <1>3
  <2>. QED BY <1>3, <2>1, QuietStep DEF InstancesInvariant
<1>4. ASSUME NEW i \in 1..Limit, L!Connect(i) PROVE InstancesInvariant'
  <2>1. /\ i \in 1..made /\ worker[i] = "none" /\ worker' = [worker EXCEPT ![i] = "starting"]
        /\ UNCHANGED <<made, addr, calls, instanceState>>
    BY <1>0, <1>4 DEF L!Connect, L!CanConnect, L!FreeInvariant, L!LiveIsMade, L!jsVars
  <2>. QED BY <1>3, <2>1 DEF L!WorkerStates, Ending
<1>5. ASSUME NEW i \in 1..Limit, L!Disconnect(i) \/ L!FreeInstance(i) PROVE InstancesInvariant'
  BY <1>2, <1>5 DEF L!Disconnect, L!FreeInstance, L!jsVars
<1>6. CASE L!FreeEnds \/ L!FreeTimesOut
  BY <1>2, <1>6 DEF L!FreeEnds, L!FreeTimesOut, L!FreeContext
<1>7. ASSUME NEW i \in 1..Limit,
             \/ L!ConnectBegins(i) \/ L!StartFails(i) \/ L!ConnectFails(i) \/ L!ConnectReturns(i)
             \/ L!Runs(i) \/ L!RunIsTold(i) \/ L!RunBreaks(i) \/ L!Stops(i) \/ L!Exits(i)
      PROVE  InstancesInvariant'
  <2>1. /\ worker[i] # "none" /\ UNCHANGED <<made, addr, calls, instanceState>>
        /\ \E to \in L!WorkerStates : /\ worker' = [worker EXCEPT ![i] = to]
                                      /\ worker[i] \in Ending => to \in Ending
    BY <1>7 DEF L!ConnectBegins, L!StartFails, L!ConnectFails, L!ConnectReturns, L!Runs,
                L!RunIsTold, L!RunBreaks, L!Stops, L!Exits, L!Goto, L!WorkerStates, Ending, L!jsVars
  <2>. QED BY <1>3, <2>1
<1>8. ASSUME NEW i \in 1..Limit, L!PostConnect(i) \/ L!Reports(i) PROVE InstancesInvariant'
  <2>1. PICK to \in {"established", "leaving"} :
          /\ worker[i] \notin {"none", "leaving", "exited"}
          /\ worker' = [worker EXCEPT ![i] = to]
          /\ L!Post(IF to = "leaving" THEN "disconnected" ELSE "success", i)
    BY <1>8 DEF L!PostConnect, L!Reports, L!Goto
  <2>2. UNCHANGED <<made, addr, instanceState>>
    BY <1>8 DEF L!PostConnect, L!Reports, L!jsVars
  <2> DEFINE c == [fn |-> IF to = "leaving" THEN "disconnected" ELSE "success",
                   addr |-> addr[i], of |-> i]
  <2>3. /\ \A j \in 1..Limit : /\ worker'[j] # "none" => worker[j] # "none" \/ j \in 1..made
                               /\ worker[j] \in Ending => worker'[j] \in Ending
        /\ to = "leaving" => worker'[i] \in Ending
    BY <1>0, <2>1 DEF Ending
  <2>4. Unique' /\ Begun' /\ Known' /\ Sound \subseteq Sound'
    BY <2>2, <2>3, QuietStep
  <2>5. i \in 1..made
    BY <1>0, <2>1 DEF Begun
  <2>6. c \in Sound'
    BY <1>0, <2>2, <2>3, <2>5 DEF Sound, L!Call
  <2>7. calls' = Append(calls, c)
    BY <2>1 DEF L!Post
  <2> HIDE DEF c
  <2>8. calls \in Seq(Sound')
    BY <1>0, <2>4, SeqMonotone DEF Stored
  <2>9. Stored'
    BY <2>6, <2>7, <2>8, P!AppendType DEF Stored
  <2>. QED BY <2>4, <2>9 DEF InstancesInvariant
<1>9. ASSUME NEW n \in 1..Len(calls), L!OnSuccess(n) \/ L!OnDisconnected(n)
      PROVE  InstancesInvariant'
  <2>1. /\ calls' = L!RemoveAt(calls, n) /\ UNCHANGED <<made, addr, worker>>
        /\ instanceState' \subseteq instanceState \cup {calls[n].addr}
    BY <1>9 DEF L!OnSuccess, L!OnDisconnected
  <2>2. calls' \in Seq(Sound) /\ calls[n] \in Sound
    BY <1>0, <2>1, P!RemoveType DEF Stored, P!RemoveAt, L!RemoveAt
  <2>3. Sound' = Sound
    BY <2>1 DEF Sound, L!Call
  <2>4. Unique' /\ Begun' /\ Known'
    BY <1>0, <2>1, <2>2 DEF Unique, Begun, Known, Sound
  <2>. QED BY <2>2, <2>3, <2>4 DEF InstancesInvariant, Stored
<1>10. CASE UNCHANGED L!vars
  BY <1>2, <1>10 DEF L!vars, L!jsVars
<1>. QED BY <1>1, <1>4, <1>5, <1>6, <1>7, <1>8, <1>9, <1>10
         DEF L!Next, L!Application, L!Callback, L!WorkerStep, L!WorkerMoves

-----------------------------------------------------------------------------
(* The manager.                                                              *)

Idle(i) == worker[i] \in {"none", "leaving", "exited"}

\* An instance just made is known to nobody else.
Fresh == Making => worker[made] = "none" /\ addr[made] \notin instanceState

\* A session outlives its page only while the page's cleanup waits, and one
\* handler runs at a time.
Owned ==
  /\ session \in 0..made
  /\ session # 0 => page \/ clearing
  /\ task = "open" => page /\ (session = 0 \/ clearing)
  /\ task \in {"reconnect", "reconnectMade"} => ~timer

\* A session that is not connected has lost its thread.
LostIsIdle ==
  session # 0 /\ phase = "disconnected" => Idle(session) /\ addr[session] \notin instanceState

\* An attempt is of a session that waits for one, and is not of one whose thread
\* runs, unless a new page opened before the cleanup of the last one ended.
TriesTheLost ==
  UnderWay => /\ reconnecting
              /\ session # 0 /\ phase # "connected" /\ addr[session] \notin instanceState
              /\ clearing \/ Idle(session)

ManagerInvariant == Fresh /\ Owned /\ LostIsIdle /\ TriesTheLost

\* What the threads do to what the manager relies on: nothing.
LEMMA NativeStep ==
  ASSUME L!TypeOK, Native
  PROVE  /\ UNCHANGED <<made, addr, instanceState, task, managerVars, pageVars>>
         /\ \A i \in 1..Limit : /\ Idle(i) => Idle(i)'
                                /\ worker[i] = "none" => worker'[i] = "none"
<1> USE DEF L!jsVars
<1>0. worker \in [1..Limit -> L!WorkerStates]
  BY DEF L!TypeOK
<1>1. UNCHANGED <<task, managerVars, pageVars>>
  BY DEF Native, FreeReturns, ThreadMoves
<1>2. CASE FreeReturns
  BY <1>1, <1>2 DEF FreeReturns, L!FreeEnds, L!FreeTimesOut, L!FreeContext, Idle
<1>3. ASSUME NEW i \in 1..Limit, L!WorkerMoves(i) \/ L!RunBreaks(i)
      PROVE  /\ UNCHANGED <<made, addr, instanceState>>
             /\ \A j \in 1..Limit : /\ Idle(j) => Idle(j)'
                                    /\ worker[j] = "none" => worker'[j] = "none"
  <2>1. UNCHANGED <<made, addr, instanceState>>
    BY <1>3 DEF L!WorkerMoves, L!ConnectBegins, L!StartFails, L!ConnectFails, L!ConnectReturns,
                L!PostConnect, L!Runs, L!RunIsTold, L!RunBreaks, L!Stops, L!Reports, L!Exits
  <2>2. \E to : /\ worker' = [worker EXCEPT ![i] = to]
                /\ worker[i] # "none"
                /\ worker[i] \in {"leaving", "exited"} => to \in {"leaving", "exited"}
    BY <1>3 DEF L!WorkerMoves, L!ConnectBegins, L!StartFails, L!ConnectFails, L!ConnectReturns,
                L!PostConnect, L!Runs, L!RunIsTold, L!RunBreaks, L!Stops, L!Reports, L!Exits, L!Goto
  <2>. QED BY <1>0, <2>1, <2>2 DEF Idle
<1>. QED BY <1>1, <1>2, <1>3 DEF Native, ThreadMoves

LEMMA ManagerInit == Init => ManagerInvariant
BY DEF Init, L!Init, ManagerInvariant, Fresh, Making, Owned, LostIsIdle, TriesTheLost, UnderWay

LEMMA ManagerStep ==
  ASSUME SessionInvariant, InstancesInvariant, ManagerInvariant, [Next]_vars
  PROVE  ManagerInvariant'
<1> USE DEF managerVars, networkVars, attemptVars, pageVars, lifecycleVars
<1>0. /\ made \in 0..Limit /\ Limit \in Nat /\ session \in 0..made /\ 0 \in 0..made
      /\ session # 0 => session \in 1..Limit /\ session \in 1..made
      /\ Making => made \in 1..Limit /\ made # 0
      /\ L!TypeOK /\ Fresh /\ Owned /\ LostIsIdle /\ TriesTheLost
  <2>1. L!TypeOK /\ Fresh /\ Owned /\ LostIsIdle /\ TriesTheLost /\ MadeExists
    BY OwnTypes DEF SessionInvariant, ManagerInvariant
  <2>2. made \in 0..Limit /\ session \in 0..made
    BY <2>1, Zenon DEF L!TypeOK, Owned
  <2>. QED BY <2>1, <2>2, Bounds DEF MadeExists
<1>1. CASE Native
  <2>1. /\ UNCHANGED <<made, addr, instanceState, task, session, phase, reconnecting, timer,
                       page, clearing>>
        /\ session # 0 /\ Idle(session) => Idle(session)'
        /\ Making /\ worker[made] = "none" => worker'[made] = "none"
    <3>1. \A i \in 1..Limit : /\ Idle(i) => Idle(i)'
                              /\ worker[i] = "none" => worker'[i] = "none"
      BY <1>0, <1>1, NativeStep
    <3>. QED BY <1>0, <1>1, <3>1, NativeStep DEF Idle
  <2>. QED BY <1>0, <2>1, Zenon
       DEF ManagerInvariant, Fresh, Making, Owned, LostIsIdle, TriesTheLost, UnderWay, Idle
<1>2. CASE NetAvailable
  <2>1. UNCHANGED <<made, addr, worker, instanceState, task, session, phase, page, clearing>>
        /\ task = "none"
    BY <1>2, Zenon DEF NetAvailable, Hears, Free
  <2>2. CASE StartsReconnect
    <3>1. reconnecting' = TRUE /\ session # 0 /\ phase = "disconnected"
      BY <1>2, <2>2, Zenon DEF NetAvailable, FirstAttempt, StartsReconnect
    <3>. QED BY <1>0, <2>1, <3>1, Zenon
         DEF ManagerInvariant, Fresh, Making, Owned, LostIsIdle, TriesTheLost, UnderWay, Idle
  <2>3. CASE ~StartsReconnect
    <3>1. UNCHANGED <<reconnecting, timer>>
      BY <1>2, <2>3, Zenon DEF NetAvailable
    <3>. QED BY <1>0, <2>1, <3>1, Zenon
         DEF ManagerInvariant, Fresh, Making, Owned, LostIsIdle, TriesTheLost, UnderWay, Idle
  <2>. QED BY <2>2, <2>3
<1>3. CASE NetLost \/ NetProbed
  <2>1. UNCHANGED <<made, addr, worker, instanceState, task, session, phase, reconnecting, timer,
                    page, clearing>>
    BY <1>3, Zenon DEF NetLost, NetProbed
  <2>. QED BY <1>0, <2>1, Zenon
       DEF ManagerInvariant, Fresh, Making, Owned, LostIsIdle, TriesTheLost, UnderWay, Idle
<1>4. CASE TimerFires
  BY <1>0, <1>4, Zenon
     DEF TimerFires, Free, ManagerInvariant, Fresh, Making, Owned, LostIsIdle, TriesTheLost,
         UnderWay, Idle
<1>5. CASE ReconnectMakesNothing \/ ReconnectNoInfo
  <2>1. /\ task \in {"reconnect", "reconnectMade"} /\ task' = "none" /\ Retry
        /\ UNCHANGED <<made, addr, worker, instanceState, session, phase, page, clearing>>
    BY <1>5, Zenon DEF ReconnectMakesNothing, ReconnectNoInfo
  <2>2. UnderWay /\ ~timer
    BY <1>0, <2>1, Zenon DEF UnderWay, Owned
  <2>3. reconnecting /\ session # 0 /\ phase # "connected" /\ addr[session] \notin instanceState
        /\ (clearing \/ Idle(session))
    BY <1>0, <2>2, Zenon DEF TriesTheLost
  <2>4. ~timer' \/ reconnecting' = reconnecting
    BY <2>1, <2>2, Zenon DEF Retry
  <2>5. TriesTheLost'
    BY <2>1, <2>3, <2>4, Zenon DEF TriesTheLost, UnderWay, Idle
  <2>. QED BY <1>0, <2>1, <2>5, Zenon
       DEF ManagerInvariant, Fresh, Making, Owned, LostIsIdle, Idle
<1>6. CASE ReconnectFails
  <2>1. /\ task = "reconnectMade" /\ task' = "none" /\ Retry
        /\ session' = made /\ phase' = "connecting"
        /\ UNCHANGED <<made, addr, worker, instanceState, page, clearing>>
    BY <1>6, Zenon DEF ReconnectFails
  <2>2. UnderWay /\ Making /\ ~timer
    BY <1>0, <2>1, Zenon DEF UnderWay, Making, Owned
  <2>3. reconnecting /\ session # 0
    BY <1>0, <2>2, Zenon DEF TriesTheLost
  <2>4. ~timer' \/ reconnecting' = reconnecting
    BY <2>1, <2>2, Zenon DEF Retry
  <2>5. made # 0 /\ Idle(made) /\ addr[made] \notin instanceState /\ made \in 0..made
    BY <1>0, <2>2 DEF Fresh, Idle
  <2>6. TriesTheLost'
    BY <2>1, <2>3, <2>4, <2>5, Zenon DEF TriesTheLost, UnderWay, Idle
  <2>7. Owned'
    BY <1>0, <2>1, <2>3, <2>5, Zenon DEF Owned
  <2>. QED BY <2>1, <2>6, <2>7, Zenon DEF ManagerInvariant, Fresh, Making, LostIsIdle
<1>7. ASSUME ReconnectMakes \/ OpenPage PROVE ManagerInvariant'
  <2>1. /\ made' = made + 1 /\ made' \in 1..Limit /\ addr' = [addr EXCEPT ![made + 1] = made + 1]
        /\ UNCHANGED <<worker, instanceState, session, phase, reconnecting, timer, clearing>>
        /\ \A i \in 1..made : addr[i] # made + 1
    BY <1>0, <1>7 DEF ReconnectMakes, OpenPage, L!NewInstance, L!jsVars
  <2>2. /\ worker'[made'] = "none" /\ addr'[made'] \notin instanceState'
        /\ session \in 0..made'
        /\ session # 0 => /\ addr'[session'] = addr[session]
                          /\ worker'[session'] = worker[session]
    <3>1. addr \in [1..Limit -> 1..Limit] /\ Begun /\ Known
      BY <1>0 DEF L!TypeOK, InstancesInvariant
    <3>2. addr'[made'] = made + 1 /\ made' \notin 1..made /\ session \in 0..made'
      BY <1>0, <2>1, <3>1
    <3>3. session # 0 => addr'[session'] = addr[session] /\ worker'[session'] = worker[session]
      BY <1>0, <2>1, <3>1
    <3>4. worker'[made'] = "none"
      BY <2>1, <3>1, <3>2 DEF Begun
    <3>5. addr'[made'] \notin instanceState'
      BY <2>1, <3>1, <3>2 DEF Known
    <3>. QED BY <3>2, <3>3, <3>4, <3>5
  <2>3. /\ \/ task = "reconnect" /\ task' = "reconnectMade" /\ page' = page
           \/ task = "none" /\ task' = "open" /\ ~page /\ page'
    BY <1>7, Zenon DEF ReconnectMakes, OpenPage, Free
  <2>4. UnderWay' => UnderWay
    BY <2>1, <2>3, Zenon DEF UnderWay
  <2>5. session # 0 =>
          /\ addr[session] \notin instanceState => addr'[session'] \notin instanceState'
          /\ Idle(session) => Idle(session)'
    BY <2>1, <2>2 DEF Idle
  <2>6. TriesTheLost' /\ LostIsIdle'
    BY <1>0, <2>1, <2>4, <2>5, Zenon DEF TriesTheLost, LostIsIdle
  <2>7. Owned'
    BY <1>0, <2>1, <2>2, <2>3, Zenon DEF Owned
  <2>8. Fresh'
    BY <2>2, Zenon DEF Fresh
  <2>. QED BY <2>6, <2>7, <2>8 DEF ManagerInvariant
<1>8. CASE ReconnectConnects
  <2>1. /\ task = "reconnectMade" /\ task' = "none" /\ ~timer'
        /\ session' = made /\ phase' = "connected"
        /\ UNCHANGED <<made, page, clearing>>
    BY <1>8, Zenon DEF ReconnectConnects, CancelReconnect, L!Connect
  <2>2. (page \/ clearing) /\ made \in 0..made
    BY <1>0, <2>1 DEF Owned, TriesTheLost, UnderWay
  <2>. QED BY <2>1, <2>2, Zenon
       DEF ManagerInvariant, Fresh, Making, Owned, LostIsIdle, TriesTheLost, UnderWay
<1>9. CASE OpenConnects \/ OpenNoThread
  <2>1. /\ task = "open" /\ task' = "none" /\ session' = made /\ phase' = "connecting"
        /\ UNCHANGED <<made, addr, instanceState, reconnecting, timer, page, clearing>>
    BY <1>9, Zenon DEF OpenConnects, OpenNoThread, L!Connect, L!jsVars
  <2>2. page /\ (session = 0 \/ clearing) /\ made # 0 /\ made \in 0..made
        /\ addr[made] \notin instanceState
    BY <1>0, <2>1 DEF Owned, Fresh, Making
  <2>3. timer => reconnecting /\ clearing
    BY <1>0, <2>2, Zenon DEF TriesTheLost, UnderWay
  <2>4. TriesTheLost'
    BY <2>1, <2>2, <2>3, Zenon DEF TriesTheLost, UnderWay
  <2>. QED BY <2>1, <2>2, <2>4, Zenon DEF ManagerInvariant, Fresh, Making, Owned, LostIsIdle
<1>10. CASE OpenNothing \/ OpenFails
  <2>1. /\ task' = "none"
        /\ UNCHANGED <<made, addr, worker, instanceState, session, phase, reconnecting, timer,
                       clearing>>
        /\ page' = page \/ page'
    BY <1>10, Zenon DEF OpenNothing, OpenFails, Free
  <2>2. TriesTheLost' /\ LostIsIdle'
    BY <1>0, <2>1, Zenon DEF TriesTheLost, UnderWay, LostIsIdle, Idle
  <2>. QED BY <1>0, <2>1, <2>2, Zenon DEF ManagerInvariant, Fresh, Making, Owned
<1>11. ASSUME UNCHANGED <<made, addr, worker, instanceState, task>>, task = "none",
              \/ /\ UNCHANGED <<session, phase, reconnecting, timer>>
                 /\ clearing' \/ UNCHANGED <<page, clearing>>
              \/ session' = 0 /\ ~timer'
       PROVE  ManagerInvariant'
  <2>1. ~Making' /\ task' \notin {"open", "reconnect", "reconnectMade"}
    BY <1>11 DEF Making
  <2>2. CASE session' = 0 /\ ~timer'
    BY <1>0, <1>11, <2>1, <2>2, Zenon
       DEF ManagerInvariant, Fresh, Owned, LostIsIdle, TriesTheLost, UnderWay
  <2>3. CASE /\ UNCHANGED <<session, phase, reconnecting, timer>>
             /\ clearing' \/ UNCHANGED <<page, clearing>>
    <3>1. TriesTheLost' /\ LostIsIdle'
      BY <1>0, <1>11, <2>3, Zenon DEF TriesTheLost, UnderWay, LostIsIdle, Idle
    <3>. QED BY <1>0, <1>11, <2>1, <2>3, <3>1, Zenon DEF ManagerInvariant, Fresh, Owned
  <2>. QED BY <1>11, <2>2, <2>3
<1>12. CASE GoBack \/ ClosePage \/ CleanupEnds
  <2>1. UNCHANGED <<made, addr, worker, instanceState, task>> /\ task = "none"
    BY <1>12, Zenon DEF GoBack, ClosePage, CleanupEnds, Free, L!Disconnect, L!FreeInstance, L!jsVars
  <2>2. \/ /\ UNCHANGED <<session, phase, reconnecting, timer>>
           /\ clearing' \/ UNCHANGED <<page, clearing>>
        \/ session' = 0 /\ ~timer'
    BY <1>12, Zenon DEF GoBack, ClosePage, CleanupEnds, ClearSessionInfo, CancelReconnect
  <2>. QED BY <1>11, <2>1, <2>2
<1>13. ASSUME NEW n \in 1..Len(calls), OnSuccess(n) PROVE ManagerInvariant'
  <2>1. /\ UNCHANGED <<made, addr, worker, task, session, page, clearing>> /\ task = "none"
        /\ instanceState' = instanceState \cup {calls[n].addr}
    BY <1>13, Zenon DEF OnSuccess, L!OnSuccess
  <2>2. ~Making' /\ task' \notin {"open", "reconnect", "reconnectMade"}
    BY <2>1 DEF Making
  <2>3. CASE Current(calls[n].addr)
    <3>1. phase' = "connected" /\ ~timer'
      BY <1>13, <2>3, Zenon DEF OnSuccess, MarkConnected, CancelReconnect
    <3>. QED BY <1>0, <2>1, <2>2, <3>1, Zenon
         DEF ManagerInvariant, Fresh, Owned, LostIsIdle, TriesTheLost, UnderWay
  <2>4. CASE ~Current(calls[n].addr)
    <3>1. UNCHANGED <<phase, timer, reconnecting>>
      BY <1>13, <2>4, Zenon DEF OnSuccess, MarkConnected
    <3>2. session = 0 \/ addr[session] # calls[n].addr
      BY <2>4, Zenon DEF Current
    <3>3. TriesTheLost' /\ LostIsIdle'
      BY <1>0, <2>1, <3>1, <3>2, Zenon DEF TriesTheLost, UnderWay, LostIsIdle, Idle
    <3>. QED BY <1>0, <2>1, <2>2, <3>1, <3>3, Zenon DEF ManagerInvariant, Fresh, Owned
  <2>. QED BY <2>3, <2>4
<1>14. ASSUME NEW n \in 1..Len(calls), OnDisconnected(n) PROVE ManagerInvariant'
  <2>1. /\ UNCHANGED <<made, addr, worker, task, session, page, clearing, reconnecting, timer>>
        /\ task = "none" /\ calls[n].fn = "disconnected"
        /\ instanceState' = instanceState \ {calls[n].addr}
        /\ phase' = IF Current(calls[n].addr) THEN "disconnected" ELSE phase
    BY <1>14, Zenon DEF OnDisconnected, L!OnDisconnected, MarkDisconnected
  <2>2. ~Making' /\ task' \notin {"open", "reconnect", "reconnectMade"}
    BY <2>1 DEF Making
  <2>3. CASE Current(calls[n].addr)
    <3>1. session # 0 /\ addr[session] = calls[n].addr /\ phase' = "disconnected"
      BY <2>1, <2>3, Zenon DEF Current
    <3>2. /\ calls[n].of \in 1..made /\ calls[n].addr = addr[calls[n].of]
          /\ worker[calls[n].of] \in Ending
      BY <2>1 DEF InstancesInvariant, Stored, Sound
    <3>3. calls[n].of = session
      BY <1>0, <3>1, <3>2 DEF InstancesInvariant, Unique
    <3>4. Idle(session) /\ addr[session] \notin instanceState'
      BY <2>1, <3>1, <3>2, <3>3 DEF Idle, Ending
    <3>5. TriesTheLost' /\ LostIsIdle'
      BY <1>0, <2>1, <3>1, <3>4, Zenon DEF TriesTheLost, UnderWay, LostIsIdle, Idle
    <3>. QED BY <1>0, <2>1, <2>2, <3>5, Zenon DEF ManagerInvariant, Fresh, Owned
  <2>4. CASE ~Current(calls[n].addr)
    <3>1. UNCHANGED phase
      BY <2>1, <2>4, Zenon
    <3>2. TriesTheLost' /\ LostIsIdle'
      BY <1>0, <2>1, <3>1, Zenon DEF TriesTheLost, UnderWay, LostIsIdle, Idle
    <3>. QED BY <1>0, <2>1, <2>2, <3>2, Zenon DEF ManagerInvariant, Fresh, Owned
  <2>. QED BY <2>3, <2>4
<1>15. CASE UNCHANGED vars
  BY <1>0, <1>15, Zenon
     DEF vars, ManagerInvariant, Fresh, Making, Owned, LostIsIdle, TriesTheLost, UnderWay, Idle
<1>. QED BY <1>1, <1>2, <1>3, <1>4, <1>5, <1>6, <1>7, <1>8, <1>9, <1>10, <1>12, <1>13, <1>14, <1>15
         DEF Next, Manager, Page, Callback

TryingInvariant == SessionInvariant /\ InstancesInvariant /\ ManagerInvariant

LEMMA TryingInvariantHolds == SessionSpec => []TryingInvariant
<1>1. Init => TryingInvariant
  <2>1. Init => InstancesInvariant
    BY DEF Init, L!Init, InstancesInvariant, Unique, Begun, Stored, Known
  <2>. QED BY <2>1, InitSession, ManagerInit DEF TryingInvariant
<1>2. TryingInvariant /\ [Next]_vars => TryingInvariant'
  <2> SUFFICES ASSUME TryingInvariant, [Next]_vars PROVE TryingInvariant'
    OBVIOUS
  <2>1. SessionInvariant' /\ ManagerInvariant'
    BY SessionStep, ManagerStep DEF TryingInvariant
  <2>2. [L!Next]_(L!vars) /\ L!TypeOK /\ L!FreeInvariant
    BY StepRefines, OwnTypes DEF TryingInvariant, SessionInvariant
  <2>. QED BY <2>1, <2>2, InstancesStep DEF TryingInvariant
<1>. QED BY <1>1, <1>2, PTL DEF SessionSpec

\* The timer is armed only for a session that waits
\* to be connected and is not known as connected (markConnected: a successful
\* connection cancels any pending timer).
THEOREM NoTimerIsStray == SessionSpec => []NoStrayTimer
<1>1. TryingInvariant => NoStrayTimer
  BY Zenon DEF TryingInvariant, ManagerInvariant, TriesTheLost, UnderWay, NoStrayTimer
<1>. QED BY <1>1, TryingInvariantHolds, PTL

\* No reconnection replaces an instance that may be
\* alive on the server, except while the cleanup of a closed page still waits:
\* an attempt is only made of a session whose thread has ended.
THEOREM NoSecondIsStarted == SessionSpec => NoSecondInstance
<1>1. ASSUME TryingInvariant, task = "reconnectMade", ~clearing PROVE ~Live(session)
  <2>1. Idle(session)
    BY <1>1, Zenon DEF TryingInvariant, ManagerInvariant, TriesTheLost, UnderWay
  <2>. QED BY <2>1 DEF Idle, Live
<1>2. TryingInvariant =>
        (task = "reconnectMade" /\ task' = "none" /\ session' # session /\ ~clearing
           => ~Live(session))
  BY <1>1
<1>. QED BY <1>2, TryingInvariantHolds, PTL DEF NoSecondInstance

-----------------------------------------------------------------------------
(* What the manager takes for connected, when the callbacks keep their order. *)

\* The end of instance i reaches the main thread later, in terms of the queue.
ToCome(i) == ~Idle(i) \/ \E n \in 1..Len(calls) : P!IsEndOf(calls[n], i)

LEMMA ToComeIsEnd == \A i : ToCome(i) <=> L!EndIsToCome(i)
BY DEF ToCome, Idle, P!IsEndOf, L!EndIsToCome

PhaseInv ==
  session # 0 /\ phase # "disconnected" =>
    ToCome(session) \/ (phase = "connecting" /\ worker[session] = "none")

\* What the threads do: an end to come remains to come.
LEMMA NativeToCome ==
  ASSUME L!TypeOK, Native, NEW j \in 1..Limit, ToCome(j)
  PROVE  ToCome(j)'
<1> USE DEF L!jsVars
<1>0. worker \in [1..Limit -> L!WorkerStates] /\ calls \in Seq(L!Call) /\ Len(calls) \in Nat
  BY DEF L!TypeOK
<1>1. ASSUME UNCHANGED calls, ~Idle(j) => ~Idle(j)' PROVE ToCome(j)'
  BY <1>1 DEF ToCome
<1>2. ASSUME NEW c, c \in L!Call, calls' = Append(calls, c),
             ~Idle(j) => ~Idle(j)' \/ P!IsEndOf(c, j)
      PROVE  ToCome(j)'
  <2>1. /\ Len(calls') = Len(calls) + 1 /\ calls'[Len(calls) + 1] = c
        /\ \A n \in 1..Len(calls) : calls'[n] = calls[n]
    BY <1>0, <1>2
  <2>2. Len(calls) + 1 \in 1..Len(calls') /\ 1..Len(calls) \subseteq 1..Len(calls')
    BY <1>0, <2>1
  <2>3. CASE ~Idle(j)
    BY <1>2, <2>1, <2>2, <2>3 DEF ToCome
  <2>4. ASSUME NEW n \in 1..Len(calls), P!IsEndOf(calls[n], j) PROVE ToCome(j)'
    <3>1. n \in 1..Len(calls') /\ P!IsEndOf(calls'[n], j)
      BY <2>1, <2>2, <2>4
    <3>. QED BY <3>1 DEF ToCome, P!IsEndOf
  <2>. QED BY <2>3, <2>4 DEF ToCome
<1>3. CASE FreeReturns
  BY <1>1, <1>3 DEF FreeReturns, L!FreeEnds, L!FreeTimesOut, L!FreeContext, Idle
<1>4. ASSUME NEW i \in 1..Limit,
             \/ L!ConnectBegins(i) \/ L!StartFails(i) \/ L!ConnectFails(i)
             \/ L!ConnectReturns(i) \/ L!Runs(i) \/ L!RunIsTold(i) \/ L!RunBreaks(i)
             \/ L!Stops(i) \/ L!Exits(i)
      PROVE  ToCome(j)'
  <2>1. UNCHANGED calls
    BY <1>4 DEF L!ConnectBegins, L!StartFails, L!ConnectFails, L!ConnectReturns, L!Runs,
                L!RunIsTold, L!RunBreaks, L!Stops, L!Exits
  <2>2. ~Idle(j) => ~Idle(j)'
    BY <1>0, <1>4
       DEF L!ConnectBegins, L!StartFails, L!ConnectFails, L!ConnectReturns, L!Runs,
           L!RunIsTold, L!RunBreaks, L!Stops, L!Exits, L!Goto, Idle
  <2>. QED BY <1>1, <2>1, <2>2
<1>5. ASSUME NEW i \in 1..Limit, L!PostConnect(i) PROVE ToCome(j)'
  <2> DEFINE c == [fn |-> "success", addr |-> addr[i], of |-> i]
  <2>1. c \in L!Call
    BY DEF L!TypeOK, L!Call
  <2>2. calls' = Append(calls, c)
    BY <1>5 DEF L!PostConnect, L!Post
  <2>3. ~Idle(j) => ~Idle(j)'
    BY <1>0, <1>5 DEF L!PostConnect, L!Goto, Idle
  <2> HIDE DEF c
  <2>. QED BY <1>2, <2>1, <2>2, <2>3
<1>6. ASSUME NEW i \in 1..Limit, L!Reports(i) PROVE ToCome(j)'
  <2> DEFINE c == [fn |-> "disconnected", addr |-> addr[i], of |-> i]
  <2>1. c \in L!Call /\ c.fn = "disconnected" /\ c.of = i
    BY DEF L!TypeOK, L!Call
  <2>2. calls' = Append(calls, c)
    BY <1>6 DEF L!Reports, L!Post
  <2> HIDE DEF c
  <2>3. ~Idle(j) => ~Idle(j)' \/ P!IsEndOf(c, j)
    BY <1>0, <1>6, <2>1 DEF L!Reports, L!Goto, Idle, P!IsEndOf
  <2>. QED BY <1>2, <2>1, <2>2, <2>3
<1>. QED BY <1>3, <1>4, <1>5, <1>6 DEF Native, ThreadMoves, L!WorkerMoves

\* A call that is run and is not the end of j.
LEMMA CallToCome ==
  ASSUME L!TypeOK, 1 \in 1..Len(calls), calls' = P!RemoveAt(calls, 1), worker' = worker,
         NEW j, ToCome(j), ~P!IsEndOf(calls[1], j)
  PROVE  ToCome(j)'
<1>1. /\ Len(calls) \in Nat /\ Len(calls) >= 1 /\ Len(calls') = Len(calls) - 1
      /\ \A n \in 1..Len(calls') : calls'[n] = calls[n + 1]
  <2>1. P!TypeOK
    BY SameState
  <2>. QED BY <2>1, LifecycleAssumed, P!FirstCall
<1>2. ASSUME NEW n \in 1..Len(calls), P!IsEndOf(calls[n], j)
      PROVE  n - 1 \in 1..Len(calls') /\ P!IsEndOf(calls'[n - 1], j)
  <2>1. n # 1
    BY <1>2
  <2>2. n - 1 \in 1..Len(calls') /\ (n - 1) + 1 = n
    BY <1>1, <2>1
  <2>3. calls'[n - 1] = calls[n]
    <3>1. calls'[n - 1] = calls[(n - 1) + 1]
      BY <1>1, <2>2
    <3>. QED BY <2>2, <3>1
  <2>. QED BY <1>2, <2>2, <2>3
<1>3. CASE ~Idle(j)
  BY <1>3 DEF ToCome, Idle
<1>4. CASE \E n \in 1..Len(calls) : P!IsEndOf(calls[n], j)
  BY <1>2, <1>4 DEF ToCome, P!IsEndOf
<1>. QED BY <1>3, <1>4 DEF ToCome

LEMMA PhaseStep ==
  ASSUME InOrder, TryingInvariant, P!TruthInvariant, PhaseInv, [Next]_vars
  PROVE  PhaseInv'
<1> USE DEF managerVars, networkVars, attemptVars, pageVars, lifecycleVars
<1>0. /\ made \in 0..Limit /\ Limit \in Nat /\ session \in 0..made
      /\ session # 0 => session \in 1..Limit /\ session \in 1..made
      /\ Making => made \in 1..Limit
      /\ L!TypeOK /\ Fresh /\ worker \in [1..Limit -> L!WorkerStates]
  BY Bounds DEF TryingInvariant, SessionInvariant, SessionTypeOK, ManagerInvariant, Owned, MadeExists,
                L!TypeOK
<1>1. ASSUME UNCHANGED <<worker, calls, session, phase>> PROVE PhaseInv'
  BY <1>1 DEF PhaseInv, ToCome, Idle, P!IsEndOf
<1>2. CASE Native
  <2>1. UNCHANGED <<session, phase>> /\ \A i \in 1..Limit : worker[i] = "none" => worker'[i] = "none"
    BY <1>0, <1>2, NativeStep
  <2>. QED BY <1>0, <1>2, <2>1, NativeToCome DEF PhaseInv
<1>3. ASSUME Making, session' = made, UNCHANGED calls,
             \/ worker' = worker /\ phase' = "connecting"
             \/ worker' = [worker EXCEPT ![made] = "starting"]
      PROVE  PhaseInv'
  <2>1. worker[made] = "none" /\ made \in 1..Limit
    BY <1>0, <1>3 DEF Fresh
  <2>2. CASE worker' = worker /\ phase' = "connecting"
    BY <1>3, <2>1, <2>2 DEF PhaseInv
  <2>3. CASE worker' = [worker EXCEPT ![made] = "starting"]
    <3>1. worker'[session'] = "starting"
      BY <1>0, <1>3, <2>1, <2>3
    <3>. QED BY <3>1 DEF PhaseInv, ToCome, Idle
  <2>. QED BY <1>3, <2>2, <2>3
<1>4. CASE ReconnectConnects \/ OpenConnects
  <2>1. Making /\ session' = made /\ UNCHANGED calls /\ worker' = [worker EXCEPT ![made] = "starting"]
    BY <1>4, Zenon DEF ReconnectConnects, OpenConnects, L!Connect, Making
  <2>. QED BY <1>3, <2>1
<1>5. CASE ReconnectFails \/ OpenNoThread
  <2>1. Making /\ session' = made /\ UNCHANGED <<calls, worker>> /\ phase' = "connecting"
    BY <1>5, Zenon DEF ReconnectFails, OpenNoThread, Making
  <2>. QED BY <1>3, <2>1
<1>6. CASE \/ NetAvailable \/ NetLost \/ NetProbed \/ TimerFires
           \/ ReconnectMakesNothing \/ ReconnectNoInfo
           \/ OpenNothing \/ OpenFails \/ GoBack
  <2>1. UNCHANGED <<worker, calls, session, phase>>
    BY <1>6, Zenon DEF NetAvailable, NetLost, NetProbed, TimerFires, ReconnectMakesNothing, ReconnectNoInfo,
                OpenNothing, OpenFails, GoBack, L!Disconnect
  <2>. QED BY <1>1, <2>1
<1>7. ASSUME ReconnectMakes \/ OpenPage PROVE PhaseInv'
  <2>1. UNCHANGED <<worker, calls, session, phase>>
    BY <1>7, Zenon DEF ReconnectMakes, OpenPage, L!NewInstance
  <2>. QED BY <1>1, <2>1
<1>8. CASE ClosePage \/ CleanupEnds
  <2>1. /\ UNCHANGED <<worker, calls>>
        /\ phase' = "disconnected" \/ UNCHANGED <<session, phase>>
    BY <1>8, Zenon DEF ClosePage, CleanupEnds, ClearSessionInfo, L!FreeInstance
  <2>. QED BY <1>1, <2>1 DEF PhaseInv
<1>9. ASSUME NEW n \in 1..Len(calls), OnSuccess(n) \/ OnDisconnected(n)
      PROVE  /\ n = 1 /\ 1 \in 1..Len(calls) /\ calls' = P!RemoveAt(calls, 1) /\ worker' = worker
             /\ session' = session
             /\ calls[1].of \in 1..made /\ calls[1].addr = addr[calls[1].of]
             /\ Current(calls[1].addr) => session # 0 /\ calls[1].of = session
  <2>1. L!Due(n) /\ calls' = L!RemoveAt(calls, n) /\ worker' = worker /\ session' = session
    BY <1>9, Zenon DEF OnSuccess, OnDisconnected, L!OnSuccess, L!OnDisconnected
  <2>2. n = 1
    <3>1. Len(calls) \in Nat
      BY <1>0 DEF L!TypeOK
    <3>. QED BY <2>1, <3>1 DEF L!Due
  <2>3. calls[1].of \in 1..made /\ calls[1].addr = addr[calls[1].of]
    BY <2>2 DEF P!TruthInvariant, P!Stored
  <2>4. ASSUME Current(calls[1].addr) PROVE session # 0 /\ calls[1].of = session
    BY <1>0, <2>3, <2>4 DEF Current, TryingInvariant, InstancesInvariant, Unique
  <2>. QED BY <2>1, <2>2, <2>3, <2>4 DEF L!RemoveAt, P!RemoveAt
<1>10. ASSUME NEW n \in 1..Len(calls), OnSuccess(n) PROVE PhaseInv'
  <2>1. calls[1].fn = "success"
    BY <1>9, <1>10 DEF OnSuccess, L!OnSuccess
  <2>2. \A j : ~P!IsEndOf(calls[1], j)
    BY <2>1 DEF P!IsEndOf
  <2>3. CASE Current(calls[1].addr)
    <3>1. calls[1].of = session /\ 1 \in 1..Len(calls)
      BY <1>9, <1>10, <2>3
    <3>2. \/ ~P!Ended(session)
          \/ \E k \in 1 + 1..Len(calls) : P!IsEndOf(calls[k], session)
      BY <2>1, <3>1 DEF P!TruthInvariant, P!EndFollows
    <3>3. ToCome(session)
      <4>1. CASE ~P!Ended(session)
        BY <4>1 DEF P!Ended, ToCome, Idle
      <4>2. ASSUME NEW k \in 1 + 1..Len(calls), P!IsEndOf(calls[k], session)
            PROVE  ToCome(session)
        <5>1. k \in 1..Len(calls)
          <6>1. Len(calls) \in Nat
            BY <1>0 DEF L!TypeOK
          <6>. QED BY <6>1
        <5>. QED BY <4>2, <5>1 DEF ToCome
      <4>. QED BY <3>2, <4>1, <4>2
    <3>4. ToCome(session)'
      BY <1>0, <1>9, <1>10, <2>2, <3>3, CallToCome
    <3>. QED BY <1>9, <1>10, <3>4 DEF PhaseInv, ToCome, Idle
  <2>4. CASE ~Current(calls[1].addr)
    <3>1. phase' = phase
      BY <1>9, <1>10, <2>4 DEF OnSuccess, MarkConnected
    <3>2. ToCome(session) => ToCome(session)'
      BY <1>0, <1>9, <1>10, <2>2, CallToCome
    <3>. QED BY <1>9, <1>10, <3>1, <3>2 DEF PhaseInv, ToCome, Idle
  <2>. QED BY <2>3, <2>4
<1>11. ASSUME NEW n \in 1..Len(calls), OnDisconnected(n) PROVE PhaseInv'
  <2>1. phase' = IF Current(calls[1].addr) THEN "disconnected" ELSE phase
    BY <1>9, <1>11 DEF OnDisconnected, MarkDisconnected
  <2>2. CASE Current(calls[1].addr)
    BY <2>1, <2>2 DEF PhaseInv
  <2>3. CASE ~Current(calls[1].addr)
    <3>1. phase' = phase
      BY <2>1, <2>3
    <3>2. session # 0 => ~P!IsEndOf(calls[1], session)
      BY <1>9, <1>11, <2>3 DEF Current, P!IsEndOf
    <3>3. session # 0 /\ ToCome(session) => ToCome(session)'
      BY <1>0, <1>9, <1>11, <3>2, CallToCome
    <3>. QED BY <1>9, <1>11, <3>1, <3>3 DEF PhaseInv, ToCome, Idle
  <2>. QED BY <2>2, <2>3
<1>12. CASE UNCHANGED vars
  BY <1>1, <1>12 DEF vars
<1>. QED BY <1>2, <1>4, <1>5, <1>6, <1>7, <1>8, <1>10, <1>11, <1>12
         DEF Next, Manager, Page, Callback

\* When the callbacks keep their order, a session that the manager takes for
\* connected, though connect only started a thread, is one whose end the manager
\* will still be told: a lost session does not count as connected for ever, and
\* netAvailable can then start the attempts.
THEOREM PhaseStaysTruthful ==
  ASSUME InOrder
  PROVE  SessionSpec => []PhaseIsTruthful
<1>1. Init => P!TruthInvariant /\ PhaseInv
  <2>1. Init => P!TruthInvariant
    BY DEF Init, L!Init, P!TruthInvariant, P!Begun, P!Stored, P!EndFollows, P!Truth,
           P!Instances, P!None
  <2>2. Init => PhaseInv
    BY DEF Init, PhaseInv
  <2>. QED BY <2>1, <2>2
<1>2. TryingInvariant /\ P!TruthInvariant /\ [Next]_vars => P!TruthInvariant'
  <2> SUFFICES ASSUME TryingInvariant, P!TruthInvariant, [Next]_vars PROVE P!TruthInvariant'
    OBVIOUS
  <2>1. [L!Next]_(L!vars) /\ L!TypeOK /\ L!FreeInvariant
    BY StepRefines, OwnTypes DEF TryingInvariant, SessionInvariant
  <2>2. [P!Next]_(P!vars)
    BY <2>1, SameNext DEF L!vars, P!vars, L!jsVars, P!jsVars
  <2>3. P!TypeOK /\ P!FreeInvariant
    BY <2>1, SameState
  <2>4. P!LifecycleAssumption
    BY LifecycleAssumed
  <2>. QED BY <2>2, <2>3, <2>4, P!TruthStep
<1>3. TryingInvariant /\ P!TruthInvariant /\ PhaseInv /\ [Next]_vars => PhaseInv'
  BY PhaseStep
<1>4. PhaseInv => PhaseIsTruthful
  BY ToComeIsEnd DEF PhaseInv, PhaseIsTruthful
<1>. QED BY <1>1, <1>2, <1>3, <1>4, TryingInvariantHolds, PTL DEF SessionSpec

-----------------------------------------------------------------------------
(* The instance of a closed page.                                            *)

\* It has been released, and is freed, being freed, or waits for a callback.
ClosedPageIsOwed ==
  ~page /\ pageInstance # None =>
    /\ pageInstance \in released
    /\ ctx[pageInstance] = "live" =>
         freeing = pageInstance \/ addr[pageInstance] \in pendingFree

PageIsReleased == ~page /\ pageInstance # 0 => pageInstance \in released

LEMMA PageStep ==
  ASSUME SessionInvariant, PageIsReleased, [Next]_vars
  PROVE  PageIsReleased'
<1> USE DEF managerVars, networkVars, attemptVars, pageVars, lifecycleVars
<1>1. ASSUME UNCHANGED <<page, pageInstance>>, released \subseteq released' PROVE PageIsReleased'
  BY <1>1 DEF PageIsReleased
<1>2. CASE Native
  BY <1>1, <1>2
     DEF Native, FreeReturns, ThreadMoves, L!FreeEnds, L!FreeTimesOut, L!FreeContext, L!WorkerMoves,
         L!ConnectBegins, L!StartFails, L!ConnectFails, L!ConnectReturns, L!PostConnect, L!Runs,
         L!RunIsTold, L!RunBreaks, L!Stops, L!Reports, L!Exits, L!jsVars
<1>3. CASE Manager
  <2>1. UNCHANGED <<page, pageInstance, released>>
    BY <1>3, Zenon
       DEF Manager, NetAvailable, NetLost, NetProbed, TimerFires, ReconnectMakesNothing, ReconnectNoInfo,
           ReconnectFails, ReconnectConnects, ReconnectMakes, L!Connect, L!NewInstance, L!jsVars
  <2>. QED BY <1>1, <2>1
<1>4. CASE Page
  <2>1. ASSUME \/ OpenPage
               \/ OpenNothing
        PROVE  page'
    BY <2>1, Zenon DEF OpenPage, OpenNothing
  <2>2. ASSUME OpenFails \/ OpenConnects \/ OpenNoThread \/ GoBack \/ CleanupEnds
        PROVE  UNCHANGED <<page, pageInstance, released>>
    BY <2>2, Zenon DEF OpenFails, OpenConnects, OpenNoThread, GoBack, CleanupEnds,
                L!Connect, L!Disconnect, L!jsVars
  <2>3. ASSUME ClosePage
        PROVE  pageInstance' = pageInstance /\ (pageInstance # 0 => pageInstance \in released')
    BY <2>3, Zenon DEF ClosePage, L!FreeInstance
  <2>. QED BY <1>1, <1>4, <2>1, <2>2, <2>3 DEF Page, PageIsReleased
<1>5. CASE Callback
  <2>1. UNCHANGED <<page, pageInstance, released>>
    BY <1>5, Zenon DEF Callback, OnSuccess, OnDisconnected, L!OnSuccess, L!OnDisconnected
  <2>. QED BY <1>1, <2>1
<1>6. CASE UNCHANGED vars
  BY <1>1, <1>6 DEF vars
<1>. QED BY <1>2, <1>3, <1>4, <1>5, <1>6 DEF Next

\* A closed page never leaves its instance behind: the instance has been passed to
\* freeInstance, and as long as it lives the main thread is freeing it or a
\* disconnect callback will.
THEOREM ClosedPageLeavesNothing == SessionSpec => []ClosedPageIsOwed
<1>1. Init => P!ReleasedIsOwed /\ PageIsReleased
  BY DEF Init, L!Init, P!ReleasedIsOwed, PageIsReleased
<1>2. SessionInvariant /\ P!ReleasedIsOwed /\ PageIsReleased /\ [Next]_vars
        => (P!ReleasedIsOwed /\ PageIsReleased)'
  <2> SUFFICES ASSUME SessionInvariant, P!ReleasedIsOwed, PageIsReleased, [Next]_vars
               PROVE  P!ReleasedIsOwed' /\ PageIsReleased'
    OBVIOUS
  <2>1. [L!Next]_(L!vars) /\ L!TypeOK /\ L!FreeInvariant
    BY StepRefines, OwnTypes DEF SessionInvariant
  <2>2. [P!Next]_(P!vars)
    BY <2>1, SameNext DEF L!vars, P!vars, L!jsVars, P!jsVars
  <2>3. P!TypeOK /\ P!FreeInvariant /\ P!LifecycleAssumption
    BY <2>1, SameState, LifecycleAssumed
  <2>4. P!ReleasedIsOwed'
    BY <2>2, <2>3, P!OwedStep
  <2>. QED BY <2>4, PageStep
<1>3. P!ReleasedIsOwed /\ PageIsReleased => ClosedPageIsOwed
  BY DEF P!ReleasedIsOwed, PageIsReleased, ClosedPageIsOwed
<1>. QED BY <1>1, <1>2, <1>3, SessionInvariantHolds, PTL DEF SessionSpec

-----------------------------------------------------------------------------
(* The attempts: what of AttemptsEnd needs no fairness.                      *)

AttemptIsUnderWay == reconnecting => UnderWay

\* While the manager goes on reconnecting, the attempt is the same one, whose timer
\* is not armed again, or it failed and is followed by the next.
AttemptsAdvance ==
  [][reconnecting /\ reconnecting' =>
       \/ attempts' = attempts /\ (timer' => timer)
       \/ attempts' = attempts + 1 /\ task \in {"reconnect", "reconnectMade"} /\ task' = "none"]_vars

\* Only an attempt that fails while the network is away leaves none under way.
LEMMA StrandedOffline ==
  ASSUME AttemptIsUnderWay, reconnecting => net, [Next]_vars
  PROVE  AttemptIsUnderWay'
<1> USE DEF AttemptIsUnderWay, UnderWay, managerVars, networkVars, attemptVars, pageVars
<1>1. CASE Native
  BY <1>1, Zenon DEF Native, FreeReturns, ThreadMoves
<1>2. Retry => (reconnecting' => timer')
  BY Zenon DEF Retry
<1>3. CASE Manager
  <2>1. CASE NetAvailable \/ NetLost \/ NetProbed
    BY <2>1, Zenon DEF NetAvailable, NetLost, NetProbed, Hears, FirstAttempt, Free
  <2>2. CASE TimerFires \/ ReconnectMakes
    BY <2>2 DEF TimerFires, ReconnectMakes
  <2>3. CASE ReconnectMakesNothing \/ ReconnectNoInfo \/ ReconnectFails
    BY <1>2, <2>3, Zenon DEF ReconnectMakesNothing, ReconnectNoInfo, ReconnectFails
  <2>4. CASE ReconnectConnects
    BY <2>4, Zenon DEF ReconnectConnects, CancelReconnect
  <2>. QED BY <1>3, <2>1, <2>2, <2>3, <2>4 DEF Manager
<1>4. CASE Page
  <2>1. CASE \/ OpenPage
             \/ OpenNothing \/ OpenFails \/ OpenConnects \/ OpenNoThread \/ GoBack
    <3>1. UNCHANGED <<reconnecting, timer>>
      BY <2>1, Zenon
         DEF OpenPage, OpenNothing, OpenFails, OpenConnects, OpenNoThread, GoBack
    <3>2. task' = task \/ task \in {"none", "open"}
      BY <2>1, Zenon
         DEF OpenPage, OpenNothing, OpenFails, OpenConnects, OpenNoThread, GoBack, Free
    <3>. QED BY <3>1, <3>2
  <2>2. CASE ClosePage \/ CleanupEnds
    BY <2>2, Zenon DEF ClosePage, CleanupEnds, ClearSessionInfo, CancelReconnect
  <2>. QED BY <1>4, <2>1, <2>2 DEF Page
<1>5. CASE Callback
  <2>1. UNCHANGED task /\ (UNCHANGED <<reconnecting, timer>> \/ reconnecting' = FALSE)
    BY <1>5, Zenon DEF Callback, OnSuccess, OnDisconnected, MarkConnected, CancelReconnect
  <2>. QED BY <2>1
<1>6. CASE UNCHANGED vars
  BY <1>6, Zenon DEF vars
<1>. QED BY <1>1, <1>3, <1>4, <1>5, <1>6 DEF Next

\* If the network is there for the attempts, isReconnecting means that one is under
\* way: its timer is armed or doReconnect is at work.  Of a network that is not the
\* code does not keep this (ReconnectIsUnderWay).
THEOREM AttemptStaysUnderWay ==
  SessionSpec => ([](reconnecting => net) => []AttemptIsUnderWay)
<1>1. Init => AttemptIsUnderWay
  BY Zenon DEF Init, AttemptIsUnderWay
<1>2. AttemptIsUnderWay /\ (reconnecting => net) /\ [Next]_vars => AttemptIsUnderWay'
  BY StrandedOffline
<1>. QED BY <1>1, <1>2, PTL DEF SessionSpec

\* No attempt is made twice and none is skipped, whatever the network does: the
\* timer is armed again only by the failure of an attempt, which counts, so that
\* there are at most MaxAttempts of them before isReconnecting is cleared.
THEOREM AttemptsOnlyAdvance == SessionSpec => AttemptsAdvance
<1> DEFINE Advances ==
      reconnecting /\ reconnecting' =>
        \/ attempts' = attempts /\ (timer' => timer)
        \/ attempts' = attempts + 1 /\ task \in {"reconnect", "reconnectMade"} /\ task' = "none"
<1>1. ASSUME Flags, [Next]_vars PROVE Advances
  <2> USE DEF managerVars, networkVars, attemptVars, pageVars
  <2>0. reconnecting \in BOOLEAN
    BY <1>1 DEF Flags
  <2>1. CASE Native
    BY <2>1, Zenon DEF Native, FreeReturns, ThreadMoves
  <2>2. CASE Manager
    <3>1. CASE NetAvailable
      BY <3>1, Zenon DEF NetAvailable, StartsReconnect
    <3>2. CASE NetLost \/ NetProbed \/ ReconnectMakes
      BY <3>2, Zenon DEF NetLost, NetProbed, ReconnectMakes
    <3>3. CASE TimerFires
      BY <3>3, Zenon DEF TimerFires
    <3>4. CASE ReconnectMakesNothing \/ ReconnectNoInfo \/ ReconnectFails
      <4>1. task \in {"reconnect", "reconnectMade"} /\ task' = "none" /\ Retry
        BY <3>4 DEF ReconnectMakesNothing, ReconnectNoInfo, ReconnectFails
      <4>. QED BY <4>1, Zenon DEF Retry
    <3>5. CASE ReconnectConnects
      BY <3>5, Zenon DEF ReconnectConnects, CancelReconnect
    <3>. QED BY <2>2, <3>1, <3>2, <3>3, <3>4, <3>5 DEF Manager
  <2>3. CASE Page
    BY <2>3, Zenon
       DEF Page, OpenPage, OpenNothing, OpenFails, OpenConnects, OpenNoThread, GoBack,
           ClosePage, CleanupEnds, ClearSessionInfo, CancelReconnect
  <2>4. CASE Callback
    BY <2>4, Zenon DEF Callback, OnSuccess, OnDisconnected, MarkConnected, CancelReconnect
  <2>5. CASE UNCHANGED vars
    BY <2>5, Zenon DEF vars
  <2>. QED BY <1>1, <2>1, <2>2, <2>3, <2>4, <2>5 DEF Next
<1>2. SessionInvariant => Flags
  BY OwnTypes DEF SessionInvariant
<1>. QED BY <1>1, <1>2, SessionInvariantHolds, PTL DEF SessionSpec, AttemptsAdvance
=============================================================================
