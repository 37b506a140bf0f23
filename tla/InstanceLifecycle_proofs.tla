---------------------- MODULE InstanceLifecycle_proofs ----------------------
(* Proofs about InstanceLifecycle, for any number of instances and addresses, *)
(* with or without reuse of addresses, order of callbacks and prompt workers. *)
EXTENDS InstanceLifecycle, SequenceTheorems, TLAPS

USE DEF jsVars, Instances, None

LEMMA AppendType ==
  ASSUME NEW S, NEW s \in Seq(S), NEW e \in S
  PROVE  Append(s, e) \in Seq(S)
OBVIOUS

LEMMA RemoveType ==
  ASSUME NEW S, NEW s \in Seq(S), NEW n \in 1..Len(s)
  PROVE  RemoveAt(s, n) \in Seq(S) /\ s[n] \in S
<1>1. SubSeq(s, 1, n - 1) \in Seq(S) /\ SubSeq(s, n + 1, Len(s)) \in Seq(S)
  OBVIOUS
<1>2. SubSeq(s, 1, n - 1) \o SubSeq(s, n + 1, Len(s)) \in Seq(S)
  BY <1>1
<1>. QED BY <1>2 DEF RemoveAt

LEMMA PostType ==
  ASSUME TypeOK, NEW fn \in {"success", "disconnected"}, NEW i \in Instances, Post(fn, i)
  PROVE  calls' \in Seq(Call)
<1>1. [fn |-> fn, addr |-> addr[i], of |-> i] \in Call
  BY DEF TypeOK, Call
<1>. QED BY <1>1, AppendType DEF Post, TypeOK

LEMMA BeginFreeType ==
  ASSUME TypeOK, NEW i \in Instances, BeginFree(i)
  PROVE  freeing' \in Instances /\ abort' \in [Instances -> BOOLEAN] /\ asked' = asked
<1>1. abort' = [abort EXCEPT ![i] = worker[i] # "none" \/ abort[i]]
  BY Zenon DEF BeginFree
<1>2. (worker[i] # "none" \/ abort[i]) \in BOOLEAN
  BY Zenon DEF TypeOK
<1>3. abort' \in [Instances -> BOOLEAN]
  BY <1>1, <1>2, Zenon DEF TypeOK
<1>. QED BY <1>3 DEF BeginFree

\* What the last instance made at an address is: when one is live there, that one.
LEMMA AtIsLive ==
  ASSUME TypeOK, LiveIsLast, NEW i \in 1..made, ctx[i] = "live"
  PROVE  At(addr[i]) = i
<1> DEFINE P(k) == /\ addr[k] = addr[i]
                   /\ \A j \in k + 1..made : addr[j] # addr[i]
<1> USE LifecycleAssumption DEF TypeOK
<1>1. P(i)
  BY DEF LiveIsLast
<1>2. ASSUME NEW k \in 1..made, P(k) PROVE k = i
  <2>1. ~(k < i)
    BY <1>2
  <2>2. ~(i < k)
    BY <1>1, <1>2
  <2>. QED BY <2>1, <2>2
<1>. QED BY <1>1, <1>2 DEF At

\* A callback's address is that of an instance, and pendingFree's of a live one.
LEMMA PendingAt ==
  ASSUME TypeOK, FreeInvariant, NEW a \in pendingFree
  PROVE  At(a) \in 1..made /\ At(a) \in Instances /\ addr[At(a)] = a /\ ctx[At(a)] = "live"
<1>1. PICK i \in 1..made : addr[i] = a /\ ctx[i] = "live"
  BY DEF FreeInvariant, PendingIsLive
<1>2. At(a) = i
  BY <1>1, AtIsLive DEF FreeInvariant
<1>. QED BY <1>1, <1>2, LifecycleAssumption DEF TypeOK

-----------------------------------------------------------------------------
(* The inductive invariant is TypeOK /\ FreeInvariant: the type of freeing    *)
(* needs the instance pendingFree refers to.                                 *)

LEMMA InitInvariant == Init => TypeOK /\ FreeInvariant
<1>1. Init => TypeOK
  <2> SUFFICES ASSUME Init PROVE TypeOK
    OBVIOUS
  <2>1. (CHOOSE a \in Addresses : TRUE) \in Addresses
    BY LifecycleAssumption
  <2>2. addr \in [Instances -> Addresses]
    BY <2>1 DEF Init
  <2>3. <<>> \in Seq(Call)
    OBVIOUS
  <2>. QED BY <2>2, <2>3, LifecycleAssumption DEF Init, TypeOK, WorkerStates
<1>2. Init => FreeInvariant
  BY DEF Init, FreeInvariant, FreedOnce, LiveIsLast, PendingIsLive, LiveIsMade
<1>. QED BY <1>1, <1>2

LEMMA TypeStep ==
  ASSUME TypeOK, FreeInvariant, [Next]_vars
  PROVE  TypeOK'
<1> USE LifecycleAssumption DEF TypeOK, WorkerStates
<1>1. ASSUME NEW a \in Addresses, NewInstance(a) PROVE TypeOK'
  BY <1>1 DEF NewInstance
<1>2. ASSUME NEW i \in Instances, Connect(i) PROVE TypeOK'
  BY <1>2 DEF Connect
<1>3. ASSUME NEW i \in Instances, Disconnect(i) PROVE TypeOK'
  BY <1>3 DEF Disconnect, NativeDisconnect
<1>4. ASSUME NEW i \in Instances, FreeInstance(i) PROVE TypeOK'
  <2>1. CASE addr[i] \in instanceState
    BY <1>4, <2>1 DEF FreeInstance, NativeDisconnect
  <2>2. CASE addr[i] \notin instanceState
    <3>1. BeginFree(i) /\ UNCHANGED <<instanceState, pendingFree>>
      BY <1>4, <2>2 DEF FreeInstance
    <3>2. freeing' \in Instances /\ abort' \in [Instances -> BOOLEAN] /\ asked' = asked
      BY <3>1, BeginFreeType
    <3>. QED BY <1>4, <3>1, <3>2 DEF FreeInstance
  <2>. QED BY <2>1, <2>2
<1>5. ASSUME NEW n \in 1..Len(calls), OnSuccess(n) PROVE TypeOK'
  <2>1. calls' \in Seq(Call) /\ calls[n] \in Call
    BY <1>5, RemoveType DEF OnSuccess
  <2>. QED BY <1>5, <2>1 DEF OnSuccess, Call
<1>6. ASSUME NEW n \in 1..Len(calls), OnDisconnected(n) PROVE TypeOK'
  <2> DEFINE a == calls[n].addr
  <2>1. calls' \in Seq(Call)
    BY <1>6, RemoveType DEF OnDisconnected
  <2>2. CASE a \in pendingFree
    <3>1. BeginFree(At(a)) /\ At(a) \in Instances
      BY <1>6, <2>2, PendingAt DEF OnDisconnected
    <3>2. freeing' \in Instances /\ abort' \in [Instances -> BOOLEAN] /\ asked' = asked
      BY <3>1, BeginFreeType
    <3>. QED BY <1>6, <2>1, <3>2 DEF OnDisconnected
  <2>3. CASE a \notin pendingFree
    BY <1>6, <2>1, <2>3 DEF OnDisconnected
  <2>. QED BY <2>2, <2>3
<1>7. ASSUME NEW i \in Instances, FreeContext(i) PROVE TypeOK'
  BY <1>7 DEF FreeContext
<1>8. CASE FreeEnds \/ FreeTimesOut
  BY <1>7, <1>8 DEF FreeEnds, FreeTimesOut
<1>9. ASSUME NEW i \in Instances, WorkerStep(i) PROVE TypeOK'
  <2>1. CASE ConnectBegins(i) BY <2>1 DEF ConnectBegins, Goto
  <2>2. CASE StartFails(i) BY <2>2 DEF StartFails, Goto
  <2>3. CASE ConnectFails(i) BY <2>3 DEF ConnectFails, Goto
  <2>4. CASE ConnectReturns(i) BY <2>4 DEF ConnectReturns, Goto
  <2>5. CASE PostConnect(i)
    <3>1. calls' \in Seq(Call)
      BY <2>5, PostType DEF PostConnect
    <3>. QED BY <2>5, <3>1 DEF PostConnect, Goto
  <2>6. CASE Runs(i) BY <2>6 DEF Runs, Goto
  <2>7. CASE RunIsTold(i) BY <2>7 DEF RunIsTold, Goto
  <2>8. CASE RunBreaks(i) BY <2>8 DEF RunBreaks, Goto
  <2>9. CASE Stops(i) BY <2>9 DEF Stops, Goto
  <2>10. CASE Reports(i)
    <3>1. calls' \in Seq(Call)
      BY <2>10, PostType DEF Reports
    <3>. QED BY <2>10, <3>1 DEF Reports, Goto
  <2>11. CASE Exits(i) BY <2>11 DEF Exits, Goto
  <2>. QED BY <1>9, <2>1, <2>2, <2>3, <2>4, <2>5, <2>6, <2>7, <2>8, <2>9, <2>10, <2>11
           DEF WorkerStep, WorkerMoves
<1>10. CASE UNCHANGED vars BY <1>10 DEF vars
<1>. QED BY <1>1, <1>2, <1>3, <1>4, <1>5, <1>6, <1>8, <1>9, <1>10
         DEF Next, Application, Callback

\* Steps that make, free and pend nothing keep the invariant.
LEMMA Untouched ==
  ASSUME FreeInvariant, UNCHANGED <<made, addr, ctx, pendingFree, freeing>>,
         instanceState \subseteq instanceState'
  PROVE  FreeInvariant'
BY DEF FreeInvariant, FreedOnce, LiveIsLast, PendingIsLive, LiveIsMade

LEMMA FreeStep ==
  ASSUME TypeOK, FreeInvariant, [Next]_vars
  PROVE  FreeInvariant'
<1> USE LifecycleAssumption DEF TypeOK
<1>1. ASSUME NEW a \in Addresses, NewInstance(a) PROVE FreeInvariant'
  <2>1. /\ made' = made + 1 /\ made + 1 \in Instances
        /\ addr' = [addr EXCEPT ![made + 1] = a]
        /\ ctx' = [ctx EXCEPT ![made + 1] = "live"]
        /\ UNCHANGED <<instanceState, pendingFree, freeing>> /\ freeing = None
        /\ \A i \in 1..made : ctx[i] = "live" => addr[i] # a
    BY <1>1 DEF NewInstance
  <2>2. \A i \in 1..made : addr'[i] = addr[i] /\ ctx'[i] = ctx[i]
    BY <2>1
  <2>3. addr'[made'] = a /\ ctx'[made'] = "live"
    BY <2>1
  <2>4. FreedOnce'
    BY <2>1 DEF FreedOnce
  <2>5. LiveIsLast'
    <3> SUFFICES ASSUME NEW i \in 1..made', NEW j \in 1..made', i < j, addr'[i] = addr'[j]
                 PROVE  ctx'[i] # "live"
      BY DEF LiveIsLast
    <3>1. i \in 1..made
      BY <2>1
    <3>2. CASE j = made'
      BY <2>1, <2>2, <2>3, <3>1, <3>2
    <3>3. CASE j # made'
      BY <2>1, <2>2, <3>1, <3>3 DEF FreeInvariant, LiveIsLast
    <3>. QED BY <3>2, <3>3
  <2>6. PendingIsLive'
    BY <2>1, <2>2 DEF FreeInvariant, PendingIsLive
  <2>7. LiveIsMade'
    BY <2>1 DEF FreeInvariant, LiveIsMade
  <2>. QED BY <2>4, <2>5, <2>6, <2>7 DEF FreeInvariant
<1>2. ASSUME NEW i \in Instances, FreeInstance(i) PROVE FreeInvariant'
  <2>1. /\ freeing = None /\ ctx[i] = "live" /\ i \in 1..made
        /\ UNCHANGED <<made, addr, ctx, instanceState>>
    BY <1>2 DEF FreeInstance, FreeInvariant, LiveIsMade
  <2>2. LiveIsLast' /\ LiveIsMade'
    BY <2>1 DEF FreeInvariant, LiveIsLast, LiveIsMade
  <2>3. CASE addr[i] \in instanceState
    <3>1. pendingFree' = pendingFree \cup {addr[i]} /\ freeing' = None
      BY <1>2, <2>1, <2>3 DEF FreeInstance
    <3>2. PendingIsLive'
      BY <2>1, <2>3, <3>1 DEF FreeInvariant, PendingIsLive
    <3>. QED BY <2>2, <3>1, <3>2 DEF FreeInvariant, FreedOnce
  <2>4. CASE addr[i] \notin instanceState
    <3>1. pendingFree' = pendingFree /\ freeing' = i
      BY <1>2, <2>4 DEF FreeInstance, BeginFree
    <3>2. addr[i] \notin pendingFree
      BY <2>4 DEF FreeInvariant, PendingIsLive
    <3>3. PendingIsLive'
      BY <2>1, <3>1, <3>2 DEF FreeInvariant, PendingIsLive
    <3>. QED BY <2>1, <2>2, <3>1, <3>3 DEF FreeInvariant, FreedOnce
  <2>. QED BY <2>3, <2>4
<1>3. ASSUME NEW n \in 1..Len(calls), OnDisconnected(n) PROVE FreeInvariant'
  <2> DEFINE a == calls[n].addr
  <2>1. /\ freeing = None /\ UNCHANGED <<made, addr, ctx>>
        /\ instanceState' = instanceState \ {a} /\ pendingFree' = pendingFree \ {a}
    BY <1>3 DEF OnDisconnected, Due
  <2>2. LiveIsLast' /\ LiveIsMade'
    BY <2>1 DEF FreeInvariant, LiveIsLast, LiveIsMade
  <2>3. CASE a \in pendingFree
    <3>1. freeing' = At(a)
      BY <1>3, <2>3 DEF OnDisconnected, BeginFree
    <3>2. addr[At(a)] = a /\ ctx[At(a)] = "live"
      BY <2>3, PendingAt
    <3>3. FreedOnce'
      BY <2>1, <3>1, <3>2 DEF FreedOnce
    <3>4. PendingIsLive'
      BY <2>1, <3>1, <3>2 DEF FreeInvariant, PendingIsLive
    <3>. QED BY <2>2, <3>3, <3>4 DEF FreeInvariant
  <2>4. CASE a \notin pendingFree
    <3>1. freeing' = None
      BY <1>3, <2>1, <2>4 DEF OnDisconnected
    <3>2. PendingIsLive'
      BY <2>1, <2>4, <3>1 DEF FreeInvariant, PendingIsLive
    <3>. QED BY <2>2, <3>1, <3>2 DEF FreeInvariant, FreedOnce
  <2>. QED BY <2>3, <2>4
<1>4. ASSUME NEW i \in Instances, freeing = i, FreeContext(i) PROVE FreeInvariant'
  <2>1. /\ freeing' = None /\ UNCHANGED <<made, addr, instanceState, pendingFree>>
        /\ \A k \in Instances : ctx'[k] = "live" => k # i /\ ctx[k] = "live"
        /\ \A k \in Instances : k # i => ctx'[k] = ctx[k]
    BY <1>4 DEF FreeContext
  <2>2. LiveIsLast' /\ LiveIsMade'
    BY <2>1 DEF FreeInvariant, LiveIsLast, LiveIsMade
  <2>3. PendingIsLive'
    <3> SUFFICES ASSUME NEW a \in pendingFree
                 PROVE  a \in instanceState /\ \E k \in 1..made : addr[k] = a /\ ctx'[k] = "live"
      BY <2>1 DEF PendingIsLive
    <3>1. PICK k \in 1..made : addr[k] = a /\ ctx[k] = "live"
      BY DEF FreeInvariant, PendingIsLive
    <3>2. a \in instanceState /\ addr[i] # a
      BY <1>4 DEF FreeInvariant, PendingIsLive
    <3>3. ctx'[k] = "live"
      BY <2>1, <3>1, <3>2
    <3>. QED BY <3>1, <3>2, <3>3
  <2>. QED BY <2>1, <2>2, <2>3 DEF FreeInvariant, FreedOnce
<1>5. CASE FreeEnds \/ FreeTimesOut
  BY <1>4, <1>5 DEF FreeEnds, FreeTimesOut
<1>6. ASSUME NEW n \in 1..Len(calls), OnSuccess(n) PROVE FreeInvariant'
  BY <1>6, Untouched DEF OnSuccess
<1>7. ASSUME NEW i \in Instances, Connect(i) \/ Disconnect(i) PROVE FreeInvariant'
  BY <1>7, Untouched DEF Connect, Disconnect
<1>8. ASSUME NEW i \in Instances, WorkerStep(i) PROVE FreeInvariant'
  BY <1>8, Untouched
     DEF WorkerStep, WorkerMoves, ConnectBegins, StartFails, ConnectFails, ConnectReturns,
         PostConnect, Runs, RunIsTold, RunBreaks, Stops, Reports, Exits
<1>9. CASE UNCHANGED vars
  BY <1>9, Untouched DEF vars
<1>. QED BY <1>1, <1>2, <1>3, <1>5, <1>6, <1>7, <1>8, <1>9 DEF Next, Application, Callback

LEMMA LifecycleInvariant == Spec => [](TypeOK /\ FreeInvariant)
<1>1. TypeOK /\ FreeInvariant /\ [Next]_vars => (TypeOK /\ FreeInvariant)'
  BY TypeStep, FreeStep
<1>. QED BY <1>1, InitInvariant, PTL DEF Spec

\* Type correctness: every variable keeps its type in every reachable state.
THEOREM TypeCorrect == Spec => []TypeOK
BY LifecycleInvariant, PTL

\* No context is freed twice and freerdpFree only gets the address of a live
\* one, whatever the order of the callbacks and however addresses are reused.
THEOREM FreedOnceCorrect == Spec => []FreedOnce
<1>1. FreeInvariant => FreedOnce
  BY DEF FreeInvariant
<1>. QED BY <1>1, LifecycleInvariant, PTL
-----------------------------------------------------------------------------
(* The truth of instanceState, when the callbacks keep their order: each     *)
(* posted success has the end of its session still ahead of it, in the      *)
(* worker or behind it in the queue, and none names an instance not made.   *)

Ended(i) == worker[i] \in {"none", "leaving", "exited"}

IsEndOf(call, i) == call.fn = "disconnected" /\ call.of = i

Begun == \A i \in Instances : worker[i] # "none" => i \in 1..made

Stored ==
  \A n \in 1..Len(calls) : /\ calls[n].of \in 1..made
                           /\ calls[n].addr = addr[calls[n].of]

EndFollows ==
  \A k \in 1..Len(calls) :
    calls[k].fn = "success" =>
      \/ ~Ended(calls[k].of)
      \/ \E n \in k + 1..Len(calls) : IsEndOf(calls[n], calls[k].of)

\* StateIsTruthful without its premise.
Truth ==
  \A a \in instanceState : \E i \in 1..made :
    /\ addr[i] = a
    /\ ~Ended(i) \/ \E n \in 1..Len(calls) : IsEndOf(calls[n], i)

TruthInvariant == Begun /\ Stored /\ EndFollows /\ Truth

\* A step that posts and runs no call, and in which no thread ends.
LEMMA QuietTruth ==
  ASSUME TypeOK, TruthInvariant, UNCHANGED <<calls, instanceState>>,
         1..made \subseteq 1..made', \A i \in 1..made : addr'[i] = addr[i],
         \A i \in Instances : /\ worker'[i] # "none" => i \in 1..made'
                              /\ Ended(i)' => Ended(i)
  PROVE  TruthInvariant'
<1>0. 1..made \subseteq Instances /\ Len(calls') = Len(calls)
  BY LifecycleAssumption DEF TypeOK
<1>1. Begun'
  BY DEF Begun
<1>2. Stored'
  BY <1>0 DEF TruthInvariant, Stored
<1>3. EndFollows'
  <2> SUFFICES ASSUME NEW k \in 1..Len(calls), calls[k].fn = "success"
               PROVE  \/ ~Ended(calls[k].of)'
                      \/ \E n \in k + 1..Len(calls) : IsEndOf(calls[n], calls[k].of)
    BY <1>0 DEF EndFollows, IsEndOf, Ended
  <2>1. calls[k].of \in Instances
    BY <1>0 DEF TruthInvariant, Stored
  <2>2. Ended(calls[k].of)' => Ended(calls[k].of)
    BY <2>1
  <2>. QED BY <2>2 DEF TruthInvariant, EndFollows
<1>4. Truth'
  <2> SUFFICES ASSUME NEW a \in instanceState
               PROVE  \E i \in 1..made' : /\ addr'[i] = a
                                          /\ \/ ~Ended(i)'
                                             \/ \E n \in 1..Len(calls) : IsEndOf(calls[n], i)
    BY <1>0 DEF Truth, IsEndOf
  <2>1. PICK i \in 1..made : /\ addr[i] = a
                             /\ ~Ended(i) \/ \E n \in 1..Len(calls) : IsEndOf(calls[n], i)
    BY DEF TruthInvariant, Truth
  <2>2. i \in 1..made' /\ addr'[i] = a /\ (Ended(i)' => Ended(i))
    BY <1>0, <2>1
  <2>. QED BY <2>1, <2>2
<1>. QED BY <1>1, <1>2, <1>3, <1>4 DEF TruthInvariant

\* A thread posts a call: the success of a session that goes on, or its end.
LEMMA PostTruth ==
  ASSUME TypeOK, TruthInvariant, UNCHANGED <<made, addr, instanceState>>,
         NEW i \in Instances, NEW fn \in {"success", "disconnected"}, Post(fn, i),
         worker[i] # "none",
         \A j \in Instances : /\ worker'[j] # "none" => worker[j] # "none"
                              /\ Ended(j)' => Ended(j) \/ IsEndOf([fn |-> fn, addr |-> addr[i], of |-> i], j),
         fn = "success" => ~Ended(i)'
  PROVE  TruthInvariant'
<1> DEFINE c == [fn |-> fn, addr |-> addr[i], of |-> i]
<1>0. /\ 1..made \subseteq Instances /\ Len(calls) \in Nat
      /\ Len(calls') = Len(calls) + 1 /\ calls'[Len(calls) + 1] = c
      /\ \A n \in 1..Len(calls) : calls'[n] = calls[n]
  <2>1. calls \in Seq(Call) /\ made \in 0..Limit
    BY DEF TypeOK
  <2>2. c \in Call
    BY DEF TypeOK, Call
  <2> HIDE DEF c
  <2>3. calls' = Append(calls, c)
    BY DEF Post, c
  <2>. QED BY <2>1, <2>2, <2>3, LifecycleAssumption
<1>1. i \in 1..made /\ c.of = i /\ c.addr = addr[i] /\ c.fn = fn
  BY DEF TruthInvariant, Begun
<1> HIDE DEF c
<1>2. Begun'
  BY DEF TruthInvariant, Begun
<1>3. Stored'
  <2> SUFFICES ASSUME NEW n \in 1..(Len(calls) + 1)
               PROVE  calls'[n].of \in 1..made /\ calls'[n].addr = addr[calls'[n].of]
    BY <1>0 DEF Stored
  <2>1. CASE n = Len(calls) + 1
    BY <1>0, <1>1, <2>1
  <2>2. CASE n # Len(calls) + 1
    <3>1. n \in 1..Len(calls)
      BY <1>0, <2>2
    <3>. QED BY <1>0, <3>1 DEF TruthInvariant, Stored
  <2>. QED BY <2>1, <2>2
<1>4. ASSUME NEW j \in Instances, Ended(j)', ~Ended(j)
      PROVE  IsEndOf(calls'[Len(calls) + 1], j)
  BY <1>0, <1>4 DEF c
<1>5. EndFollows'
  <2> SUFFICES ASSUME NEW k \in 1..(Len(calls) + 1), calls'[k].fn = "success",
                      NEW j, j = calls'[k].of
               PROVE  \/ worker'[j] \notin {"none", "leaving", "exited"}
                      \/ \E n \in k + 1..(Len(calls) + 1) : IsEndOf(calls'[n], j)
    BY <1>0 DEF EndFollows, IsEndOf, Ended
  <2>1. CASE k = Len(calls) + 1
    BY <1>0, <1>1, <2>1 DEF Ended
  <2>2. CASE k # Len(calls) + 1
    <3>1. k \in 1..Len(calls) /\ calls'[k] = calls[k] /\ Len(calls) + 1 \in k + 1..(Len(calls) + 1)
      BY <1>0, <2>2
    <3>2. j \in Instances /\ j = calls[k].of
      BY <1>0, <3>1 DEF TruthInvariant, Stored
    <3>3. CASE Ended(j)
      <4>1. PICK n \in k + 1..Len(calls) : IsEndOf(calls[n], j)
        BY <3>1, <3>2, <3>3 DEF TruthInvariant, EndFollows
      <4>2. n \in 1..Len(calls) /\ n \in k + 1..(Len(calls) + 1)
        BY <1>0, <3>1
      <4>3. IsEndOf(calls'[n], j)
        BY <1>0, <4>1, <4>2
      <4>. QED BY <4>2, <4>3
    <3>4. CASE ~Ended(j)
      <4>1. Ended(j)' => IsEndOf(calls'[Len(calls) + 1], j)
        BY <1>4, <3>2, <3>4
      <4>. QED BY <3>1, <4>1 DEF Ended
    <3>. QED BY <3>3, <3>4
  <2>. QED BY <2>1, <2>2
<1>6. Truth'
  <2> SUFFICES ASSUME NEW a \in instanceState
               PROVE  \E j \in 1..made :
                        /\ addr[j] = a
                        /\ \/ ~Ended(j)'
                           \/ \E n \in 1..(Len(calls) + 1) : IsEndOf(calls'[n], j)
    BY <1>0 DEF Truth, IsEndOf
  <2>1. PICK j \in 1..made : /\ addr[j] = a
                             /\ ~Ended(j) \/ \E n \in 1..Len(calls) : IsEndOf(calls[n], j)
    BY DEF TruthInvariant, Truth
  <2>2. CASE ~Ended(j)
    <3>1. ~Ended(j)' \/ IsEndOf(calls'[Len(calls) + 1], j)
      BY <1>0, <1>4, <2>2
    <3>2. Len(calls) + 1 \in 1..(Len(calls) + 1)
      BY <1>0
    <3>. QED BY <2>1, <3>1, <3>2
  <2>3. CASE \E n \in 1..Len(calls) : IsEndOf(calls[n], j)
    <3>1. PICK n \in 1..Len(calls) : IsEndOf(calls[n], j)
      BY <2>3
    <3>2. n \in 1..(Len(calls) + 1) /\ IsEndOf(calls'[n], j)
      BY <1>0, <3>1
    <3>. QED BY <2>1, <3>2
  <2>. QED BY <2>1, <2>2, <2>3
<1>. QED BY <1>2, <1>3, <1>5, <1>6 DEF TruthInvariant

\* The first call leaves the queue.
LEMMA FirstCall ==
  ASSUME TypeOK, 1 \in 1..Len(calls), calls' = RemoveAt(calls, 1)
  PROVE  /\ Len(calls) \in Nat /\ Len(calls) >= 1 /\ Len(calls') = Len(calls) - 1
         /\ \A n \in 1..Len(calls') : calls'[n] = calls[n + 1]
<1>1. calls \in Seq(Call)
  BY DEF TypeOK
<1>2. SubSeq(calls, 1, 0) = <<>>
  BY <1>1
<1>3. calls' = <<>> \o SubSeq(calls, 2, Len(calls))
  BY <1>2 DEF RemoveAt
<1>4. Len(calls) \in Nat /\ Len(calls) >= 1 /\ \A n \in 2..Len(calls) : calls[n] \in Call
  BY <1>1
<1> DEFINE len == Len(calls)
           size == Len(SubSeq(calls, 2, Len(calls)))
<1>5. /\ SubSeq(calls, 2, Len(calls)) \in Seq(Call)
      /\ Len(SubSeq(calls, 2, Len(calls))) = Len(calls) - 1
      /\ \A n \in 1..(Len(calls) - 1) : SubSeq(calls, 2, Len(calls))[n] = calls[n + 1]
  <2>1. SubSeq(calls, 2, Len(calls)) \in Seq(Call)
    BY <1>1, <1>4, SubSeqProperties
  <2>2. Len(SubSeq(calls, 2, Len(calls))) = Len(calls) - 1
    <3>1. size = IF 2 <= len THEN len - 2 + 1 ELSE 0
      BY <1>1, <1>4, SubSeqProperties
    <3>2. len \in Nat /\ len >= 1
      BY <1>4
    <3> HIDE DEF len, size
    <3>3. size = len - 1
      BY <3>1, <3>2
    <3>. QED BY <3>3 DEF len, size
  <2>3. ASSUME NEW n \in 1..(Len(calls) - 1)
        PROVE  SubSeq(calls, 2, Len(calls))[n] = calls[n + 1]
    <3>1. SubSeq(calls, 2, Len(calls))[n] = calls[2 + n - 1]
      BY <1>1, <1>4, SubSeqProperties
    <3>. QED BY <3>1
  <2>. QED BY <2>1, <2>2, <2>3
<1>6. calls' = SubSeq(calls, 2, Len(calls))
  BY <1>3, <1>5, ConcatEmptySeq
<1>. QED BY <1>4, <1>5, <1>6

\* The main thread runs the first call.
LEMMA CallTruth ==
  ASSUME TypeOK, TruthInvariant, UNCHANGED <<made, addr, worker>>,
         1 \in 1..Len(calls), calls' = RemoveAt(calls, 1),
         \/ /\ calls[1].fn = "success"
            /\ instanceState' = instanceState \cup {calls[1].addr}
         \/ /\ calls[1].fn = "disconnected"
            /\ instanceState' = instanceState \ {calls[1].addr}
  PROVE  TruthInvariant'
<1>0. /\ Len(calls) \in Nat /\ Len(calls) >= 1 /\ Len(calls') = Len(calls) - 1
      /\ \A n \in 1..Len(calls') : n + 1 \in 1..Len(calls) /\ calls'[n] = calls[n + 1]
      /\ \A n \in 2..Len(calls) : n - 1 \in 1..Len(calls') /\ calls'[n - 1] = calls[n]
  BY FirstCall
<1>1. Begun'
  BY DEF TruthInvariant, Begun
<1>2. Stored'
  BY <1>0 DEF TruthInvariant, Stored
<1>3. EndFollows'
  <2> SUFFICES ASSUME NEW k \in 1..Len(calls'), calls'[k].fn = "success", Ended(calls'[k].of)
               PROVE  \E n \in k + 1..Len(calls') : IsEndOf(calls'[n], calls'[k].of)
    BY DEF EndFollows, IsEndOf, Ended
  <2>1. k + 1 \in 1..Len(calls) /\ calls'[k] = calls[k + 1]
    BY <1>0
  <2>2. PICK n \in (k + 1) + 1..Len(calls) : IsEndOf(calls[n], calls[k + 1].of)
    BY <2>1 DEF TruthInvariant, EndFollows
  <2>3. n - 1 \in k + 1..Len(calls') /\ n \in 2..Len(calls)
    BY <1>0, <2>1
  <2>4. calls'[n - 1] = calls[n]
    BY <1>0, <2>3
  <2>. QED BY <2>1, <2>2, <2>3, <2>4
<1>4. ASSUME NEW i \in 1..made,
             ~Ended(i) \/ \E n \in 2..Len(calls) : IsEndOf(calls[n], i)
      PROVE  ~Ended(i)' \/ \E n \in 1..Len(calls') : IsEndOf(calls'[n], i)
  <2>1. CASE ~Ended(i)
    BY <2>1 DEF Ended
  <2>2. CASE \E n \in 2..Len(calls) : IsEndOf(calls[n], i)
    BY <1>0, <2>2
  <2>. QED BY <1>4, <2>1, <2>2
<1>5. Truth'
  <2> SUFFICES ASSUME NEW a \in instanceState'
               PROVE  \E i \in 1..made :
                        /\ addr[i] = a
                        /\ ~Ended(i)' \/ \E n \in 1..Len(calls') : IsEndOf(calls'[n], i)
    BY DEF Truth, IsEndOf
  <2>1. /\ calls[1].of \in 1..made /\ calls[1].addr = addr[calls[1].of]
    BY DEF TruthInvariant, Stored
  <2>2. CASE calls[1].fn = "success" /\ a = calls[1].addr
    <3>1. \/ ~Ended(calls[1].of)
          \/ \E n \in 2..Len(calls) : IsEndOf(calls[n], calls[1].of)
      BY <2>2 DEF TruthInvariant, EndFollows
    <3>. QED BY <1>4, <2>1, <2>2, <3>1
  <2>3. CASE a \in instanceState /\ ~(calls[1].fn = "disconnected" /\ a = calls[1].addr)
    <3>1. PICK i \in 1..made : /\ addr[i] = a
                               /\ ~Ended(i) \/ \E n \in 1..Len(calls) : IsEndOf(calls[n], i)
      BY <2>3 DEF TruthInvariant, Truth
    <3>2. ~IsEndOf(calls[1], i)
      BY <2>1, <2>3, <3>1 DEF IsEndOf
    <3>3. ~Ended(i) \/ \E n \in 2..Len(calls) : IsEndOf(calls[n], i)
      <4>1. CASE ~Ended(i)
        BY <4>1
      <4>2. ASSUME NEW n \in 1..Len(calls), IsEndOf(calls[n], i)
            PROVE  n \in 2..Len(calls)
        BY <1>0, <3>2, <4>2
      <4>. QED BY <3>1, <4>1, <4>2
    <3>. QED BY <1>4, <3>1, <3>3
  <2>. QED BY <2>2, <2>3
<1>. QED BY <1>1, <1>2, <1>3, <1>5 DEF TruthInvariant

LEMMA TruthStep ==
  ASSUME InOrder, TypeOK, FreeInvariant, TruthInvariant, [Next]_vars
  PROVE  TruthInvariant'
<1>0. /\ made \in 0..Limit /\ Limit \in Nat /\ worker \in [Instances -> WorkerStates]
      /\ addr \in [Instances -> Addresses]
      /\ \A i \in Instances : worker[i] # "none" => i \in 1..made
  BY LifecycleAssumption DEF TypeOK, TruthInvariant, Begun
<1>1. ASSUME UNCHANGED <<made, addr, worker, calls, instanceState>> PROVE TruthInvariant'
  <2>1. \A i \in Instances : Ended(i)' => Ended(i)
    BY <1>1 DEF Ended
  <2>2. \A i \in Instances : worker'[i] # "none" => i \in 1..made'
    BY <1>0, <1>1
  <2>. QED BY <1>1, <2>1, <2>2, QuietTruth
<1>2. ASSUME NEW a \in Addresses, NewInstance(a) PROVE TruthInvariant'
  <2>1. /\ made' = made + 1 /\ addr' = [addr EXCEPT ![made + 1] = a]
        /\ UNCHANGED <<worker, calls, instanceState>>
    BY <1>2 DEF NewInstance
  <2>2. 1..made \subseteq 1..made' /\ \A i \in 1..made : addr'[i] = addr[i]
    BY <1>0, <2>1
  <2>3. \A i \in Instances : (worker'[i] # "none" => i \in 1..made') /\ (Ended(i)' => Ended(i))
    BY <1>0, <2>1, <2>2 DEF Ended
  <2>. QED BY <2>1, <2>2, <2>3, QuietTruth
<1>3. ASSUME NEW i \in Instances, NEW to \in WorkerStates,
             i \in 1..made, worker' = [worker EXCEPT ![i] = to],
             to \in {"none", "leaving", "exited"} => Ended(i),
             UNCHANGED <<made, addr, calls, instanceState>>
      PROVE  TruthInvariant'
  <2>1. \A j \in Instances : Ended(j)' => Ended(j)
    BY <1>0, <1>3 DEF Ended
  <2>2. \A j \in Instances : worker'[j] # "none" => j \in 1..made'
    BY <1>0, <1>3
  <2>. QED BY <1>3, <2>1, <2>2, QuietTruth
<1>4. ASSUME NEW i \in Instances, Connect(i) PROVE TruthInvariant'
  <2>1. /\ i \in 1..made /\ worker' = [worker EXCEPT ![i] = "starting"]
        /\ UNCHANGED <<made, addr, calls, instanceState>>
    BY <1>0, <1>4 DEF Connect, CanConnect, FreeInvariant, LiveIsMade
  <2>. QED BY <1>3, <2>1 DEF WorkerStates
<1>5. ASSUME NEW i \in Instances, Disconnect(i) \/ FreeInstance(i) PROVE TruthInvariant'
  BY <1>1, <1>5 DEF Disconnect, FreeInstance
<1>6. CASE FreeEnds \/ FreeTimesOut
  BY <1>1, <1>6 DEF FreeEnds, FreeTimesOut, FreeContext
<1>7. ASSUME NEW i \in Instances, PostConnect(i) PROVE TruthInvariant'
  <2>1. /\ worker[i] = "connecting" /\ worker' = [worker EXCEPT ![i] = "established"]
        /\ Post("success", i) /\ UNCHANGED <<made, addr, instanceState>>
    BY <1>7 DEF PostConnect, Goto
  <2>2. /\ \A j \in Instances : /\ worker'[j] # "none" => worker[j] # "none"
                                /\ Ended(j)' => Ended(j)
        /\ ~Ended(i)'
    BY <1>0, <2>1 DEF Ended
  <2>. QED BY <2>1, <2>2, PostTruth
<1>8. ASSUME NEW i \in Instances, Reports(i) PROVE TruthInvariant'
  <2>1. /\ worker[i] # "none" /\ worker' = [worker EXCEPT ![i] = "leaving"]
        /\ Post("disconnected", i) /\ UNCHANGED <<made, addr, instanceState>>
    BY <1>8 DEF Reports, Goto
  <2> DEFINE c == [fn |-> "disconnected", addr |-> addr[i], of |-> i]
  <2>2. IsEndOf(c, i)
    BY DEF IsEndOf
  <2> HIDE DEF c
  <2>3. \A j \in Instances : /\ worker'[j] # "none" => worker[j] # "none"
                             /\ Ended(j)' => Ended(j) \/ IsEndOf(c, j)
    BY <1>0, <2>1, <2>2 DEF Ended
  <2>. QED BY <2>1, <2>3, PostTruth DEF c
<1>9. ASSUME NEW i \in Instances,
             \/ ConnectBegins(i) \/ StartFails(i) \/ ConnectFails(i) \/ ConnectReturns(i)
             \/ Runs(i) \/ RunIsTold(i) \/ RunBreaks(i) \/ Stops(i) \/ Exits(i)
      PROVE  TruthInvariant'
  <2>1. /\ worker[i] # "none" /\ UNCHANGED <<made, addr, calls, instanceState>>
        /\ \E to \in WorkerStates : /\ worker' = [worker EXCEPT ![i] = to]
                                    /\ to \in {"none", "leaving", "exited"} => Ended(i)
    BY <1>9 DEF ConnectBegins, StartFails, ConnectFails, ConnectReturns, Runs, RunIsTold,
                RunBreaks, Stops, Exits, Goto, Ended, WorkerStates
  <2>2. i \in 1..made
    BY <1>0, <2>1
  <2>. QED BY <1>3, <2>1, <2>2
<1>10. ASSUME NEW n \in 1..Len(calls), OnSuccess(n) \/ OnDisconnected(n) PROVE TruthInvariant'
  <2>1. n = 1
    <3>1. Due(n) /\ Len(calls) \in Nat
      BY <1>10 DEF OnSuccess, OnDisconnected, TypeOK
    <3>. QED BY <3>1 DEF Due
  <2>2. /\ UNCHANGED <<made, addr, worker>>
        /\ 1 \in 1..Len(calls) /\ calls' = RemoveAt(calls, 1)
        /\ \/ /\ calls[1].fn = "success"
              /\ instanceState' = instanceState \cup {calls[1].addr}
           \/ /\ calls[1].fn = "disconnected"
              /\ instanceState' = instanceState \ {calls[1].addr}
    BY <1>10, <2>1 DEF OnSuccess, OnDisconnected
  <2>. QED BY <2>2, CallTruth
<1>11. CASE UNCHANGED vars
  BY <1>1, <1>11 DEF vars
<1>. QED BY <1>2, <1>4, <1>5, <1>6, <1>7, <1>8, <1>9, <1>10, <1>11
         DEF Next, Application, Callback, WorkerStep, WorkerMoves

LEMMA TruthIsEnough ==
  ASSUME TypeOK, TruthInvariant, NEW a \in instanceState
  PROVE  \E i \in Instances : addr[i] = a /\ EndIsToCome(i)
<1>1. PICK i \in 1..made : /\ addr[i] = a
                           /\ ~Ended(i) \/ \E n \in 1..Len(calls) : IsEndOf(calls[n], i)
  BY DEF TruthInvariant, Truth
<1>2. i \in Instances
  BY LifecycleAssumption DEF TypeOK
<1>. QED BY <1>1, <1>2 DEF EndIsToCome, Ended, IsEndOf

LEMMA TruthAlways ==
  ASSUME InOrder
  PROVE  Spec => []TruthInvariant
<1>1. Init => TruthInvariant
  BY DEF Init, TruthInvariant, Begun, Stored, EndFollows, Truth
<1>2. TypeOK /\ FreeInvariant /\ TruthInvariant /\ [Next]_vars => TruthInvariant'
  BY TruthStep
<1>. QED BY <1>1, <1>2, LifecycleInvariant, PTL DEF Spec

\* When the callbacks keep their order, instanceState holds no address of a
\* session whose end has been told already: a dead session is not taken for a
\* connected one for ever, with addresses reused and slow workers too.
THEOREM StateStaysTruthful ==
  ASSUME InOrder
  PROVE  Spec => []StateIsTruthful
<1>1. TypeOK /\ TruthInvariant => StateIsTruthful
  BY TruthIsEnough DEF StateIsTruthful
<1>. QED BY <1>1, TruthAlways, LifecycleInvariant, PTL
-----------------------------------------------------------------------------
(* No released instance is forgotten: the safety half of ReleasedIsFreed.    *)

\* What freeInstance was called for is freed, being freed, or has its address
\* in pendingFree.
ReleasedIsOwed ==
  \A i \in released :
    /\ i <= made
    /\ ctx[i] = "live" => freeing = i \/ addr[i] \in pendingFree

LEMMA OwedStep ==
  ASSUME TypeOK, FreeInvariant, ReleasedIsOwed, [Next]_vars
  PROVE  ReleasedIsOwed'
<1>0. /\ made \in 0..Limit /\ Limit \in Nat /\ released \subseteq Instances
      /\ ctx \in [Instances -> {"unmade", "live", "freed", "torn"}]
      /\ addr \in [Instances -> Addresses]
      /\ \A i \in released : i \in Instances /\ i \in 1..made
  BY LifecycleAssumption DEF TypeOK, ReleasedIsOwed
<1>1. ASSUME UNCHANGED <<made, addr, ctx, pendingFree, freeing, released>> PROVE ReleasedIsOwed'
  BY <1>1 DEF ReleasedIsOwed
<1>2. ASSUME NEW a \in Addresses, NewInstance(a) PROVE ReleasedIsOwed'
  <2>1. /\ made' = made + 1
        /\ addr' = [addr EXCEPT ![made + 1] = a] /\ ctx' = [ctx EXCEPT ![made + 1] = "live"]
        /\ UNCHANGED <<pendingFree, freeing, released>>
    BY <1>2 DEF NewInstance
  <2>2. \A i \in released : i <= made' /\ addr'[i] = addr[i] /\ ctx'[i] = ctx[i]
    BY <1>0, <2>1
  <2>. QED BY <2>1, <2>2 DEF ReleasedIsOwed
<1>3. ASSUME NEW i \in Instances, FreeInstance(i) PROVE ReleasedIsOwed'
  <2>1. /\ freeing = None /\ ctx[i] = "live" /\ i <= made
        /\ released' = released \cup {i} /\ UNCHANGED <<made, addr, ctx>>
        /\ \/ addr[i] \in pendingFree' /\ pendingFree \subseteq pendingFree'
           \/ freeing' = i /\ pendingFree' = pendingFree
    BY <1>3 DEF FreeInstance, BeginFree, FreeInvariant, LiveIsMade
  <2>2. \A k \in released : ctx[k] = "live" => addr[k] \in pendingFree
    BY <1>0, <2>1 DEF ReleasedIsOwed
  <2>. QED BY <2>1, <2>2 DEF ReleasedIsOwed
<1>4. CASE FreeEnds \/ FreeTimesOut
  <2>1. /\ freeing # None /\ FreeContext(freeing) /\ freeing \in Instances
    BY <1>4 DEF FreeEnds, FreeTimesOut, TypeOK
  <2>2. /\ UNCHANGED <<made, addr, pendingFree, released>>
        /\ \A k \in Instances : ctx'[k] = "live" => k # freeing /\ ctx[k] = "live"
    BY <1>0, <2>1 DEF FreeContext
  <2>. QED BY <1>0, <2>2 DEF ReleasedIsOwed
<1>5. ASSUME NEW n \in 1..Len(calls), OnDisconnected(n) PROVE ReleasedIsOwed'
  <2> DEFINE a == calls[n].addr
  <2>1. /\ freeing = None /\ pendingFree' = pendingFree \ {a}
        /\ UNCHANGED <<made, addr, ctx, released>>
        /\ a \in pendingFree => freeing' = At(a)
    BY <1>5 DEF OnDisconnected, Due, BeginFree
  <2> HIDE DEF a
  <2>2. ASSUME NEW i \in released, ctx[i] = "live"
        PROVE  freeing' = i \/ addr[i] \in pendingFree'
    <3>1. addr[i] \in pendingFree
      BY <1>0, <2>1, <2>2 DEF ReleasedIsOwed
    <3>2. CASE addr[i] = a
      <4>1. At(addr[i]) = i
        BY <1>0, <2>2, AtIsLive DEF FreeInvariant
      <4>. QED BY <2>1, <3>1, <3>2, <4>1
    <3>3. CASE addr[i] # a
      BY <2>1, <3>1, <3>3
    <3>. QED BY <3>2, <3>3
  <2>. QED BY <1>0, <2>1, <2>2 DEF ReleasedIsOwed
<1>6. ASSUME NEW n \in 1..Len(calls), OnSuccess(n) PROVE ReleasedIsOwed'
  BY <1>1, <1>6 DEF OnSuccess
<1>7. ASSUME NEW i \in Instances, Connect(i) \/ Disconnect(i) PROVE ReleasedIsOwed'
  BY <1>1, <1>7 DEF Connect, Disconnect
<1>8. ASSUME NEW i \in Instances, WorkerStep(i) PROVE ReleasedIsOwed'
  BY <1>1, <1>8
     DEF WorkerStep, WorkerMoves, ConnectBegins, StartFails, ConnectFails, ConnectReturns,
         PostConnect, Runs, RunIsTold, RunBreaks, Stops, Reports, Exits
<1>9. CASE UNCHANGED vars
  BY <1>1, <1>9 DEF vars
<1>. QED BY <1>2, <1>3, <1>4, <1>5, <1>6, <1>7, <1>8, <1>9 DEF Next, Application, Callback

\* No instance passed to freeInstance is forgotten: until it is freed, the main
\* thread is freeing it or its address is in pendingFree, whatever the order of
\* the callbacks and however addresses are reused.
THEOREM ReleasedIsRemembered == Spec => []ReleasedIsOwed
<1>1. Init => ReleasedIsOwed
  BY DEF Init, ReleasedIsOwed
<1>2. TypeOK /\ FreeInvariant /\ ReleasedIsOwed /\ [Next]_vars => ReleasedIsOwed'
  BY OwedStep
<1>. QED BY <1>1, <1>2, LifecycleInvariant, PTL DEF Spec

\* An instance that waits to be freed has a callback of its address to come.
ReleasedHasAnEnd ==
  \A i \in released :
    ctx[i] = "live" => \/ freeing = i
                       \/ \E k \in Instances : addr[k] = addr[i] /\ EndIsToCome(k)

\* And when the callbacks keep their order, it does not wait in vain: a disconnect
\* callback of that address, which is what frees it, is still to come.
THEOREM ReleasedNotInVain ==
  ASSUME InOrder
  PROVE  Spec => []ReleasedHasAnEnd
<1>1. TypeOK /\ FreeInvariant /\ TruthInvariant /\ ReleasedIsOwed => ReleasedHasAnEnd
  <2> SUFFICES ASSUME TypeOK, FreeInvariant, TruthInvariant, ReleasedIsOwed,
                      NEW i \in released, ctx[i] = "live", freeing # i
               PROVE  \E k \in Instances : addr[k] = addr[i] /\ EndIsToCome(k)
    BY DEF ReleasedHasAnEnd
  <2>1. addr[i] \in instanceState
    BY DEF ReleasedIsOwed, FreeInvariant, PendingIsLive
  <2>. QED BY <2>1, TruthIsEnough
<1>. QED BY <1>1, TruthAlways, ReleasedIsRemembered, LifecycleInvariant, PTL
-----------------------------------------------------------------------------
(* The free that waits for the disconnect callback, when no address is used  *)
(* twice: an address then names one instance, and a disconnect callback that *)
(* is posted, or run, is that of a thread that has reported its end.         *)

\* The calls that name the instance they are about, and its end only after it.
Faithful ==
  {c \in Call : /\ c.of \in 1..made
                /\ c.addr = addr[c.of]
                /\ c.fn = "disconnected" => worker[c.of] \in {"leaving", "exited"}}

OneInstance == \A i, j \in 1..made : addr[i] = addr[j] => i = j

DeferredInvariant == Begun /\ OneInstance /\ calls \in Seq(Faithful)

LEMMA SeqGrows ==
  ASSUME NEW S, NEW T, S \subseteq T, NEW s \in Seq(S)
  PROVE  s \in Seq(T)
<1>1. Len(s) \in Nat /\ s \in [1..Len(s) -> T]
  OBVIOUS
<1>. QED BY <1>1

\* A step that posts and runs no call, in which no thread that has reported moves
\* back and no instance made changes its address.
LEMMA QuietDeferred ==
  ASSUME TypeOK, DeferredInvariant, UNCHANGED calls,
         1..made \subseteq 1..made', \A i \in 1..made : addr'[i] = addr[i],
         OneInstance',
         \A i \in Instances :
           /\ worker'[i] # "none" => i \in 1..made'
           /\ worker[i] \in {"leaving", "exited"} => worker'[i] \in {"leaving", "exited"}
  PROVE  DeferredInvariant'
<1>1. Begun'
  BY DEF Begun
<1>2. ASSUME NEW c \in Faithful PROVE c \in Faithful'
  <2>1. c \in Call /\ c.of \in Instances
    BY DEF Faithful, Call
  <2>. QED BY <2>1 DEF Faithful, Call
<1>3. calls' \in Seq(Faithful')
  <2>1. Faithful \subseteq Faithful'
    BY <1>2
  <2>2. calls \in Seq(Faithful)
    BY DEF DeferredInvariant
  <2>. QED BY <2>1, <2>2, SeqGrows
<1>. QED BY <1>1, <1>3 DEF DeferredInvariant

\* A thread posts the success of its session, or its end as it leaves.
LEMMA PostDeferred ==
  ASSUME TypeOK, DeferredInvariant, UNCHANGED <<made, addr>>,
         NEW i \in Instances, NEW fn \in {"success", "disconnected"}, Post(fn, i),
         worker[i] \notin {"none", "leaving", "exited"},
         NEW to \in WorkerStates, worker' = [worker EXCEPT ![i] = to],
         fn = "disconnected" => to = "leaving"
  PROVE  DeferredInvariant'
<1> DEFINE c == [fn |-> fn, addr |-> addr[i], of |-> i]
<1>1. /\ i \in 1..made /\ Begun'
      /\ \A j \in Instances : j # i => worker'[j] = worker[j]
      /\ worker'[i] = to
  BY DEF DeferredInvariant, Begun, TypeOK
<1>2. OneInstance'
  BY DEF DeferredInvariant, OneInstance
<1>3. c \in Faithful'
  <2>1. c \in Call /\ c.of = i /\ c.addr = addr[i] /\ c.fn = fn
    BY DEF TypeOK, Call
  <2> HIDE DEF c
  <2>2. c.fn = "disconnected" => worker'[c.of] \in {"leaving", "exited"}
    BY <1>1, <2>1
  <2>. QED BY <1>1, <2>1, <2>2 DEF Faithful, Call
<1>4. ASSUME NEW d \in Faithful PROVE d \in Faithful'
  <2>1. d \in Call /\ d.of \in Instances /\ d.of \in 1..made /\ d.addr = addr[d.of]
        /\ (d.fn = "disconnected" => worker[d.of] \in {"leaving", "exited"})
    BY DEF Faithful, Call
  <2>2. d.fn = "disconnected" => worker'[d.of] \in {"leaving", "exited"}
    BY <1>1, <2>1
  <2>. QED BY <2>1, <2>2 DEF Faithful, Call
<1> HIDE DEF c
<1>5. calls \in Seq(Faithful')
  <2>1. Faithful \subseteq Faithful'
    BY <1>4
  <2>2. calls \in Seq(Faithful)
    BY DEF DeferredInvariant
  <2>. QED BY <2>1, <2>2, SeqGrows
<1>6. calls' = Append(calls, c)
  BY DEF Post, c
<1>7. calls' \in Seq(Faithful')
  BY <1>3, <1>5, <1>6, AppendType
<1>. QED BY <1>1, <1>2, <1>7 DEF DeferredInvariant

\* A call is run, wherever it stands in the queue.
LEMMA CallDeferred ==
  ASSUME DeferredInvariant, UNCHANGED <<made, addr, worker>>,
         NEW n \in 1..Len(calls), calls' = RemoveAt(calls, n)
  PROVE  DeferredInvariant' /\ calls[n] \in Faithful
<1>1. Faithful' = Faithful
  BY DEF Faithful, Call
<1>2. RemoveAt(calls, n) \in Seq(Faithful) /\ calls[n] \in Faithful
  <2>1. calls \in Seq(Faithful)
    BY DEF DeferredInvariant
  <2>. QED BY <2>1, RemoveType
<1>3. Begun' /\ OneInstance'
  BY DEF DeferredInvariant, Begun, OneInstance
<1>. QED BY <1>1, <1>2, <1>3 DEF DeferredInvariant

LEMMA DeferredStep ==
  ASSUME ~Reuse, TypeOK, FreeInvariant, DeferredInvariant, [Next]_vars
  PROVE  DeferredInvariant'
<1>0. /\ made \in 0..Limit /\ Limit \in Nat /\ worker \in [Instances -> WorkerStates]
      /\ addr \in [Instances -> Addresses]
      /\ \A i \in Instances : worker[i] # "none" => i \in 1..made
      /\ OneInstance
  BY LifecycleAssumption DEF TypeOK, DeferredInvariant, Begun
<1>1. ASSUME UNCHANGED <<made, addr, worker, calls>> PROVE DeferredInvariant'
  BY <1>0, <1>1, QuietDeferred DEF OneInstance
<1>2. ASSUME NEW a \in Addresses, NewInstance(a) PROVE DeferredInvariant'
  <2>1. /\ made' = made + 1 /\ addr' = [addr EXCEPT ![made + 1] = a] /\ made + 1 \in Instances
        /\ UNCHANGED <<worker, calls>> /\ \A i \in 1..made : addr[i] # a
    BY <1>0, <1>2 DEF NewInstance
  <2>2. 1..made \subseteq 1..made' /\ addr'[made + 1] = a /\ \A i \in 1..made : addr'[i] = addr[i]
    BY <1>0, <2>1
  <2>3. \A i \in Instances : worker'[i] # "none" => i \in 1..made'
    BY <1>0, <2>1, <2>2
  <2>4. OneInstance'
    <3> SUFFICES ASSUME NEW i \in 1..made', NEW j \in 1..made', addr'[i] = addr'[j]
                 PROVE  i = j
      BY DEF OneInstance
    <3>1. \A k \in 1..made' : k \in 1..made \/ k = made + 1
      BY <1>0, <2>1
    <3>. QED BY <1>0, <2>1, <2>2, <3>1 DEF OneInstance
  <2>. QED BY <2>1, <2>2, <2>3, <2>4, QuietDeferred
<1>3. ASSUME NEW i \in Instances, NEW to \in WorkerStates, i \in 1..made,
             worker' = [worker EXCEPT ![i] = to],
             worker[i] \in {"leaving", "exited"} => to \in {"leaving", "exited"},
             UNCHANGED <<made, addr, calls>>
      PROVE  DeferredInvariant'
  <2>1. \A j \in Instances :
          /\ worker'[j] # "none" => j \in 1..made'
          /\ worker[j] \in {"leaving", "exited"} => worker'[j] \in {"leaving", "exited"}
    BY <1>0, <1>3
  <2>2. OneInstance'
    BY <1>0, <1>3 DEF OneInstance
  <2>. QED BY <1>3, <2>1, <2>2, QuietDeferred
<1>4. ASSUME NEW i \in Instances, Connect(i) PROVE DeferredInvariant'
  <2>1. /\ i \in 1..made /\ worker[i] = "none" /\ worker' = [worker EXCEPT ![i] = "starting"]
        /\ UNCHANGED <<made, addr, calls>>
    BY <1>4 DEF Connect, CanConnect, FreeInvariant, LiveIsMade
  <2>. QED BY <1>3, <2>1 DEF WorkerStates
<1>5. ASSUME NEW i \in Instances, Disconnect(i) \/ FreeInstance(i) PROVE DeferredInvariant'
  BY <1>1, <1>5 DEF Disconnect, FreeInstance
<1>6. CASE FreeEnds \/ FreeTimesOut
  BY <1>1, <1>6 DEF FreeEnds, FreeTimesOut, FreeContext
<1>7. ASSUME NEW i \in Instances, PostConnect(i) PROVE DeferredInvariant'
  <2>1. /\ worker[i] = "connecting" /\ worker' = [worker EXCEPT ![i] = "established"]
        /\ Post("success", i) /\ UNCHANGED <<made, addr>> /\ "established" \in WorkerStates
    BY <1>7 DEF PostConnect, Goto, WorkerStates
  <2>. QED BY <2>1, PostDeferred
<1>8. ASSUME NEW i \in Instances, Reports(i) PROVE DeferredInvariant'
  <2>1. /\ worker[i] \in {"reporting", "refused"} /\ worker' = [worker EXCEPT ![i] = "leaving"]
        /\ Post("disconnected", i) /\ UNCHANGED <<made, addr>> /\ "leaving" \in WorkerStates
    BY <1>8 DEF Reports, Goto, WorkerStates
  <2>. QED BY <2>1, PostDeferred
<1>9. ASSUME NEW i \in Instances,
             \/ ConnectBegins(i) \/ StartFails(i) \/ ConnectFails(i) \/ ConnectReturns(i)
             \/ Runs(i) \/ RunIsTold(i) \/ RunBreaks(i) \/ Stops(i) \/ Exits(i)
      PROVE  DeferredInvariant'
  <2>1. /\ worker[i] # "none" /\ UNCHANGED <<made, addr, calls>>
        /\ \E to \in WorkerStates :
             /\ worker' = [worker EXCEPT ![i] = to]
             /\ worker[i] \in {"leaving", "exited"} => to \in {"leaving", "exited"}
    BY <1>9 DEF ConnectBegins, StartFails, ConnectFails, ConnectReturns, Runs, RunIsTold,
                RunBreaks, Stops, Exits, Goto, WorkerStates
  <2>2. i \in 1..made
    BY <1>0, <2>1
  <2>. QED BY <1>3, <2>1, <2>2
<1>10. ASSUME NEW n \in 1..Len(calls), OnSuccess(n) \/ OnDisconnected(n) PROVE DeferredInvariant'
  <2>1. UNCHANGED <<made, addr, worker>> /\ calls' = RemoveAt(calls, n)
    BY <1>10 DEF OnSuccess, OnDisconnected
  <2>. QED BY <2>1, CallDeferred
<1>11. CASE UNCHANGED vars
  BY <1>1, <1>11 DEF vars
<1>. QED BY <1>2, <1>4, <1>5, <1>6, <1>7, <1>8, <1>9, <1>10, <1>11
         DEF Next, Application, Callback, WorkerStep, WorkerMoves

\* The one step that takes from pendingFree and frees is the disconnect callback.
LEMMA DeferredFree ==
  ASSUME TypeOK, FreeInvariant, DeferredInvariant, [Next]_vars,
         pendingFree' # pendingFree, freeing' # freeing
  PROVE  worker[freeing'] \in {"none", "leaving", "exited"}
<1>1. PICK n \in 1..Len(calls) : OnDisconnected(n)
  BY DEF Next, Application, Callback, NewInstance, Connect, Disconnect, FreeInstance, BeginFree,
         FreeEnds, FreeTimesOut, FreeContext, OnSuccess, WorkerStep, WorkerMoves, ConnectBegins,
         StartFails, ConnectFails, ConnectReturns, PostConnect, Runs, RunIsTold, RunBreaks,
         Stops, Reports, Exits, vars
<1> DEFINE a == calls[n].addr
<1>2. /\ calls[n].fn = "disconnected" /\ a \in pendingFree /\ freeing' = At(a)
      /\ UNCHANGED <<made, addr, worker>> /\ calls' = RemoveAt(calls, n)
  BY <1>1 DEF OnDisconnected, BeginFree
<1>3. /\ calls[n].of \in 1..made /\ a = addr[calls[n].of]
      /\ worker[calls[n].of] \in {"leaving", "exited"}
  BY <1>2, CallDeferred DEF Faithful
<1>4. At(a) \in 1..made /\ addr[At(a)] = a
  BY <1>2, PendingAt
<1>5. At(a) = calls[n].of
  BY <1>3, <1>4 DEF DeferredInvariant, OneInstance
<1>. QED BY <1>2, <1>3, <1>5

\* When no address is used twice, the disconnect callback that frees an instance
\* whose free had to wait finds that thread done, so the main thread does not wait
\* for it: in any order of the callbacks, with prompt threads or not.
THEOREM DeferredFreeIsPrompt ==
  ASSUME ~Reuse
  PROVE  Spec => DeferredFreeFindsThreadDone
<1>1. Init => DeferredInvariant
  BY DEF Init, DeferredInvariant, Begun, OneInstance
<1>2. TypeOK /\ FreeInvariant /\ DeferredInvariant /\ [Next]_vars => DeferredInvariant'
  BY DeferredStep
<1>3. TypeOK /\ FreeInvariant /\ DeferredInvariant /\ [Next]_vars
        => [NoUseAfterFree /\ pendingFree' # pendingFree /\ freeing' # freeing
              => worker[freeing'] \in {"none", "leaving", "exited"}]_vars
  BY DeferredFree
<1>. QED BY <1>1, <1>2, <1>3, LifecycleInvariant, PTL DEF Spec, DeferredFreeFindsThreadDone
=============================================================================
