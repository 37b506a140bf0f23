---------------------------- MODULE InputStream ----------------------------
(***************************************************************************)
(* What the native event queue promises the code that pushes into it,      *)
(* abstracted from signals, threads and the run loop: accepted events are  *)
(* taken in the order they were accepted, each at most once, until the     *)
(* stream is closed; nothing is accepted or taken afterwards.              *)
(***************************************************************************)
EXTENDS Naturals, Sequences

CONSTANT Events             \* the events a caller can push

VARIABLES
  accepted,                 \* every event the queue accepted, oldest first
  taken,                    \* how many of them the consumer has taken
  closed                    \* the queue has been torn down

streamVars == <<accepted, taken, closed>>

StreamInit ==
  /\ accepted = <<>>
  /\ taken = 0
  /\ closed = FALSE

Accept(e) ==
  /\ ~closed
  /\ \A i \in 1..Len(accepted) : accepted[i] # e
  /\ accepted' = Append(accepted, e)
  /\ UNCHANGED <<taken, closed>>

\* The consumer takes the oldest event it has not taken yet.
Take ==
  /\ ~closed
  /\ taken < Len(accepted)
  /\ taken' = taken + 1
  /\ UNCHANGED <<accepted, closed>>

Close ==
  /\ ~closed
  /\ closed' = TRUE
  /\ UNCHANGED <<accepted, taken>>

StreamNext == (\E e \in Events : Accept(e)) \/ Take \/ Close

StreamSpec == StreamInit /\ [][StreamNext]_streamVars
=============================================================================
