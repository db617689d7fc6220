---------------------------- MODULE EventChannel ----------------------------
(***************************************************************************)
(* What the event path promises to an application: the events arrive in    *)
(* the order they were sent, each once, until the application releases     *)
(* the object; then what was not delivered may be dropped, and nothing     *)
(* arrives any more.                                                       *)
(***************************************************************************)
EXTENDS Sequences

CONSTANT Event

VARIABLES queue, state

Init == queue = <<>> /\ state = "open"

Send(e) ==
  /\ state # "closed"
  /\ queue' = Append(queue, e)
  /\ UNCHANGED state

Deliver ==
  /\ queue # <<>>
  /\ queue' = Tail(queue)
  /\ UNCHANGED state

Release ==
  /\ state = "open"
  /\ state' = "closing"
  /\ UNCHANGED queue

Close ==
  /\ state = "closing"
  /\ state' = "closed"
  /\ queue' = <<>>

Next == (\E e \in Event : Send(e)) \/ Deliver \/ Release \/ Close

Safety == Init /\ [][Next]_<<queue, state>>

Spec ==
  /\ Safety
  /\ WF_<<queue, state>>(Deliver)
  /\ WF_<<queue, state>>(Close)

=============================================================================
