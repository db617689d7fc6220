----------------------------- MODULE PromiseCall -----------------------------
(***************************************************************************)
(* What an asynchronous method promises to its callers: a promise settles  *)
(* once; it resolves only after the work was done, and rejects only after  *)
(* the work was refused or failed; and a script that runs on sees it       *)
(* settle.                                                                 *)
(***************************************************************************)

CONSTANT Call

VARIABLE state

Init == state = [c \in Call |-> "unasked"]

(* Asked for, or refused at once; worked at; settled. *)
Step ==
  {<<"unasked", "asked">>, <<"unasked", "failed">>, <<"asked", "done">>,
   <<"asked", "failed">>, <<"done", "resolved">>, <<"failed", "rejected">>}

Advance(c) ==
  /\ <<state[c], state'[c]>> \in Step
  /\ state' = [state EXCEPT ![c] = state'[c]]

Pending(c) == state[c] \in {"asked", "done", "failed"}

(* The script is over. *)
Abandon ==
  /\ \E c \in Call : Pending(c) /\ state'[c] = "abandoned"
  /\ state' = [c \in Call |-> IF Pending(c) THEN "abandoned" ELSE state[c]]

Next == (\E c \in Call : Advance(c)) \/ Abandon

Safety == Init /\ [][Next]_state

Spec == Safety /\ \A c \in Call : Pending(c) ~> ~ Pending(c)

=============================================================================
