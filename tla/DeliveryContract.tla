-------------------------- MODULE DeliveryContract --------------------------
(***************************************************************************)
(* What the client promises about one SendMessage call: its message is     *)
(* handed on at most once, and what was decided about it is final.  The    *)
(* circuit breaker may refuse it, a queue may give it up, and the writer   *)
(* may lose it after the caller was told that it was sent.                 *)
(***************************************************************************)
CONSTANT Msgs

VARIABLES
  status,  \* status[m]: "new", "pending", "refused", "wire", "lost" or "dropped"
  told     \* told[m]: what SendMessage returned, "nothing" until it returns

Init ==
  /\ status = [m \in Msgs |-> "new"]
  /\ told = [m \in Msgs |-> "nothing"]

Begin(m) ==
  /\ status[m] = "new"
  /\ status' = [status EXCEPT ![m] = "pending"]
  /\ UNCHANGED told

\* The breaker refuses: an error, and nobody will try the message again.
Refuse(m) ==
  /\ status[m] = "pending" /\ told[m] = "nothing"
  /\ status' = [status EXCEPT ![m] = "refused"]
  /\ told' = [told EXCEPT ![m] = "error"]

\* The call returns, not with nil when the message has already been given up.
Answer(m) ==
  /\ status[m] \notin {"new", "refused"} /\ told[m] = "nothing"
  /\ \E a \in IF status[m] = "dropped" THEN {"error"} ELSE {"nil", "error"} :
       told' = [told EXCEPT ![m] = a]
  /\ UNCHANGED status

\* The writer puts any pending message on the wire or loses it, also one whose
\* caller got an error.
Write(m) ==
  /\ status[m] = "pending"
  /\ \E to \in {"wire", "lost"} : status' = [status EXCEPT ![m] = to]
  /\ UNCHANGED told

\* Only messages whose callers were not told nil are ever given up.
GiveUp(S) ==
  /\ S # {} /\ \A m \in S : status[m] = "pending" /\ told[m] # "nil"
  /\ status' = [m \in Msgs |-> IF m \in S THEN "dropped" ELSE status[m]]
  /\ UNCHANGED told

Next ==
  \/ \E m \in Msgs : Begin(m) \/ Refuse(m) \/ Answer(m) \/ Write(m)
  \/ \E S \in SUBSET Msgs : GiveUp(S)

Spec == Init /\ [][Next]_<<status, told>>
=============================================================================
