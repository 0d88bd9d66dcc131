------------------------------- MODULE LLMCall -------------------------------
(***************************************************************************)
(* What a call of the LLM client promises to its caller, whatever the       *)
(* service does: it ends with one answer or one error, sends a bounded      *)
(* number of requests, and never sends another once text of an earlier one  *)
(* has reached the user.                                                    *)
(***************************************************************************)
EXTENDS Naturals

CONSTANTS Caller, MaxRequests

VARIABLES
  state,     \* "idle", "pending", and how the call ended
  requests,  \* requests sent in this call
  shown      \* pieces of text passed on in this call

Begin(c) ==
  /\ state[c] # "pending"
  /\ state' = [state EXCEPT ![c] = "pending"]
  /\ requests' = [requests EXCEPT ![c] = 1]
  /\ shown' = [shown EXCEPT ![c] = 0]

Again(c) ==
  /\ state[c] = "pending"
  /\ shown[c] = 0
  /\ requests[c] < MaxRequests
  /\ requests' = [requests EXCEPT ![c] = @ + 1]
  /\ UNCHANGED <<state, shown>>

Show(c) ==
  /\ state[c] = "pending"
  /\ shown' = [shown EXCEPT ![c] = @ + 1]
  /\ UNCHANGED <<state, requests>>

End(c) ==
  /\ state[c] = "pending"
  /\ \E how \in {"answer", "error", "cancelled"} : state' = [state EXCEPT ![c] = how]
  /\ UNCHANGED <<requests, shown>>

Forget(c) ==
  /\ state[c] # "pending"
  /\ state' = [state EXCEPT ![c] = "idle"]
  /\ requests' = [requests EXCEPT ![c] = 0]
  /\ shown' = [shown EXCEPT ![c] = 0]

Init ==
  /\ state = [c \in Caller |-> "idle"]
  /\ requests = [c \in Caller |-> 0]
  /\ shown = [c \in Caller |-> 0]

Next == \E c \in Caller : Begin(c) \/ Again(c) \/ Show(c) \/ End(c) \/ Forget(c)

Spec == Init /\ [][Next]_<<state, requests, shown>>
=============================================================================
