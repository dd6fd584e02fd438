------------------------------ MODULE StatusFlag ------------------------------
(***************************************************************************)
(* What the pushes of a user's status come to: a flag that exists once the *)
(* user is registered, and calls that set it, each at one instant between  *)
(* its arrival and its answer.  A call that fails may have set it or not;  *)
(* one that is answered has, unless there was no flag at that instant.     *)
(***************************************************************************)
CONSTANTS Callers, None

VARIABLES
  flag,   \* None before registration
  call    \* each caller's last call: its state and what it wants

vars == <<flag, call>>

Init ==
  /\ flag = None
  /\ call = [c \in Callers |-> [state |-> "none", want |-> FALSE]]

Create ==
  /\ flag = None /\ flag' = TRUE
  /\ UNCHANGED call

Arrive(c, want) ==
  /\ call[c].state \notin {"called", "set"}
  /\ call' = [call EXCEPT ![c] = [state |-> "called", want |-> want]]
  /\ UNCHANGED flag

Take(c) ==
  /\ call[c].state = "called"
  /\ flag' = IF flag = None THEN None ELSE call[c].want
  /\ call' = [call EXCEPT ![c].state = "set"]

Answer(c) ==
  /\ call[c].state = "set"
  /\ call' = [call EXCEPT ![c] = [state |-> "answered", want |-> FALSE]]
  /\ UNCHANGED flag

Fail(c) ==
  /\ call[c].state \in {"called", "set"}
  /\ call' = [call EXCEPT ![c] = [state |-> "failed", want |-> FALSE]]
  /\ UNCHANGED flag

Next ==
  \/ Create
  \/ \E c \in Callers :
       (\E want \in BOOLEAN : Arrive(c, want)) \/ Take(c) \/ Answer(c) \/ Fail(c)

Spec == Init /\ [][Next]_vars
=============================================================================
