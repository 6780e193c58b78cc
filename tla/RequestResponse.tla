-------------------------- MODULE RequestResponse --------------------------
(* What the kernel service promises its clients: a request is executed at  *)
(* most once, and a client goes on only when its request was executed.     *)
EXTENDS Naturals

CONSTANTS Client

VARIABLES
  phase,     \* "idle", "asked" or "executed": where the client's request is
  times      \* how often the client's latest request was executed

vars == <<phase, times>>

Init == /\ phase = [c \in Client |-> "idle"]
        /\ times = [c \in Client |-> 0]

Ask(c) == /\ phase[c] = "idle"
          /\ phase' = [phase EXCEPT ![c] = "asked"]
          /\ times' = [times EXCEPT ![c] = 0]

Execute(c) == /\ phase[c] = "asked"
              /\ phase' = [phase EXCEPT ![c] = "executed"]
              /\ times' = [times EXCEPT ![c] = @ + 1]

GoOn(c) == /\ phase[c] = "executed"
           /\ phase' = [phase EXCEPT ![c] = "idle"]
           /\ times' = times

Next == \E c \in Client : Ask(c) \/ Execute(c) \/ GoOn(c)

Spec == Init /\ [][Next]_vars
=============================================================================
