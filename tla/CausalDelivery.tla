--------------------------- MODULE CausalDelivery ---------------------------
(***************************************************************************)
(* What an inbox promises: every message that arrives takes effect at most   *)
(* once, and only after the messages it depends on.                          *)
(***************************************************************************)
EXTENDS Naturals

CONSTANTS
  Msgs,  \* the messages
  Deps   \* Deps[m]: the messages m causally depends on

VARIABLES
  arrived,  \* the messages received
  applied,  \* the messages processed
  effects   \* effects[m]: how often the effects of m have been applied

vars == <<arrived, applied, effects>>

Init == arrived = {} /\ applied = {} /\ effects = [m \in Msgs |-> 0]

Arrive(m) ==
  /\ m \notin arrived
  /\ arrived' = arrived \cup {m}
  /\ UNCHANGED <<applied, effects>>

Apply(m) ==
  /\ m \in arrived \ applied
  /\ Deps[m] \subseteq applied
  /\ applied' = applied \cup {m}
  /\ effects' = [effects EXCEPT ![m] = @ + 1]
  /\ UNCHANGED arrived

Next == \E m \in Msgs : Arrive(m) \/ Apply(m)

Spec == Init /\ [][Next]_vars
=============================================================================
