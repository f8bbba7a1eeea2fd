------------------------------- MODULE Escrow -------------------------------
(***************************************************************************)
(* What the two marketplaces promise of the money a poster locks, and      *)
(* nothing else: a deal is funded exactly once, its money only ever goes   *)
(* down, and once the deal is closed nothing is left in it and nothing     *)
(* returns to it.  The contract module and the bounty module implement it. *)
(***************************************************************************)
EXTENDS Integers

CONSTANT Deal

VARIABLES
  phase,    \* "unposted", "live" or "closed", for each deal
  held      \* the money each deal still holds

Init ==
  /\ phase = [d \in Deal |-> "unposted"]
  /\ held = [d \in Deal |-> 0]

OnlyHeldOf(d) == \A e \in Deal \ {d} : held'[e] = held[e]

Fund(d) ==
  /\ phase[d] = "unposted"
  /\ phase' = [phase EXCEPT ![d] = "live"]
  /\ held'[d] > 0
  /\ OnlyHeldOf(d)

\* A part of the money, or all of it, is paid out of a deal that stays live.
PayOut(d) ==
  /\ phase[d] = "live"
  /\ held'[d] \in 0 .. held[d] - 1
  /\ OnlyHeldOf(d)
  /\ UNCHANGED phase

Close(d) ==
  /\ phase[d] = "live"
  /\ phase' = [phase EXCEPT ![d] = "closed"]
  /\ held'[d] = 0
  /\ OnlyHeldOf(d)

Next == \E d \in Deal : Fund(d) \/ PayOut(d) \/ Close(d)

Spec == Init /\ [][Next]_<<phase, held>>

=============================================================================
