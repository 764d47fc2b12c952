------------------------------ MODULE WriteOnce ------------------------------
(***************************************************************************)
(* What the evidence store promises: a name is absent or bound to a value  *)
(* that fits it, it is bound in one step, and a bound name is never bound  *)
(* to anything else.  Only a power loss takes names away.                  *)
(***************************************************************************)
CONSTANTS
  Keys,        \* final names: blobs, receipts, the --receipt-out path
  Fits,        \* the pairs <<name, value>> in which the value belongs there
  Absent,      \* the value of a name that is not bound
  MayLose      \* may names be lost?

VARIABLE bound \* name -> value, or Absent

\* What is there at the start was put there by somebody else.
Init == DOMAIN bound = Keys

Publish ==
  \E k \in Keys :
    /\ bound[k] = Absent
    /\ \E v \in {fit[2] : fit \in {f \in Fits : f[1] = k}} :
         bound' = [bound EXCEPT ![k] = v]

Lose ==
  /\ MayLose
  /\ DOMAIN bound' = Keys
  /\ \A k \in Keys : bound'[k] \in {bound[k], Absent}

Next == Publish \/ Lose

Spec == Init /\ [][Next]_bound
=============================================================================
