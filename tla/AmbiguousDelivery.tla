------------------------- MODULE AmbiguousDelivery -------------------------
(***************************************************************************)
(* What the notification dispatcher promises of a channel whose answers    *)
(* may be lost ("a dispatcher that never retries ambiguous delivery"): a   *)
(* message is claimed before it can be told, it is told at most once, and  *)
(* a claim is given back only when the message was certainly not told.     *)
(***************************************************************************)
EXTENDS Naturals

CONSTANT Messages

VARIABLES
  told,   \* how often each message was accepted by the receiver
  claim   \* who may tell it: "free", "claimed", or "confirmed" as told

vars == <<told, claim>>

Init ==
  /\ told = [m \in Messages |-> 0]
  /\ claim = [m \in Messages |-> "free"]

Claim(m) ==
  /\ claim[m] = "free"
  /\ claim' = [claim EXCEPT ![m] = "claimed"]
  /\ UNCHANGED told

Tell(m) ==
  /\ claim[m] = "claimed" /\ told[m] = 0
  /\ told' = [told EXCEPT ![m] = 1]
  /\ UNCHANGED claim

Release(m) ==
  /\ claim[m] = "claimed" /\ told[m] = 0
  /\ claim' = [claim EXCEPT ![m] = "free"]
  /\ UNCHANGED told

Confirm(m) ==
  /\ claim[m] = "claimed" /\ told[m] = 1
  /\ claim' = [claim EXCEPT ![m] = "confirmed"]
  /\ UNCHANGED told

\* A receipt may be lost; the message stays claimed for good.
Forget(m) ==
  /\ claim[m] = "confirmed"
  /\ claim' = [claim EXCEPT ![m] = "claimed"]
  /\ UNCHANGED told

Next ==
  \E m \in Messages : Claim(m) \/ Tell(m) \/ Release(m) \/ Confirm(m) \/ Forget(m)

Spec == Init /\ [][Next]_vars
=============================================================================
