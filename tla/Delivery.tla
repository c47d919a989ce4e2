-------------------------------- MODULE Delivery --------------------------------
(***************************************************************************)
(* What reading a streaming action promises (platform/actions_stream.go,   *)
(* the comments on ActionStream, Next, Err and Delivered): the caller is   *)
(* given the frames the platform offered, one at a time and none twice, up *)
(* to some point.  The call then has one outcome for good: the platform's  *)
(* ruling, when every frame offered before it was given, or a failure of   *)
(* the call itself.  The wire, the events and Close are the reader's       *)
(* business.                                                               *)
(***************************************************************************)
EXTENDS Naturals

VARIABLES
  offered,  \* frames the platform has offered
  ruling,   \* how the platform says the action ended: "none" yet, or a ruling
  given,    \* frames the caller has been given
  outcome   \* how the call ended: "none" yet, the ruling, or "failed"

delivery == <<offered, ruling, given, outcome>>

Rulings == {"success", "error"}

Init == offered = 0 /\ ruling = "none" /\ given = 0 /\ outcome = "none"

\* The platform offers a frame, or rules.  Having ruled, it offers no more.
Offer ==
  /\ ruling = "none"
  /\ offered' = offered + 1
  /\ UNCHANGED <<ruling, given, outcome>>

Rule ==
  /\ ruling = "none"
  /\ ruling' \in Rulings
  /\ UNCHANGED <<offered, given, outcome>>

Give ==
  /\ outcome = "none" /\ given < offered
  /\ given' = given + 1
  /\ UNCHANGED <<offered, ruling, outcome>>

Conclude ==
  /\ outcome = "none" /\ ruling # "none" /\ given = offered
  /\ outcome' = ruling
  /\ UNCHANGED <<offered, ruling, given>>

Fail ==
  /\ outcome = "none"
  /\ outcome' = "failed"
  /\ UNCHANGED <<offered, ruling, given>>

Next == Offer \/ Rule \/ Give \/ Conclude \/ Fail

Spec == Init /\ [][Next]_delivery
=============================================================================
