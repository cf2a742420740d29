------------------------------ MODULE SdDevice ------------------------------
(***************************************************************************)
(* The abstract SD card driver: each call of its interface is one step.    *)
(***************************************************************************)
EXTENDS SdCard

VARIABLES
  card,    (* The card, see SdCard.                                        *)
  result   (* What the last call has returned.                             *)

Init == card \in FreshCards /\ result = TRUE

Returns(outcomes) == \E o \in outcomes : card' = o.card /\ result' = o.ok

End        == Returns(EndOutcomes(card))
Initialize == Returns(InitOutcomes(card))
Transfer   == Returns(TransferOutcomes(card))

\* The power goes away behind the driver's back.
PowerCut ==
  /\ card' = [card EXCEPT !.power = FALSE, !.cut = TRUE]
  /\ UNCHANGED result

Next == End \/ Initialize \/ Transfer \/ PowerCut

Spec == Init /\ [][Next]_<<card, result>>
=============================================================================
