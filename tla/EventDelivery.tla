--------------------------- MODULE EventDelivery ---------------------------
(***************************************************************************)
(* What every backend promises of an event on its way out: the engine-side *)
(* handler (process_event and the user's before_send) sees it before it is *)
(* sent, its verdict is final, and every capture comes to an end.          *)
(***************************************************************************)
CONSTANT Delivery      \* one for each call that captures

VARIABLE stage

Stage == {"none", "captured", "processing", "kept", "discarded", "sent", "dropped"}

TypeOK == stage \in [Delivery -> Stage]

Init == stage = [d \in Delivery |-> "none"]

Move(d, from, to) ==
    /\ stage[d] \in from
    /\ stage' = [stage EXCEPT ![d] = to]

Capture(d) == Move(d, {"none"}, "captured")
Process(d) == Move(d, {"none", "captured"}, "processing")
Judge(d) == \E verdict \in {"kept", "discarded"} : Move(d, {"processing"}, verdict)
Send(d) == Move(d, {"kept"}, "sent")
\* An event is dropped when it was discarded, or the SDK was closed before the handler saw it.
Drop(d) == Move(d, {"captured", "discarded"}, "dropped")

Next == \E d \in Delivery : Capture(d) \/ Process(d) \/ Judge(d) \/ Send(d) \/ Drop(d)

Settled(d) == stage[d] \in {"none", "sent", "dropped"}

Spec ==
    /\ Init /\ [][Next]_stage
    /\ \A d \in Delivery : WF_stage(~ Settled(d) /\ (Process(d) \/ Judge(d) \/ Send(d) \/ Drop(d)))
=============================================================================
