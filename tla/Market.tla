------------------------------- MODULE Market -------------------------------
(***************************************************************************)
(* What the marketplace promises about one request: providers offer while  *)
(* it is PUBLISHED, the owner selects one PENDING offer, and that one step *)
(* decides every offer and opens the one conversation.                     *)
(***************************************************************************)
CONSTANT Providers

VARIABLES reqStatus,  \* requests.status
          offer,      \* the status of each provider's offer, "none" without a row
          conv        \* providers whose offer has a conversation

Init ==
    /\ reqStatus = "DRAFT"
    /\ offer = [p \in Providers |-> "none"]
    /\ conv = {}

Publish ==
    /\ reqStatus = "DRAFT"
    /\ reqStatus' = "PUBLISHED"
    /\ UNCHANGED <<offer, conv>>

\* A first offer, or a withdrawn one submitted again.
Submit(p) ==
    /\ reqStatus = "PUBLISHED"
    /\ offer[p] \in {"none", "WITHDRAWN"}
    /\ offer' = [offer EXCEPT ![p] = "PENDING"]
    /\ UNCHANGED <<reqStatus, conv>>

Withdraw(p) ==
    /\ offer[p] = "PENDING"
    /\ offer' = [offer EXCEPT ![p] = "WITHDRAWN"]
    /\ UNCHANGED <<reqStatus, conv>>

Select(p) ==
    /\ reqStatus = "PUBLISHED"
    /\ offer[p] = "PENDING"
    /\ reqStatus' = "OFFER_SELECTED"
    /\ offer' = [q \in Providers |->
                    IF q = p THEN "SELECTED"
                    ELSE IF offer[q] = "PENDING" THEN "REJECTED" ELSE offer[q]]
    /\ conv' = {p}

Next == Publish \/ \E p \in Providers : Submit(p) \/ Withdraw(p) \/ Select(p)

Spec == Init /\ [][Next]_<<reqStatus, offer, conv>>
===============================================================================
