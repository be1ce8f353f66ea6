----------------------------- MODULE MCAccounts -----------------------------
(***************************************************************************)
(* Accounts for TLC: since its components share no state, a behaviour in   *)
(* which one of them takes steps shows what that one can do.               *)
(***************************************************************************)
EXTENDS Accounts

VARIABLE part

MCInit ==
    /\ part \in {"otp", "rate", "guard", "list", "avatar", "page", "tab"}
    /\ AccountsInit
    /\ part = "tab" \/ <<signIns, page>> = <<0, "public">>

MCNext ==
    /\ UNCHANGED part
    /\ \/ part = "otp" /\ OtpStep
       \/ part = "rate" /\ RateStep
       \/ part = "guard" /\ GuardStep
       \/ part = "list" /\ ListStep
       \/ part = "avatar" /\ AvatarStep
       \/ part = "page" /\ PageStep
       \/ part = "tab" /\ TabStep

MCSpec == MCInit /\ [][MCNext]_<<part, accountsVars>>
=============================================================================
