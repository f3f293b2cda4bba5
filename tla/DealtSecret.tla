------------------------------ MODULE DealtSecret ------------------------------
(***************************************************************************)
(* What verifiable sharing promises: a secret is dealt once, and whoever   *)
(* checks the shares before putting them together gets that secret or is   *)
(* refused.                                                                *)
(***************************************************************************)
CONSTANTS Secrets, Nothing, Refused

VARIABLES secret, revealed

Init == secret = Nothing /\ revealed = Nothing

Deal(s) == secret = Nothing /\ secret' = s /\ UNCHANGED revealed

Reveal == secret # Nothing /\ revealed = Nothing /\ revealed' = secret /\ UNCHANGED secret

Refuse == revealed = Nothing /\ revealed' = Refused /\ UNCHANGED secret

Next == (\E s \in Secrets : Deal(s)) \/ Reveal \/ Refuse

Spec == Init /\ [][Next]_<<secret, revealed>>
==============================================================================
