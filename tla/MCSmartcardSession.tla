--------------------------- MODULE MCSmartcardSession ---------------------------
(* Model values and small instances for SmartcardSession. *)
EXTENDS SmartcardSession, TLC

CONSTANTS alice, bob, a1, b1

\* Two users with a card each, which can be swapped, erased and cloned.
TwoUsers == {alice, bob}
TwoCards == {a1, b1}
TwoOwner == a1 :> alice @@ b1 :> bob

\* One user with one card.
OneUsers == {alice}
OneCards == {a1}
OneOwner == a1 :> alice
=============================================================================
