-------------------------------- MODULE MC_Charge -------------------------------
(* Small instances of ChargeLifecycle for TLC. *)
EXTENDS ChargeInvariant, TLC

\* Goroutines are interchangeable, and so are transactions; charge ids are not,
\* lookups order them.
Symmetry == Permutations(Txs) \cup Permutations(Workers)

MomoOnly   == {<<"mobile_money", "send_otp">>}
CardOnly   == {<<"card", "send_pin">>}
ThreeKinds == MomoOnly \cup CardOnly \cup {<<"card", "open_url">>}
================================================================================
