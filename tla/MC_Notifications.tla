---------------------------- MODULE MC_Notifications ---------------------------
(* Small instances of PaymentNotifications for TLC. *)
EXTENDS PaymentNotifications, ChargeInvariant

Cards == {<<"card", "send_pin">>, <<"card", "open_url">>}
================================================================================
