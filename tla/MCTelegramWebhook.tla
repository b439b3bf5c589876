------------------------- MODULE MCTelegramWebhook --------------------------
(* Instances of TelegramWebhook small enough for TLC.                      *)
EXTENDS TelegramWebhook

CONSTANTS u1, d1, d2

Users1 == {u1}
Deliveries2 == {d1, d2}
=============================================================================
