--------------------------- MODULE MCSubscriptions ---------------------------
(* Small instances of Subscriptions for TLC. *)
EXTENDS Subscriptions
CONSTANTS w1, w2
OneWatcher == {w1}
TwoWatchers == {w1, w2}
=============================================================================
