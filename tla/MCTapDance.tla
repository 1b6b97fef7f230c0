----------------------------- MODULE MCTapDance -----------------------------
EXTENDS TapDance, TLC

Dance(tap, hold, double, tapHold, term) ==
  [on_tap |-> tap, on_hold |-> hold, on_double_tap |-> double, on_tap_hold |-> tapHold,
   term |-> term]

(* p is decided early after one tap, with a layer switch on hold, q after    *)
(* two or, once the host has changed it, only by the term.                   *)
LayerOnHold == "p" :> Dance("a", "MO1", KC_NO, KC_NO, 1)
TwoEntries == {LayerOnHold @@ "q" :> Dance("b", "LSFT", "c", "d", 1),
               LayerOnHold @@ "q" :> Dance("b", "LSFT", KC_NO, "MO2", 0)}

OneEntry == {LayerOnHold @@ "q" :> Dance("b", "LSFT", "c", "d", 1)}
=============================================================================
