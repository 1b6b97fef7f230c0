----------------------------- MODULE MCDebounce -----------------------------
EXTENDS Debounce, TLC

TwoKeys == {"k1", "k2"}
OneRow == "k1" :> "r1" @@ "k2" :> "r1"
=============================================================================
