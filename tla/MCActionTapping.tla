-------------------------- MODULE MCActionTapping --------------------------
EXTENDS ActionTapping, TLC

KC(c) == [kind |-> "key", code |-> c, mods |-> {}, layer |-> 0]
MOD(m) == [kind |-> "mod", code |-> NoCode, mods |-> {m}, layer |-> 0]
MT(m, c) == [kind |-> "mt", code |-> c, mods |-> {m}, layer |-> 0]
LT(l, c) == [kind |-> "lt", code |-> c, mods |-> {}, layer |-> l]
MO(l) == [kind |-> "mo", code |-> NoCode, mods |-> {}, layer |-> l]
TRNS == [kind |-> "trns", code |-> NoCode, mods |-> {}, layer |-> 0]

TwoLayers == {0, 1}
ThreeKeys == {"k1", "k2", "k3"}

(* A mod-tap key, a layer-tap key and a key that differs between the layers. *)
ThirdKey(below, above) ==
  (0 :> ("k1" :> MT("shift", "a") @@ "k2" :> LT(1, "b") @@ "k3" :> below)) @@
  (1 :> ("k1" :> TRNS @@ "k2" :> TRNS @@ "k3" :> above))
MtLtKey == ThirdKey(KC("c"), KC("d"))
MtLtMod == ThirdKey(KC("c"), MOD("ctrl"))

(* The same with a momentary layer key. *)
FourKeys == ThreeKeys \cup {"k4"}
MtLtKeyMo ==
  (0 :> ("k4" :> MO(1) @@ MtLtKey[0])) @@ (1 :> ("k4" :> TRNS @@ MtLtKey[1]))

(* A single tap-hold key. *)
KeyLtKey ==
  (0 :> ("k1" :> KC("a") @@ "k2" :> LT(1, "b") @@ "k3" :> KC("c"))) @@
  (1 :> ("k1" :> TRNS @@ "k2" :> TRNS @@ "k3" :> KC("d")))
=============================================================================
