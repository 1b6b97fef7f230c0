------------------------------ MODULE MCCombo ------------------------------
EXTENDS Combo

Chord(keys, code) == [keys |-> keys, code |-> code]

(* Two overlapping combos, one of them changed by the host. *)
Overlapping(code) == 0 :> Chord({"a", "b"}, code) @@ 1 :> Chord({"a", "b", "c"}, "y")
OverlappingLayouts == {Overlapping("x"), Overlapping("z")}
ToggleKey == "t" :> "toggle"

(* Three combos, two of which overlap. *)
ThreeCombos == {0 :> Chord({"c", "d"}, "x") @@ 1 :> Chord({"a", "b"}, "y") @@ 2 :> Chord({"a", "e"}, "z")}
NoSwitches == [k \in {} |-> "on"]

(* Two combos of different keys, and a combo of one key.  *)
DisjointCombos == {0 :> Chord({"a", "b"}, "x") @@ 1 :> Chord({"c", "d"}, "y")}
OneKeyCombo == {0 :> Chord({"a"}, "x") @@ 1 :> Chord({"a", "b"}, "y")}
=============================================================================
