---------------------------- MODULE ComboProofs ----------------------------
(***************************************************************************)
(* Theorems about Combo.                                                   *)
(***************************************************************************)
EXTENDS Combo, NumberLemmas, FiniteSetTheorems, TLAPS

(* What process_combo works on. *)
CState ==
  [combo : [Combos -> ComboRecord], longest : {0, COMBO_TERM}, keys : Seq(QueuedRecord),
   ring : Seq(Combos), report : SUBSET Codes, lost : SUBSET Keys, part : BOOLEAN]

(* The keys in the key buffer. *)
KeysIn(q) == {q[n].key : n \in 1..Len(q)}
(* The keys of a combo are all among them. *)
AllIn(S, q) == S # {} /\ S \subseteq KeysIn(q)

LEMMA CStateFields ==
  ASSUME NEW c \in CState
  PROVE  /\ c.combo \in [Combos -> ComboRecord] /\ c.longest \in {0, COMBO_TERM}
         /\ c.keys \in Seq(QueuedRecord) /\ c.ring \in Seq(Combos) /\ c.report \subseteq Codes
         /\ c.lost \subseteq Keys /\ c.part \in BOOLEAN
         /\ \A i \in Combos : /\ c.combo[i] \in ComboRecord /\ c.combo[i].state \subseteq Keys
                              /\ c.combo[i].disabled \in BOOLEAN /\ c.combo[i].active \in BOOLEAN
  BY DEF CState, ComboRecord

(* d is c but for its combos and its ring. *)
SameData(c, d) ==
  /\ d.longest = c.longest /\ d.keys = c.keys /\ d.report = c.report
  /\ d.lost = c.lost /\ d.part = c.part

(* In d the combo i is disabled if dis holds, otherwise the combos are as in c. *)
Disables(c, d, i, dis) ==
  \A j \in Combos :
    /\ d.combo[j].state = c.combo[j].state
    /\ d.combo[j].active = c.combo[j].active
    /\ d.combo[j].disabled = (c.combo[j].disabled \/ (j = i /\ dis))

LEMMA DisableEffect ==
  ASSUME NEW c \in CState, NEW i \in Combos, NEW d, d = DISABLE_COMBO(c, i)
  PROVE  d \in CState /\ SameData(c, d) /\ d.ring = c.ring /\ Disables(c, d, i, TRUE)
  <1>1. d \in CState /\ SameData(c, d) /\ d.ring = c.ring
    BY DEF CState, DISABLE_COMBO, ComboRecord, SameData
  <1>2. \A j \in Combos : d.combo[j].state = c.combo[j].state /\ d.combo[j].active = c.combo[j].active
           /\ d.combo[j].disabled = (c.combo[j].disabled \/ j = i)
    BY DEF CState, DISABLE_COMBO, ComboRecord
  <1>3. QED
    BY <1>1, <1>2 DEF Disables

(* A ring loses its head, or keeps it. *)
LEMMA RingTail ==
  ASSUME NEW q \in Seq(Combos), q # <<>>
  PROVE  /\ Tail(q) \in Seq(Combos) /\ Len(Tail(q)) = Len(q) - 1 /\ Len(q) \in Nat \ {0}
         /\ \A n \in 1..Len(Tail(q)) : Tail(q)[n] = q[n + 1] /\ n + 1 \in 1..Len(q)
         /\ Head(q) = q[1]
  OBVIOUS

Dropped(q, i) == IF q # <<>> /\ Head(q) = i THEN Tail(q) ELSE q
LEMMA DropEffect ==
  ASSUME NEW c \in CState, NEW i \in Combos, NEW d, d = drop_combo_from_buffer(c, i)
  PROVE  /\ d \in CState /\ SameData(c, d) /\ Disables(c, d, i, i \in ToSet(c.ring))
         /\ d.ring = Dropped(c.ring, i)
  <1>1. CASE i \notin ToSet(c.ring)
    <2>1. d = c
      BY <1>1 DEF drop_combo_from_buffer
    <2>2. c.ring \in Seq(Combos) /\ (c.ring # <<>> => Head(c.ring) \in ToSet(c.ring))
      BY CStateFields DEF ToSet
    <2>3. QED
      BY <1>1, <2>1, <2>2, CStateFields DEF SameData, Disables, Dropped
  <1>2. CASE i \in ToSet(c.ring)
    <2>1. PICK e : e = DISABLE_COMBO(c, i)
      OBVIOUS
    <2>2. e \in CState /\ SameData(c, e) /\ e.ring = c.ring /\ Disables(c, e, i, TRUE)
      BY <2>1, DisableEffect
    <2>3. c.ring # <<>> /\ c.ring \in Seq(Combos)
      BY <1>2, CStateFields DEF ToSet
    <2>4. PICK q : q = IF Head(c.ring) = i THEN Tail(c.ring) ELSE c.ring
      OBVIOUS
    <2>5. q \in Seq(Combos)
      BY <2>3, <2>4
    <2>6. d = [e EXCEPT !.ring = q]
      BY <1>2, <2>1, <2>2, <2>4 DEF drop_combo_from_buffer
    <2>7. d \in CState /\ SameData(e, d) /\ d.combo = e.combo /\ d.ring = q
      BY <2>2, <2>5, <2>6 DEF CState, SameData
    <2>8. QED
      BY <1>2, <2>2, <2>3, <2>4, <2>7 DEF SameData, Disables, Dropped
  <1>3. QED
    BY <1>1, <1>2

(* The host's keycodes and keys. *)
LEMMA LayoutFacts ==
  ASSUME layout \in Layouts, NEW i \in Combos
  PROVE  layout[i].keys \subseteq Keys /\ layout[i].keys \cap Switches = {} /\ layout[i].code \in Codes
  BY ComboAssumption DEF Codes

(* The records of different keys. *)
DifferentKeys(q) == \A m, n \in 1..Len(q) : m # n => q[m].key # q[n].key

ApplyRecords(c, d, i) ==
  /\ Len(d.keys) = Len(c.keys)
  /\ \A n \in 1..Len(c.keys) :
       /\ d.keys[n].key = c.keys[n].key
       /\ \/ d.keys[n] = c.keys[n] /\ (DifferentKeys(c.keys) => c.keys[n].key \notin layout[i].keys)
          \/ d.keys[n].kind = "tick"
          \/ d.keys[n].kind = "combo" /\ d.keys[n].code = layout[i].code /\ d.combo[i].active
             /\ c.keys[n].key \in layout[i].keys

ApplyCombos(c, d, i) ==
  \A j \in Combos :
    /\ d.combo[j].state = c.combo[j].state
    /\ d.combo[j].disabled = (c.combo[j].disabled \/ (j = i /\ i \in ToSet(c.ring)))
    /\ c.combo[j].active => d.combo[j].active
    /\ d.combo[j].active => \/ c.combo[j].active
                            \/ j = i /\ AllIn(layout[i].keys, c.keys)

(* A press is lost only if its key belongs to a combo that is not complete,  *)
(* or if its record is another combo's.                                      *)
ApplyLoses(c, d, i) ==
  (/\ layout[i].keys \subseteq KeysIn(c.keys)
   /\ \A n \in 1..Len(c.keys) : c.keys[n].key \in layout[i].keys => c.keys[n].kind # "combo")
  => d.lost = c.lost

(* apply_combo of a combo that is enabled. *)
LEMMA ApplyEffect ==
  ASSUME NEW c \in CState, NEW i \in Combos, layout \in Layouts, ~c.combo[i].disabled,
         NEW d, d = apply_combo(c, i)
  PROVE  /\ d \in CState
         /\ d.report = c.report /\ d.longest = c.longest /\ d.part = c.part
         /\ ApplyRecords(c, d, i)
         /\ ApplyCombos(c, d, i)
         /\ ApplyLoses(c, d, i)
         /\ d.ring = Dropped(c.ring, i)
  <1> DEFINE keys == layout[i].keys
             mine == {n \in 1..Len(c.keys) : c.keys[n].key \in keys}
             complete == {n \in mine : {c.keys[m].key : m \in {m \in mine : m <= n}} = keys}
             last == IF complete = {} THEN Len(c.keys) + 1 ELSE Min(complete)
             silent == {n \in mine : n < last}
             records == [n \in 1..Len(c.keys) |->
                           IF n \in silent THEN [c.keys[n] EXCEPT !.kind = "tick"]
                           ELSE IF n = last
                           THEN [c.keys[n] EXCEPT !.kind = "combo", !.code = layout[i].code]
                           ELSE c.keys[n]]
             dropped == {n \in silent : c.keys[n].kind = "key" /\ complete = {}}
                        \cup {n \in mine : n <= last /\ c.keys[n].kind = "combo"}
  <1>1. c.keys \in Seq(QueuedRecord) /\ Len(c.keys) \in Nat
    BY CStateFields
  <1>2. \A n \in 1..Len(c.keys) : c.keys[n] \in QueuedRecord
    BY <1>1
  <1>3. complete \subseteq 1..Len(c.keys) /\ complete \subseteq Nat
    BY <1>1
  <1>4. PICK lst : lst = last
    OBVIOUS
  <1>5. PICK done : done = (complete # {})
    OBVIOUS
  <1>6. PICK q : q = records
    OBVIOUS
  <1>7. PICK out : out = {c.keys[n].key : n \in dropped}
    OBVIOUS
  <1>8. PICK e : e = [c EXCEPT !.keys = q, !.lost = @ \cup out, !.combo[i].active = (@ \/ done)]
    OBVIOUS
  <1>9. d = drop_combo_from_buffer(e, i)
    BY <1>5, <1>6, <1>7, <1>8 DEF apply_combo
  <1>10. /\ done => /\ lst \in 1..Len(c.keys) /\ c.keys[lst].key \in keys
                   /\ \A k \in keys : \E m \in 1..Len(c.keys) : m <= lst /\ c.keys[m].key = k
         /\ ~done => lst = Len(c.keys) + 1
    <2>1. complete # {} => Min(complete) \in complete
      <3> HIDE DEF complete
      <3>1. QED
        BY <1>3, MinIsMember
    <2>2. complete # {} => lst \in complete
      BY <1>4, <2>1
    <2>3. complete = {} => lst = Len(c.keys) + 1
      BY <1>4
    <2>4. QED
      BY <1>5, <2>2, <2>3
  <1>11. layout[i].code \in Codes
    BY LayoutFacts
  <1>12. lst \in Int
    BY <1>1, <1>10
  <1>12a. silent = {n \in mine : n < lst}
    BY <1>4
  <1>12b. \A n \in 1..Len(c.keys) :
            q[n] = IF n \in mine /\ n < lst THEN [c.keys[n] EXCEPT !.kind = "tick"]
                   ELSE IF n = lst
                   THEN [c.keys[n] EXCEPT !.kind = "combo", !.code = layout[i].code]
                   ELSE c.keys[n]
    BY <1>4, <1>6
  <1>12c. \A n \in mine : n \in 1..Len(c.keys) /\ c.keys[n].key \in keys
    OBVIOUS
  <1>12d. \A n \in 1..Len(c.keys) : c.keys[n].key \in keys => n \in mine
    OBVIOUS
  <1>12e. out \subseteq Keys /\ done \in BOOLEAN
    BY <1>2, <1>5, <1>7 DEF QueuedRecord
  <1>12f. ASSUME keys \subseteq KeysIn(c.keys),
                 \A n \in 1..Len(c.keys) : c.keys[n].key \in keys => c.keys[n].kind # "combo"
          PROVE  out = {}
    <2>1. CASE mine = {}
      BY <1>7, <2>1
    <2>2. CASE mine # {}
      <3>1. mine \subseteq 0..Len(c.keys)
        BY <1>1
      <3>2. PICK x \in mine : \A y \in mine : y =< x
        <4> HIDE DEF mine
        <4>1. QED
          BY <1>1, <2>2, <3>1, GreatestNatural
      <3>3. \A k \in keys : \E m \in mine : c.keys[m].key = k
        BY <1>12f DEF KeysIn
      <3>4. {m \in mine : m <= x} = mine
        BY <3>2
      <3>5. {c.keys[m].key : m \in mine} = keys
        <4>1. \A m \in mine : c.keys[m].key \in keys
          OBVIOUS
        <4> HIDE DEF mine, keys
        <4>2. QED
          BY <3>3, <4>1
      <3>6. x \in complete
        BY <3>4, <3>5
      <3>7. dropped = {}
        <4>1. complete # {}
          BY <3>6
        <4>2. \A n \in mine : c.keys[n].kind # "combo"
          BY <1>12f
        <4> HIDE DEF complete, mine, last, keys
        <4>3. QED
          BY <4>1, <4>2
      <3>8. QED
        BY <1>7, <3>7
    <2>3. QED
      BY <2>1, <2>2
  <1> HIDE DEF keys, mine, complete, last, silent, records, dropped
  <1>13. ASSUME NEW n \in 1..Len(c.keys)
         PROVE  /\ q[n] \in QueuedRecord /\ q[n].key = c.keys[n].key
                /\ \/ q[n] = c.keys[n] /\ (DifferentKeys(c.keys) => c.keys[n].key \notin keys)
                   \/ q[n].kind = "tick"
                   \/ q[n].kind = "combo" /\ q[n].code = layout[i].code /\ done
                      /\ c.keys[n].key \in keys
    <2>1. c.keys[n] \in QueuedRecord
      BY <1>2
    <2>2. CASE n \in mine /\ n < lst
      <3>1. q[n] = [c.keys[n] EXCEPT !.kind = "tick"]
        BY <1>12b, <2>2
      <3>2. QED
        BY <2>1, <3>1 DEF QueuedRecord
    <2>3. CASE ~(n \in mine /\ n < lst) /\ n = lst
      <3>1. q[n] = [c.keys[n] EXCEPT !.kind = "combo", !.code = layout[i].code]
        BY <1>12b, <2>3
      <3>2. done /\ c.keys[n].key \in keys
        BY <1>1, <1>10, <2>3
      <3>3. q[n] \in QueuedRecord /\ q[n].key = c.keys[n].key /\ q[n].kind = "combo"
            /\ q[n].code = layout[i].code
        BY <1>11, <2>1, <3>1 DEF QueuedRecord
      <3>4. QED
        BY <3>2, <3>3
    <2>4. CASE ~(n \in mine /\ n < lst) /\ n # lst
      <3>1. q[n] = c.keys[n]
        BY <1>12b, <2>4
      <3>2. DifferentKeys(c.keys) => c.keys[n].key \notin keys
        <4> SUFFICES ASSUME DifferentKeys(c.keys), c.keys[n].key \in keys PROVE FALSE
          OBVIOUS
        <4>1. n \in mine /\ ~(n < lst)
          BY <1>12d, <2>4
        <4>2. done /\ n > lst
          BY <1>1, <1>10, <1>12, <2>4, <4>1
        <4>3. PICK m \in 1..Len(c.keys) : m <= lst /\ c.keys[m].key = c.keys[n].key
          BY <1>10, <4>2
        <4>4. m # n
          BY <1>12, <4>2, <4>3
        <4>5. QED
          BY <4>3, <4>4 DEF DifferentKeys
      <3>3. QED
        BY <2>1, <3>1, <3>2
    <2>5. QED
      BY <2>2, <2>3, <2>4
  <1>14. q \in Seq(QueuedRecord) /\ Len(q) = Len(c.keys)
    <2>1. q \in [1..Len(c.keys) -> QueuedRecord]
      BY <1>6, <1>13 DEF records
    <2>2. QED
      BY <1>1, <2>1
  <1>15. done => AllIn(keys, c.keys)
    BY <1>10 DEF KeysIn, AllIn
  <1>16. PICK f : f = [c.combo EXCEPT ![i].active = (@ \/ done)]
    OBVIOUS
  <1>17. f \in [Combos -> ComboRecord]
    BY <1>12e, <1>16, CStateFields DEF ComboRecord
  <1>18. /\ e \in CState /\ e.keys = q /\ e.ring = c.ring /\ e.report = c.report /\ e.longest = c.longest
         /\ e.part = c.part /\ e.combo = f /\ e.lost = c.lost \cup out
    <2>1. e = [c EXCEPT !.keys = q, !.lost = @ \cup out, !.combo = f]
      BY <1>8, <1>16 DEF CState
    <2>2. QED
      BY <1>12e, <1>14, <1>17, <2>1 DEF CState
  <1>18a. \A j \in Combos : /\ e.combo[j].state = c.combo[j].state
                           /\ e.combo[j].disabled = c.combo[j].disabled
                           /\ e.combo[j].active = (c.combo[j].active \/ (j = i /\ done))
    BY <1>12e, <1>16, <1>18, CStateFields DEF ComboRecord
  <1>19. /\ d \in CState /\ SameData(e, d) /\ Disables(e, d, i, i \in ToSet(c.ring))
         /\ d.ring = Dropped(c.ring, i)
    BY <1>9, <1>18, DropEffect
  <1>20. ApplyCombos(c, d, i)
    BY <1>15, <1>18a, <1>19 DEF ApplyCombos, Disables, keys
  <1>21. ApplyRecords(c, d, i)
    <2>1. d.keys = q
      BY <1>18, <1>19 DEF SameData
    <2>2. done => d.combo[i].active
      BY <1>18a, <1>19 DEF Disables
    <2>3. QED
      BY <1>13, <1>14, <2>1, <2>2 DEF ApplyRecords, keys
  <1>22. ApplyLoses(c, d, i)
    BY <1>12f, <1>18, <1>19 DEF ApplyLoses, SameData, keys
  <1>23. QED
    BY <1>18, <1>19, <1>20, <1>21, <1>22 DEF SameData

-----------------------------------------------------------------------------
(* The loop of apply_combos. *)
Applies(f, c) ==
  /\ f \in [0..Len(c.ring) -> CState]
  /\ f[0] = c
  /\ \A n \in 1..Len(c.ring) : f[n] = apply_combo(f[n - 1], c.ring[n])

LEMMA ApplyType ==
  ASSUME NEW c \in CState, NEW i \in Combos, layout \in Layouts
  PROVE  apply_combo(c, i) \in CState
  <1>1. CASE c.combo[i].disabled
    BY <1>1 DEF apply_combo
  <1>2. CASE ~c.combo[i].disabled
    <2>1. PICK d : d = apply_combo(c, i)
      OBVIOUS
    <2>2. QED
      BY <1>2, <2>1, ApplyEffect
  <1>3. QED
    BY <1>1, <1>2

LEMMA ApplyRun ==
  ASSUME NEW c \in CState, layout \in Layouts
  PROVE  \E f : Applies(f, c) /\ apply_combos(c) = clear_combos(dump_key_buffer(f[Len(c.ring)]))
  <1> DEFINE N == Len(c.ring)
  <1>1. N \in Nat /\ c.ring \in Seq(Combos) /\ \A n \in 1..N : c.ring[n] \in Combos
    BY CStateFields
  <1>2. PICK F : F = [n \in 1..N |-> [x \in CState |-> apply_combo(x, c.ring[n])]]
    OBVIOUS
  <1>3. ASSUME NEW n \in 1..N, NEW x \in CState PROVE apply_combo(x, c.ring[n]) \in CState
    BY <1>1, ApplyType
  <1>4. LoopBody(F, N, CState)
    BY <1>2, <1>3 DEF LoopBody
  <1>5. PICK g : IsLoop(g, F, N, CState, c)
    <2> HIDE DEF N
    <2>1. QED
      BY <1>1, <1>4, LoopExists
  <1>6. ASSUME NEW n \in 1..N PROVE n - 1 \in 0..N /\ g[n] = apply_combo(g[n - 1], c.ring[n])
    <2>1. n - 1 \in 0..N /\ g[n - 1] \in CState
      BY <1>1, <1>5 DEF IsLoop
    <2>2. QED
      BY <1>2, <1>5, <2>1 DEF IsLoop
  <1> DEFINE Turns(f) == [n \in 0..N |-> IF n = 0 THEN c ELSE apply_combo(f[n - 1], c.ring[n])]
  <1>7. g = Turns(g)
    <2>1. \A n \in 0..N : n = 0 \/ n \in 1..N
      BY <1>1
    <2>2. \A n \in 0..N : g[n] = Turns(g)[n]
      BY <1>5, <1>6, <2>1 DEF IsLoop
    <2>3. QED
      BY <1>5, <2>2 DEF IsLoop
  <1> DEFINE applied == CHOOSE f : f = Turns(f)
  <1>8. applied = Turns(applied)
    BY <1>7
  <1>9. apply_combos(c) = clear_combos(dump_key_buffer(applied[N]))
    BY DEF apply_combos
  <1> HIDE DEF applied
  <1>10. PICK f : f = applied
    OBVIOUS
  <1>11. /\ DOMAIN f = 0..N
         /\ f[0] = c
         /\ \A n \in 1..N : f[n] = apply_combo(f[n - 1], c.ring[n])
    BY <1>1, <1>8, <1>10
  <1>12. \A n \in 0..N : f[n] \in CState
    <2> DEFINE P == {n \in 0..N : f[n] \in CState}
    <2>1. 0 \in P
      BY <1>1, <1>11
    <2>2. ASSUME NEW n \in 1..N, n - 1 \in P PROVE n \in P
      <3>1. n \in 0..N /\ f[n - 1] \in CState /\ c.ring[n] \in Combos
        BY <1>1, <2>2
      <3>2. f[n] = apply_combo(f[n - 1], c.ring[n])
        BY <1>11
      <3>3. QED
        BY <3>1, <3>2, ApplyType
    <2>3. \A n \in 0..N : n \in P
      <3> HIDE DEF P, N
      <3>1. QED
        BY <1>1, <2>1, <2>2, UpTo
    <2>4. QED
      BY <2>3
  <1>13. f \in [0..N -> CState]
    BY <1>8, <1>10, <1>11, <1>12
  <1>14. QED
    BY <1>9, <1>10, <1>11, <1>13 DEF Applies

-----------------------------------------------------------------------------
(* Between two events the records are those of the presses. *)
Plain(q) == \A n \in 1..Len(q) : q[n].kind = "key" /\ q[n].code = q[n].key
Distinct(q) == \A m, n \in 1..Len(q) : m # n => q[m] # q[n]
ActiveDisabled(c) == \A i \in Combos : c.combo[i].active => c.combo[i].disabled

(* q is s without its first k elements, i one of the first n elements of q. *)
Suffix(q, s, k) ==
  /\ k \in 0..Len(s)
  /\ Len(q) = Len(s) - k
  /\ \A p \in 1..Len(q) : q[p] = s[p + k]
Among(q, n, i) == \E p \in 1..n : q[p] = i

LEMMA SuffixDropped ==
  ASSUME NEW q \in Seq(Combos), NEW s \in Seq(Combos), NEW k, Suffix(q, s, k), NEW i
  PROVE  /\ Suffix(Dropped(q, i), s, k) \/ Suffix(Dropped(q, i), s, k + 1)
         /\ q # <<>> /\ q[1] = i => Suffix(Dropped(q, i), s, k + 1)
         /\ ~(q # <<>> /\ Head(q) = i) => Dropped(q, i) = q
  <1>1. CASE q # <<>> /\ Head(q) = i
    <2>1. Dropped(q, i) = Tail(q) /\ Len(s) \in Nat
      BY <1>1 DEF Dropped
    <2>2. /\ Len(Tail(q)) = Len(q) - 1 /\ Len(q) \in Nat \ {0}
          /\ \A n \in 1..Len(Tail(q)) : Tail(q)[n] = q[n + 1] /\ n + 1 \in 1..Len(q)
      BY <1>1, RingTail
    <2>3. k \in Nat /\ k + 1 \in 0..Len(s) /\ Len(Tail(q)) = Len(s) - (k + 1)
      BY <2>1, <2>2 DEF Suffix
    <2>4. ASSUME NEW p \in 1..Len(Tail(q)) PROVE Tail(q)[p] = s[p + (k + 1)]
      <3>1. Tail(q)[p] = q[p + 1] /\ p + 1 \in 1..Len(q) /\ q[p + 1] = s[(p + 1) + k]
        BY <2>2 DEF Suffix
      <3>2. (p + 1) + k = p + (k + 1)
        BY <2>3
      <3>3. QED
        BY <3>1, <3>2
    <2>5. QED
      BY <1>1, <2>1, <2>3, <2>4 DEF Suffix
  <1>2. CASE ~(q # <<>> /\ Head(q) = i)
    BY <1>2 DEF Dropped
  <1>3. QED
    BY <1>1, <1>2

LEMMA SuffixFacts ==
  ASSUME NEW q \in Seq(Combos), NEW s \in Seq(Combos), NEW k, Suffix(q, s, k)
  PROVE  /\ Len(q) <= Len(s) /\ k \in Nat
         /\ Distinct(s) => Distinct(q)
         /\ ToSet(q) \subseteq ToSet(s)
         /\ \A p \in 1..Len(s) : p > k => s[p] \in ToSet(q)
  <1>1. Len(s) \in Nat /\ Len(q) \in Nat /\ k \in Nat /\ Len(q) = Len(s) - k
    BY DEF Suffix
  <1>2. \A p \in 1..Len(q) : p + k \in 1..Len(s) /\ q[p] = s[p + k]
    BY <1>1 DEF Suffix
  <1>3. Distinct(s) => Distinct(q)
    <2> SUFFICES ASSUME Distinct(s), NEW m \in 1..Len(q), NEW n \in 1..Len(q), m # n
                 PROVE  q[m] # q[n]
      BY DEF Distinct
    <2>1. m + k # n + k
      BY <1>1
    <2>2. QED
      BY <1>2, <2>1 DEF Distinct
  <1>4. ToSet(q) \subseteq ToSet(s)
    BY <1>2 DEF ToSet
  <1>5. ASSUME NEW p \in 1..Len(s), p > k PROVE s[p] \in ToSet(q)
    <2>1. p - k \in 1..Len(q) /\ (p - k) + k = p
      BY <1>1, <1>5
    <2>2. q[p - k] = s[p]
      BY <1>2, <2>1
    <2>3. p - k \in DOMAIN q
      BY <2>1
    <2>4. QED
      BY <2>2, <2>3 DEF ToSet
  <1>6. QED
    BY <1>1, <1>3, <1>4, <1>5

(* What the first n turns of apply_combos have made of c. *)
AppliedData(c, d) ==
  /\ d.report = c.report /\ d.longest = c.longest /\ d.part = c.part
  /\ Len(d.keys) = Len(c.keys)
  /\ \A m \in 1..Len(c.keys) : d.keys[m].key = c.keys[m].key
AppliedRing(c, d, n) == \E k \in 0..n : Suffix(d.ring, c.ring, k)
AppliedCombos(c, d, n) ==
  \A j \in Combos :
    /\ d.combo[j].state = c.combo[j].state
    /\ d.combo[j].disabled = (c.combo[j].disabled \/ Among(c.ring, n, j))
    /\ c.combo[j].active => d.combo[j].active
    /\ d.combo[j].active =>
         \/ c.combo[j].active
         \/ /\ ~c.combo[j].disabled /\ Among(c.ring, n, j)
            /\ AllIn(layout[j].keys, c.keys)
AppliedRecords(c, d, n) ==
  \A m \in 1..Len(c.keys) :
    \/ /\ d.keys[m] = c.keys[m]
       /\ \A j \in Combos : ~c.combo[j].disabled /\ Among(c.ring, n, j) => c.keys[m].key \notin layout[j].keys
    \/ d.keys[m].kind = "tick"
    \/ /\ d.keys[m].kind = "combo"
       /\ \E j \in Combos : /\ ~c.combo[j].disabled /\ Among(c.ring, n, j) /\ d.combo[j].active
                            /\ d.keys[m].code = layout[j].code /\ c.keys[m].key \in layout[j].keys
AppliedTo(c, d, n) ==
  AppliedData(c, d) /\ AppliedRing(c, d, n) /\ AppliedCombos(c, d, n) /\ AppliedRecords(c, d, n)

LEMMA AmongStep ==
  ASSUME NEW q, NEW n \in Nat \ {0}, NEW i
  PROVE  Among(q, n, i) <=> (Among(q, n - 1, i) \/ q[n] = i)
  <1>1. \A p \in 1..n : p \in 1..(n - 1) \/ p = n
    OBVIOUS
  <1>2. \A p \in 1..(n - 1) : p \in 1..n
    OBVIOUS
  <1>3. n \in 1..n
    OBVIOUS
  <1>4. QED
    BY <1>1, <1>2, <1>3 DEF Among

LEMMA AppliedStep ==
  ASSUME NEW c \in CState, layout \in Layouts, DifferentKeys(c.keys), Distinct(c.ring),
         NEW n \in 1..Len(c.ring), NEW d \in CState, AppliedTo(c, d, n - 1),
         NEW e, e = apply_combo(d, c.ring[n])
  PROVE  AppliedTo(c, e, n)
  <1>1. PICK i : i = c.ring[n]
    OBVIOUS
  <1>2. c.ring \in Seq(Combos) /\ Len(c.ring) \in Nat /\ i \in Combos /\ n \in Nat \ {0} /\ n \in 1..Len(c.ring)
        /\ d.ring \in Seq(Combos) /\ n - 1 \in Nat
    BY <1>1, CStateFields
  <1>3. \A j : Among(c.ring, n, j) <=> (Among(c.ring, n - 1, j) \/ j = i)
    BY <1>1, <1>2, AmongStep
  <1>4. ~Among(c.ring, n - 1, i)
    <2> SUFFICES ASSUME NEW p \in 1..(n - 1), c.ring[p] = i PROVE FALSE
      BY DEF Among
    <2>1. p \in 1..Len(c.ring) /\ p # n
      BY <1>2
    <2>2. QED
      BY <1>1, <1>2, <2>1 DEF Distinct
  <1>5. d.combo[i].disabled = c.combo[i].disabled
    BY <1>2, <1>4, CStateFields DEF AppliedTo, AppliedCombos
  <1>6. PICK k \in 0..(n - 1) : Suffix(d.ring, c.ring, k)
    BY DEF AppliedTo, AppliedRing
  <1>7. i \in ToSet(d.ring)
    BY <1>1, <1>2, <1>6, SuffixFacts
  <1>8. CASE d.combo[i].disabled
    <2>1. e = d
      BY <1>1, <1>8 DEF apply_combo
    <2>2. AppliedData(c, e)
      BY <2>1 DEF AppliedTo
    <2>3. AppliedRing(c, e, n)
      <3>1. k \in 0..n
        BY <1>2, <1>6
      <3>2. QED
        BY <1>6, <2>1, <3>1 DEF AppliedRing
    <2>4. c.combo[i].disabled
      BY <1>5, <1>8
    <2>5. AppliedCombos(c, e, n)
      BY <1>2, <1>3, <2>1, <2>4, CStateFields DEF AppliedTo, AppliedCombos
    <2>6. AppliedRecords(c, e, n)
      BY <1>2, <1>3, <2>1, <2>4 DEF AppliedTo, AppliedRecords
    <2>7. QED
      BY <2>2, <2>3, <2>5, <2>6 DEF AppliedTo
  <1>9. CASE ~d.combo[i].disabled
    <2>1. /\ e \in CState
          /\ e.report = d.report /\ e.longest = d.longest /\ e.part = d.part
          /\ ApplyRecords(d, e, i)
          /\ ApplyCombos(d, e, i)
          /\ e.ring = Dropped(d.ring, i)
      BY <1>1, <1>2, <1>9, ApplyEffect
    <2>2. Len(d.keys) = Len(c.keys) /\ \A m \in 1..Len(c.keys) : d.keys[m].key = c.keys[m].key
      BY DEF AppliedTo, AppliedData
    <2>3. DifferentKeys(d.keys) /\ \A S : AllIn(S, d.keys) <=> AllIn(S, c.keys)
      <3>1. DifferentKeys(d.keys) /\ KeysIn(d.keys) = KeysIn(c.keys)
        BY <2>2 DEF DifferentKeys, KeysIn
      <3>2. QED
        BY <3>1 DEF AllIn
    <2>4. AppliedData(c, e)
      BY <2>1, <2>2 DEF AppliedTo, AppliedData, ApplyRecords
    <2>5. AppliedRing(c, e, n)
      <3>1. Suffix(e.ring, c.ring, k) \/ Suffix(e.ring, c.ring, k + 1)
        BY <1>2, <1>6, <2>1, SuffixDropped
      <3>2. k \in 0..n /\ k + 1 \in 0..n
        BY <1>2, <1>6
      <3>3. QED
        BY <3>1, <3>2 DEF AppliedRing
    <2>6. ~c.combo[i].disabled
      BY <1>5, <1>9
    <2>7. AppliedCombos(c, e, n)
      <3> SUFFICES ASSUME NEW j \in Combos
                   PROVE  /\ e.combo[j].state = c.combo[j].state
                          /\ e.combo[j].disabled = (c.combo[j].disabled \/ Among(c.ring, n, j))
                          /\ c.combo[j].active => e.combo[j].active
                          /\ e.combo[j].active =>
                               \/ c.combo[j].active
                               \/ /\ ~c.combo[j].disabled /\ Among(c.ring, n, j)
                                  /\ AllIn(layout[j].keys, c.keys)
        BY DEF AppliedCombos
      <3>1. /\ e.combo[j].state = d.combo[j].state
            /\ e.combo[j].disabled = (d.combo[j].disabled \/ j = i)
            /\ d.combo[j].active => e.combo[j].active
            /\ e.combo[j].active => d.combo[j].active \/ (j = i /\ AllIn(layout[i].keys, c.keys))
        BY <1>7, <2>1, <2>3 DEF ApplyCombos
      <3>2. /\ d.combo[j].state = c.combo[j].state
            /\ d.combo[j].disabled = (c.combo[j].disabled \/ Among(c.ring, n - 1, j))
            /\ c.combo[j].active => d.combo[j].active
            /\ d.combo[j].active =>
                 \/ c.combo[j].active
                 \/ /\ ~c.combo[j].disabled /\ Among(c.ring, n - 1, j)
                    /\ AllIn(layout[j].keys, c.keys)
        BY DEF AppliedTo, AppliedCombos
      <3>3. QED
        BY <1>3, <2>6, <3>1, <3>2
    <2>8. AppliedRecords(c, e, n)
      <3> SUFFICES ASSUME NEW m \in 1..Len(c.keys)
                   PROVE  \/ /\ e.keys[m] = c.keys[m]
                             /\ \A j \in Combos : ~c.combo[j].disabled /\ Among(c.ring, n, j)
                                                    => c.keys[m].key \notin layout[j].keys
                          \/ e.keys[m].kind = "tick"
                          \/ /\ e.keys[m].kind = "combo"
                             /\ \E j \in Combos :
                                  /\ ~c.combo[j].disabled /\ Among(c.ring, n, j) /\ e.combo[j].active
                                  /\ e.keys[m].code = layout[j].code /\ c.keys[m].key \in layout[j].keys
        BY DEF AppliedRecords
      <3>1. \/ e.keys[m] = d.keys[m] /\ c.keys[m].key \notin layout[i].keys
            \/ e.keys[m].kind = "tick"
            \/ /\ e.keys[m].kind = "combo" /\ e.keys[m].code = layout[i].code /\ e.combo[i].active
               /\ c.keys[m].key \in layout[i].keys
        BY <2>1, <2>2, <2>3 DEF ApplyRecords
      <3>2. \/ /\ d.keys[m] = c.keys[m]
               /\ \A j \in Combos : ~c.combo[j].disabled /\ Among(c.ring, n - 1, j)
                                      => c.keys[m].key \notin layout[j].keys
            \/ d.keys[m].kind = "tick"
            \/ /\ d.keys[m].kind = "combo"
               /\ \E j \in Combos :
                    /\ ~c.combo[j].disabled /\ Among(c.ring, n - 1, j) /\ d.combo[j].active
                    /\ d.keys[m].code = layout[j].code /\ c.keys[m].key \in layout[j].keys
        BY DEF AppliedTo, AppliedRecords
      <3>3. \A j \in Combos : d.combo[j].active => e.combo[j].active
        BY <2>1 DEF ApplyCombos
      <3>4. CASE e.keys[m] = d.keys[m] /\ c.keys[m].key \notin layout[i].keys
        <4>1. CASE d.keys[m] = c.keys[m]
                   /\ \A j \in Combos : ~c.combo[j].disabled /\ Among(c.ring, n - 1, j)
                                          => c.keys[m].key \notin layout[j].keys
          BY <1>3, <3>4, <4>1
        <4>2. CASE d.keys[m].kind = "tick"
          BY <3>4, <4>2
        <4>3. CASE d.keys[m].kind = "combo"
                   /\ \E j \in Combos :
                        /\ ~c.combo[j].disabled /\ Among(c.ring, n - 1, j) /\ d.combo[j].active
                        /\ d.keys[m].code = layout[j].code /\ c.keys[m].key \in layout[j].keys
          BY <1>3, <3>3, <3>4, <4>3
        <4>4. QED
          BY <3>2, <4>1, <4>2, <4>3
      <3>5. CASE e.keys[m].kind = "tick"
        BY <3>5
      <3>6. CASE /\ e.keys[m].kind = "combo" /\ e.keys[m].code = layout[i].code /\ e.combo[i].active
                 /\ c.keys[m].key \in layout[i].keys
        BY <1>2, <1>3, <2>6, <3>6
      <3>7. QED
        BY <3>1, <3>4, <3>5, <3>6
    <2>9. QED
      BY <2>4, <2>5, <2>7, <2>8 DEF AppliedTo
  <1>10. QED
    BY <1>8, <1>9

LEMMA AppliedAll ==
  ASSUME NEW c \in CState, layout \in Layouts, DifferentKeys(c.keys), Distinct(c.ring),
         NEW f, Applies(f, c)
  PROVE  f[Len(c.ring)] \in CState /\ AppliedTo(c, f[Len(c.ring)], Len(c.ring))
  <1>1. PICK N : N = Len(c.ring)
    OBVIOUS
  <1>2. N \in Nat /\ c.ring \in Seq(Combos)
    BY <1>1, CStateFields
  <1> DEFINE P == {n \in 0..N : AppliedTo(c, f[n], n)}
  <1>3. 0 \in P
    <2>1. f[0] = c /\ \A j : ~Among(c.ring, 0, j)
      BY DEF Applies, Among
    <2>2. Suffix(c.ring, c.ring, 0)
      BY <1>2 DEF Suffix
    <2>3. AppliedData(c, c) /\ AppliedRing(c, c, 0)
      BY <2>2 DEF AppliedData, AppliedRing
    <2>4. AppliedCombos(c, c, 0) /\ AppliedRecords(c, c, 0)
      BY <2>1, CStateFields DEF AppliedCombos, AppliedRecords
    <2>5. QED
      BY <1>2, <2>1, <2>3, <2>4 DEF AppliedTo
  <1>4. ASSUME NEW n \in 1..N, n - 1 \in P PROVE n \in P
    <2>1. n - 1 \in 0..N /\ n \in 0..N /\ AppliedTo(c, f[n - 1], n - 1)
      BY <1>2, <1>4
    <2>2. f[n - 1] \in CState /\ f[n] = apply_combo(f[n - 1], c.ring[n])
      BY <1>1, <1>4, <2>1 DEF Applies
    <2>3. AppliedTo(c, f[n], n)
      BY <1>1, <1>4, <2>1, <2>2, AppliedStep
    <2>4. QED
      BY <2>1, <2>3
  <1>5. N \in P
    <2>1. \A n \in 1..N : n - 1 \in P => n \in P
      BY <1>4
    <2> HIDE DEF P
    <2>2. \A n \in 0..N : n \in P
      BY <1>2, <1>3, <2>1, UpTo
    <2>3. QED
      BY <1>2, <2>2
  <1>6. f[N] \in CState
    BY <1>1, <1>2 DEF Applies
  <1>7. QED
    BY <1>1, <1>5, <1>6

LEMMA ClearEffect ==
  ASSUME NEW c \in CState, NEW d, d = clear_combos(c)
  PROVE  /\ d \in CState
         /\ d.keys = c.keys /\ d.ring = c.ring /\ d.report = c.report /\ d.lost = c.lost /\ d.part = c.part
         /\ \A i \in Combos : d.combo[i] = IF c.combo[i].active THEN c.combo[i] ELSE Fresh
  <1>1. PICK g : g = [i \in Combos |-> IF c.combo[i].active THEN c.combo[i] ELSE Fresh]
    OBVIOUS
  <1>2. Fresh \in ComboRecord
    BY DEF Fresh, ComboRecord
  <1>3. g \in [Combos -> ComboRecord]
    BY <1>1, <1>2, CStateFields
  <1>4. d = [c EXCEPT !.longest = 0, !.combo = g]
    BY <1>1 DEF clear_combos
  <1>5. /\ d \in CState /\ d.combo = g
        /\ d.keys = c.keys /\ d.ring = c.ring /\ d.report = c.report /\ d.lost = c.lost /\ d.part = c.part
    BY <1>3, <1>4 DEF CState
  <1>6. QED
    BY <1>1, <1>5

LEMMA DumpEffect ==
  ASSUME NEW c \in CState, NEW d, d = dump_key_buffer(c)
  PROVE  /\ d \in CState
         /\ d.keys = <<>> /\ d.ring = c.ring /\ d.combo = c.combo /\ d.lost = c.lost /\ d.part = c.part
         /\ c.report \subseteq d.report
         /\ \A x \in d.report : \/ x \in c.report
                                \/ \E n \in 1..Len(c.keys) : x = c.keys[n].code /\ c.keys[n].kind # "tick"
  <1>1. PICK new : new = {r.code : r \in {s \in ToSet(c.keys) : s.kind # "tick"}}
    OBVIOUS
  <1>2. c.keys \in Seq(QueuedRecord) /\ DOMAIN c.keys = 1..Len(c.keys)
        /\ \A n \in 1..Len(c.keys) : c.keys[n] \in QueuedRecord
    BY CStateFields
  <1>3. \A x \in new : \E n \in 1..Len(c.keys) : x = c.keys[n].code /\ c.keys[n].kind # "tick"
    <2>1. \A r \in ToSet(c.keys) : \E n \in 1..Len(c.keys) : r = c.keys[n]
      BY <1>2 DEF ToSet
    <2>2. \A x \in new : \E r \in ToSet(c.keys) : x = r.code /\ r.kind # "tick"
      BY <1>1
    <2>3. QED
      BY <2>1, <2>2
  <1>4. new \subseteq Codes
    BY <1>2, <1>3 DEF QueuedRecord
  <1>5. d = [c EXCEPT !.keys = <<>>, !.report = @ \cup new]
    BY <1>1 DEF dump_key_buffer
  <1>6. /\ d \in CState /\ d.keys = <<>> /\ d.ring = c.ring /\ d.combo = c.combo /\ d.lost = c.lost
        /\ d.part = c.part /\ d.report = c.report \cup new
    <2>1. <<>> \in Seq(QueuedRecord)
      OBVIOUS
    <2>2. c.report \cup new \subseteq Codes
      BY <1>4, CStateFields
    <2>3. QED
      BY <1>5, <2>1, <2>2 DEF CState
  <1>7. QED
    BY <1>3, <1>6

-----------------------------------------------------------------------------
(* The wait ends: what c, after the event was offered to the combos, becomes. *)
Fires(c, d, i) ==
  /\ ~c.combo[i].active /\ ~c.combo[i].disabled
  /\ i \in ToSet(c.ring) /\ AllIn(layout[i].keys, c.keys)
  /\ d.combo[i].active /\ d.combo[i].disabled /\ d.combo[i].state = c.combo[i].state
EndCombos(c, d) ==
  \A i \in Combos :
    \/ c.combo[i].active /\ d.combo[i] = c.combo[i]
    \/ ~c.combo[i].active /\ d.combo[i] = Fresh
    \/ Fires(c, d, i)
EndReport(c, d) ==
  \A x \in d.report :
    \/ x \in c.report
    \/ \E n \in 1..Len(c.keys) :
         /\ x = c.keys[n].key
         /\ \A j \in ToSet(c.ring) : ~c.combo[j].disabled => x \notin layout[j].keys
    \/ \E i \in Combos : Fires(c, d, i) /\ x = layout[i].code
Ends(c, d) ==
  /\ d \in CState /\ d.keys = <<>> /\ d.part = c.part
  /\ \E k \in 0..Len(c.ring) : Suffix(d.ring, c.ring, k)
  /\ EndCombos(c, d)
  /\ EndReport(c, d)

(* The process state before the wait ends. *)
Waiting(c) ==
  c \in CState /\ Plain(c.keys) /\ DifferentKeys(c.keys) /\ Distinct(c.ring) /\ ActiveDisabled(c)

LEMMA SameRecord ==
  ASSUME NEW r \in ComboRecord, NEW s \in ComboRecord,
         r.state = s.state, r.disabled = s.disabled, r.active = s.active
  PROVE  r = s
  BY DEF ComboRecord

LEMMA DumpEnds ==
  ASSUME NEW c, Waiting(c), NEW d, d = clear_combos(dump_key_buffer(c)), c.ring = <<>>
  PROVE  Ends(c, d)
  <1>1. PICK e : e = dump_key_buffer(c)
    OBVIOUS
  <1>2. c \in CState
    BY DEF Waiting
  <1>3. /\ e \in CState
        /\ e.keys = <<>> /\ e.ring = c.ring /\ e.combo = c.combo /\ e.lost = c.lost /\ e.part = c.part
        /\ \A x \in e.report : \/ x \in c.report
                               \/ \E n \in 1..Len(c.keys) : x = c.keys[n].code /\ c.keys[n].kind # "tick"
    BY <1>1, <1>2, DumpEffect
  <1>4. /\ d \in CState
        /\ d.keys = e.keys /\ d.ring = e.ring /\ d.report = e.report /\ d.part = e.part
        /\ \A i \in Combos : d.combo[i] = IF e.combo[i].active THEN e.combo[i] ELSE Fresh
    BY <1>1, <1>3, ClearEffect
  <1>5. ToSet(c.ring) = {}
    BY DEF ToSet
  <1>6. Suffix(d.ring, c.ring, 0) /\ 0 \in 0..Len(c.ring)
    BY <1>3, <1>4 DEF Suffix
  <1>7. EndCombos(c, d)
    BY <1>3, <1>4 DEF EndCombos
  <1>8. EndReport(c, d)
    <2>1. \A n \in 1..Len(c.keys) : c.keys[n].code = c.keys[n].key
      BY DEF Waiting, Plain
    <2>2. QED
      BY <1>3, <1>4, <1>5, <2>1 DEF EndReport
  <1>9. QED
    BY <1>3, <1>4, <1>6, <1>7, <1>8 DEF Ends

LEMMA ApplyEnds ==
  ASSUME NEW c, Waiting(c), layout \in Layouts, NEW d, d = apply_combos(c)
  PROVE  Ends(c, d)
  <1>1. c \in CState /\ DifferentKeys(c.keys) /\ Distinct(c.ring) /\ c.ring \in Seq(Combos) /\ Len(c.ring) \in Nat
    BY CStateFields DEF Waiting
  <1>2. PICK f : Applies(f, c) /\ d = clear_combos(dump_key_buffer(f[Len(c.ring)]))
    BY <1>1, ApplyRun
  <1>3. PICK a : a = f[Len(c.ring)]
    OBVIOUS
  <1>4. a \in CState /\ AppliedTo(c, a, Len(c.ring))
    BY <1>1, <1>2, <1>3, AppliedAll
  <1>5. PICK e : e = dump_key_buffer(a)
    OBVIOUS
  <1>6. /\ e \in CState
        /\ e.keys = <<>> /\ e.ring = a.ring /\ e.combo = a.combo /\ e.part = a.part
        /\ \A x \in e.report : \/ x \in a.report
                               \/ \E n \in 1..Len(a.keys) : x = a.keys[n].code /\ a.keys[n].kind # "tick"
    BY <1>4, <1>5, DumpEffect
  <1>7. /\ d \in CState
        /\ d.keys = e.keys /\ d.ring = e.ring /\ d.report = e.report /\ d.part = e.part
        /\ \A i \in Combos : d.combo[i] = IF e.combo[i].active THEN e.combo[i] ELSE Fresh
    BY <1>2, <1>3, <1>5, <1>6, ClearEffect
  <1>8. \A j : Among(c.ring, Len(c.ring), j) <=> j \in ToSet(c.ring)
    <2>1. DOMAIN c.ring = 1..Len(c.ring)
      BY <1>1
    <2>2. QED
      BY <2>1 DEF Among, ToSet
  <1>9. \A i \in Combos : a.combo[i].active /\ ~c.combo[i].active => Fires(c, d, i)
    <2> SUFFICES ASSUME NEW i \in Combos, a.combo[i].active, ~c.combo[i].active PROVE Fires(c, d, i)
      OBVIOUS
    <2>1. /\ ~c.combo[i].disabled /\ i \in ToSet(c.ring) /\ AllIn(layout[i].keys, c.keys)
          /\ a.combo[i].state = c.combo[i].state /\ a.combo[i].disabled
      BY <1>4, <1>8 DEF AppliedTo, AppliedCombos
    <2>2. d.combo[i] = a.combo[i]
      BY <1>6, <1>7
    <2>3. QED
      BY <2>1, <2>2 DEF Fires
  <1>10. EndCombos(c, d)
    <2> SUFFICES ASSUME NEW i \in Combos
                 PROVE  \/ c.combo[i].active /\ d.combo[i] = c.combo[i]
                        \/ ~c.combo[i].active /\ d.combo[i] = Fresh
                        \/ Fires(c, d, i)
      BY DEF EndCombos
    <2>1. CASE c.combo[i].active
      <3>1. a.combo[i].active /\ a.combo[i].state = c.combo[i].state
            /\ a.combo[i].disabled /\ c.combo[i].disabled
        BY <1>4, <2>1 DEF AppliedTo, AppliedCombos, Waiting, ActiveDisabled
      <3>2. a.combo[i] \in ComboRecord /\ c.combo[i] \in ComboRecord
            /\ a.combo[i].active \in BOOLEAN /\ c.combo[i].active \in BOOLEAN
            /\ a.combo[i].disabled \in BOOLEAN /\ c.combo[i].disabled \in BOOLEAN
        BY <1>1, <1>4, CStateFields
      <3>3. a.combo[i].active = c.combo[i].active /\ a.combo[i].disabled = c.combo[i].disabled
        BY <2>1, <3>1, <3>2
      <3>4. a.combo[i] = c.combo[i]
        BY <3>1, <3>2, <3>3, SameRecord
      <3>5. QED
        BY <1>6, <1>7, <2>1, <3>1, <3>4
    <2>2. CASE ~c.combo[i].active /\ ~a.combo[i].active
      BY <1>6, <1>7, <2>2
    <2>3. CASE ~c.combo[i].active /\ a.combo[i].active
      BY <1>9, <2>3
    <2>4. QED
      BY <2>1, <2>2, <2>3
  <1>11. EndReport(c, d)
    <2> SUFFICES ASSUME NEW x \in d.report, x \notin c.report
                 PROVE  \/ \E n \in 1..Len(c.keys) :
                             /\ x = c.keys[n].key
                             /\ \A j \in ToSet(c.ring) : ~c.combo[j].disabled => x \notin layout[j].keys
                        \/ \E i \in Combos : Fires(c, d, i) /\ x = layout[i].code
      BY DEF EndReport
    <2>1. a.report = c.report /\ Len(a.keys) = Len(c.keys)
      BY <1>4 DEF AppliedTo, AppliedData
    <2>2. PICK n \in 1..Len(c.keys) : x = a.keys[n].code /\ a.keys[n].kind # "tick"
      BY <1>6, <1>7, <2>1
    <2>3. \A j \in ToSet(c.ring) : j \in Combos
      BY <1>1 DEF ToSet
    <2>4. CASE /\ a.keys[n] = c.keys[n]
               /\ \A j \in Combos : ~c.combo[j].disabled /\ j \in ToSet(c.ring) => c.keys[n].key \notin layout[j].keys
      <3>1. x = c.keys[n].key
        BY <2>2, <2>4 DEF Waiting, Plain
      <3>2. QED
        BY <2>3, <2>4, <3>1
    <2>5. CASE \E j \in Combos : /\ ~c.combo[j].disabled /\ j \in ToSet(c.ring) /\ a.combo[j].active
                                 /\ a.keys[n].code = layout[j].code
      <3>1. PICK j \in Combos : /\ ~c.combo[j].disabled /\ a.combo[j].active
                                /\ a.keys[n].code = layout[j].code
        BY <2>5
      <3>2. ~c.combo[j].active
        BY <3>1 DEF Waiting, ActiveDisabled
      <3>3. QED
        BY <1>9, <2>2, <3>1, <3>2
    <2>6. QED
      BY <1>4, <1>8, <2>2, <2>4, <2>5 DEF AppliedTo, AppliedRecords
  <1>12. QED
    BY <1>4, <1>6, <1>7, <1>10, <1>11 DEF Ends, AppliedTo, AppliedRing, AppliedData

LEMMA EndWaitEnds ==
  ASSUME NEW c, Waiting(c), layout \in Layouts
  PROVE  Ends(c, EndWait(c))
  <1>1. CASE c.ring # <<>>
    BY <1>1, ApplyEnds DEF EndWait
  <1>2. CASE c.ring = <<>>
    BY <1>2, DumpEnds DEF EndWait
  <1>3. QED
    BY <1>1, <1>2

-----------------------------------------------------------------------------
(* A key of the combo i goes up, or goes down while the combo is disabled. *)
ReleaseCombos(c, d, i, key) ==
  \A j \in Combos :
    /\ d.combo[j].state = IF j = i THEN c.combo[j].state \ {key} ELSE c.combo[j].state
    /\ d.combo[j].disabled = c.combo[j].disabled
    /\ d.combo[j].active = (c.combo[j].active /\ ~(j = i /\ c.combo[j].state = {key}))
ReleasedReport(c, i, key) ==
  IF c.combo[i].active /\ c.combo[i].state = {key} THEN c.report \ {layout[i].code} ELSE c.report
ReleaseRing(c, d, i) ==
  d.ring = c.ring \/ (c.combo[i].disabled /\ d.ring = Dropped(c.ring, i))

LEMMA ReleaseEffect ==
  ASSUME NEW c \in CState, NEW i \in Combos, NEW key \in Keys, layout \in Layouts,
         NEW d, d = ReleaseInCombo(c, i, key)
  PROVE  /\ d \in CState
         /\ d.longest = c.longest /\ d.keys = c.keys /\ d.lost = c.lost /\ d.part = c.part
         /\ d.report = ReleasedReport(c, i, key)
         /\ ReleaseCombos(c, d, i, key)
         /\ ReleaseRing(c, d, i)
  <1> DEFINE s == c.combo[i]
  <1>0. /\ s \in ComboRecord /\ s.active \in BOOLEAN /\ s.disabled \in BOOLEAN /\ s.state \subseteq Keys
        /\ \A j \in Combos : /\ c.combo[j].disabled \in BOOLEAN /\ c.combo[j].active \in BOOLEAN
    BY CStateFields
  <1>1. PICK e : e = IF ~s.active /\ AllDown(c, i) /\ s.disabled THEN drop_combo_from_buffer(c, i)
                     ELSE IF s.active /\ s.state = {key}
                     THEN [c EXCEPT !.report = @ \ {layout[i].code}, !.combo[i].active = FALSE]
                     ELSE c
    OBVIOUS
  <1>2. d = [e EXCEPT !.combo[i].state = @ \ {key}]
    BY <1>1 DEF ReleaseInCombo
  <1>3. /\ e \in CState
        /\ e.longest = c.longest /\ e.keys = c.keys /\ e.lost = c.lost /\ e.part = c.part
        /\ e.report = IF s.active /\ s.state = {key} THEN c.report \ {layout[i].code} ELSE c.report
        /\ \A j \in Combos :
             /\ e.combo[j].state = c.combo[j].state
             /\ e.combo[j].disabled = c.combo[j].disabled
             /\ e.combo[j].active = (c.combo[j].active /\ ~(j = i /\ s.state = {key}))
        /\ ReleaseRing(c, e, i)
    <2>1. CASE ~s.active /\ AllDown(c, i) /\ s.disabled
      <3>1. e = drop_combo_from_buffer(c, i)
        BY <1>1, <2>1
      <3>2. /\ e \in CState /\ SameData(c, e) /\ Disables(c, e, i, i \in ToSet(c.ring))
            /\ e.ring = Dropped(c.ring, i)
        BY <3>1, DropEffect
      <3>3. \A j \in Combos :
             /\ e.combo[j].state = c.combo[j].state
             /\ e.combo[j].disabled = c.combo[j].disabled
             /\ e.combo[j].active = (c.combo[j].active /\ ~(j = i /\ s.state = {key}))
        BY <1>0, <2>1, <3>2 DEF Disables
      <3>4. QED
        BY <2>1, <3>2, <3>3 DEF SameData, ReleaseRing
    <2>2. CASE s.active /\ s.state = {key}
      <3>1. e = [c EXCEPT !.report = @ \ {layout[i].code}, !.combo[i].active = FALSE]
        BY <1>1, <2>2
      <3>2. PICK g : g = [c.combo EXCEPT ![i].active = FALSE]
        OBVIOUS
      <3>3. g \in [Combos -> ComboRecord]
        BY <3>2, CStateFields DEF ComboRecord
      <3>4. e = [c EXCEPT !.report = @ \ {layout[i].code}, !.combo = g]
        BY <3>1, <3>2 DEF CState
      <3>5. /\ e \in CState /\ e.combo = g /\ e.report = c.report \ {layout[i].code} /\ e.ring = c.ring
            /\ e.longest = c.longest /\ e.keys = c.keys /\ e.lost = c.lost /\ e.part = c.part
        BY <3>3, <3>4 DEF CState
      <3>6. \A j \in Combos :
             /\ e.combo[j].state = c.combo[j].state
             /\ e.combo[j].disabled = c.combo[j].disabled
             /\ e.combo[j].active = (c.combo[j].active /\ ~(j = i))
        <4> SUFFICES ASSUME NEW j \in Combos
                     PROVE  /\ g[j].state = c.combo[j].state /\ g[j].disabled = c.combo[j].disabled
                            /\ g[j].active = (c.combo[j].active /\ ~(j = i))
          BY <3>5
        <4>1. c.combo \in [Combos -> ComboRecord] /\ c.combo[j] \in ComboRecord
              /\ c.combo[j].active \in BOOLEAN
          BY CStateFields
        <4>2. CASE j = i
          <5>1. g[j] = [c.combo[j] EXCEPT !.active = FALSE]
            BY <3>2, <4>1, <4>2
          <5>2. QED
            BY <4>1, <4>2, <5>1 DEF ComboRecord
        <4>3. CASE j # i
          <5>1. g[j] = c.combo[j]
            BY <3>2, <4>1, <4>3
          <5>2. QED
            BY <4>1, <4>3, <5>1
        <4>4. QED
          BY <4>2, <4>3
      <3>7. QED
        BY <2>2, <3>5, <3>6 DEF ReleaseRing
    <2>3. CASE ~(~s.active /\ AllDown(c, i) /\ s.disabled) /\ ~(s.active /\ s.state = {key})
      <3>1. e = c
        BY <1>1, <2>3
      <3>2. \A j \in Combos : e.combo[j].active = (c.combo[j].active /\ ~(j = i /\ s.state = {key}))
        BY <1>0, <2>3, <3>1
      <3>3. QED
        BY <2>3, <3>1, <3>2 DEF ReleaseRing
    <2>4. QED
      BY <2>1, <2>2, <2>3
  <1> HIDE DEF s
  <1>4. PICK g : g = [e.combo EXCEPT ![i].state = @ \ {key}]
    OBVIOUS
  <1>5. g \in [Combos -> ComboRecord]
    <2>1. e.combo \in [Combos -> ComboRecord]
      BY <1>3, CStateFields
    <2>2. PICK r : r = [e.combo[i] EXCEPT !.state = @ \ {key}]
      OBVIOUS
    <2>3. r \in ComboRecord
      BY <2>1, <2>2 DEF ComboRecord
    <2>4. g = [e.combo EXCEPT ![i] = r]
      BY <1>4, <2>2
    <2>5. QED
      BY <2>1, <2>3, <2>4
  <1>6. d = [e EXCEPT !.combo = g]
    BY <1>2, <1>3, <1>4 DEF CState
  <1>7. /\ d \in CState /\ d.combo = g /\ d.report = e.report /\ d.ring = e.ring
        /\ d.longest = e.longest /\ d.keys = e.keys /\ d.lost = e.lost /\ d.part = e.part
    BY <1>3, <1>5, <1>6 DEF CState
  <1>8. \A j \in Combos :
          /\ d.combo[j].state = IF j = i THEN e.combo[j].state \ {key} ELSE e.combo[j].state
          /\ d.combo[j].disabled = e.combo[j].disabled
          /\ d.combo[j].active = e.combo[j].active
    <2> SUFFICES ASSUME NEW j \in Combos
                 PROVE  /\ g[j].state = IF j = i THEN e.combo[j].state \ {key} ELSE e.combo[j].state
                        /\ g[j].disabled = e.combo[j].disabled
                        /\ g[j].active = e.combo[j].active
      BY <1>7
    <2>1. e.combo \in [Combos -> ComboRecord] /\ e.combo[j] \in ComboRecord
      BY <1>3, CStateFields
    <2>2. CASE j = i
      <3>1. g[j] = [e.combo[j] EXCEPT !.state = @ \ {key}]
        BY <1>4, <2>1, <2>2
      <3>2. QED
        BY <2>1, <2>2, <3>1 DEF ComboRecord
    <2>3. CASE j # i
      BY <1>4, <2>1, <2>3
    <2>4. QED
      BY <2>2, <2>3
  <1>9. ReleaseCombos(c, d, i, key)
    BY <1>3, <1>8 DEF ReleaseCombos, s
  <1>10. QED
    BY <1>3, <1>7, <1>9 DEF ReleaseRing, ReleasedReport, s

-----------------------------------------------------------------------------
(* The loop of process_single_combo over the buffered combos. *)
Overlap(i, j) == layout[i].keys \cap layout[j].keys # {}

CheckedCombos(c, d) ==
  \A j \in Combos :
    /\ d.combo[j].state = c.combo[j].state
    /\ d.combo[j].active = c.combo[j].active
    /\ c.combo[j].disabled => d.combo[j].disabled
CheckedRing(c, d, n) ==
  \E k \in 0..n :
    /\ Suffix(d.ring, c.ring, k)
    /\ \A p \in 1..Len(c.ring) : p <= k => d.combo[c.ring[p]].disabled
CheckedOverlaps(c, d, n, i) ==
  \A p \in 1..Len(c.ring) :
    p <= n /\ Overlap(c.ring[p], i) =>
      d.combo[i].disabled \/ (d.combo[c.ring[p]].disabled /\ c.ring[p] # i)
CheckedTo(c, d, n, i) ==
  SameData(c, d) /\ CheckedCombos(c, d) /\ CheckedRing(c, d, n) /\ CheckedOverlaps(c, d, n, i)

LEMMA LoserFacts ==
  ASSUME NEW b \in Combos, NEW i \in Combos
  PROVE  /\ Loser(b, i) = NoCombo <=> ~Overlap(b, i)
         /\ Overlap(b, i) => Loser(b, i) \in {b, i}
  BY ComboAssumption DEF Loser, Overlap

Checked(d, e, q, n, k, i) ==
  /\ e \in CState /\ SameData(d, e)
  /\ ~Overlap(q[n], i) \/ d.combo[i].disabled => e = d
  /\ Overlap(q[n], i) /\ ~d.combo[i].disabled =>
       \E loser \in {q[n], i} :
         /\ Disables(d, e, loser, TRUE)
         /\ \/ e.ring = d.ring /\ (k = n - 1 => loser = i)
            \/ Suffix(e.ring, q, k + 1) /\ k = n - 1 /\ loser = q[n]

LEMMA CheckEffect ==
  ASSUME NEW d \in CState, NEW q \in Seq(Combos), NEW n \in 1..Len(q), NEW i \in Combos,
         NEW k \in 0..(n - 1), Suffix(d.ring, q, k),
         NEW e, e = CheckOverlap(d, q, n, i)
  PROVE  Checked(d, e, q, n, k, i)
  <1>1. Len(q) \in Nat /\ q[n] \in Combos /\ d.ring \in Seq(Combos) /\ n \in Nat /\ k \in Nat
    BY CStateFields
  <1>2. CASE ~Overlap(q[n], i) \/ d.combo[i].disabled
    <2>1. e = d
      BY <1>1, <1>2, LoserFacts DEF CheckOverlap
    <2>2. QED
      BY <1>2, <2>1 DEF SameData, Checked
  <1>3. CASE Overlap(q[n], i) /\ ~d.combo[i].disabled
    <2>1. PICK loser : loser = Loser(q[n], i)
      OBVIOUS
    <2>2. loser \in {q[n], i} /\ loser # NoCombo /\ loser \in Combos
      BY <1>1, <1>3, <2>1, LoserFacts
    <2>3. PICK x : x = DISABLE_COMBO(d, loser)
      OBVIOUS
    <2>4. x \in CState /\ SameData(d, x) /\ x.ring = d.ring /\ Disables(d, x, loser, TRUE)
      BY <2>2, <2>3, DisableEffect
    <2>5. PICK drops : drops = (loser # i /\ Len(d.ring) = Len(q) + 1 - n)
      OBVIOUS
    <2>6. PICK r : r = IF drops THEN Tail(d.ring) ELSE d.ring
      OBVIOUS
    <2>7. e = [x EXCEPT !.ring = r]
      <3>1. ~(loser = NoCombo \/ d.combo[i].disabled)
        BY <1>3, <2>2
      <3>2. e = [x EXCEPT !.ring = IF drops THEN Tail(@) ELSE @]
        BY <2>1, <2>3, <2>5, <3>1, Zenon DEF CheckOverlap
      <3>3. QED
        BY <2>4, <2>6, <3>2
    <2>8. drops => k = n - 1 /\ d.ring # <<>> /\ loser = q[n]
      <3>1. Len(d.ring) = Len(q) - k
        BY DEF Suffix
      <3>2. drops => k = n - 1 /\ Len(d.ring) >= 1
        <4> SUFFICES ASSUME drops PROVE k = n - 1 /\ Len(d.ring) >= 1
          OBVIOUS
        <4>1. Len(d.ring) = Len(q) + 1 - n
          BY <2>5
        <4>2. n <= Len(q)
          BY <1>1
        <4>3. QED
          BY <1>1, <3>1, <4>1, <4>2
      <3>3. drops => loser = q[n]
        BY <2>2, <2>5
      <3>4. Len(d.ring) >= 1 => d.ring # <<>>
        BY <1>1
      <3>5. QED
        BY <3>2, <3>3, <3>4
    <2>9. drops => Suffix(Tail(d.ring), q, k + 1)
      <3> SUFFICES ASSUME drops PROVE Suffix(Tail(d.ring), q, k + 1)
        OBVIOUS
      <3>1. Dropped(d.ring, Head(d.ring)) = Tail(d.ring) /\ d.ring[1] = Head(d.ring) /\ d.ring # <<>>
        BY <1>1, <2>8, RingTail DEF Dropped
      <3>2. QED
        BY <1>1, <3>1, SuffixDropped
    <2>10. r \in Seq(Combos)
      BY <1>1, <2>6, <2>8
    <2>11. e \in CState /\ SameData(x, e) /\ e.combo = x.combo /\ e.ring = r
      BY <2>4, <2>7, <2>10 DEF CState, SameData
    <2>12. SameData(d, e)
      BY <2>4, <2>11 DEF SameData
    <2>13. Disables(d, e, loser, TRUE)
      BY <2>4, <2>11 DEF Disables
    <2>14. \/ e.ring = d.ring /\ (k = n - 1 => loser = i)
           \/ Suffix(e.ring, q, k + 1) /\ k = n - 1 /\ loser = q[n]
      <3>1. CASE drops
        BY <2>6, <2>8, <2>9, <2>11, <3>1
      <3>2. CASE ~drops
        <4>1. k = n - 1 => Len(d.ring) = Len(q) + 1 - n
          BY <1>1 DEF Suffix
        <4>2. QED
          BY <2>5, <2>6, <2>11, <3>2, <4>1
      <3>3. QED
        BY <3>1, <3>2
    <2>15. QED
      BY <1>3, <2>2, <2>11, <2>12, <2>13, <2>14 DEF Checked
  <1>4. QED
    BY <1>2, <1>3

LEMMA CheckedStep ==
  ASSUME NEW c \in CState, layout \in Layouts, NEW i \in Combos,
         NEW n \in 1..Len(c.ring), NEW d \in CState, CheckedTo(c, d, n - 1, i),
         NEW e, e = CheckOverlap(d, c.ring, n, i)
  PROVE  e \in CState /\ CheckedTo(c, e, n, i)
  <1>1. PICK q : q = c.ring
    OBVIOUS
  <1>2. q \in Seq(Combos) /\ Len(q) \in Nat /\ n \in 1..Len(q) /\ q[n] \in Combos /\ n \in Nat /\ n - 1 \in Nat
        /\ \A p \in 1..Len(q) : q[p] \in Combos
    BY <1>1, CStateFields
  <1>3. PICK k \in 0..(n - 1) : /\ Suffix(d.ring, q, k)
                                /\ \A p \in 1..Len(q) : p <= k => d.combo[q[p]].disabled
    BY <1>1 DEF CheckedTo, CheckedRing
  <1>4. Checked(d, e, q, n, k, i)
    BY <1>1, <1>2, <1>3, CheckEffect
  <1>4a. e \in CState /\ SameData(d, e)
    BY <1>4 DEF Checked
  <1>5. k \in 0..n /\ k + 1 \in 0..n
    BY <1>2, <1>3
  <1>6. \A p \in 1..Len(q) : p <= n => p <= n - 1 \/ p = n
    BY <1>2
  <1>7. SameData(c, e)
    BY <1>4a DEF SameData, CheckedTo
  <1>8. CASE ~Overlap(q[n], i) \/ d.combo[i].disabled
    <2>1. e = d
      BY <1>4, <1>8 DEF Checked
    <2>2. CheckedRing(c, e, n)
      BY <1>1, <1>3, <1>5, <2>1 DEF CheckedRing
    <2>3. CheckedOverlaps(c, e, n, i)
      BY <1>1, <1>6, <1>8, <2>1 DEF CheckedTo, CheckedOverlaps
    <2>4. QED
      BY <1>4a, <1>7, <2>1, <2>2, <2>3 DEF CheckedTo
  <1>9. CASE Overlap(q[n], i) /\ ~d.combo[i].disabled
    <2>1. PICK loser \in {q[n], i} :
               /\ Disables(d, e, loser, TRUE)
               /\ \/ e.ring = d.ring
                  \/ Suffix(e.ring, q, k + 1) /\ k = n - 1 /\ loser = q[n]
      BY <1>4, <1>9 DEF Checked
    <2>2. loser \in Combos
      BY <1>2, <2>1
    <2>3. \A j \in Combos : /\ e.combo[j].state = d.combo[j].state /\ e.combo[j].active = d.combo[j].active
                            /\ d.combo[j].disabled => e.combo[j].disabled
                            /\ j = loser => e.combo[j].disabled
      BY <2>1 DEF Disables
    <2>4. CheckedCombos(c, e)
      BY <2>3 DEF CheckedTo, CheckedCombos
    <2>5. CheckedRing(c, e, n)
      <3>1. CASE e.ring = d.ring
        BY <1>1, <1>2, <1>3, <1>5, <2>3, <3>1 DEF CheckedRing
      <3>2. CASE Suffix(e.ring, q, k + 1) /\ k = n - 1 /\ loser = q[n]
        <4>1. \A p \in 1..Len(q) : p <= k + 1 => p <= k \/ p = n
          BY <1>2, <1>3, <3>2
        <4>2. \A p \in 1..Len(q) : p <= k + 1 => e.combo[q[p]].disabled
          BY <1>2, <1>3, <2>3, <3>2, <4>1
        <4>3. QED
          BY <1>1, <1>5, <3>2, <4>2 DEF CheckedRing
      <3>3. QED
        BY <2>1, <3>1, <3>2
    <2>6. CheckedOverlaps(c, e, n, i)
      <3> SUFFICES ASSUME NEW p \in 1..Len(q), p <= n, Overlap(q[p], i), ~e.combo[i].disabled
                   PROVE  e.combo[q[p]].disabled /\ q[p] # i
        BY <1>1 DEF CheckedOverlaps
      <3>1. ~d.combo[i].disabled /\ loser # i
        BY <2>3
      <3>2. CASE p = n
        BY <1>2, <2>1, <2>3, <3>1, <3>2
      <3>3. CASE p <= n - 1
        BY <1>1, <1>2, <2>3, <3>1, <3>3 DEF CheckedTo, CheckedOverlaps
      <3>4. QED
        BY <1>6, <3>2, <3>3
    <2>7. QED
      BY <1>4a, <1>7, <2>4, <2>5, <2>6 DEF CheckedTo
  <1>10. QED
    BY <1>8, <1>9

LEMMA CheckType ==
  ASSUME NEW c \in CState, NEW q \in Seq(Combos), NEW n \in 1..Len(q), NEW i \in Combos
  PROVE  CheckOverlap(c, q, n, i) \in CState
  <1>1. Len(q) \in Nat /\ q[n] \in Combos /\ c.ring \in Seq(Combos) /\ Len(c.ring) \in Nat
    BY CStateFields
  <1>2. PICK loser : loser = Loser(q[n], i)
    OBVIOUS
  <1>3. PICK first : first = (Len(c.ring) = Len(q) + 1 - n)
    OBVIOUS
  <1>4. CASE loser = NoCombo \/ c.combo[i].disabled
    BY <1>2, <1>4 DEF CheckOverlap
  <1>5. CASE ~(loser = NoCombo \/ c.combo[i].disabled)
    <2>1. loser \in Combos
      BY <1>1, <1>2, <1>5, LoserFacts
    <2>2. PICK x : x = DISABLE_COMBO(c, loser)
      OBVIOUS
    <2>3. x \in CState /\ x.ring = c.ring
      BY <2>1, <2>2, DisableEffect
    <2>4. PICK r : r = IF loser # i /\ first THEN Tail(x.ring) ELSE x.ring
      OBVIOUS
    <2>5. CheckOverlap(c, q, n, i) = [x EXCEPT !.ring = r]
      <3>1. CheckOverlap(c, q, n, i) = [x EXCEPT !.ring = IF loser # i /\ first THEN Tail(@) ELSE @]
        BY <1>2, <1>3, <1>5, <2>2, Zenon DEF CheckOverlap
      <3>2. QED
        BY <2>3, <2>4, <3>1
    <2>6. first => c.ring # <<>>
      <3> SUFFICES ASSUME first, c.ring = <<>> PROVE FALSE
        OBVIOUS
      <3>1. Len(c.ring) = Len(q) + 1 - n /\ Len(c.ring) = 0
        BY <1>3
      <3>2. QED
        BY <1>1, <3>1
    <2>7. r \in Seq(Combos)
      BY <1>1, <2>3, <2>4, <2>6
    <2>8. QED
      BY <2>3, <2>5, <2>7 DEF CState
  <1>6. QED
    BY <1>4, <1>5

Checks(f, c, i) ==
  f[0] = c /\ \A n \in 1..Len(c.ring) : f[n] = CheckOverlap(f[n - 1], c.ring, n, i)
LEMMA BufferLoop ==
  ASSUME NEW c \in CState, NEW i \in Combos, layout \in Layouts
  PROVE  \E f : /\ Checks(f, c, i)
               /\ BufferCombo(c, i) = IF f[Len(c.ring)].combo[i].disabled THEN f[Len(c.ring)]
                                      ELSE [f[Len(c.ring)] EXCEPT !.ring = Enqueue(@, i)]
  <1> DEFINE N == Len(c.ring)
  <1>1. N \in Nat /\ c.ring \in Seq(Combos)
    BY CStateFields
  <1>2. PICK F : F = [n \in 1..N |-> [x \in CState |-> CheckOverlap(x, c.ring, n, i)]]
    OBVIOUS
  <1>3. ASSUME NEW n \in 1..N, NEW x \in CState PROVE CheckOverlap(x, c.ring, n, i) \in CState
    BY <1>1, CheckType
  <1>4. LoopBody(F, N, CState)
    BY <1>2, <1>3 DEF LoopBody
  <1>5. PICK g : IsLoop(g, F, N, CState, c)
    <2> HIDE DEF N
    <2>1. QED
      BY <1>1, <1>4, LoopExists
  <1>6. ASSUME NEW n \in 1..N PROVE n - 1 \in 0..N /\ g[n] = CheckOverlap(g[n - 1], c.ring, n, i)
    <2>1. n - 1 \in 0..N /\ g[n - 1] \in CState
      BY <1>1, <1>5 DEF IsLoop
    <2>2. QED
      BY <1>2, <1>5, <2>1 DEF IsLoop
  <1> DEFINE Turns(f) == [n \in 0..N |-> IF n = 0 THEN c ELSE CheckOverlap(f[n - 1], c.ring, n, i)]
  <1>7. g = Turns(g)
    <2>1. \A n \in 0..N : n = 0 \/ n \in 1..N
      BY <1>1
    <2>2. \A n \in 0..N : g[n] = Turns(g)[n]
      BY <1>5, <1>6, <2>1 DEF IsLoop
    <2>3. QED
      BY <1>5, <2>2 DEF IsLoop
  <1> DEFINE checked == CHOOSE f : f = Turns(f)
  <1>8. checked = Turns(checked)
    BY <1>7
  <1>9. BufferCombo(c, i) = IF checked[N].combo[i].disabled THEN checked[N]
                            ELSE [checked[N] EXCEPT !.ring = Enqueue(@, i)]
    BY DEF BufferCombo
  <1> HIDE DEF checked
  <1>10. PICK f : f = checked
    OBVIOUS
  <1>11. /\ f[0] = c
         /\ \A n \in 1..N : f[n] = CheckOverlap(f[n - 1], c.ring, n, i)
    <2>1. f = Turns(f)
      BY <1>8, <1>10
    <2>2. \A n \in 0..N : f[n] = IF n = 0 THEN c ELSE CheckOverlap(f[n - 1], c.ring, n, i)
      BY <2>1
    <2>3. 0 \in 0..N /\ \A n \in 1..N : n \in 0..N /\ n # 0
      BY <1>1
    <2> HIDE DEF N
    <2>4. QED
      BY <2>2, <2>3
  <1>12. QED
    BY <1>9, <1>10, <1>11 DEF Checks

LEMMA BufferRun ==
  ASSUME NEW c \in CState, NEW i \in Combos, layout \in Layouts
  PROVE  \E d \in CState : /\ CheckedTo(c, d, Len(c.ring), i)
                           /\ BufferCombo(c, i) = IF d.combo[i].disabled THEN d
                                                  ELSE [d EXCEPT !.ring = Enqueue(@, i)]
  <1> DEFINE N == Len(c.ring)
  <1>1. N \in Nat /\ c.ring \in Seq(Combos)
    BY CStateFields
  <1>10. PICK f : /\ Checks(f, c, i)
                  /\ BufferCombo(c, i) = IF f[N].combo[i].disabled THEN f[N]
                                         ELSE [f[N] EXCEPT !.ring = Enqueue(@, i)]
    BY BufferLoop
  <1>11. f[0] = c /\ \A n \in 1..N : f[n] = CheckOverlap(f[n - 1], c.ring, n, i)
    BY <1>10 DEF Checks
  <1> DEFINE P == {n \in 0..N : f[n] \in CState /\ CheckedTo(c, f[n], n, i)}
  <1>12. 0 \in P
    <2>1. Suffix(c.ring, c.ring, 0)
      BY <1>1 DEF Suffix
    <2>2. \A p \in 1..N : ~(p <= 0)
      BY <1>1
    <2>3. CheckedRing(c, c, 0) /\ CheckedOverlaps(c, c, 0, i)
      BY <2>1, <2>2 DEF CheckedRing, CheckedOverlaps
    <2>4. SameData(c, c) /\ CheckedCombos(c, c)
      BY DEF SameData, CheckedCombos
    <2>5. QED
      BY <1>1, <1>11, <2>3, <2>4 DEF CheckedTo
  <1>13. ASSUME NEW n \in 1..N, n - 1 \in P PROVE n \in P
    <2>1. n \in 0..N /\ f[n - 1] \in CState /\ CheckedTo(c, f[n - 1], n - 1, i)
      BY <1>1, <1>13
    <2>2. f[n] = CheckOverlap(f[n - 1], c.ring, n, i)
      BY <1>11
    <2>3. f[n] \in CState /\ CheckedTo(c, f[n], n, i)
      BY <2>1, <2>2, CheckedStep
    <2>4. QED
      BY <2>1, <2>3
  <1>14. N \in P
    <2>1. \A n \in 1..N : n - 1 \in P => n \in P
      BY <1>13
    <2> HIDE DEF P, N
    <2>2. \A n \in 0..N : n \in P
      BY <1>1, <1>12, <2>1, UpTo
    <2>3. QED
      BY <1>1, <2>2
  <1>15. f[N] \in CState /\ CheckedTo(c, f[N], N, i)
    BY <1>14
  <1>16. PICK d : d = f[N]
    OBVIOUS
  <1>17. BufferCombo(c, i) = IF d.combo[i].disabled THEN d ELSE [d EXCEPT !.ring = Enqueue(@, i)]
    BY <1>10, <1>16, Zenon
  <1>18. QED
    BY <1>15, <1>16, <1>17

(* A press of a key of the combo i, for the ring: what is complete displaces *)
(* what it overlaps with, and nothing that is enabled is dropped unless the  *)
(* ring wraps.                                                               *)
Wraps(c, i) == Len(c.ring) + 1 >= COMBO_BUFFER_LENGTH /\ i \notin ToSet(c.ring)
PressRing(c, d, i) ==
  /\ Distinct(c.ring) => Distinct(d.ring)
  /\ Len(c.ring) < COMBO_BUFFER_LENGTH => Len(d.ring) < COMBO_BUFFER_LENGTH
  /\ ToSet(d.ring) \subseteq ToSet(c.ring) \cup {i}
  /\ d.combo[i].state = layout[i].keys /\ ~d.combo[i].disabled =>
       \A j \in ToSet(d.ring) : j # i /\ Overlap(j, i) => d.combo[j].disabled
  /\ \/ Wraps(c, i)
     \/ /\ \A j \in ToSet(c.ring) : ~d.combo[j].disabled => j \in ToSet(d.ring)
        /\ d.combo[i].state = layout[i].keys /\ ~d.combo[i].disabled => i \in ToSet(d.ring)

LEMMA AppendFacts ==
  ASSUME NEW q \in Seq(Combos), NEW i \in Combos
  PROVE  /\ Append(q, i) \in Seq(Combos) /\ Len(Append(q, i)) = Len(q) + 1
         /\ ToSet(Append(q, i)) = ToSet(q) \cup {i}
         /\ Distinct(q) /\ i \notin ToSet(q) => Distinct(Append(q, i))
  <1>1. /\ Append(q, i) \in Seq(Combos) /\ Len(Append(q, i)) = Len(q) + 1 /\ Len(q) \in Nat
        /\ \A p \in 1..Len(q) : Append(q, i)[p] = q[p]
        /\ Append(q, i)[Len(q) + 1] = i
    OBVIOUS
  <1>2. /\ DOMAIN Append(q, i) = 1..(Len(q) + 1) /\ DOMAIN q = 1..Len(q)
        /\ \A p \in 1..(Len(q) + 1) : p \in 1..Len(q) \/ p = Len(q) + 1
        /\ \A p \in 1..Len(q) : p \in 1..(Len(q) + 1)
        /\ Len(q) + 1 \in 1..(Len(q) + 1)
    BY <1>1
  <1>3. ToSet(Append(q, i)) = ToSet(q) \cup {i}
    BY <1>1, <1>2 DEF ToSet
  <1>4. Distinct(q) /\ i \notin ToSet(q) => Distinct(Append(q, i))
    <2> SUFFICES ASSUME Distinct(q), i \notin ToSet(q),
                        NEW m \in 1..(Len(q) + 1), NEW n \in 1..(Len(q) + 1), m # n
                 PROVE  Append(q, i)[m] # Append(q, i)[n]
      BY <1>1 DEF Distinct
    <2>1. \A p \in 1..Len(q) : q[p] # i
      BY <1>2 DEF ToSet
    <2>2. QED
      BY <1>1, <1>2, <2>1 DEF Distinct
  <1>5. QED
    BY <1>1, <1>3, <1>4

LEMMA BufferEffect ==
  ASSUME NEW c \in CState, NEW i \in Combos, layout \in Layouts, layout[i].keys # {},
         NEW e, e = BufferCombo(c, i)
  PROVE  e \in CState /\ SameData(c, e) /\ CheckedCombos(c, e) /\ PressRing(c, e, i)
  <1>1. PICK d \in CState : /\ CheckedTo(c, d, Len(c.ring), i)
                            /\ e = IF d.combo[i].disabled THEN d ELSE [d EXCEPT !.ring = Enqueue(@, i)]
    BY BufferRun
  <1>2. /\ c.ring \in Seq(Combos) /\ d.ring \in Seq(Combos) /\ Len(c.ring) \in Nat /\ Len(d.ring) \in Nat
        /\ DOMAIN c.ring = 1..Len(c.ring)
    BY CStateFields
  <1>3. SameData(c, d) /\ CheckedCombos(c, d)
    BY <1>1 DEF CheckedTo
  <1>4. PICK k \in 0..Len(c.ring) :
          /\ Suffix(d.ring, c.ring, k)
          /\ \A p \in 1..Len(c.ring) : p <= k => d.combo[c.ring[p]].disabled
    BY <1>1 DEF CheckedTo, CheckedRing
  <1>5. /\ Len(d.ring) <= Len(c.ring) /\ k \in Nat
        /\ Distinct(c.ring) => Distinct(d.ring)
        /\ ToSet(d.ring) \subseteq ToSet(c.ring)
        /\ \A p \in 1..Len(c.ring) : p > k => c.ring[p] \in ToSet(d.ring)
    BY <1>2, <1>4, SuffixFacts
  <1>6. \A j \in ToSet(c.ring) : ~d.combo[j].disabled => j \in ToSet(d.ring)
    <2> SUFFICES ASSUME NEW j \in ToSet(c.ring), ~d.combo[j].disabled PROVE j \in ToSet(d.ring)
      OBVIOUS
    <2>1. PICK p \in 1..Len(c.ring) : c.ring[p] = j
      BY <1>2 DEF ToSet
    <2>2. ~(p <= k)
      BY <1>4, <2>1
    <2>3. p > k
      BY <1>2, <1>5, <2>2
    <2>4. QED
      BY <1>5, <2>1, <2>3
  <1>7. ASSUME ~d.combo[i].disabled
        PROVE  /\ \A j \in ToSet(c.ring) : Overlap(j, i) => d.combo[j].disabled /\ j # i
               /\ i \notin ToSet(c.ring)
    <2>1. \A j \in ToSet(c.ring) : Overlap(j, i) => d.combo[j].disabled /\ j # i
      <3> SUFFICES ASSUME NEW j \in ToSet(c.ring), Overlap(j, i) PROVE d.combo[j].disabled /\ j # i
        OBVIOUS
      <3>1. PICK p \in 1..Len(c.ring) : c.ring[p] = j
        BY <1>2 DEF ToSet
      <3>2. p <= Len(c.ring)
        BY <1>2
      <3>3. QED
        BY <1>1, <1>7, <3>1, <3>2 DEF CheckedTo, CheckedOverlaps
    <2>2. Overlap(i, i)
      BY DEF Overlap
    <2>3. QED
      BY <2>1, <2>2
  <1>8. CASE d.combo[i].disabled
    <2>1. e = d
      BY <1>1, <1>8
    <2>2. PressRing(c, e, i)
      BY <1>2, <1>5, <1>6, <1>8, <2>1, ComboAssumption DEF PressRing
    <2>3. QED
      BY <1>3, <2>1, <2>2
  <1>9. CASE ~d.combo[i].disabled
    <2>1. PICK r : r = Enqueue(d.ring, i)
      OBVIOUS
    <2>2. e = [d EXCEPT !.ring = r]
      <3>1. e = [d EXCEPT !.ring = Enqueue(@, i)]
        BY <1>1, <1>9
      <3>2. QED
        BY <2>1, <3>1
    <2>3. i \notin ToSet(d.ring)
      BY <1>5, <1>7, <1>9
    <2>4. \/ r = <<>> /\ Len(d.ring) + 1 = COMBO_BUFFER_LENGTH
          \/ r = Append(d.ring, i) /\ Len(d.ring) + 1 # COMBO_BUFFER_LENGTH
      BY <2>1 DEF Enqueue
    <2>5. r \in Seq(Combos)
      <3>1. <<>> \in Seq(Combos) /\ Append(d.ring, i) \in Seq(Combos)
        BY <1>2
      <3>2. QED
        BY <2>4, <3>1
    <2>6. e \in CState /\ SameData(d, e) /\ e.combo = d.combo /\ e.ring = r
      BY <2>2, <2>5 DEF CState, SameData
    <2>7. SameData(c, e) /\ CheckedCombos(c, e)
      BY <1>3, <2>6 DEF SameData, CheckedCombos
    <2>8. CASE r = <<>> /\ Len(d.ring) + 1 = COMBO_BUFFER_LENGTH
      <3>1. Wraps(c, i)
        BY <1>2, <1>5, <1>7, <1>9, <2>8, ComboAssumption DEF Wraps
      <3>2. Distinct(r) /\ ToSet(r) = {} /\ Len(r) = 0
        BY <2>8 DEF Distinct, ToSet
      <3>3. Len(r) < COMBO_BUFFER_LENGTH
        BY <3>2, ComboAssumption
      <3>4. QED
        BY <2>6, <2>7, <3>1, <3>2, <3>3 DEF PressRing
    <2>9. CASE r = Append(d.ring, i) /\ Len(d.ring) + 1 # COMBO_BUFFER_LENGTH
      <3>1. /\ Len(r) = Len(d.ring) + 1 /\ ToSet(r) = ToSet(d.ring) \cup {i}
            /\ Distinct(d.ring) => Distinct(r)
        BY <1>2, <2>3, <2>9, AppendFacts
      <3>2. Len(c.ring) < COMBO_BUFFER_LENGTH => Len(r) < COMBO_BUFFER_LENGTH
        BY <1>2, <1>5, <2>9, <3>1, ComboAssumption
      <3>3. \A j \in ToSet(r) : j # i /\ Overlap(j, i) => d.combo[j].disabled
        BY <1>5, <1>7, <1>9, <3>1
      <3>4. \A j \in ToSet(c.ring) : ~d.combo[j].disabled => j \in ToSet(r)
        BY <1>6, <3>1
      <3>5. QED
        BY <1>5, <2>6, <2>7, <3>1, <3>2, <3>3, <3>4 DEF PressRing
    <2>10. QED
      BY <2>4, <2>8, <2>9
  <1>10. QED
    BY <1>8, <1>9

-----------------------------------------------------------------------------
(* A key of the combo i goes down while the combo is enabled. *)
PressCombos(c, d, i, key) ==
  \A j \in Combos :
    /\ d.combo[j].state = IF j = i /\ ~c.combo[i].active THEN c.combo[j].state \cup {key}
                          ELSE c.combo[j].state
    /\ d.combo[j].active = c.combo[j].active
    /\ c.combo[j].disabled => d.combo[j].disabled
SameBuffer(c, d) == d.keys = c.keys /\ d.lost = c.lost

(* It is counted, if the combo is not active. *)
Counted(c, x, i, key) ==
  /\ x \in CState /\ x.keys = c.keys /\ x.lost = c.lost /\ x.report = c.report /\ x.part = c.part
  /\ x.ring = c.ring
  /\ \A j \in Combos :
       /\ x.combo[j].state = IF j = i /\ ~c.combo[i].active THEN c.combo[j].state \cup {key}
                             ELSE c.combo[j].state
       /\ x.combo[j].active = c.combo[j].active
       /\ x.combo[j].disabled = c.combo[j].disabled
PressOutcome(x, i) ==
  IF ~AllDown(x, i) THEN x
  ELSE IF timer # 0 /\ timer_elapsed(timer) > COMBO_TERM THEN DISABLE_COMBO(x, i)
  ELSE BufferCombo(x, i)
LEMMA PressCounted ==
  ASSUME NEW c \in CState, NEW i \in Combos, layout \in Layouts, NEW key \in layout[i].keys
  PROVE  \E x : Counted(c, x, i, key) /\ PressInCombo(c, i, key) = PressOutcome(x, i)
  <1>1. PICK x : x = IF c.combo[i].active THEN c
                     ELSE [c EXCEPT !.combo[i].state = @ \cup {key},
                                    !.longest = IF @ < COMBO_TERM THEN COMBO_TERM ELSE @]
    OBVIOUS
  <1>2. key \in Keys
    BY LayoutFacts
  <1>3. /\ x \in CState /\ x.keys = c.keys /\ x.lost = c.lost /\ x.report = c.report /\ x.part = c.part
        /\ x.ring = c.ring
        /\ \A j \in Combos :
             /\ x.combo[j].state = IF j = i /\ ~c.combo[i].active THEN c.combo[j].state \cup {key}
                                   ELSE c.combo[j].state
             /\ x.combo[j].active = c.combo[j].active
             /\ x.combo[j].disabled = c.combo[j].disabled
    <2>1. CASE c.combo[i].active
      BY <1>1, <2>1
    <2>2. CASE ~c.combo[i].active
      <3>1. PICK g : g = [c.combo EXCEPT ![i].state = @ \cup {key}]
        OBVIOUS
      <3>2. PICK t : t = IF c.longest < COMBO_TERM THEN COMBO_TERM ELSE c.longest
        OBVIOUS
      <3>3. g \in [Combos -> ComboRecord] /\ t \in {0, COMBO_TERM}
        BY <1>2, <3>1, <3>2, CStateFields DEF ComboRecord
      <3>4. x = [c EXCEPT !.combo = g, !.longest = t]
        BY <1>1, <2>2, <3>1, <3>2 DEF CState
      <3>5. /\ x \in CState /\ x.combo = g /\ x.keys = c.keys /\ x.lost = c.lost /\ x.report = c.report
            /\ x.part = c.part /\ x.ring = c.ring
        BY <3>3, <3>4 DEF CState
      <3>6. ASSUME NEW j \in Combos
            PROVE  /\ g[j].state = IF j = i THEN c.combo[j].state \cup {key} ELSE c.combo[j].state
                   /\ g[j].active = c.combo[j].active
                   /\ g[j].disabled = c.combo[j].disabled
        <4>1. c.combo \in [Combos -> ComboRecord] /\ c.combo[j] \in ComboRecord
          BY CStateFields
        <4>2. CASE j = i
          <5>1. g[j] = [c.combo[j] EXCEPT !.state = @ \cup {key}]
            BY <3>1, <4>1, <4>2
          <5>2. QED
            BY <4>1, <4>2, <5>1 DEF ComboRecord
        <4>3. CASE j # i
          BY <3>1, <4>1, <4>3
        <4>4. QED
          BY <4>2, <4>3
      <3>7. QED
        BY <2>2, <3>5, <3>6
    <2>3. QED
      BY <2>1, <2>2
  <1>4. PressInCombo(c, i, key) = IF ~AllDown(x, i) THEN x
            ELSE IF timer # 0 /\ timer_elapsed(timer) > COMBO_TERM THEN DISABLE_COMBO(x, i)
            ELSE BufferCombo(x, i)
    BY <1>1, Zenon DEF PressInCombo
  <1>5. QED
    BY <1>3, <1>4 DEF Counted, PressOutcome

LEMMA PressEffect ==
  ASSUME NEW c \in CState, NEW i \in Combos, layout \in Layouts, NEW key \in layout[i].keys,
         NEW d, d = PressInCombo(c, i, key)
  PROVE  /\ d \in CState /\ SameBuffer(c, d) /\ d.report = c.report /\ d.part = c.part
         /\ PressCombos(c, d, i, key) /\ PressRing(c, d, i)
  <1>1. PICK x : Counted(c, x, i, key) /\ d = PressOutcome(x, i)
    BY PressCounted
  <1>2. key \in Keys
    BY LayoutFacts
  <1>3. /\ x \in CState /\ x.keys = c.keys /\ x.lost = c.lost /\ x.report = c.report /\ x.part = c.part
        /\ x.ring = c.ring
        /\ \A j \in Combos :
             /\ x.combo[j].state = IF j = i /\ ~c.combo[i].active THEN c.combo[j].state \cup {key}
                                   ELSE c.combo[j].state
             /\ x.combo[j].active = c.combo[j].active
             /\ x.combo[j].disabled = c.combo[j].disabled
    BY <1>1 DEF Counted
  <1>4. d = IF ~AllDown(x, i) THEN x
            ELSE IF timer # 0 /\ timer_elapsed(timer) > COMBO_TERM THEN DISABLE_COMBO(x, i)
            ELSE BufferCombo(x, i)
    BY <1>1, Zenon DEF PressOutcome
  <1>5. c.ring \in Seq(Combos)
    BY CStateFields
  <1>6. CASE ~AllDown(x, i)
    <2>1. d = x
      BY <1>4, <1>6
    <2>2. d.combo[i].state # layout[i].keys
      BY <1>6, <2>1 DEF AllDown
    <2>3. PressRing(c, d, i)
      BY <1>3, <2>1, <2>2 DEF PressRing
    <2>4. PressCombos(c, d, i, key)
      BY <1>3, <2>1 DEF PressCombos
    <2>5. QED
      BY <1>3, <2>1, <2>3, <2>4 DEF SameBuffer
  <1>7. CASE AllDown(x, i) /\ timer # 0 /\ timer_elapsed(timer) > COMBO_TERM
    <2>1. d = DISABLE_COMBO(x, i)
      BY <1>4, <1>7
    <2>2. d \in CState /\ SameData(x, d) /\ d.ring = x.ring /\ Disables(x, d, i, TRUE)
      BY <1>3, <2>1, DisableEffect
    <2>3. d.combo[i].disabled
      BY <2>2 DEF Disables
    <2>4. PressRing(c, d, i)
      BY <1>3, <2>2, <2>3 DEF PressRing
    <2>5. PressCombos(c, d, i, key)
      BY <1>3, <2>2 DEF PressCombos, Disables
    <2>6. QED
      BY <1>3, <2>2, <2>4, <2>5 DEF SameBuffer, SameData
  <1>8. CASE AllDown(x, i) /\ ~(timer # 0 /\ timer_elapsed(timer) > COMBO_TERM)
    <2>1. d = BufferCombo(x, i)
      BY <1>4, <1>8
    <2>2. d \in CState /\ SameData(x, d) /\ CheckedCombos(x, d) /\ PressRing(x, d, i)
      BY <1>3, <2>1, BufferEffect
    <2>3. PressRing(c, d, i)
      BY <1>3, <2>2 DEF PressRing, Wraps
    <2>4. PressCombos(c, d, i, key)
      BY <1>3, <2>2 DEF PressCombos, CheckedCombos
    <2>5. QED
      BY <1>3, <2>2, <2>3, <2>4 DEF SameBuffer, SameData
  <1>9. QED
    BY <1>6, <1>7, <1>8

(* If the combos in the ring are enabled, and i overlaps with none of them or  *)
(* there is at most one, then those in the ring afterwards are enabled.        *)
PressClean(c, d, i) ==
  (/\ i \notin ToSet(c.ring) /\ ~c.combo[i].disabled
   /\ \A j \in ToSet(c.ring) : ~c.combo[j].disabled
   /\ (\A j \in ToSet(c.ring) : ~Overlap(j, i)) \/ Len(c.ring) <= 1)
  => \A j \in ToSet(d.ring) : ~d.combo[j].disabled

(* A combo enters the ring when all its keys are down. *)
PressEnters(c, d, i) ==
  i \in ToSet(d.ring) => i \in ToSet(c.ring) \/ d.combo[i].state = layout[i].keys

LEMMA CheckedAlone ==
  ASSUME NEW c \in CState, NEW i \in Combos, layout \in Layouts, NEW f, Checks(f, c, i),
         (\A j \in ToSet(c.ring) : ~Overlap(j, i)) \/ c.ring = <<>>
  PROVE  f[Len(c.ring)] = c
  <1>1. PICK N : N = Len(c.ring)
    OBVIOUS
  <1>2. N \in Nat /\ c.ring \in Seq(Combos)
    BY <1>1, CStateFields
  <1> DEFINE P == {n \in 0..N : f[n] = c}
  <1>3. 0 \in P
    BY <1>2 DEF Checks
  <1>4. ASSUME NEW n \in 1..N, n - 1 \in P PROVE n \in P
    <2>1. c.ring[n] \in Combos /\ c.ring[n] \in ToSet(c.ring) /\ c.ring # <<>> /\ n \in 0..N
      BY <1>1, <1>2 DEF ToSet
    <2>2. Loser(c.ring[n], i) = NoCombo
      BY <2>1, LoserFacts
    <2>3. f[n - 1] = c
      BY <1>4
    <2>4. f[n] = CheckOverlap(c, c.ring, n, i)
      BY <1>1, <2>3 DEF Checks
    <2>5. f[n] = c
      BY <2>2, <2>4 DEF CheckOverlap
    <2>6. QED
      BY <2>1, <2>5
  <1>5. \A n \in 0..N : n \in P
    <2> HIDE DEF P
    <2>1. QED
      BY <1>2, <1>3, <1>4, UpTo
  <1>6. N \in 0..N
    BY <1>2
  <1>7. QED
    BY <1>1, <1>5, <1>6

LEMMA OneOnly ==
  ASSUME NEW n \in Nat \ {0}, n <= 1
  PROVE  n = 1
  OBVIOUS

LEMMA BufferClean ==
  ASSUME NEW c \in CState, NEW i \in Combos, layout \in Layouts, NEW e, e = BufferCombo(c, i)
  PROVE  PressClean(c, e, i)
  <1> SUFFICES ASSUME i \notin ToSet(c.ring), ~c.combo[i].disabled,
                      \A j \in ToSet(c.ring) : ~c.combo[j].disabled,
                      (\A j \in ToSet(c.ring) : ~Overlap(j, i)) \/ Len(c.ring) <= 1
               PROVE  \A j \in ToSet(e.ring) : ~e.combo[j].disabled
    BY DEF PressClean
  <1>1. PICK f : /\ Checks(f, c, i)
                 /\ e = IF f[Len(c.ring)].combo[i].disabled THEN f[Len(c.ring)]
                        ELSE [f[Len(c.ring)] EXCEPT !.ring = Enqueue(@, i)]
    BY BufferLoop
  <1>2. PICK d : d = f[Len(c.ring)]
    OBVIOUS
  <1>3. e = IF d.combo[i].disabled THEN d ELSE [d EXCEPT !.ring = Enqueue(@, i)]
    BY <1>1, <1>2, Zenon
  <1>4. c.ring \in Seq(Combos) /\ Len(c.ring) \in Nat
    BY CStateFields
  <1>5. ASSUME d \in CState, \A j \in ToSet(d.ring) : ~d.combo[j].disabled
        PROVE  \A j \in ToSet(e.ring) : ~e.combo[j].disabled
    <2>1. CASE d.combo[i].disabled
      BY <1>3, <1>5, <2>1
    <2>2. CASE ~d.combo[i].disabled
      <3>1. PICK r : r = Enqueue(d.ring, i)
        OBVIOUS
      <3>2. d.ring \in Seq(Combos)
        BY <1>5, CStateFields
      <3>3. e = [d EXCEPT !.ring = r]
        BY <1>3, <2>2, <3>1
      <3>4. e.ring = r /\ e.combo = d.combo
        BY <1>5, <3>3 DEF CState
      <3>5. r = <<>> \/ r = Append(d.ring, i)
        BY <3>1 DEF Enqueue
      <3>6. ToSet(r) \subseteq ToSet(d.ring) \cup {i}
        <4>1. CASE r = <<>>
          BY <4>1 DEF ToSet
        <4>2. CASE r = Append(d.ring, i)
          BY <3>2, <4>2, AppendFacts
        <4>3. QED
          BY <3>5, <4>1, <4>2
      <3>7. QED
        BY <1>5, <2>2, <3>4, <3>6
    <2>3. QED
      BY <2>1, <2>2
  <1>6. CASE (\A j \in ToSet(c.ring) : ~Overlap(j, i)) \/ c.ring = <<>>
    <2>1. d = c
      BY <1>1, <1>2, <1>6, CheckedAlone
    <2>2. QED
      BY <1>5, <2>1
  <1>7. CASE c.ring # <<>> /\ Len(c.ring) <= 1 /\ ~\A j \in ToSet(c.ring) : ~Overlap(j, i)
    <2>1. Len(c.ring) = 1
      <3>1. Len(c.ring) \in Nat \ {0}
        BY <1>4, <1>7, RingTail
      <3>2. PICK N : N = Len(c.ring)
        OBVIOUS
      <3>3. N \in Nat \ {0} /\ N <= 1
        BY <1>7, <3>1, <3>2
      <3>4. N = 1
        BY <3>3, OneOnly, Zenon
      <3>5. QED
        BY <3>2, <3>4, Zenon
    <2>2. PICK b : b = c.ring[1]
      OBVIOUS
    <2>3. 1 \in 1..Len(c.ring) /\ ToSet(c.ring) = {b} /\ b \in Combos /\ b # i
      BY <1>4, <2>1, <2>2 DEF ToSet
    <2>4. Overlap(b, i)
      BY <1>7, <2>3
    <2>5. PICK k : k = 0
      OBVIOUS
    <2>6. k \in 0..(1 - 1) /\ Suffix(c.ring, c.ring, k)
      BY <1>4, <2>5 DEF Suffix
    <2>7. d = CheckOverlap(c, c.ring, 1, i)
      <3>1. f[1] = CheckOverlap(f[1 - 1], c.ring, 1, i) /\ f[0] = c
        BY <1>1, <2>3 DEF Checks
      <3>2. 1 - 1 = 0
        OBVIOUS
      <3>3. QED
        BY <1>2, <2>1, <3>1, <3>2
    <2>8. Checked(c, d, c.ring, 1, k, i)
      BY <1>4, <2>3, <2>6, <2>7, CheckEffect
    <2>9. PICK loser \in {b, i} :
            /\ Disables(c, d, loser, TRUE)
            /\ \/ d.ring = c.ring /\ (k = 1 - 1 => loser = i)
               \/ Suffix(d.ring, c.ring, k + 1)
      BY <2>2, <2>4, <2>8 DEF Checked
    <2>10. d \in CState
      BY <2>8 DEF Checked
    <2>11. \A j \in ToSet(d.ring) : ~d.combo[j].disabled
      <3>1. CASE d.ring = c.ring /\ (k = 1 - 1 => loser = i)
        <4>1. loser = i
          BY <2>5, <3>1
        <4>2. QED
          BY <2>3, <2>9, <3>1, <4>1 DEF Disables
      <3>2. CASE Suffix(d.ring, c.ring, k + 1)
        <4>1. Len(d.ring) = 0 /\ d.ring \in Seq(Combos)
          BY <2>1, <2>5, <2>10, <3>2, CStateFields DEF Suffix
        <4>2. ToSet(d.ring) = {}
          BY <4>1 DEF ToSet
        <4>3. QED
          BY <4>2
      <3>3. QED
        BY <2>9, <3>1, <3>2
    <2>12. QED
      BY <1>5, <2>10, <2>11
  <1>8. QED
    BY <1>6, <1>7

LEMMA PressKeepsClean ==
  ASSUME NEW c \in CState, NEW i \in Combos, layout \in Layouts, NEW key \in layout[i].keys,
         NEW d, d = PressInCombo(c, i, key)
  PROVE  PressClean(c, d, i) /\ PressEnters(c, d, i)
  <1>1. PICK x : Counted(c, x, i, key) /\ d = PressOutcome(x, i)
    BY PressCounted
  <1>2. x \in CState /\ x.ring = c.ring /\ \A j \in Combos : x.combo[j].disabled = c.combo[j].disabled
    BY <1>1 DEF Counted
  <1>3. ToSet(c.ring) \subseteq Combos
    BY CStateFields DEF ToSet
  <1>4. PressClean(x, d, i)
    <2>1. CASE d = x
      BY <2>1 DEF PressClean
    <2>2. CASE d = DISABLE_COMBO(x, i)
      <3>1. d.ring = x.ring /\ Disables(x, d, i, TRUE)
        <4>1. PICK y : y = DISABLE_COMBO(x, i)
          OBVIOUS
        <4>2. y.ring = x.ring /\ Disables(x, y, i, TRUE)
          BY <1>2, <4>1, DisableEffect
        <4>3. QED
          BY <2>2, <4>1, <4>2
      <3>2. QED
        BY <1>2, <1>3, <3>1 DEF PressClean, Disables
    <2>3. CASE d = BufferCombo(x, i)
      BY <1>2, <2>3, BufferClean
    <2>4. QED
      BY <1>1, <2>1, <2>2, <2>3 DEF PressOutcome
  <1>5. PressEnters(c, d, i)
    <2>1. CASE d = x
      BY <1>2, <2>1 DEF PressEnters
    <2>2. CASE d = DISABLE_COMBO(x, i)
      <3>1. PICK y : y = DISABLE_COMBO(x, i)
        OBVIOUS
      <3>2. y.ring = x.ring
        BY <1>2, <3>1, DisableEffect
      <3>3. QED
        BY <1>2, <2>2, <3>1, <3>2 DEF PressEnters
    <2>3. CASE d = BufferCombo(x, i) /\ AllDown(x, i)
      <3>1. CheckedCombos(x, d)
        BY <1>2, <2>3, BufferEffect
      <3>2. QED
        BY <2>3, <3>1 DEF PressEnters, CheckedCombos, AllDown
    <2>4. QED
      BY <1>1, <2>1, <2>2, <2>3 DEF PressOutcome
  <1>6. PressClean(c, d, i)
    BY <1>2, <1>3, <1>4 DEF PressClean
  <1>7. QED
    BY <1>5, <1>6

(* An event is offered to the combo i. *)
OfferPress(c, d, i, key) ==
  /\ d.report = c.report /\ d.part = TRUE
  /\ PressCombos(c, d, i, key) /\ PressRing(c, d, i)
  /\ PressClean(c, d, i) /\ PressEnters(c, d, i)
OfferRelease(c, d, i, key, pressed) ==
  /\ d.report = ReleasedReport(c, i, key)
  /\ d.part = (c.part \/ PartOfCombo(c, i, key, pressed))
  /\ ReleaseCombos(c, d, i, key) /\ ReleaseRing(c, d, i)
Offer(c, d, i, key, pressed) ==
  /\ d \in CState /\ SameBuffer(c, d)
  /\ \/ key \notin layout[i].keys /\ d = c
     \/ /\ key \in layout[i].keys /\ pressed /\ ~c.combo[i].disabled /\ b_combo_enable
        /\ OfferPress(c, d, i, key)
     \/ /\ key \in layout[i].keys /\ ~(pressed /\ ~c.combo[i].disabled /\ b_combo_enable)
        /\ OfferRelease(c, d, i, key, pressed)

LEMMA SingleEffect ==
  ASSUME NEW c \in CState, NEW i \in Combos, layout \in Layouts, NEW key \in Keys, NEW pressed,
         NEW d, d = process_single_combo(c, i, key, pressed)
  PROVE  Offer(c, d, i, key, pressed)
  <1>1. PICK part : part = (c.part \/ PartOfCombo(c, i, key, pressed))
    OBVIOUS
  <1>2. part \in BOOLEAN
    BY <1>1
  <1>3. ASSUME NEW x \in CState, x.part = c.part, NEW e, e = [x EXCEPT !.part = @ \/ PartOfCombo(c, i, key, pressed)]
        PROVE  /\ e \in CState /\ e.combo = x.combo /\ e.keys = x.keys /\ e.lost = x.lost /\ e.report = x.report
               /\ e.ring = x.ring /\ e.part = part
    <2>1. e = [x EXCEPT !.part = part]
      BY <1>1, <1>3
    <2>2. QED
      BY <1>2, <2>1 DEF CState
  <1>4. CASE key \notin layout[i].keys
    BY <1>4 DEF process_single_combo, Offer, SameBuffer
  <1>5. CASE key \in layout[i].keys /\ pressed /\ ~c.combo[i].disabled /\ b_combo_enable
    <2>1. PICK x : x = PressInCombo(c, i, key)
      OBVIOUS
    <2>2. /\ x \in CState /\ SameBuffer(c, x) /\ x.report = c.report /\ x.part = c.part
          /\ PressCombos(c, x, i, key) /\ PressRing(c, x, i) /\ PressClean(c, x, i)
          /\ PressEnters(c, x, i)
      BY <1>5, <2>1, PressEffect, PressKeepsClean
    <2>3. d = [x EXCEPT !.part = @ \/ PartOfCombo(c, i, key, pressed)]
      BY <1>5, <2>1, Zenon DEF process_single_combo
    <2>4. /\ d \in CState /\ d.combo = x.combo /\ d.keys = x.keys /\ d.lost = x.lost /\ d.report = x.report
          /\ d.ring = x.ring /\ d.part = part
      BY <1>3, <2>2, <2>3
    <2>5. part = TRUE
      <3>1. PartOfCombo(c, i, key, pressed)
        BY <1>5 DEF PartOfCombo
      <3>2. QED
        BY <1>1, <3>1
    <2>6. PressCombos(c, d, i, key) /\ PressRing(c, d, i) /\ SameBuffer(c, d)
          /\ PressClean(c, d, i) /\ PressEnters(c, d, i)
      <3>1. PressCombos(c, d, i, key)
        BY <2>2, <2>4 DEF PressCombos
      <3>2. PressRing(c, d, i)
        BY <2>2, <2>4, Zenon DEF PressRing
      <3>3. PressClean(c, d, i) /\ PressEnters(c, d, i)
        BY <2>2, <2>4, Zenon DEF PressClean, PressEnters
      <3>4. QED
        BY <2>2, <2>4, <3>1, <3>2, <3>3 DEF SameBuffer
    <2>7. QED
      BY <1>5, <2>2, <2>4, <2>5, <2>6 DEF Offer, OfferPress
  <1>6. CASE key \in layout[i].keys /\ ~(pressed /\ ~c.combo[i].disabled /\ b_combo_enable)
    <2>1. PICK x : x = ReleaseInCombo(c, i, key)
      OBVIOUS
    <2>2. /\ x \in CState
          /\ x.longest = c.longest /\ x.keys = c.keys /\ x.lost = c.lost /\ x.part = c.part
          /\ x.report = ReleasedReport(c, i, key)
          /\ ReleaseCombos(c, x, i, key)
          /\ ReleaseRing(c, x, i)
      BY <2>1, ReleaseEffect
    <2>3. d = [x EXCEPT !.part = @ \/ PartOfCombo(c, i, key, pressed)]
      BY <1>6, <2>1, Zenon DEF process_single_combo
    <2>4. /\ d \in CState /\ d.combo = x.combo /\ d.keys = x.keys /\ d.lost = x.lost /\ d.report = x.report
          /\ d.ring = x.ring /\ d.part = part
      BY <1>3, <2>2, <2>3
    <2>5. ReleaseCombos(c, d, i, key) /\ ReleaseRing(c, d, i) /\ SameBuffer(c, d)
      BY <2>2, <2>4 DEF ReleaseCombos, ReleaseRing, SameBuffer
    <2>6. QED
      BY <1>1, <1>6, <2>2, <2>4, <2>5 DEF Offer, OfferRelease
  <1>7. QED
    BY <1>4, <1>5, <1>6

(* The loop of process_combo. *)
Offers(f, key) ==
  /\ f \in [0..COMBO_COUNT -> CState]
  /\ f[0] = State
  /\ \A n \in 1..COMBO_COUNT : n - 1 \in Combos /\ Offer(f[n - 1], f[n], n - 1, key, key \notin held)

LEMMA OfferedRun ==
  ASSUME State \in CState, layout \in Layouts, NEW key \in Keys
  PROVE  \E f : Offers(f, key) /\ OfferedToCombos(key) = f[COMBO_COUNT]
  <1> DEFINE N == COMBO_COUNT
             Single(x, n) == process_single_combo(x, n - 1, key, key \notin held)
  <1>1. N \in Nat /\ \A n \in 1..N : n - 1 \in Combos /\ n - 1 \in 0..N
    BY ComboAssumption DEF Combos
  <1>2. PICK F : F = [n \in 1..N |-> [x \in CState |-> Single(x, n)]]
    OBVIOUS
  <1>3. ASSUME NEW n \in 1..N, NEW x \in CState
        PROVE  Single(x, n) \in CState /\ Offer(x, Single(x, n), n - 1, key, key \notin held)
    <2>1. Offer(x, Single(x, n), n - 1, key, key \notin held)
      BY <1>1, SingleEffect
    <2> HIDE DEF Single
    <2>2. QED
      BY <2>1 DEF Offer
  <1>4. LoopBody(F, N, CState)
    <2> HIDE DEF Single
    <2>1. QED
      BY <1>2, <1>3 DEF LoopBody
  <1>5. PICK g : IsLoop(g, F, N, CState, State)
    <2> HIDE DEF N
    <2>1. QED
      BY <1>1, <1>4, LoopExists
  <1>6. ASSUME NEW n \in 1..N PROVE g[n] = Single(g[n - 1], n)
    <2>1. n - 1 \in 0..N /\ g[n - 1] \in CState
      BY <1>1, <1>5 DEF IsLoop
    <2> HIDE DEF Single
    <2>2. QED
      BY <1>2, <1>5, <2>1 DEF IsLoop
  <1> DEFINE Turns(f) == [n \in 0..N |-> IF n = 0 THEN State
                                         ELSE process_single_combo(f[n - 1], n - 1, key, key \notin held)]
  <1>7. g = Turns(g)
    <2>1. \A n \in 0..N : n = 0 \/ n \in 1..N
      BY <1>1
    <2>2. \A n \in 0..N : g[n] = Turns(g)[n]
      BY <1>5, <1>6, <2>1 DEF IsLoop
    <2>3. QED
      BY <1>5, <2>2 DEF IsLoop
  <1> DEFINE offered == CHOOSE f : f = Turns(f)
  <1>8. offered = Turns(offered)
    BY <1>7
  <1>9. OfferedToCombos(key) = offered[N]
    BY DEF OfferedToCombos
  <1> HIDE DEF offered
  <1>10. PICK f : f = offered
    OBVIOUS
  <1>11. /\ f[0] = State /\ DOMAIN f = 0..N
         /\ \A n \in 1..N : f[n] = Single(f[n - 1], n)
    <2>1. f = Turns(f)
      BY <1>8, <1>10
    <2>2. \A n \in 0..N : f[n] = IF n = 0 THEN State ELSE Single(f[n - 1], n)
      BY <2>1
    <2>3. 0 \in 0..N /\ \A n \in 1..N : n \in 0..N /\ n # 0
      BY <1>1
    <2>4. DOMAIN f = 0..N
      BY <2>1
    <2> HIDE DEF N, Single
    <2>5. QED
      BY <2>2, <2>3, <2>4
  <1> HIDE DEF Single
  <1> DEFINE P == {n \in 0..N : f[n] \in CState}
  <1>12. 0 \in P
    BY <1>1, <1>11
  <1>13. ASSUME NEW n \in 1..N, n - 1 \in P PROVE n \in P
    <2>1. n \in 0..N /\ f[n - 1] \in CState
      BY <1>1, <1>13
    <2>2. QED
      BY <1>3, <1>11, <2>1
  <1>14. \A n \in 0..N : f[n] \in CState
    <2>1. \A n \in 1..N : n - 1 \in P => n \in P
      BY <1>13
    <2>2. \A n \in 0..N : n \in P
      <3> HIDE DEF P, N
      <3>1. QED
        BY <1>1, <1>12, <2>1, UpTo
    <2>3. QED
      BY <2>2
  <1>15. f = [n \in 0..N |-> f[n]]
    BY <1>8, <1>10
  <1>16. f \in [0..N -> CState]
    BY <1>14, <1>15
  <1>17. ASSUME NEW n \in 1..N PROVE n - 1 \in Combos /\ Offer(f[n - 1], f[n], n - 1, key, key \notin held)
    BY <1>1, <1>3, <1>11, <1>14
  <1>18. QED
    BY <1>9, <1>10, <1>11, <1>16, <1>17 DEF Offers

-----------------------------------------------------------------------------
(* The combos that some layout uses; the ring has a place for each. *)
UsedCombos == {i \in Combos : \E l \in Layouts : l[i].keys # {}}
RoomForCombos == Cardinality(UsedCombos) < COMBO_BUFFER_LENGTH

LEMMA NoWrap ==
  ASSUME NEW q \in Seq(Combos), Distinct(q), ToSet(q) \subseteq UsedCombos,
         NEW i \in UsedCombos, i \notin ToSet(q), RoomForCombos
  PROVE  Len(q) + 1 < COMBO_BUFFER_LENGTH
  <1>1. IsFiniteSet(UsedCombos)
    <2>1. IsFiniteSet(Combos)
      BY ComboAssumption, FS_Interval DEF Combos
    <2>2. QED
      BY <2>1, FS_Subset DEF UsedCombos
  <1>2. PICK f : f = Append(q, i)
    OBVIOUS
  <1>3. PICK N : N = Len(q) + 1
    OBVIOUS
  <1>4. PICK U : U = UsedCombos
    OBVIOUS
  <1>5. N \in Nat /\ f \in Seq(Combos) /\ Len(f) = N /\ Distinct(f) /\ ToSet(f) = ToSet(q) \cup {i}
    <2>1. i \in Combos
      BY DEF UsedCombos
    <2>2. QED
      BY <1>2, <1>3, <2>1, AppendFacts
  <1>6. f \in [1..N -> U]
    <2>1. DOMAIN f = 1..N /\ f = [n \in 1..N |-> f[n]]
      BY <1>5
    <2>2. \A n \in 1..N : f[n] \in ToSet(f)
      BY <2>1 DEF ToSet
    <2>3. \A n \in 1..N : f[n] \in U
      BY <1>4, <1>5, <2>2
    <2>4. QED
      BY <2>1, <2>3
  <1>7. IsFiniteSet(1..N) /\ Cardinality(1..N) = N
    BY <1>5, FS_Interval
  <1>8. ~(Cardinality(U) < N)
    <2> SUFFICES ASSUME Cardinality(U) < N PROVE FALSE
      OBVIOUS
    <2>1. PICK S : S = 1..N
      OBVIOUS
    <2>2. IsFiniteSet(S) /\ IsFiniteSet(U) /\ Cardinality(U) < Cardinality(S) /\ f \in [S -> U]
      BY <1>1, <1>4, <1>6, <1>7, <2>1
    <2>3. \E x, y \in S : x # y /\ f[x] = f[y]
      BY <2>2, FS_PigeonHole
    <2>4. QED
      BY <1>5, <2>1, <2>3 DEF Distinct
  <1>9. Cardinality(U) \in Nat
    BY <1>1, <1>4, FS_CardinalityType
  <1>10. QED
    BY <1>3, <1>4, <1>5, <1>8, <1>9, ComboAssumption DEF RoomForCombos

-----------------------------------------------------------------------------
(* What holds between two events, with the keys in h down and the combos of  *)
(* l: the key buffer holds presses as they came, of keys that are down; an   *)
(* active combo is disabled and its keys are not in the buffer.              *)
Settled(c, h, l) ==
  /\ Waiting(c)
  /\ \A i \in Combos : c.combo[i].state \subseteq l[i].keys /\ c.combo[i].state \subseteq h
  /\ Len(c.ring) < COMBO_BUFFER_LENGTH /\ ToSet(c.ring) \subseteq UsedCombos
  /\ KeysIn(c.keys) \subseteq h \ Switches /\ Len(c.keys) <= COMBO_KEY_BUFFER_LENGTH
  /\ \A i \in Combos : c.combo[i].active => c.combo[i].state \cap KeysIn(c.keys) = {}

Complete(c, l, i) == ~c.combo[i].disabled /\ c.combo[i].state = l[i].keys
(* Of the complete combos in the ring no two overlap. *)
ReadyDisjoint(c, l) ==
  \A i, j \in ToSet(c.ring) :
    i # j /\ Complete(c, l, i) /\ Complete(c, l, j) => l[i].keys \cap l[j].keys = {}
(* A complete combo is in the ring, unless it is active. *)
CompleteInRing(c, l) ==
  \A i \in Combos : Complete(c, l, i) /\ ~c.combo[i].active /\ l[i].keys # {} => i \in ToSet(c.ring)

(* A press of key has been offered to the first n combos. *)
PressedCombos(c, d, n, key) ==
  \A j \in Combos :
    /\ \/ d.combo[j].state = c.combo[j].state
       \/ /\ d.combo[j].state = c.combo[j].state \cup {key}
          /\ j < n /\ ~c.combo[j].active /\ key \in layout[j].keys /\ d.part
    /\ d.combo[j].active = c.combo[j].active
    /\ c.combo[j].disabled => d.combo[j].disabled
    /\ j < n /\ key \in layout[j].keys /\ ~d.combo[j].disabled /\ b_combo_enable =>
         key \in d.combo[j].state /\ d.part
PressedRing(c, d) ==
  /\ Distinct(d.ring) /\ Len(d.ring) < COMBO_BUFFER_LENGTH /\ ToSet(d.ring) \subseteq UsedCombos
  /\ ReadyDisjoint(c, layout) => ReadyDisjoint(d, layout)
  /\ RoomForCombos /\ CompleteInRing(c, layout) => CompleteInRing(d, layout)
PressedTo(c, d, n, key) ==
  /\ SameBuffer(c, d) /\ d.report = c.report
  /\ d.part => b_combo_enable /\ \E j \in Combos : key \in layout[j].keys
  /\ PressedCombos(c, d, n, key)
  /\ PressedRing(c, d)

LEMMA DroppedFacts ==
  ASSUME NEW q \in Seq(Combos), NEW i
  PROVE  /\ Dropped(q, i) \in Seq(Combos) /\ Len(Dropped(q, i)) <= Len(q)
         /\ Distinct(q) => Distinct(Dropped(q, i))
         /\ ToSet(Dropped(q, i)) \subseteq ToSet(q)
         /\ \A j \in ToSet(q) : j # i => j \in ToSet(Dropped(q, i))
  <1>1. CASE q # <<>> /\ Head(q) = i
    <2>1. Dropped(q, i) = Tail(q) /\ Tail(q) \in Seq(Combos) /\ q[1] = i
      BY <1>1, RingTail DEF Dropped
    <2>2. Suffix(q, q, 0)
      BY DEF Suffix
    <2>3. Suffix(Tail(q), q, 1)
      <3>1. PICK k : k = 0
        OBVIOUS
      <3>2. Suffix(Dropped(q, i), q, k + 1)
        BY <1>1, <2>1, <2>2, <3>1, SuffixDropped
      <3>3. k + 1 = 1
        BY <3>1
      <3>4. QED
        BY <2>1, <3>2, <3>3
    <2>4. /\ Len(Tail(q)) <= Len(q)
          /\ Distinct(q) => Distinct(Tail(q))
          /\ ToSet(Tail(q)) \subseteq ToSet(q)
          /\ \A p \in 1..Len(q) : p > 1 => q[p] \in ToSet(Tail(q))
      BY <2>1, <2>3, SuffixFacts
    <2>5. ASSUME NEW j \in ToSet(q), j # i PROVE j \in ToSet(Tail(q))
      <3>1. PICK p \in 1..Len(q) : q[p] = j
        BY DEF ToSet
      <3>2. p > 1
        BY <2>1, <2>5, <3>1
      <3>3. QED
        BY <2>4, <3>1, <3>2
    <2>6. QED
      BY <2>1, <2>4, <2>5
  <1>2. CASE ~(q # <<>> /\ Head(q) = i)
    <2>1. Dropped(q, i) = q /\ Len(q) \in Nat
      BY <1>2 DEF Dropped
    <2>2. QED
      BY <2>1
  <1>3. QED
    BY <1>1, <1>2

LEMMA ReleaseRingFacts ==
  ASSUME NEW c \in CState, NEW d \in CState, NEW i, ReleaseRing(c, d, i)
  PROVE  /\ Len(d.ring) <= Len(c.ring)
         /\ Distinct(c.ring) => Distinct(d.ring)
         /\ ToSet(d.ring) \subseteq ToSet(c.ring)
         /\ \A j \in ToSet(c.ring) : j # i \/ ~c.combo[i].disabled => j \in ToSet(d.ring)
  <1>1. c.ring \in Seq(Combos) /\ Len(c.ring) \in Nat
    BY CStateFields
  <1>2. CASE d.ring = c.ring
    BY <1>1, <1>2
  <1>3. CASE c.combo[i].disabled /\ d.ring = Dropped(c.ring, i)
    BY <1>1, <1>3, DroppedFacts
  <1>4. QED
    BY <1>2, <1>3 DEF ReleaseRing

-----------------------------------------------------------------------------
LEMMA ComboLess ==
  ASSUME NEW i \in Combos
  PROVE  \A j \in Combos : (j < i => j < i + 1) /\ (j < i + 1 => j < i \/ j = i)
  BY ComboAssumption DEF Combos

(* The press is offered to the next combo. *)
LEMMA PressedPass ==
  ASSUME NEW c, Settled(c, held, layout), NEW key \in Keys, NEW i \in Combos, NEW d \in CState,
         PressedTo(c, d, i, key), key \notin layout[i].keys
  PROVE  PressedTo(c, d, i + 1, key)
  <1>2. PressedCombos(c, d, i + 1, key)
    <2>1. \A j \in Combos : (j < i => j < i + 1) /\ (j < i + 1 => j < i \/ j = i)
      BY ComboLess
    <2>2. QED
      BY <2>1 DEF PressedTo, PressedCombos
  <1>3. QED
    BY <1>2 DEF PressedTo

LEMMA PressedIn ==
  ASSUME NEW c, Settled(c, held, layout), layout \in Layouts, NEW key \in Keys, key \notin held,
         NEW i \in Combos, NEW d \in CState, PressedTo(c, d, i, key), key \in layout[i].keys,
         ~d.combo[i].disabled, b_combo_enable,
         NEW e \in CState, SameBuffer(d, e), OfferPress(d, e, i, key)
  PROVE  PressedTo(c, e, i + 1, key)
  <1>1. i \in Int /\ \A j \in Combos : j \in Int
    BY ComboAssumption DEF Combos
  <1>2. /\ ~c.combo[i].disabled /\ ~c.combo[i].active /\ ~d.combo[i].active
        /\ d.combo[i].state = c.combo[i].state /\ key \notin c.combo[i].state
    <2>1. PressedCombos(c, d, i, key) /\ ActiveDisabled(c) /\ c.combo[i].state \subseteq held
      BY DEF PressedTo, Settled, Waiting
    <2>2. ~(i < i)
      BY <1>1
    <2>3. QED
      BY <2>1, <2>2 DEF PressedCombos, ActiveDisabled
  <1>3. e.part /\ PressCombos(d, e, i, key) /\ PressRing(d, e, i) /\ e.report = d.report
    BY DEF OfferPress
  <1>4. PressedCombos(c, e, i + 1, key)
    <2> SUFFICES ASSUME NEW j \in Combos
                 PROVE  /\ \/ e.combo[j].state = c.combo[j].state
                           \/ /\ e.combo[j].state = c.combo[j].state \cup {key}
                              /\ j < i + 1 /\ ~c.combo[j].active /\ key \in layout[j].keys /\ e.part
                        /\ e.combo[j].active = c.combo[j].active
                        /\ c.combo[j].disabled => e.combo[j].disabled
                        /\ j < i + 1 /\ key \in layout[j].keys /\ ~e.combo[j].disabled /\ b_combo_enable =>
                             key \in e.combo[j].state /\ e.part
      BY DEF PressedCombos
    <2>1. CASE j = i
      <3>1. e.combo[i].state = c.combo[i].state \cup {key} /\ e.combo[i].active = c.combo[i].active
        BY <1>2, <1>3 DEF PressCombos, PressedTo, PressedCombos
      <3>2. i < i + 1
        BY <1>1
      <3>3. QED
        BY <1>2, <1>3, <2>1, <3>1, <3>2
    <2>2. CASE j # i
      <3>1. /\ e.combo[j].state = d.combo[j].state /\ e.combo[j].active = d.combo[j].active
            /\ d.combo[j].disabled => e.combo[j].disabled
        BY <1>3, <2>2 DEF PressCombos
      <3>2. (j < i => j < i + 1) /\ (j < i + 1 => j < i)
        BY <1>1, <2>2
      <3>3. QED
        BY <1>3, <3>1, <3>2 DEF PressedTo, PressedCombos
    <2>3. QED
      BY <2>1, <2>2
  <1>5. i \in UsedCombos
    BY DEF UsedCombos
  <1>6. PressedRing(c, d)
    BY DEF PressedTo
  <1>7. \A j \in Combos : j # i /\ Complete(e, layout, j) => Complete(d, layout, j)
    BY <1>3 DEF PressCombos, Complete
  <1>8. PressedRing(c, e)
    <2>1. Distinct(e.ring) /\ Len(e.ring) < COMBO_BUFFER_LENGTH /\ ToSet(e.ring) \subseteq UsedCombos
      BY <1>3, <1>5, <1>6 DEF PressedRing, PressRing
    <2>2. ReadyDisjoint(c, layout) => ReadyDisjoint(e, layout)
      <3> SUFFICES ASSUME ReadyDisjoint(c, layout),
                          NEW j \in ToSet(e.ring), NEW k \in ToSet(e.ring), j # k,
                          Complete(e, layout, j), Complete(e, layout, k)
                   PROVE  layout[j].keys \cap layout[k].keys = {}
        BY DEF ReadyDisjoint
      <3>1. j \in Combos /\ k \in Combos
        BY <2>1 DEF UsedCombos
      <3>2. CASE j # i /\ k # i
        <4>1. j \in ToSet(d.ring) /\ k \in ToSet(d.ring)
          BY <1>3, <3>2 DEF PressRing
        <4>2. ReadyDisjoint(d, layout)
          BY <1>6 DEF PressedRing
        <4>3. QED
          BY <1>7, <3>1, <3>2, <4>1, <4>2 DEF ReadyDisjoint
      <3>3. CASE j = i
        BY <1>3, <3>3 DEF PressRing, Complete, Overlap
      <3>4. CASE k = i
        <4>1. ~Overlap(j, i)
          BY <1>3, <3>4 DEF PressRing, Complete
        <4>2. QED
          BY <3>4, <4>1 DEF Overlap
      <3>5. QED
        BY <3>2, <3>3, <3>4
    <2>3. RoomForCombos /\ CompleteInRing(c, layout) => CompleteInRing(e, layout)
      <3> SUFFICES ASSUME RoomForCombos, CompleteInRing(c, layout), NEW j \in Combos,
                          Complete(e, layout, j), ~e.combo[j].active, layout[j].keys # {}
                   PROVE  j \in ToSet(e.ring)
        BY DEF CompleteInRing
      <3>1. ~Wraps(d, i)
        <4> SUFFICES ASSUME Wraps(d, i) PROVE FALSE
          OBVIOUS
        <4>1. i \notin ToSet(d.ring) /\ Len(d.ring) + 1 >= COMBO_BUFFER_LENGTH
          BY DEF Wraps
        <4>2. d.ring \in Seq(Combos) /\ Len(d.ring) \in Nat
          BY CStateFields
        <4>3. Len(d.ring) + 1 < COMBO_BUFFER_LENGTH
          BY <1>5, <1>6, <4>1, <4>2, NoWrap DEF PressedRing
        <4>4. QED
          BY <4>1, <4>2, <4>3, ComboAssumption
      <3>2. CASE j = i
        BY <1>3, <3>1, <3>2 DEF PressRing, Complete
      <3>3. CASE j # i
        <4>1. Complete(d, layout, j) /\ ~d.combo[j].active
          BY <1>3, <1>7, <3>3 DEF PressCombos
        <4>2. j \in ToSet(d.ring)
          BY <1>6, <4>1 DEF PressedRing, CompleteInRing
        <4>3. QED
          BY <1>3, <3>1, <4>2 DEF PressRing, Complete
      <3>4. QED
        BY <3>2, <3>3
    <2>4. QED
      BY <2>1, <2>2, <2>3 DEF PressedRing
  <1>9. SameBuffer(c, e) /\ e.report = c.report
    BY <1>3 DEF PressedTo, SameBuffer
  <1>10. QED
    BY <1>4, <1>8, <1>9 DEF PressedTo

LEMMA PressedPast ==
  ASSUME NEW c, Settled(c, held, layout), layout \in Layouts, NEW key \in Keys, key \notin held,
         NEW i \in Combos, NEW d \in CState, PressedTo(c, d, i, key), key \in layout[i].keys,
         ~(~d.combo[i].disabled /\ b_combo_enable),
         NEW e \in CState, SameBuffer(d, e), OfferRelease(d, e, i, key, TRUE)
  PROVE  PressedTo(c, e, i + 1, key)
  <1>1. i \in Int /\ \A j \in Combos : j \in Int
    BY ComboAssumption DEF Combos
  <1>2. d.combo[i].state = c.combo[i].state /\ key \notin d.combo[i].state
    <2>1. PressedCombos(c, d, i, key) /\ c.combo[i].state \subseteq held
      BY DEF PressedTo, Settled
    <2>2. ~(i < i)
      BY <1>1
    <2>3. QED
      BY <2>1, <2>2 DEF PressedCombos
  <1>3. e.part = d.part
    <2>1. ~PartOfCombo(d, i, key, TRUE)
      BY <1>2 DEF PartOfCombo
    <2>2. d.part \in BOOLEAN
      BY CStateFields
    <2>3. QED
      BY <2>1, <2>2 DEF OfferRelease
  <1>4. e.report = d.report
    BY <1>2 DEF OfferRelease, ReleasedReport
  <1>5. \A j \in Combos : /\ e.combo[j].state = d.combo[j].state
                          /\ e.combo[j].disabled = d.combo[j].disabled
                          /\ e.combo[j].active = d.combo[j].active
    <2> SUFFICES ASSUME NEW j \in Combos
                 PROVE  /\ e.combo[j].state = d.combo[j].state
                        /\ e.combo[j].disabled = d.combo[j].disabled
                        /\ e.combo[j].active = d.combo[j].active
      OBVIOUS
    <2>1. ReleaseCombos(d, e, i, key) /\ d.combo[j].active \in BOOLEAN
      BY CStateFields DEF OfferRelease
    <2>2. CASE j = i
      BY <1>2, <2>1, <2>2 DEF ReleaseCombos
    <2>3. CASE j # i
      BY <2>1, <2>3 DEF ReleaseCombos
    <2>4. QED
      BY <2>2, <2>3
  <1>6. PressedCombos(c, e, i + 1, key)
    <2>1. \A j \in Combos : (j < i => j < i + 1) /\ (j < i + 1 => j < i \/ j = i)
      BY ComboLess
    <2>2. QED
      BY <1>3, <1>5, <2>1 DEF PressedTo, PressedCombos
  <1>7. PressedRing(c, e)
    <2>1. /\ Len(e.ring) <= Len(d.ring)
          /\ Distinct(d.ring) => Distinct(e.ring)
          /\ ToSet(e.ring) \subseteq ToSet(d.ring)
          /\ \A j \in ToSet(d.ring) : j # i \/ ~d.combo[i].disabled => j \in ToSet(e.ring)
      BY ReleaseRingFacts DEF OfferRelease
    <2>2. PressedRing(c, d)
      BY DEF PressedTo
    <2>3. Len(e.ring) < COMBO_BUFFER_LENGTH
      <3>1. Len(e.ring) \in Nat /\ Len(d.ring) \in Nat
        BY CStateFields
      <3>2. QED
        BY <2>1, <2>2, <3>1, ComboAssumption DEF PressedRing
    <2>4. \A j \in Combos : Complete(e, layout, j) <=> Complete(d, layout, j)
      BY <1>5 DEF Complete
    <2>5. ToSet(d.ring) \subseteq Combos
      BY CStateFields DEF ToSet
    <2>6. ReadyDisjoint(d, layout) => ReadyDisjoint(e, layout)
      BY <2>1, <2>4, <2>5 DEF ReadyDisjoint
    <2>7. CompleteInRing(d, layout) => CompleteInRing(e, layout)
      <3> SUFFICES ASSUME CompleteInRing(d, layout), NEW j \in Combos,
                          Complete(e, layout, j), ~e.combo[j].active, layout[j].keys # {}
                   PROVE  j \in ToSet(e.ring)
        BY DEF CompleteInRing
      <3>1. j \in ToSet(d.ring) /\ ~d.combo[j].disabled
        BY <1>5, <2>4 DEF CompleteInRing, Complete
      <3>2. QED
        BY <2>1, <3>1
    <2>8. QED
      BY <2>1, <2>2, <2>3, <2>6, <2>7 DEF PressedRing
  <1>8. SameBuffer(c, e) /\ e.report = c.report
    BY <1>4 DEF PressedTo, SameBuffer
  <1>9. QED
    BY <1>3, <1>6, <1>7, <1>8 DEF PressedTo

LEMMA PressedStep ==
  ASSUME NEW c, Settled(c, held, layout), layout \in Layouts, NEW key \in Keys, key \notin held,
         NEW i \in Combos, NEW d \in CState, PressedTo(c, d, i, key),
         NEW e, Offer(d, e, i, key, TRUE)
  PROVE  PressedTo(c, e, i + 1, key)
  <1>1. e \in CState /\ SameBuffer(d, e)
    BY DEF Offer
  <1>2. CASE key \notin layout[i].keys
    <2>1. e = d
      BY <1>2 DEF Offer
    <2>2. QED
      BY <1>2, <2>1, PressedPass
  <1>3. CASE key \in layout[i].keys /\ ~d.combo[i].disabled /\ b_combo_enable
    <2>1. OfferPress(d, e, i, key)
      BY <1>3 DEF Offer
    <2>2. QED
      BY <1>1, <1>3, <2>1, PressedIn
  <1>4. CASE key \in layout[i].keys /\ ~(~d.combo[i].disabled /\ b_combo_enable)
    <2>1. OfferRelease(d, e, i, key, TRUE)
      BY <1>4 DEF Offer
    <2>2. QED
      BY <1>1, <1>4, <2>1, PressedPast
  <1>5. QED
    BY <1>2, <1>3, <1>4

LEMMA PressedNone ==
  ASSUME NEW c, Settled(c, held, layout), c.part = FALSE, NEW key
  PROVE  PressedTo(c, c, 0, key)
  <1>1. PressedRing(c, c)
    BY DEF PressedRing, Settled, Waiting
  <1>2. PressedCombos(c, c, 0, key)
    <2>1. \A j \in Combos : ~(j < 0)
      BY ComboAssumption DEF Combos
    <2>2. QED
      BY <2>1 DEF PressedCombos
  <1>3. QED
    BY <1>1, <1>2 DEF PressedTo, SameBuffer

(* The press of a key that was up is offered to all combos. *)
LEMMA PressedAll ==
  ASSUME Settled(State, held, layout), layout \in Layouts, NEW key \in Keys, key \notin held
  PROVE  /\ OfferedToCombos(key) \in CState
         /\ PressedTo(State, OfferedToCombos(key), COMBO_COUNT, key)
  <1>1. State \in CState
    BY DEF Settled, Waiting
  <1>2. PICK f : Offers(f, key) /\ OfferedToCombos(key) = f[COMBO_COUNT]
    BY <1>1, OfferedRun
  <1>3. PICK c : c = State
    OBVIOUS
  <1>4. COMBO_COUNT \in Nat /\ f \in [0..COMBO_COUNT -> CState] /\ f[0] = c
    BY <1>2, <1>3, ComboAssumption DEF Offers
  <1>5. Settled(c, held, layout)
    BY <1>3
  <1>6. PressedTo(c, c, 0, key)
    <2>1. c.part = FALSE
      BY <1>3 DEF State
    <2>2. QED
      BY <1>5, <2>1, PressedNone
  <1> DEFINE P == {n \in 0..COMBO_COUNT : PressedTo(c, f[n], n, key)}
  <1>7. 0 \in P
    BY <1>4, <1>6
  <1>8. ASSUME NEW n \in 1..COMBO_COUNT, n - 1 \in P PROVE n \in P
    <2>1. PICK i : i = n - 1
      OBVIOUS
    <2>2. i \in 0..COMBO_COUNT /\ i + 1 = n /\ n \in 0..COMBO_COUNT
      BY <1>4, <2>1
    <2>3. i \in Combos /\ Offer(f[i], f[n], i, key, TRUE)
      BY <1>2, <2>1 DEF Offers
    <2>4. f[i] \in CState /\ PressedTo(c, f[i], i, key)
      BY <1>4, <1>8, <2>1, <2>2
    <2>5. PressedTo(c, f[n], i + 1, key)
      BY <1>5, <2>3, <2>4, PressedStep
    <2>6. QED
      BY <2>2, <2>5
  <1>9. COMBO_COUNT \in P
    <2> HIDE DEF P
    <2>1. \A n \in 0..COMBO_COUNT : n \in P
      BY <1>4, <1>7, <1>8, UpTo
    <2>2. QED
      BY <1>4, <2>1
  <1>10. QED
    BY <1>2, <1>3, <1>4, <1>9

-----------------------------------------------------------------------------
(* A release of key has been offered to the first n combos. *)
ReleasedCombos(c, d, n, key) ==
  \A j \in Combos :
    /\ d.combo[j].disabled = c.combo[j].disabled
    /\ j < n => /\ d.combo[j].state = c.combo[j].state \ {key}
                /\ d.combo[j].active = (c.combo[j].active /\ c.combo[j].state # {key})
    /\ ~(j < n) => d.combo[j].state = c.combo[j].state /\ d.combo[j].active = c.combo[j].active
ReleasedRing(c, d) ==
  /\ Distinct(d.ring) /\ Len(d.ring) < COMBO_BUFFER_LENGTH /\ ToSet(d.ring) \subseteq ToSet(c.ring)
  /\ \A j \in ToSet(c.ring) : ~c.combo[j].disabled => j \in ToSet(d.ring)
ReleasedCodes(c, d, n, key) ==
  /\ d.report \subseteq c.report
  /\ \A j \in Combos :
       j < n /\ c.combo[j].active /\ c.combo[j].state = {key} => layout[j].code \notin d.report
ReleasedPart(c, d, key) ==
  d.part => \E j \in Combos : key \in c.combo[j].state /\ (c.combo[j].active \/ Complete(c, layout, j))
ReleasedTo(c, d, n, key) ==
  /\ SameBuffer(c, d)
  /\ ReleasedCombos(c, d, n, key) /\ ReleasedRing(c, d)
  /\ ReleasedCodes(c, d, n, key) /\ ReleasedPart(c, d, key)

LEMMA ReleasedPass ==
  ASSUME NEW c, Settled(c, held, layout), NEW key \in Keys, NEW i \in Combos, NEW d \in CState,
         ReleasedTo(c, d, i, key), key \notin layout[i].keys
  PROVE  ReleasedTo(c, d, i + 1, key)
  <1>1. \A j \in Combos : (j < i => j < i + 1) /\ (j < i + 1 => j < i \/ j = i)
    BY ComboLess
  <1>2. ~(i < i)
    BY ComboAssumption DEF Combos
  <1>3. key \notin c.combo[i].state /\ c.combo[i].state \ {key} = c.combo[i].state
    BY DEF Settled
  <1>4. c.combo[i].active \in BOOLEAN
    BY CStateFields DEF Settled, Waiting
  <1>5. ReleasedCombos(c, d, i + 1, key)
    <2> SUFFICES ASSUME NEW j \in Combos
                 PROVE  /\ d.combo[j].disabled = c.combo[j].disabled
                        /\ j < i + 1 => /\ d.combo[j].state = c.combo[j].state \ {key}
                                        /\ d.combo[j].active = (c.combo[j].active /\ c.combo[j].state # {key})
                        /\ ~(j < i + 1) => /\ d.combo[j].state = c.combo[j].state
                                           /\ d.combo[j].active = c.combo[j].active
      BY DEF ReleasedCombos
    <2>1. ReleasedCombos(c, d, i, key)
      BY DEF ReleasedTo
    <2>2. CASE j = i
      BY <1>2, <1>3, <1>4, <2>1, <2>2 DEF ReleasedCombos
    <2>3. CASE j # i
      BY <1>1, <2>1, <2>3 DEF ReleasedCombos
    <2>4. QED
      BY <2>2, <2>3
  <1>6. ReleasedCodes(c, d, i + 1, key)
    BY <1>1, <1>3 DEF ReleasedCodes, ReleasedTo
  <1>7. QED
    BY <1>5, <1>6 DEF ReleasedTo

LEMMA ReleasedIn ==
  ASSUME NEW c, Settled(c, held, layout), layout \in Layouts, NEW key \in Keys,
         NEW i \in Combos, NEW d \in CState, ReleasedTo(c, d, i, key), key \in layout[i].keys,
         NEW e \in CState, SameBuffer(d, e), OfferRelease(d, e, i, key, FALSE)
  PROVE  ReleasedTo(c, e, i + 1, key)
  <1>1. \A j \in Combos : (j < i => j < i + 1) /\ (j < i + 1 => j < i \/ j = i)
    BY ComboLess
  <1>2. ~(i < i) /\ i < i + 1
    BY ComboAssumption DEF Combos
  <1>3. /\ d.combo[i].state = c.combo[i].state /\ d.combo[i].active = c.combo[i].active
        /\ d.combo[i].disabled = c.combo[i].disabled
    BY <1>2 DEF ReleasedTo, ReleasedCombos
  <1>4. /\ ReleaseCombos(d, e, i, key) /\ ReleaseRing(d, e, i)
        /\ e.report = ReleasedReport(d, i, key)
        /\ e.part = (d.part \/ PartOfCombo(d, i, key, FALSE))
    BY DEF OfferRelease
  <1>5. ReleasedCombos(c, e, i + 1, key)
    <2> SUFFICES ASSUME NEW j \in Combos
                 PROVE  /\ e.combo[j].disabled = c.combo[j].disabled
                        /\ j < i + 1 => /\ e.combo[j].state = c.combo[j].state \ {key}
                                        /\ e.combo[j].active = (c.combo[j].active /\ c.combo[j].state # {key})
                        /\ ~(j < i + 1) => /\ e.combo[j].state = c.combo[j].state
                                           /\ e.combo[j].active = c.combo[j].active
      BY DEF ReleasedCombos
    <2>1. ReleasedCombos(c, d, i, key)
      BY DEF ReleasedTo
    <2>2. CASE j = i
      BY <1>2, <1>3, <1>4, <2>2 DEF ReleaseCombos
    <2>3. CASE j # i
      <3>1. /\ e.combo[j].disabled = d.combo[j].disabled /\ e.combo[j].state = d.combo[j].state
            /\ e.combo[j].active = d.combo[j].active
        <4>1. d.combo[j].active \in BOOLEAN
          BY CStateFields
        <4>2. QED
          BY <1>4, <2>3, <4>1 DEF ReleaseCombos
      <3>2. QED
        BY <1>1, <2>1, <2>3, <3>1 DEF ReleasedCombos
    <2>4. QED
      BY <2>2, <2>3
  <1>6. ReleasedRing(c, e)
    <2>1. /\ Len(e.ring) <= Len(d.ring)
          /\ Distinct(d.ring) => Distinct(e.ring)
          /\ ToSet(e.ring) \subseteq ToSet(d.ring)
          /\ \A j \in ToSet(d.ring) : j # i \/ ~d.combo[i].disabled => j \in ToSet(e.ring)
      BY <1>4, ReleaseRingFacts
    <2>2. ReleasedRing(c, d)
      BY DEF ReleasedTo
    <2>3. Len(e.ring) < COMBO_BUFFER_LENGTH
      <3>1. Len(e.ring) \in Nat /\ Len(d.ring) \in Nat
        BY CStateFields
      <3>2. QED
        BY <2>1, <2>2, <3>1, ComboAssumption DEF ReleasedRing
    <2>4. QED
      BY <1>3, <2>1, <2>2, <2>3 DEF ReleasedRing
  <1>7. ReleasedCodes(c, e, i + 1, key)
    <2>1. ReleasedCodes(c, d, i, key)
      BY DEF ReleasedTo
    <2>2. e.report \subseteq d.report
      BY <1>4 DEF ReleasedReport
    <2>3. c.combo[i].active /\ c.combo[i].state = {key} => layout[i].code \notin e.report
      BY <1>3, <1>4 DEF ReleasedReport
    <2>4. QED
      BY <1>1, <2>1, <2>2, <2>3 DEF ReleasedCodes
  <1>8. ReleasedPart(c, e, key)
    <2>1. PartOfCombo(d, i, key, FALSE) =>
            key \in c.combo[i].state /\ (c.combo[i].active \/ Complete(c, layout, i))
      BY <1>3 DEF PartOfCombo, AllDown, Complete
    <2>2. ReleasedPart(c, d, key)
      BY DEF ReleasedTo
    <2>3. QED
      BY <1>4, <2>1, <2>2 DEF ReleasedPart
  <1>9. SameBuffer(c, e)
    BY DEF ReleasedTo, SameBuffer
  <1>10. QED
    BY <1>5, <1>6, <1>7, <1>8, <1>9 DEF ReleasedTo

LEMMA ReleasedStep ==
  ASSUME NEW c, Settled(c, held, layout), layout \in Layouts, NEW key \in Keys,
         NEW i \in Combos, NEW d \in CState, ReleasedTo(c, d, i, key),
         NEW e, Offer(d, e, i, key, FALSE)
  PROVE  ReleasedTo(c, e, i + 1, key)
  <1>1. e \in CState /\ SameBuffer(d, e)
    BY DEF Offer
  <1>2. CASE key \notin layout[i].keys
    <2>1. e = d
      BY <1>2 DEF Offer
    <2>2. QED
      BY <1>2, <2>1, ReleasedPass
  <1>3. CASE key \in layout[i].keys
    <2>1. OfferRelease(d, e, i, key, FALSE)
      BY <1>3 DEF Offer
    <2>2. QED
      BY <1>1, <1>3, <2>1, ReleasedIn
  <1>4. QED
    BY <1>2, <1>3

(* The release of a key that was down is offered to all combos. *)
LEMMA ReleasedAll ==
  ASSUME Settled(State, held, layout), layout \in Layouts, NEW key \in Keys, key \in held
  PROVE  /\ OfferedToCombos(key) \in CState
         /\ ReleasedTo(State, OfferedToCombos(key), COMBO_COUNT, key)
  <1>1. State \in CState
    BY DEF Settled, Waiting
  <1>2. PICK f : Offers(f, key) /\ OfferedToCombos(key) = f[COMBO_COUNT]
    BY <1>1, OfferedRun
  <1>3. PICK c : c = State
    OBVIOUS
  <1>4. COMBO_COUNT \in Nat /\ f \in [0..COMBO_COUNT -> CState] /\ f[0] = c
    BY <1>2, <1>3, ComboAssumption DEF Offers
  <1>5. Settled(c, held, layout)
    BY <1>3
  <1>6. ReleasedTo(c, c, 0, key)
    <2>1. c.part = FALSE
      BY <1>3 DEF State
    <2>2. ReleasedRing(c, c)
      BY <1>5 DEF ReleasedRing, Settled, Waiting
    <2>3. \A j \in Combos : ~(j < 0)
      BY ComboAssumption DEF Combos
    <2>4. ReleasedCombos(c, c, 0, key) /\ ReleasedCodes(c, c, 0, key)
      BY <2>3 DEF ReleasedCombos, ReleasedCodes
    <2>5. QED
      BY <2>1, <2>2, <2>4 DEF ReleasedTo, SameBuffer, ReleasedPart
  <1> DEFINE P == {n \in 0..COMBO_COUNT : ReleasedTo(c, f[n], n, key)}
  <1>7. 0 \in P
    BY <1>4, <1>6
  <1>8. ASSUME NEW n \in 1..COMBO_COUNT, n - 1 \in P PROVE n \in P
    <2>1. PICK i : i = n - 1
      OBVIOUS
    <2>2. i \in 0..COMBO_COUNT /\ i + 1 = n /\ n \in 0..COMBO_COUNT
      BY <1>4, <2>1
    <2>3. i \in Combos /\ Offer(f[i], f[n], i, key, FALSE)
      BY <1>2, <2>1 DEF Offers
    <2>4. f[i] \in CState /\ ReleasedTo(c, f[i], i, key)
      BY <1>4, <1>8, <2>1, <2>2
    <2>5. ReleasedTo(c, f[n], i + 1, key)
      BY <1>5, <2>3, <2>4, ReleasedStep
    <2>6. QED
      BY <2>2, <2>5
  <1>9. COMBO_COUNT \in P
    <2> HIDE DEF P
    <2>1. \A n \in 0..COMBO_COUNT : n \in P
      BY <1>4, <1>7, <1>8, UpTo
    <2>2. QED
      BY <1>4, <2>1
  <1>10. QED
    BY <1>2, <1>3, <1>4, <1>9

-----------------------------------------------------------------------------
(* What the combos owe to the key buffer: an enabled combo has seen those of *)
(* its keys that are in the buffer, and the active combos share no key.      *)
Fed(c, l) ==
  \A i \in Combos : ~c.combo[i].disabled => l[i].keys \cap KeysIn(c.keys) \subseteq c.combo[i].state
OneActive(c) ==
  \A i, j \in Combos :
    i # j /\ c.combo[i].active /\ c.combo[j].active => c.combo[i].state \cap c.combo[j].state = {}
Firing(c, l) == Fed(c, l) /\ ReadyDisjoint(c, l) /\ OneActive(c)

(* c has become e, in which the wait ends. *)
Ending(c, e, h) ==
  /\ Waiting(e) /\ e.keys = c.keys
  /\ Len(e.ring) < COMBO_BUFFER_LENGTH /\ ToSet(e.ring) \subseteq UsedCombos
  /\ \A i \in Combos : /\ e.combo[i].state \subseteq c.combo[i].state
                       /\ e.combo[i].state \subseteq h
                       /\ e.combo[i].active => c.combo[i].active
                       /\ c.combo[i].disabled => e.combo[i].disabled
(* The combos that may fire when the wait ends. *)
MayFire(e, i) == i \in ToSet(e.ring) /\ ~e.combo[i].disabled /\ AllIn(layout[i].keys, e.keys)
NewDisjoint(e) ==
  \A i, j \in Combos : i # j /\ MayFire(e, i) /\ MayFire(e, j) => layout[i].keys \cap layout[j].keys = {}

LEMMA FedComplete ==
  ASSUME NEW c, NEW h, Settled(c, h, layout), Fed(c, layout), NEW i \in Combos,
         ~c.combo[i].disabled, AllIn(layout[i].keys, c.keys)
  PROVE  Complete(c, layout, i)
  <1>1. layout[i].keys \subseteq KeysIn(c.keys)
    BY DEF AllIn
  <1>2. layout[i].keys \cap KeysIn(c.keys) \subseteq c.combo[i].state
    BY DEF Fed
  <1>3. c.combo[i].state \subseteq layout[i].keys
    BY DEF Settled
  <1>4. QED
    BY <1>1, <1>2, <1>3 DEF Complete

(* The combos after the wait. *)
EndedCombo(c, e, d, i) ==
  \/ c.combo[i].active /\ d.combo[i].active /\ d.combo[i].disabled /\ d.combo[i].state = e.combo[i].state
  \/ d.combo[i].state = {} /\ ~d.combo[i].active /\ ~d.combo[i].disabled
  \/ MayFire(e, i) /\ d.combo[i].active /\ d.combo[i].disabled /\ d.combo[i].state = e.combo[i].state

LEMMA EndedCombos ==
  ASSUME NEW c, NEW e, NEW h, Ending(c, e, h), NEW d, Ends(e, d), NEW i \in Combos
  PROVE  EndedCombo(c, e, d, i)
  <1>1. /\ e.combo[i].active => c.combo[i].active /\ e.combo[i].disabled
    BY DEF Ending, Waiting, ActiveDisabled
  <1>2. CASE e.combo[i].active /\ d.combo[i] = e.combo[i]
    BY <1>1, <1>2 DEF EndedCombo
  <1>3. CASE d.combo[i] = Fresh
    BY <1>3 DEF EndedCombo, Fresh
  <1>4. CASE Fires(e, d, i)
    BY <1>4 DEF EndedCombo, Fires, MayFire
  <1>5. QED
    BY <1>2, <1>3, <1>4 DEF Ends, EndCombos

LEMMA EndSettled ==
  ASSUME NEW c, NEW g, Settled(c, g, layout), NEW e, NEW h, Ending(c, e, h), NEW d, Ends(e, d)
  PROVE  Settled(d, h, layout)
  <1>1. d \in CState /\ d.keys = <<>> /\ e \in CState
    BY DEF Ends, Ending, Waiting
  <1>2. Plain(d.keys) /\ DifferentKeys(d.keys) /\ KeysIn(d.keys) = {} /\ Len(d.keys) = 0
    BY <1>1 DEF Plain, DifferentKeys, KeysIn
  <1>3. PICK k \in 0..Len(e.ring) : Suffix(d.ring, e.ring, k)
    BY DEF Ends
  <1>4. d.ring \in Seq(Combos) /\ e.ring \in Seq(Combos) /\ Len(d.ring) \in Nat /\ Len(e.ring) \in Nat
    BY <1>1, CStateFields
  <1>5. /\ Len(d.ring) <= Len(e.ring) /\ ToSet(d.ring) \subseteq ToSet(e.ring)
        /\ Distinct(e.ring) => Distinct(d.ring)
    BY <1>3, <1>4, SuffixFacts
  <1>6. Distinct(d.ring) /\ ToSet(d.ring) \subseteq UsedCombos
    BY <1>5 DEF Ending, Waiting
  <1>7. Len(d.ring) < COMBO_BUFFER_LENGTH
    BY <1>4, <1>5, ComboAssumption DEF Ending
  <1>8. ASSUME NEW i \in Combos
        PROVE  /\ d.combo[i].state \subseteq layout[i].keys /\ d.combo[i].state \subseteq h
               /\ d.combo[i].active => d.combo[i].disabled
    <2>1. EndedCombo(c, e, d, i)
      BY EndedCombos
    <2>2. e.combo[i].state \subseteq layout[i].keys /\ e.combo[i].state \subseteq h
      BY DEF Ending, Settled
    <2>3. QED
      BY <2>1, <2>2 DEF EndedCombo
  <1>9. Waiting(d)
    BY <1>1, <1>2, <1>6, <1>8 DEF Waiting, ActiveDisabled
  <1>10. Len(d.keys) <= COMBO_KEY_BUFFER_LENGTH
    BY <1>2, ComboAssumption
  <1>11. QED
    BY <1>2, <1>6, <1>7, <1>8, <1>9, <1>10 DEF Settled

LEMMA EndFiring ==
  ASSUME NEW c, NEW g, Settled(c, g, layout), OneActive(c), NEW e, NEW h, Ending(c, e, h),
         NewDisjoint(e), NEW d, Ends(e, d)
  PROVE  Firing(d, layout)
  <1>1. d.keys = <<>> /\ KeysIn(d.keys) = {}
    BY DEF Ends, KeysIn
  <1>2. Fed(d, layout)
    BY <1>1 DEF Fed
  <1>3. ToSet(d.ring) \subseteq Combos
    BY CStateFields DEF Ends, ToSet
  <1>4. ReadyDisjoint(d, layout)
    <2> SUFFICES ASSUME NEW i \in ToSet(d.ring), NEW j \in ToSet(d.ring), Complete(d, layout, i)
                 PROVE  layout[i].keys \cap layout[j].keys = {}
      BY DEF ReadyDisjoint
    <2>1. EndedCombo(c, e, d, i)
      BY <1>3, EndedCombos
    <2>2. QED
      BY <2>1 DEF EndedCombo, Complete
  <1>5. OneActive(d)
    <2> SUFFICES ASSUME NEW i \in Combos, NEW j \in Combos, i # j, d.combo[i].active, d.combo[j].active
                 PROVE  d.combo[i].state \cap d.combo[j].state = {}
      BY DEF OneActive
    <2>1. /\ c.combo[i].active \/ MayFire(e, i)
          /\ c.combo[j].active \/ MayFire(e, j)
          /\ d.combo[i].state = e.combo[i].state /\ d.combo[j].state = e.combo[j].state
      <3>1. EndedCombo(c, e, d, i) /\ EndedCombo(c, e, d, j)
        BY EndedCombos
      <3>2. QED
        BY <3>1 DEF EndedCombo
    <2>2. /\ d.combo[i].state \subseteq c.combo[i].state /\ d.combo[j].state \subseteq c.combo[j].state
          /\ c.combo[i].state \subseteq layout[i].keys /\ c.combo[j].state \subseteq layout[j].keys
      BY <2>1 DEF Ending, Settled
    <2>3. ASSUME NEW k \in Combos, MayFire(e, k) PROVE layout[k].keys \subseteq KeysIn(c.keys)
      BY <2>3 DEF MayFire, AllIn, Ending
    <2>4. ASSUME NEW k \in Combos, c.combo[k].active PROVE c.combo[k].state \cap KeysIn(c.keys) = {}
      BY <2>4 DEF Settled
    <2>5. CASE c.combo[i].active /\ c.combo[j].active
      BY <2>2, <2>5 DEF OneActive
    <2>6. CASE c.combo[i].active /\ MayFire(e, j)
      BY <2>2, <2>3, <2>4, <2>6
    <2>7. CASE MayFire(e, i) /\ c.combo[j].active
      BY <2>2, <2>3, <2>4, <2>7
    <2>8. CASE MayFire(e, i) /\ MayFire(e, j)
      <3>1. layout[i].keys \cap layout[j].keys = {}
        BY <2>8 DEF NewDisjoint
      <3>2. QED
        BY <2>2, <3>1
    <2>9. QED
      BY <2>1, <2>5, <2>6, <2>7, <2>8
  <1>6. QED
    BY <1>2, <1>4, <1>5 DEF Firing

-----------------------------------------------------------------------------
(* Why a keycode is registered: its key is down and neither held back nor    *)
(* part of a combo, or it is the keycode of an active combo.                 *)
Reason(c, h, l, x) ==
  \/ x \in h \ Switches /\ x \notin KeysIn(c.keys) /\ \A i \in Combos : x \notin c.combo[i].state
  \/ \E i \in Combos : c.combo[i].active /\ l[i].code = x /\ c.combo[i].state # {}
Justified(c, h, l) == \A x \in c.report : Reason(c, h, l, x)

(* A press in the key buffer that no combo in the ring claims is of a key    *)
(* in h, and a combo that fires has a key down.                              *)
Unclaimed(e, h) ==
  \A n \in 1..Len(e.keys) :
    \/ \E j \in ToSet(e.ring) : ~e.combo[j].disabled /\ e.keys[n].key \in layout[j].keys
    \/ e.keys[n].key \in h \ Switches
FiresHeld(e) == \A i \in Combos : MayFire(e, i) => e.combo[i].state # {}

LEMMA EndJustified ==
  ASSUME NEW c, NEW g, Settled(c, g, layout), NEW e, NEW h, NEW k, Ending(c, e, k), NEW d, Ends(e, d),
         Justified(e, h, layout), Unclaimed(e, h), FiresHeld(e)
  PROVE  Justified(d, h, layout) /\ CompleteInRing(d, layout)
  <1>1. KeysIn(d.keys) = {}
    BY DEF Ends, KeysIn
  <1>2. \A i \in Combos : EndedCombo(c, e, d, i)
    BY EndedCombos
  <1>3. CompleteInRing(d, layout)
    BY <1>2 DEF CompleteInRing, Complete, EndedCombo
  <1>4. ASSUME NEW i \in Combos PROVE d.combo[i].state = {} \/ d.combo[i].state = e.combo[i].state
    BY <1>2 DEF EndedCombo
  <1>5. ASSUME NEW i \in Combos, e.combo[i].active
        PROVE  d.combo[i].active /\ d.combo[i].state = e.combo[i].state
    <2>1. e.combo[i].disabled
      BY <1>5 DEF Ending, Waiting, ActiveDisabled
    <2>2. d.combo[i] = e.combo[i]
      BY <1>5, <2>1 DEF Ends, EndCombos, Fires
    <2>3. QED
      BY <1>5, <2>2
  <1>6. ASSUME NEW x \in d.report PROVE Reason(d, h, layout, x)
    <2>1. CASE x \in e.report
      <3>1. Reason(e, h, layout, x)
        BY <2>1 DEF Justified
      <3>2. CASE x \in h \ Switches /\ \A i \in Combos : x \notin e.combo[i].state
        BY <1>1, <1>4, <3>2 DEF Reason
      <3>3. CASE \E i \in Combos : e.combo[i].active /\ layout[i].code = x /\ e.combo[i].state # {}
        BY <1>5, <3>3 DEF Reason
      <3>4. QED
        BY <3>1, <3>2, <3>3 DEF Reason
    <2>2. CASE \E n \in 1..Len(e.keys) :
                 /\ x = e.keys[n].key
                 /\ \A j \in ToSet(e.ring) : ~e.combo[j].disabled => x \notin layout[j].keys
      <3>1. PICK n \in 1..Len(e.keys) :
                 /\ x = e.keys[n].key
                 /\ \A j \in ToSet(e.ring) : ~e.combo[j].disabled => x \notin layout[j].keys
        BY <2>2
      <3>2. x \in h \ Switches
        BY <3>1 DEF Unclaimed
      <3>3. x \in KeysIn(c.keys)
        BY <3>1 DEF Ending, KeysIn
      <3>4. ASSUME NEW i \in Combos PROVE x \notin d.combo[i].state
        <4>1. e.combo[i].state \subseteq c.combo[i].state /\ c.combo[i].state \subseteq layout[i].keys
          BY DEF Ending, Settled
        <4>2. CASE c.combo[i].active
          <5>1. c.combo[i].state \cap KeysIn(c.keys) = {}
            BY <4>2 DEF Settled
          <5>2. QED
            BY <1>4, <3>3, <4>1, <5>1
        <4>3. CASE MayFire(e, i)
          <5>1. x \notin layout[i].keys
            BY <3>1, <4>3 DEF MayFire
          <5>2. QED
            BY <1>4, <4>1, <5>1
        <4>4. CASE d.combo[i].state = {}
          BY <4>4
        <4>5. QED
          BY <1>2, <4>2, <4>3, <4>4 DEF EndedCombo
      <3>5. QED
        BY <1>1, <3>2, <3>4 DEF Reason
    <2>3. CASE \E i \in Combos : Fires(e, d, i) /\ x = layout[i].code
      <3>1. PICK i \in Combos : Fires(e, d, i) /\ x = layout[i].code
        BY <2>3
      <3>2. MayFire(e, i) /\ d.combo[i].active /\ d.combo[i].state = e.combo[i].state
        BY <3>1 DEF Fires, MayFire
      <3>3. e.combo[i].state # {}
        BY <3>2 DEF FiresHeld
      <3>4. QED
        BY <3>1, <3>2, <3>3 DEF Reason
    <2>4. QED
      BY <2>1, <2>2, <2>3 DEF Ends, EndReport
  <1>7. QED
    BY <1>3, <1>6 DEF Justified

-----------------------------------------------------------------------------
(* What each event keeps: Settled in every case, Firing as long as the host  *)
(* leaves the combos alone, and Sound if the ring has room and no combo has  *)
(* a single key.                                                             *)
NoSingleKeys == \A l \in Layouts : \A i \in Combos : \A k \in Keys : l[i].keys # {k}
Sound(c, h, l) == CompleteInRing(c, l) /\ Justified(c, h, l)
Kept(c, d, h) ==
  /\ Settled(d, h, layout)
  /\ Firing(c, layout) => Firing(d, layout)
  /\ RoomForCombos /\ NoSingleKeys /\ Firing(c, layout) /\ Sound(c, held, layout) => Sound(d, h, layout)

SameFields(c, d) == d.combo = c.combo /\ d.keys = c.keys /\ d.ring = c.ring

LEMMA SettledSame ==
  ASSUME NEW c, NEW d \in CState, SameFields(c, d), NEW g, NEW h, g \subseteq h, NEW l, Settled(c, g, l)
  PROVE  Settled(d, h, l)
  <1>1. Waiting(d)
    BY DEF Settled, Waiting, SameFields, ActiveDisabled
  <1>2. KeysIn(d.keys) \subseteq h \ Switches
    BY DEF Settled, SameFields
  <1>3. \A i \in Combos : d.combo[i].state \subseteq l[i].keys /\ d.combo[i].state \subseteq h
    BY DEF Settled, SameFields
  <1>4. QED
    BY <1>1, <1>2, <1>3 DEF Settled, SameFields

LEMMA FiringSame ==
  ASSUME NEW c, NEW d, SameFields(c, d), NEW l, Firing(c, l)
  PROVE  Firing(d, l)
  BY DEF Firing, SameFields, Fed, ReadyDisjoint, OneActive, Complete

LEMMA CompleteSame ==
  ASSUME NEW c, NEW d, SameFields(c, d), NEW l, CompleteInRing(c, l)
  PROVE  CompleteInRing(d, l)
  BY DEF CompleteInRing, SameFields, Complete

LEMMA ReasonSame ==
  ASSUME NEW c, NEW d, SameFields(c, d), NEW l, NEW g, NEW h, NEW x, Reason(c, g, l, x), x \in g => x \in h
  PROVE  Reason(d, h, l, x)
  BY DEF Reason, SameFields

(* combo_task ends the wait. *)
LEMMA KeptTask ==
  ASSUME NEW c, Settled(c, held, layout), layout \in Layouts, NEW d, d = EndWait(c)
  PROVE  Kept(c, d, held)
  <1>1. Waiting(c) /\ Ends(c, d)
    BY EndWaitEnds DEF Settled
  <1>2. Ending(c, c, held)
    BY <1>1 DEF Ending, Settled
  <1>3. Settled(d, held, layout)
    BY <1>1, <1>2, EndSettled
  <1>4. Firing(c, layout) => NewDisjoint(c) /\ FiresHeld(c)
    <2> SUFFICES ASSUME Firing(c, layout) PROVE NewDisjoint(c) /\ FiresHeld(c)
      OBVIOUS
    <2>1. \A i \in Combos : MayFire(c, i) => Complete(c, layout, i) /\ i \in ToSet(c.ring) /\ layout[i].keys # {}
      BY FedComplete DEF Firing, MayFire, AllIn
    <2>2. QED
      BY <2>1 DEF NewDisjoint, FiresHeld, Firing, ReadyDisjoint, Complete
  <1>5. Firing(c, layout) => Firing(d, layout)
    BY <1>1, <1>2, <1>4, EndFiring DEF Firing
  <1>6. Firing(c, layout) /\ Sound(c, held, layout) => Sound(d, held, layout)
    <2> SUFFICES ASSUME Firing(c, layout), Sound(c, held, layout) PROVE Sound(d, held, layout)
      OBVIOUS
    <2>1. Unclaimed(c, held)
      BY DEF Unclaimed, Settled, KeysIn
    <2>2. QED
      BY <1>1, <1>2, <1>4, <2>1, EndJustified DEF Sound
  <1>7. QED
    BY <1>3, <1>5, <1>6 DEF Kept

(* Nothing happens to the combos, and a switch goes down. *)
LEMMA KeptSame ==
  ASSUME NEW c, Settled(c, held, layout), NEW h, held \subseteq h
  PROVE  Kept(c, c, h)
  <1>1. SameFields(c, c) /\ c \in CState
    BY DEF SameFields, Settled, Waiting
  <1>2. Settled(c, h, layout)
    BY <1>1, SettledSame
  <1>3. Sound(c, held, layout) => Sound(c, h, layout)
    <2>1. \A x : Reason(c, held, layout, x) => Reason(c, h, layout, x)
      BY <1>1, ReasonSame
    <2>2. QED
      BY <2>1 DEF Sound, Justified
  <1>4. QED
    BY <1>2, <1>3 DEF Kept

(* Combos are switched off. *)
LEMMA DisableEnds ==
  ASSUME NEW c, Settled(c, held, layout), NEW e, e = [c EXCEPT !.ring = <<>>],
         NEW d, d = dump_key_buffer(clear_combos(e))
  PROVE  e \in CState /\ Waiting(e) /\ e.ring = <<>> /\ e.combo = c.combo /\ e.keys = c.keys
         /\ e.report = c.report /\ d.lost = c.lost /\ Ends(e, d)
  <1>1. c \in CState /\ Waiting(c)
    BY DEF Settled, Waiting
  <1>2. e \in CState /\ e.ring = <<>> /\ e.combo = c.combo /\ e.keys = c.keys /\ e.report = c.report
        /\ e.lost = c.lost /\ e.part = c.part
    <2>1. PICK q : q = <<>>
      OBVIOUS
    <2>2. q \in Seq(Combos)
      BY <2>1
    <2>3. e = [c EXCEPT !.ring = q]
      BY <2>1
    <2>4. e \in CState /\ e.ring = q /\ e.combo = c.combo /\ e.keys = c.keys /\ e.report = c.report
          /\ e.lost = c.lost /\ e.part = c.part
      BY <1>1, <2>2, <2>3 DEF CState
    <2>5. QED
      BY <2>1, <2>4
  <1>3. Waiting(e)
    <2>1. Distinct(e.ring)
      BY <1>2 DEF Distinct
    <2>2. QED
      BY <1>1, <1>2, <2>1 DEF Waiting, ActiveDisabled
  <1>4. PICK g : g = clear_combos(e)
    OBVIOUS
  <1>5. /\ g \in CState /\ g.keys = e.keys /\ g.ring = e.ring /\ g.report = e.report /\ g.lost = e.lost
        /\ g.part = e.part
        /\ \A i \in Combos : g.combo[i] = IF e.combo[i].active THEN e.combo[i] ELSE Fresh
    BY <1>2, <1>4, ClearEffect
  <1>6. /\ d \in CState
        /\ d.keys = <<>> /\ d.ring = g.ring /\ d.combo = g.combo /\ d.lost = g.lost /\ d.part = g.part
        /\ \A x \in d.report : \/ x \in g.report
                               \/ \E n \in 1..Len(g.keys) : x = g.keys[n].code /\ g.keys[n].kind # "tick"
    BY <1>4, <1>5, DumpEffect
  <1>7. EndCombos(e, d)
    <2> SUFFICES ASSUME NEW i \in Combos
                 PROVE  \/ e.combo[i].active /\ d.combo[i] = e.combo[i]
                        \/ ~e.combo[i].active /\ d.combo[i] = Fresh
      BY DEF EndCombos
    <2>1. QED
      BY <1>5, <1>6
  <1>8. EndReport(e, d)
    <2> SUFFICES ASSUME NEW x \in d.report, x \notin e.report
                 PROVE  \E n \in 1..Len(e.keys) :
                          /\ x = e.keys[n].key
                          /\ \A j \in ToSet(e.ring) : ~e.combo[j].disabled => x \notin layout[j].keys
      BY DEF EndReport
    <2>1. PICK n \in 1..Len(e.keys) : x = e.keys[n].code
      BY <1>5, <1>6
    <2>2. x = e.keys[n].key
      BY <1>3, <2>1 DEF Waiting, Plain
    <2>3. ToSet(e.ring) = {}
      BY <1>2 DEF ToSet
    <2>4. QED
      BY <2>2, <2>3
  <1>9. \E k \in 0..Len(e.ring) : Suffix(d.ring, e.ring, k)
    <2>1. d.ring = <<>> /\ e.ring = <<>>
      BY <1>2, <1>5, <1>6
    <2>2. 0 \in 0..Len(e.ring) /\ Suffix(d.ring, e.ring, 0)
      BY <2>1 DEF Suffix
    <2>3. QED
      BY <2>2
  <1>10. Ends(e, d)
    BY <1>5, <1>6, <1>7, <1>8, <1>9 DEF Ends
  <1>11. QED
    BY <1>2, <1>3, <1>5, <1>6, <1>10

LEMMA KeptOff ==
  ASSUME NEW c, Settled(c, held, layout), layout \in Layouts, NEW d, d = combo_disable(c),
         NEW h, held \subseteq h
  PROVE  Kept(c, d, h)
  <1>1. PICK e : e = [c EXCEPT !.ring = <<>>]
    OBVIOUS
  <1>2. /\ e \in CState /\ Waiting(e) /\ e.ring = <<>> /\ e.combo = c.combo /\ e.keys = c.keys
        /\ e.report = c.report /\ Ends(e, d)
    BY <1>1, DisableEnds DEF combo_disable
  <1>3. ToSet(e.ring) = {} /\ Len(e.ring) = 0
    BY <1>2 DEF ToSet
  <1>4. Ending(c, e, h)
    <2>1. Len(e.ring) < COMBO_BUFFER_LENGTH
      BY <1>3, ComboAssumption
    <2>2. QED
      BY <1>2, <1>3, <2>1 DEF Ending, Settled
  <1>5. \A i \in Combos : ~MayFire(e, i)
    BY <1>3 DEF MayFire
  <1>6. Settled(d, h, layout)
    BY <1>2, <1>4, EndSettled
  <1>7. Firing(c, layout) => Firing(d, layout)
    <2>1. NewDisjoint(e)
      BY <1>5 DEF NewDisjoint
    <2>2. QED
      BY <1>2, <1>4, <2>1, EndFiring DEF Firing
  <1>8. Sound(c, held, layout) => Sound(d, h, layout)
    <2> SUFFICES ASSUME Sound(c, held, layout) PROVE Sound(d, h, layout)
      OBVIOUS
    <2>1. Justified(e, h, layout)
      <3>1. \A x \in e.report : Reason(c, held, layout, x)
        BY <1>2 DEF Sound, Justified
      <3>2. QED
        BY <1>2, <3>1 DEF Justified, Reason
    <2>2. Unclaimed(e, h)
      BY <1>2 DEF Unclaimed, Settled, KeysIn
    <2>3. FiresHeld(e)
      BY <1>5 DEF FiresHeld
    <2>4. QED
      BY <1>2, <1>4, <2>1, <2>2, <2>3, EndJustified DEF Sound
  <1>9. QED
    BY <1>6, <1>7, <1>8 DEF Kept

-----------------------------------------------------------------------------
(* A press that is part of no combo goes on, after the presses before it. *)
LEMMA ProcessKeyEffect ==
  ASSUME NEW d \in CState, NEW key \in Keys, NEW p, p = ProcessKey(d, key)
  PROVE  /\ p \in CState /\ SameFields(d, p) /\ p.lost = d.lost
         /\ key \notin held => p.report \subseteq d.report \cup {key}
         /\ key \in held => p.report \subseteq d.report
         /\ key \in held /\ ~d.part /\ key \notin Switches => key \notin p.report
  <1>1. CASE d.part \/ key \in Switches
    <2>1. p = d
      BY <1>1 DEF ProcessKey
    <2>2. QED
      BY <1>1, <2>1 DEF SameFields
  <1>2. CASE ~(d.part \/ key \in Switches)
    <2>1. PICK r : r = IF key \notin held THEN d.report \cup {key} ELSE d.report \ {key}
      OBVIOUS
    <2>2. key \in Codes /\ d.report \subseteq Codes
      BY CStateFields DEF Codes
    <2>3. r \subseteq Codes
      BY <2>1, <2>2
    <2>4. p = [d EXCEPT !.report = r]
      BY <1>2, <2>1 DEF ProcessKey
    <2>5. p \in CState /\ SameFields(d, p) /\ p.lost = d.lost /\ p.report = r
      BY <2>3, <2>4 DEF CState, SameFields
    <2>6. QED
      BY <2>1, <2>5
  <1>3. QED
    BY <1>1, <1>2

(* A press that is part of no combo leaves the combos as they were. *)
LEMMA PressedNot ==
  ASSUME NEW c, Settled(c, held, layout), NEW e \in CState, NEW key,
         PressedTo(c, e, COMBO_COUNT, key), ~e.part
  PROVE  /\ Ending(c, e, held)
         /\ \A i \in Combos : e.combo[i].state = c.combo[i].state /\ e.combo[i].active = c.combo[i].active
  <1>1. ASSUME NEW i \in Combos
        PROVE  /\ e.combo[i].state = c.combo[i].state /\ e.combo[i].active = c.combo[i].active
               /\ c.combo[i].disabled => e.combo[i].disabled
    BY DEF PressedTo, PressedCombos
  <1>2. e.keys = c.keys
    BY DEF PressedTo, SameBuffer
  <1>3. Waiting(e)
    <2>1. Plain(e.keys) /\ DifferentKeys(e.keys)
      BY <1>2 DEF Settled, Waiting
    <2>2. ActiveDisabled(e)
      BY <1>1 DEF Settled, Waiting, ActiveDisabled
    <2>3. Distinct(e.ring)
      BY DEF PressedTo, PressedRing
    <2>4. QED
      BY <2>1, <2>2, <2>3 DEF Waiting
  <1>4. Len(e.ring) < COMBO_BUFFER_LENGTH /\ ToSet(e.ring) \subseteq UsedCombos
    BY DEF PressedTo, PressedRing
  <1>5. QED
    BY <1>1, <1>2, <1>3, <1>4 DEF Ending, Settled

LEMMA KeptPress ==
  ASSUME NEW c, Settled(c, held, layout), layout \in Layouts, NEW key \in Keys \ Switches, key \notin held,
         NEW e \in CState, PressedTo(c, e, COMBO_COUNT, key), ~e.part,
         NEW p, p = ProcessKey(EndWait(e), key)
  PROVE  Kept(c, p, held \cup {key})
  <1>1. /\ Ending(c, e, held)
        /\ \A i \in Combos : e.combo[i].state = c.combo[i].state /\ e.combo[i].active = c.combo[i].active
    BY PressedNot
  <1>2. PICK d : d = EndWait(e)
    OBVIOUS
  <1>3. Ends(e, d) /\ d \in CState
    <2>1. Ends(e, d)
      BY <1>1, <1>2, EndWaitEnds DEF Ending
    <2>2. QED
      BY <2>1 DEF Ends
  <1>4. p \in CState /\ SameFields(d, p) /\ p.report \subseteq d.report \cup {key}
    BY <1>2, <1>3, ProcessKeyEffect
  <1>5. Settled(d, held, layout)
    BY <1>1, <1>3, EndSettled
  <1>6. Settled(p, held \cup {key}, layout)
    <2>1. held \subseteq held \cup {key}
      OBVIOUS
    <2>2. QED
      BY <1>4, <1>5, <2>1, SettledSame
  <1>7. ASSUME Firing(c, layout), NEW i \in Combos, MayFire(e, i)
        PROVE  Complete(e, layout, i) /\ i \in ToSet(e.ring) /\ layout[i].keys # {}
    <2>1. ~e.combo[i].disabled /\ i \in ToSet(e.ring) /\ AllIn(layout[i].keys, c.keys)
      BY <1>1, <1>7 DEF MayFire, Ending
    <2>2. ~c.combo[i].disabled
      BY <1>1, <2>1 DEF Ending
    <2>3. Complete(c, layout, i)
      BY <1>7, <2>1, <2>2, FedComplete DEF Firing
    <2>4. QED
      BY <1>1, <2>1, <2>3 DEF Complete, AllIn
  <1>8. Firing(c, layout) => NewDisjoint(e) /\ FiresHeld(e)
    <2> SUFFICES ASSUME Firing(c, layout) PROVE NewDisjoint(e) /\ FiresHeld(e)
      OBVIOUS
    <2>1. ReadyDisjoint(e, layout)
      BY DEF PressedTo, PressedRing, Firing
    <2>2. QED
      BY <1>7, <2>1 DEF NewDisjoint, FiresHeld, ReadyDisjoint, Complete
  <1>9. Firing(c, layout) => Firing(p, layout)
    <2> SUFFICES ASSUME Firing(c, layout) PROVE Firing(p, layout)
      OBVIOUS
    <2>1. Firing(d, layout)
      BY <1>1, <1>3, <1>8, EndFiring DEF Firing
    <2>2. QED
      BY <1>4, <2>1, FiringSame
  <1>10. Firing(c, layout) /\ Sound(c, held, layout) => Sound(p, held \cup {key}, layout)
    <2> SUFFICES ASSUME Firing(c, layout), Sound(c, held, layout) PROVE Sound(p, held \cup {key}, layout)
      OBVIOUS
    <2>1. Unclaimed(e, held)
      BY <1>1 DEF Ending, Unclaimed, Settled, KeysIn
    <2>2. Justified(e, held, layout)
      <3>1. e.report = c.report /\ e.keys = c.keys
        BY DEF PressedTo, SameBuffer
      <3>2. ASSUME NEW x, Reason(c, held, layout, x) PROVE Reason(e, held, layout, x)
        BY <1>1, <3>1, <3>2 DEF Reason
      <3>3. QED
        BY <3>1, <3>2 DEF Sound, Justified
    <2>3. Justified(d, held, layout) /\ CompleteInRing(d, layout)
      BY <1>1, <1>3, <1>8, <2>1, <2>2, EndJustified
    <2>4. CompleteInRing(p, layout)
      BY <1>4, <2>3, CompleteSame
    <2>5. ASSUME NEW x \in p.report PROVE Reason(p, held \cup {key}, layout, x)
      <3>1. CASE x \in d.report
        <4>1. Reason(d, held, layout, x)
          BY <2>3, <3>1 DEF Justified
        <4>2. QED
          BY <1>4, <4>1, ReasonSame
      <3>2. CASE x = key
        <4>1. \A i \in Combos : p.combo[i].state \subseteq held
          BY <1>4, <1>5 DEF Settled, SameFields
        <4>2. KeysIn(p.keys) = {}
          BY <1>3, <1>4 DEF Ends, SameFields, KeysIn
        <4>3. QED
          BY <3>2, <4>1, <4>2 DEF Reason
      <3>3. QED
        BY <1>4, <3>1, <3>2
    <2>6. QED
      BY <2>4, <2>5 DEF Sound, Justified
  <1>11. QED
    BY <1>6, <1>9, <1>10 DEF Kept

-----------------------------------------------------------------------------
(* A press that is part of a combo is held back, or dropped if the buffer is *)
(* full.                                                                     *)
LEMMA BufferKeyEffect ==
  ASSUME NEW e \in CState, NEW key \in Keys, NEW d, d = BufferKey(e, key)
  PROVE  /\ d \in CState /\ d.combo = e.combo /\ d.ring = e.ring /\ d.report = e.report
         /\ \/ d.keys = e.keys
            \/ /\ d.keys = Append(e.keys, Queued(key)) /\ Len(e.keys) < COMBO_KEY_BUFFER_LENGTH
               /\ d.lost = e.lost
  <1>1. CASE Len(e.keys) < COMBO_KEY_BUFFER_LENGTH
    <2>1. PICK q : q = Append(e.keys, Queued(key))
      OBVIOUS
    <2>2. q \in Seq(QueuedRecord)
      <3>1. Queued(key) \in QueuedRecord
        BY DEF Queued, QueuedRecord, Codes
      <3>2. QED
        BY <2>1, <3>1, CStateFields
    <2>3. d = [e EXCEPT !.keys = q]
      BY <1>1, <2>1 DEF BufferKey
    <2>4. d \in CState /\ d.combo = e.combo /\ d.ring = e.ring /\ d.report = e.report /\ d.keys = q
          /\ d.lost = e.lost
      BY <2>2, <2>3 DEF CState
    <2>5. QED
      BY <1>1, <2>1, <2>4
  <1>2. CASE ~(Len(e.keys) < COMBO_KEY_BUFFER_LENGTH)
    <2>1. PICK s : s = e.lost \cup {key}
      OBVIOUS
    <2>2. s \subseteq Keys
      BY <2>1, CStateFields
    <2>3. d = [e EXCEPT !.lost = s]
      BY <1>2, <2>1 DEF BufferKey
    <2>4. QED
      BY <2>2, <2>3 DEF CState
  <1>3. QED
    BY <1>1, <1>2

LEMMA AppendedKeys ==
  ASSUME NEW q \in Seq(QueuedRecord), NEW key \in Keys, NEW r, r = Append(q, Queued(key))
  PROVE  /\ Len(r) = Len(q) + 1 /\ KeysIn(r) = KeysIn(q) \cup {key}
         /\ Plain(q) => Plain(r)
         /\ DifferentKeys(q) /\ key \notin KeysIn(q) => DifferentKeys(r)
  <1>1. Len(q) \in Nat
    OBVIOUS
  <1>2. PICK N : N = Len(q) + 1
    OBVIOUS
  <1>3. Queued(key).key = key /\ Queued(key).kind = "key" /\ Queued(key).code = key
    BY DEF Queued
  <1>4. /\ Len(r) = N /\ r[N] = Queued(key) /\ N \in 1..N /\ Len(q) \in Nat
        /\ \A n \in 1..N : n = N \/ n \in 1..Len(q)
        /\ \A n \in 1..Len(q) : n \in 1..N /\ r[n] = q[n] /\ n # N
    BY <1>1, <1>2
  <1>5. KeysIn(r) = KeysIn(q) \cup {key}
    BY <1>3, <1>4 DEF KeysIn
  <1>6. Plain(q) => Plain(r)
    BY <1>3, <1>4 DEF Plain
  <1>7. DifferentKeys(q) /\ key \notin KeysIn(q) => DifferentKeys(r)
    <2> SUFFICES ASSUME DifferentKeys(q), key \notin KeysIn(q), NEW m \in 1..N, NEW n \in 1..N, m # n
                 PROVE  r[m].key # r[n].key
      BY <1>4 DEF DifferentKeys
    <2>1. \A k \in 1..Len(q) : q[k].key # key
      BY DEF KeysIn
    <2>2. CASE m = N
      BY <1>3, <1>4, <2>1, <2>2
    <2>3. CASE n = N
      BY <1>3, <1>4, <2>1, <2>3
    <2>4. CASE m # N /\ n # N
      BY <1>4, <2>4 DEF DifferentKeys
    <2>5. QED
      BY <2>2, <2>3, <2>4
  <1>8. QED
    BY <1>2, <1>4, <1>5, <1>6, <1>7

LEMMA KeptBuffered ==
  ASSUME NEW c, Settled(c, held, layout), layout \in Layouts, NEW key \in Keys \ Switches, key \notin held,
         NEW e \in CState, PressedTo(c, e, COMBO_COUNT, key), e.part,
         NEW d, d = BufferKey(e, key)
  PROVE  Kept(c, d, held \cup {key})
  <1>1. /\ d \in CState /\ d.combo = e.combo /\ d.ring = e.ring /\ d.report = e.report
        /\ \/ d.keys = e.keys
           \/ d.keys = Append(e.keys, Queued(key)) /\ Len(e.keys) < COMBO_KEY_BUFFER_LENGTH
    BY BufferKeyEffect
  <1>2. e.keys = c.keys /\ e.report = c.report /\ b_combo_enable
    BY DEF PressedTo, SameBuffer
  <1>3. c \in CState /\ c.keys \in Seq(QueuedRecord) /\ Len(c.keys) \in Nat
    BY CStateFields DEF Settled, Waiting
  <1>4. /\ Plain(c.keys) /\ DifferentKeys(c.keys) /\ KeysIn(c.keys) \subseteq held \ Switches
        /\ Len(c.keys) <= COMBO_KEY_BUFFER_LENGTH
    BY DEF Settled, Waiting
  <1>5. /\ Plain(d.keys) /\ DifferentKeys(d.keys) /\ KeysIn(d.keys) \subseteq KeysIn(c.keys) \cup {key}
        /\ Len(d.keys) <= COMBO_KEY_BUFFER_LENGTH
    <2>1. CASE d.keys = c.keys
      BY <1>4, <2>1
    <2>2. CASE d.keys = Append(c.keys, Queued(key)) /\ Len(c.keys) < COMBO_KEY_BUFFER_LENGTH
      <3>1. key \notin KeysIn(c.keys)
        BY <1>4
      <3>2. /\ Len(d.keys) = Len(c.keys) + 1 /\ KeysIn(d.keys) = KeysIn(c.keys) \cup {key}
            /\ Plain(d.keys) /\ DifferentKeys(d.keys)
        BY <1>3, <1>4, <2>2, <3>1, AppendedKeys
      <3>3. QED
        BY <1>3, <2>2, <3>2, ComboAssumption
    <2>3. QED
      BY <1>1, <1>2, <2>1, <2>2
  <1>6. ASSUME NEW i \in Combos
        PROVE  /\ c.combo[i].state \subseteq d.combo[i].state
               /\ d.combo[i].state \subseteq c.combo[i].state \cup {key}
               /\ d.combo[i].active = c.combo[i].active
               /\ d.combo[i].active => d.combo[i].disabled /\ d.combo[i].state = c.combo[i].state
               /\ c.combo[i].disabled => d.combo[i].disabled
               /\ c.combo[i].state \subseteq layout[i].keys /\ c.combo[i].state \subseteq held
               /\ d.combo[i].state \subseteq layout[i].keys
               /\ key \in layout[i].keys /\ ~d.combo[i].disabled => key \in d.combo[i].state
    <2>1. i < COMBO_COUNT
      BY ComboAssumption DEF Combos
    <2>2. PressedCombos(c, e, COMBO_COUNT, key) /\ d.combo = e.combo
      BY <1>1 DEF PressedTo
    <2>3. /\ c.combo[i].state \subseteq layout[i].keys /\ c.combo[i].state \subseteq held
          /\ c.combo[i].active => c.combo[i].disabled
      BY DEF Settled, Waiting, ActiveDisabled
    <2>4. QED
      BY <1>2, <2>1, <2>2, <2>3 DEF PressedCombos
  <1>7. PressedRing(c, e)
    BY DEF PressedTo
  <1>8. Settled(d, held \cup {key}, layout)
    <2>1. Waiting(d)
      BY <1>1, <1>5, <1>6, <1>7 DEF Waiting, ActiveDisabled, PressedRing
    <2>2. \A i \in Combos : d.combo[i].state \subseteq layout[i].keys /\ d.combo[i].state \subseteq held \cup {key}
      BY <1>6
    <2>3. Len(d.ring) < COMBO_BUFFER_LENGTH /\ ToSet(d.ring) \subseteq UsedCombos
      BY <1>1, <1>7 DEF PressedRing
    <2>4. KeysIn(d.keys) \subseteq (held \cup {key}) \ Switches
      BY <1>4, <1>5
    <2>5. ASSUME NEW i \in Combos, d.combo[i].active PROVE d.combo[i].state \cap KeysIn(d.keys) = {}
      <3>1. d.combo[i].state = c.combo[i].state /\ c.combo[i].active /\ c.combo[i].state \subseteq held
        BY <1>6, <2>5
      <3>2. c.combo[i].state \cap KeysIn(c.keys) = {}
        BY <3>1 DEF Settled
      <3>3. QED
        BY <1>5, <3>1, <3>2
    <2>6. QED
      BY <1>5, <2>1, <2>2, <2>3, <2>4, <2>5 DEF Settled
  <1>9. Firing(c, layout) => Firing(d, layout)
    <2> SUFFICES ASSUME Firing(c, layout) PROVE Firing(d, layout)
      OBVIOUS
    <2>1. Fed(d, layout)
      <3> SUFFICES ASSUME NEW i \in Combos, ~d.combo[i].disabled
                   PROVE  layout[i].keys \cap KeysIn(d.keys) \subseteq d.combo[i].state
        BY DEF Fed
      <3>1. layout[i].keys \cap KeysIn(c.keys) \subseteq c.combo[i].state
        BY <1>6 DEF Firing, Fed
      <3>2. QED
        BY <1>5, <1>6, <3>1
    <2>2. ReadyDisjoint(d, layout)
      <3>1. ReadyDisjoint(e, layout)
        BY <1>7 DEF PressedRing, Firing
      <3>2. QED
        BY <1>1, <3>1 DEF ReadyDisjoint, Complete
    <2>3. OneActive(d)
      BY <1>6 DEF Firing, OneActive
    <2>4. QED
      BY <2>1, <2>2, <2>3 DEF Firing
  <1>10. RoomForCombos /\ Sound(c, held, layout) => Sound(d, held \cup {key}, layout)
    <2> SUFFICES ASSUME RoomForCombos, Sound(c, held, layout) PROVE Sound(d, held \cup {key}, layout)
      OBVIOUS
    <2>1. CompleteInRing(d, layout)
      <3>1. CompleteInRing(e, layout)
        BY <1>7 DEF PressedRing, Sound
      <3>2. QED
        BY <1>1, <3>1 DEF CompleteInRing, Complete
    <2>2. ASSUME NEW x \in d.report PROVE Reason(d, held \cup {key}, layout, x)
      <3>1. Reason(c, held, layout, x)
        BY <1>1, <1>2 DEF Sound, Justified
      <3>2. CASE x \in held \ Switches /\ x \notin KeysIn(c.keys) /\ \A i \in Combos : x \notin c.combo[i].state
        <4>1. x # key
          BY <3>2
        <4>2. QED
          BY <1>5, <1>6, <3>2, <4>1 DEF Reason
      <3>3. CASE \E i \in Combos : c.combo[i].active /\ layout[i].code = x /\ c.combo[i].state # {}
        BY <1>6, <3>3 DEF Reason
      <3>4. QED
        BY <3>1, <3>2, <3>3 DEF Reason
    <2>3. QED
      BY <2>1, <2>2 DEF Sound, Justified
  <1>11. QED
    BY <1>8, <1>9, <1>10 DEF Kept

-----------------------------------------------------------------------------
(* A key goes up: the wait ends. *)
LEMMA KeptRelease ==
  ASSUME NEW c, Settled(c, held, layout), layout \in Layouts, NEW key \in Keys, key \in held,
         NEW e \in CState, ReleasedTo(c, e, COMBO_COUNT, key),
         NEW p, p = ProcessKey(EndWait(e), key)
  PROVE  Kept(c, p, held \ {key})
  <1>1. ASSUME NEW i \in Combos
        PROVE  /\ e.combo[i].disabled = c.combo[i].disabled
               /\ e.combo[i].state = c.combo[i].state \ {key}
               /\ e.combo[i].active = (c.combo[i].active /\ c.combo[i].state # {key})
    <2>1. i < COMBO_COUNT
      BY ComboAssumption DEF Combos
    <2>2. QED
      BY <2>1 DEF ReleasedTo, ReleasedCombos
  <1>2. e.keys = c.keys /\ ReleasedRing(c, e)
    BY DEF ReleasedTo, SameBuffer
  <1>3. Ending(c, e, held \ {key})
    <2>1. Plain(e.keys) /\ DifferentKeys(e.keys)
      BY <1>2 DEF Settled, Waiting
    <2>2. ActiveDisabled(e)
      BY <1>1 DEF Settled, Waiting, ActiveDisabled
    <2>3. Waiting(e)
      BY <1>2, <2>1, <2>2 DEF Waiting, ReleasedRing
    <2>4. ToSet(e.ring) \subseteq UsedCombos /\ Len(e.ring) < COMBO_BUFFER_LENGTH
      BY <1>2 DEF ReleasedRing, Settled
    <2>5. ASSUME NEW i \in Combos
          PROVE  /\ e.combo[i].state \subseteq c.combo[i].state
                 /\ e.combo[i].state \subseteq held \ {key}
                 /\ e.combo[i].active => c.combo[i].active
                 /\ c.combo[i].disabled => e.combo[i].disabled
      BY <1>1 DEF Settled
    <2>6. QED
      BY <1>2, <2>3, <2>4, <2>5 DEF Ending
  <1>4. PICK d : d = EndWait(e)
    OBVIOUS
  <1>5. Ends(e, d) /\ d \in CState /\ d.part = e.part
    <2>1. Ends(e, d)
      BY <1>3, <1>4, EndWaitEnds DEF Ending
    <2>2. QED
      BY <2>1 DEF Ends
  <1>6. /\ p \in CState /\ SameFields(d, p) /\ p.report \subseteq d.report
        /\ ~e.part /\ key \notin Switches => key \notin p.report
    BY <1>4, <1>5, ProcessKeyEffect
  <1>7. Settled(p, held \ {key}, layout)
    <2>1. Settled(d, held \ {key}, layout)
      BY <1>3, <1>5, EndSettled
    <2>2. QED
      BY <1>6, <2>1, SettledSame
  <1>8. ASSUME Firing(c, layout), NEW i \in Combos, MayFire(e, i)
        PROVE  Complete(c, layout, i) /\ i \in ToSet(c.ring) /\ layout[i].keys # {}
    <2>1. ~c.combo[i].disabled /\ i \in ToSet(c.ring) /\ AllIn(layout[i].keys, c.keys)
      BY <1>1, <1>2, <1>8 DEF MayFire, ReleasedRing
    <2>2. Complete(c, layout, i)
      BY <1>8, <2>1, FedComplete DEF Firing
    <2>3. QED
      BY <2>1, <2>2 DEF AllIn
  <1>9. Firing(c, layout) => Firing(p, layout)
    <2> SUFFICES ASSUME Firing(c, layout) PROVE Firing(p, layout)
      OBVIOUS
    <2>1. NewDisjoint(e)
      BY <1>8 DEF NewDisjoint, Firing, ReadyDisjoint
    <2>2. Firing(d, layout)
      BY <1>3, <1>5, <2>1, EndFiring DEF Firing
    <2>3. QED
      BY <1>6, <2>2, FiringSame
  <1>10. ASSUME NoSingleKeys, Firing(c, layout), Sound(c, held, layout)
         PROVE  Sound(p, held \ {key}, layout)
    <2>1. FiresHeld(e)
      <3> SUFFICES ASSUME NEW i \in Combos, MayFire(e, i) PROVE e.combo[i].state # {}
        BY DEF FiresHeld
      <3>1. c.combo[i].state = layout[i].keys /\ layout[i].keys # {}
        BY <1>8, <1>10 DEF Complete
      <3>2. layout[i].keys # {key}
        BY <1>10 DEF NoSingleKeys
      <3>3. QED
        BY <1>1, <3>1, <3>2
    <2>2. ASSUME NEW x \in e.report
          PROVE  \/ /\ x \in held \ Switches /\ x \notin KeysIn(e.keys)
                    /\ \A i \in Combos : x \notin c.combo[i].state /\ x \notin e.combo[i].state
                 \/ \E i \in Combos : e.combo[i].active /\ layout[i].code = x /\ e.combo[i].state # {}
      <3>1. Reason(c, held, layout, x)
        <4>1. x \in c.report
          BY DEF ReleasedTo, ReleasedCodes
        <4>2. QED
          BY <1>10, <4>1 DEF Sound, Justified
      <3>2. CASE x \in held \ Switches /\ x \notin KeysIn(c.keys) /\ \A i \in Combos : x \notin c.combo[i].state
        BY <1>1, <1>2, <3>2
      <3>3. CASE \E i \in Combos : c.combo[i].active /\ layout[i].code = x /\ c.combo[i].state # {}
        <4>1. PICK i \in Combos : c.combo[i].active /\ layout[i].code = x /\ c.combo[i].state # {}
          BY <3>3
        <4>2. c.combo[i].state # {key}
          <5>1. i < COMBO_COUNT
            BY ComboAssumption DEF Combos
          <5>2. QED
            BY <4>1, <5>1 DEF ReleasedTo, ReleasedCodes
        <4>3. e.combo[i].active /\ e.combo[i].state # {}
          <5>1. e.combo[i].state = c.combo[i].state \ {key} /\ e.combo[i].active
            BY <1>1, <4>1, <4>2
          <5>2. c.combo[i].state \ {key} # {}
            BY <4>1, <4>2
          <5>3. QED
            BY <5>1, <5>2
        <4>4. QED
          BY <4>1, <4>3
      <3>4. QED
        BY <3>1, <3>2, <3>3 DEF Reason
    <2>3. \A n \in 1..Len(e.keys) : e.keys[n].key \in held \ Switches /\ e.keys[n].key \in KeysIn(c.keys)
      BY <1>2 DEF Settled, KeysIn
    <2>4. CompleteInRing(d, layout) => CompleteInRing(p, layout)
      BY <1>6, CompleteSame
    <2>5. CASE key \notin Switches /\ ~e.part
      <3>1. Justified(e, held, layout)
        BY <2>2 DEF Justified, Reason
      <3>2. Unclaimed(e, held)
        BY <2>3 DEF Unclaimed
      <3>3. Justified(d, held, layout) /\ CompleteInRing(d, layout)
        BY <1>3, <1>5, <2>1, <3>1, <3>2, EndJustified
      <3>4. ASSUME NEW x \in p.report PROVE Reason(p, held \ {key}, layout, x)
        <4>1. x # key /\ x \in d.report
          BY <1>6, <2>5
        <4>2. Reason(d, held, layout, x)
          BY <3>3, <4>1 DEF Justified
        <4>3. QED
          BY <1>6, <4>1, <4>2, ReasonSame
      <3>5. QED
        BY <2>4, <3>3, <3>4 DEF Sound, Justified
    <2>6. CASE key \in Switches \/ e.part
      <3>1. ASSUME e.part
            PROVE  \E j \in Combos : key \in c.combo[j].state /\ (c.combo[j].active \/ Complete(c, layout, j))
        BY <3>1 DEF ReleasedTo, ReleasedPart
      <3>2. Justified(e, held \ {key}, layout)
        <4> SUFFICES ASSUME NEW x \in e.report PROVE Reason(e, held \ {key}, layout, x)
          BY DEF Justified
        <4>1. CASE /\ x \in held \ Switches /\ x \notin KeysIn(e.keys)
                   /\ \A i \in Combos : x \notin c.combo[i].state /\ x \notin e.combo[i].state
          <5>1. x # key
            BY <2>6, <3>1, <4>1
          <5>2. QED
            BY <4>1, <5>1 DEF Reason
        <4>2. CASE \E i \in Combos : e.combo[i].active /\ layout[i].code = x /\ e.combo[i].state # {}
          BY <4>2 DEF Reason
        <4>3. QED
          BY <2>2, <4>1, <4>2
      <3>3. Unclaimed(e, held \ {key})
        <4> SUFFICES ASSUME NEW n \in 1..Len(e.keys), e.keys[n].key \notin (held \ {key}) \ Switches
                     PROVE  \E j \in ToSet(e.ring) : ~e.combo[j].disabled /\ e.keys[n].key \in layout[j].keys
          BY DEF Unclaimed
        <4>1. e.keys[n].key = key /\ key \notin Switches /\ key \in KeysIn(c.keys)
          BY <2>3
        <4>2. PICK j \in Combos : key \in c.combo[j].state /\ (c.combo[j].active \/ Complete(c, layout, j))
          BY <2>6, <3>1, <4>1
        <4>3. ~c.combo[j].active
          BY <4>1, <4>2 DEF Settled
        <4>4. Complete(c, layout, j) /\ key \in layout[j].keys
          BY <4>2, <4>3 DEF Complete
        <4>5. j \in ToSet(c.ring) /\ ~c.combo[j].disabled
          BY <1>10, <4>3, <4>4 DEF Sound, CompleteInRing, Complete
        <4>6. j \in ToSet(e.ring) /\ ~e.combo[j].disabled
          BY <1>1, <1>2, <4>5 DEF ReleasedRing
        <4>7. QED
          BY <4>1, <4>4, <4>6
      <3>4. Justified(d, held \ {key}, layout) /\ CompleteInRing(d, layout)
        BY <1>3, <1>5, <2>1, <3>2, <3>3, EndJustified
      <3>5. ASSUME NEW x \in p.report PROVE Reason(p, held \ {key}, layout, x)
        <4>1. Reason(d, held \ {key}, layout, x)
          BY <1>6, <3>4 DEF Justified
        <4>2. QED
          BY <1>6, <4>1, ReasonSame
      <3>6. QED
        BY <2>4, <3>4, <3>5 DEF Sound, Justified
    <2>7. QED
      BY <2>5, <2>6
  <1>11. QED
    BY <1>7, <1>9, <1>10 DEF Kept

-----------------------------------------------------------------------------
(* The inductive invariant. *)
ComboInv ==
  /\ TypeOK
  /\ Settled(State, held, layout)
  /\ ~edited => Firing(State, layout)
  /\ RoomForCombos /\ NoSingleKeys /\ ~edited => Sound(State, held, layout)

(* The part of TypeOK that is not about what process_combo works on. *)
RestOK ==
  /\ held \subseteq Keys
  /\ now \in Time /\ timer \in Time
  /\ b_combo_enable \in BOOLEAN /\ unset \in BOOLEAN /\ edited \in BOOLEAN
  /\ layout \in Layouts

LEMMA NextType ==
  ASSUME Settled(State', held', layout'), RestOK'
  PROVE  TypeOK'
  <1>1. PICK s : s = State'
    OBVIOUS
  <1>2. /\ s.combo = combo' /\ s.longest = longest_term' /\ s.keys = key_buffer' /\ s.ring = combo_buffer'
        /\ s.report = report' /\ s.lost = lost'
    BY <1>1 DEF State
  <1>3. s \in CState /\ Settled(s, held', layout')
    BY <1>1 DEF Settled, Waiting
  <1>4. /\ combo' \in [Combos -> ComboRecord] /\ longest_term' \in {0, COMBO_TERM}
        /\ key_buffer' \in Seq(QueuedRecord) /\ combo_buffer' \in Seq(Combos)
        /\ report' \subseteq Codes /\ lost' \subseteq Keys
    BY <1>2, <1>3, CStateFields
  <1>5. /\ \A i \in Combos : combo'[i].state \subseteq layout'[i].keys
        /\ Len(key_buffer') <= COMBO_KEY_BUFFER_LENGTH /\ Len(combo_buffer') < COMBO_BUFFER_LENGTH
    BY <1>2, <1>3 DEF Settled
  <1>6. QED
    BY <1>4, <1>5 DEF TypeOK, RestOK

(* What an event makes of the state becomes the state. *)
LEMMA NextKept ==
  ASSUME ComboInv, NEW d, Kept(State, d, held'), Becomes(d), RestOK', layout' = layout, edited' = edited
  PROVE  ComboInv'
  <1>1. PICK s : s = State'
    OBVIOUS
  <1>2. /\ s.combo = combo' /\ s.longest = longest_term' /\ s.keys = key_buffer' /\ s.ring = combo_buffer'
        /\ s.report = report' /\ s.lost = lost' /\ s.part = FALSE
    BY <1>1 DEF State
  <1>3. d \in CState /\ Settled(d, held', layout)
    BY DEF Kept, Settled, Waiting
  <1>4. SameFields(d, s) /\ s.report = d.report
    BY <1>2 DEF Becomes, SameFields
  <1>5. s \in CState
    <2>1. /\ combo' \in [Combos -> ComboRecord] /\ longest_term' \in {0, COMBO_TERM}
          /\ key_buffer' \in Seq(QueuedRecord) /\ combo_buffer' \in Seq(Combos)
          /\ report' \subseteq Codes /\ lost' \subseteq Keys
      BY <1>3, CStateFields DEF Becomes
    <2>2. QED
      BY <1>1, <2>1 DEF State, CState
  <1>6. PICK h : h = held'
    OBVIOUS
  <1>7. Settled(s, h, layout)
    BY <1>3, <1>4, <1>5, <1>6, SettledSame
  <1>8. Settled(State', held', layout')
    BY <1>1, <1>6, <1>7
  <1>9. TypeOK'
    BY <1>8, NextType
  <1>10. ~edited' => Firing(State', layout')
    <2> SUFFICES ASSUME ~edited PROVE Firing(s, layout)
      BY <1>1
    <2>1. Firing(d, layout)
      BY DEF ComboInv, Kept
    <2>2. QED
      BY <1>4, <2>1, FiringSame
  <1>11. RoomForCombos /\ NoSingleKeys /\ ~edited' => Sound(State', held', layout')
    <2> SUFFICES ASSUME RoomForCombos, NoSingleKeys, ~edited PROVE Sound(s, h, layout)
      BY <1>1, <1>6
    <2>1. Sound(d, h, layout)
      BY <1>6 DEF ComboInv, Kept
    <2>2. CompleteInRing(s, layout)
      BY <1>4, <2>1, CompleteSame DEF Sound
    <2>3. \A x : Reason(d, h, layout, x) => Reason(s, h, layout, x)
      BY <1>4, ReasonSame
    <2>4. QED
      BY <1>4, <2>1, <2>2, <2>3 DEF Sound, Justified
  <1>12. QED
    BY <1>8, <1>9, <1>10, <1>11 DEF ComboInv

LEMMA PressSwitchKeeps ==
  ASSUME ComboInv, NEW key \in Keys, PressSwitch(key)
  PROVE  ComboInv'
  <1>1. Settled(State, held, layout) /\ TypeOK /\ layout \in Layouts
    BY DEF ComboInv, TypeOK
  <1>2. PICK on : on = (SwitchOf[key] = "on" \/ (SwitchOf[key] = "toggle" /\ ~b_combo_enable))
    OBVIOUS
  <1>3. PICK d : d = IF on THEN State ELSE combo_disable(State)
    OBVIOUS
  <1>4. /\ held' = held \cup {key} /\ Becomes(d) /\ layout' = layout /\ edited' = edited
        /\ b_combo_enable' = on /\ timer' \in {timer, 0} /\ unset' = (unset /\ on) /\ now' = now
    BY <1>2, <1>3 DEF PressSwitch
  <1>5. RestOK'
    <2>1. on \in BOOLEAN
      BY <1>2
    <2>2. 0 \in Time
      BY <1>1, ComboAssumption DEF TypeOK, Time
    <2>3. QED
      BY <1>1, <1>4, <2>1, <2>2 DEF TypeOK, RestOK
  <1>6. PICK c : c = State
    OBVIOUS
  <1>7. PICK h : h = held \cup {key}
    OBVIOUS
  <1>8. Kept(c, d, h)
    <2>1. held \subseteq h /\ Settled(c, held, layout)
      BY <1>1, <1>6, <1>7
    <2>2. CASE on
      <3>1. d = c
        BY <1>3, <1>6, <2>2
      <3>2. QED
        BY <2>1, <3>1, KeptSame
    <2>3. CASE ~on
      <3>1. d = combo_disable(c)
        BY <1>3, <1>6, <2>3
      <3>2. QED
        BY <1>1, <2>1, <3>1, KeptOff
    <2>4. QED
      BY <2>2, <2>3
  <1>9. QED
    BY <1>4, <1>5, <1>6, <1>7, <1>8, NextKept

LEMMA KeyEventKeeps ==
  ASSUME ComboInv, NEW key \in Keys, KeyEvent(key)
  PROVE  ComboInv'
  <1>1. Settled(State, held, layout) /\ TypeOK /\ layout \in Layouts
    BY DEF ComboInv, TypeOK
  <1>2. PICK e : e = OfferedToCombos(key)
    OBVIOUS
  <1>3. PICK c : c = State
    OBVIOUS
  <1>4. Settled(c, held, layout)
    BY <1>1, <1>3
  <1>5. /\ ~(key \in Switches /\ key \notin held)
        /\ now' = now /\ b_combo_enable' = b_combo_enable /\ layout' = layout /\ edited' = edited
        /\ key \notin held => held' = held \cup {key}
        /\ key \in held => held' = held \ {key}
        /\ timer' \in {timer, now, 0} /\ unset' \in BOOLEAN
        /\ \/ e.part /\ key \notin held /\ Becomes(BufferKey(e, key))
           \/ ~(e.part /\ key \notin held) /\ Becomes(ProcessKey(EndWait(e), key))
    BY <1>2 DEF KeyEvent
  <1>6. RestOK'
    <2>1. 0 \in Time
      BY <1>1, ComboAssumption DEF TypeOK, Time
    <2>2. held' \subseteq Keys
      BY <1>1, <1>5 DEF TypeOK
    <2>3. QED
      BY <1>1, <1>5, <2>1, <2>2 DEF TypeOK, RestOK
  <1>7. PICK h : h = held'
    OBVIOUS
  <1>8. CASE key \notin held
    <2>1. e \in CState /\ PressedTo(c, e, COMBO_COUNT, key)
      BY <1>1, <1>2, <1>3, <1>8, PressedAll
    <2>2. key \in Keys \ Switches /\ h = held \cup {key}
      BY <1>5, <1>7, <1>8
    <2>3. CASE e.part
      <3>1. PICK d : d = BufferKey(e, key)
        OBVIOUS
      <3>2. Becomes(d)
        BY <1>5, <1>8, <2>3, <3>1
      <3>3. Kept(c, d, h)
        BY <1>1, <1>4, <1>8, <2>1, <2>2, <2>3, <3>1, KeptBuffered
      <3>4. QED
        BY <1>3, <1>5, <1>6, <1>7, <3>2, <3>3, NextKept
    <2>4. CASE ~e.part
      <3>1. PICK d : d = ProcessKey(EndWait(e), key)
        OBVIOUS
      <3>2. Becomes(d)
        BY <1>5, <2>4, <3>1
      <3>3. Kept(c, d, h)
        BY <1>1, <1>4, <1>8, <2>1, <2>2, <2>4, <3>1, KeptPress
      <3>4. QED
        BY <1>3, <1>5, <1>6, <1>7, <3>2, <3>3, NextKept
    <2>5. QED
      BY <2>3, <2>4
  <1>9. CASE key \in held
    <2>1. e \in CState /\ ReleasedTo(c, e, COMBO_COUNT, key)
      BY <1>1, <1>2, <1>3, <1>9, ReleasedAll
    <2>2. PICK d : d = ProcessKey(EndWait(e), key)
      OBVIOUS
    <2>3. Becomes(d)
      BY <1>5, <1>9, <2>2
    <2>4. h = held \ {key}
      BY <1>5, <1>7, <1>9
    <2>5. Kept(c, d, h)
      BY <1>1, <1>4, <1>9, <2>1, <2>2, <2>4, KeptRelease
    <2>6. QED
      BY <1>3, <1>5, <1>6, <1>7, <2>3, <2>5, NextKept
  <1>10. QED
    BY <1>8, <1>9

LEMMA TaskKeeps ==
  ASSUME ComboInv, NEW g \in 1..MaxGap, combo_task(g)
  PROVE  ComboInv'
  <1>1. Settled(State, held, layout) /\ TypeOK /\ layout \in Layouts
    BY DEF ComboInv, TypeOK
  <1>2. PICK t : t = (now + g) % TimerRange
    OBVIOUS
  <1>3. PICK over : over = (b_combo_enable /\ timer # 0 /\ (t - timer) % TimerRange > longest_term)
    OBVIOUS
  <1>4. PICK d : d = IF over THEN EndWait(State) ELSE State
    OBVIOUS
  <1>5. /\ now' = t /\ timer' \in {timer, 0} /\ unset' = (unset /\ ~over) /\ Becomes(d)
        /\ held' = held /\ b_combo_enable' = b_combo_enable /\ layout' = layout /\ edited' = edited
    BY <1>2, <1>3, <1>4 DEF combo_task
  <1>6. RestOK'
    <2>1. TimerRange \in Nat \ {0} /\ now + g \in Int
      BY <1>1, ComboAssumption DEF TypeOK, Time
    <2>2. t \in Time
      BY <1>2, <2>1, ModInRange DEF Time
    <2>3. 0 \in Time
      BY <2>1 DEF Time
    <2>4. QED
      BY <1>1, <1>5, <2>2, <2>3 DEF TypeOK, RestOK
  <1>7. PICK c : c = State
    OBVIOUS
  <1>8. Kept(c, d, held)
    <2>1. Settled(c, held, layout)
      BY <1>1, <1>7
    <2>2. CASE over
      <3>1. d = EndWait(c)
        BY <1>4, <1>7, <2>2
      <3>2. QED
        BY <1>1, <2>1, <3>1, KeptTask
    <2>3. CASE ~over
      <3>1. d = c
        BY <1>4, <1>7, <2>3
      <3>2. QED
        BY <2>1, <3>1, KeptSame
    <2>4. QED
      BY <2>2, <2>3
  <1>9. Kept(State, d, held')
    BY <1>5, <1>7, <1>8
  <1>10. QED
    BY <1>5, <1>6, <1>9, NextKept

(* Fresh combos: nothing is complete that has a key. *)
LEMMA FreshFacts ==
  ASSUME NEW c, NEW l, \A i \in Combos : c.combo[i] = Fresh, ToSet(c.ring) \subseteq Combos, KeysIn(c.keys) = {}
  PROVE  Firing(c, l) /\ CompleteInRing(c, l)
  <1>1. \A i \in Combos : c.combo[i].state = {} /\ ~c.combo[i].active
    BY DEF Fresh
  <1>2. Fed(c, l) /\ OneActive(c)
    BY <1>1 DEF Fed, OneActive
  <1>3. ReadyDisjoint(c, l) /\ CompleteInRing(c, l)
    BY <1>1 DEF ReadyDisjoint, CompleteInRing, Complete
  <1>4. QED
    BY <1>2, <1>3 DEF Firing

LEMMA ReloadKeeps ==
  ASSUME ComboInv, NEW l \in Layouts, reload_combo(l)
  PROVE  ComboInv'
  <1>1. Settled(State, held, layout) /\ TypeOK
    BY DEF ComboInv
  <1>2. /\ layout' = l /\ combo' = [i \in Combos |-> Fresh] /\ edited' = (edited \/ held # {})
        /\ held' = held /\ now' = now /\ timer' = timer /\ b_combo_enable' = b_combo_enable
        /\ longest_term' = longest_term /\ key_buffer' = key_buffer /\ combo_buffer' = combo_buffer
        /\ report' = report /\ lost' = lost /\ unset' = unset
    BY DEF reload_combo
  <1>3. PICK s : s = State'
    OBVIOUS
  <1>4. PICK c : c = State
    OBVIOUS
  <1>5. /\ s.combo = combo' /\ s.longest = longest_term /\ s.keys = c.keys /\ s.ring = c.ring
        /\ s.report = c.report /\ s.lost = lost /\ s.part = FALSE
        /\ c.keys = key_buffer /\ c.ring = combo_buffer /\ c.report = report
    BY <1>2, <1>3, <1>4 DEF State
  <1>6. \A i \in Combos : s.combo[i] = Fresh
    BY <1>2, <1>5
  <1>7. Settled(c, held, layout)
    BY <1>1, <1>4
  <1>8. s \in CState
    <2>1. Fresh \in ComboRecord
      BY DEF Fresh, ComboRecord
    <2>2. combo' \in [Combos -> ComboRecord]
      BY <1>2, <2>1
    <2>3. QED
      BY <1>1, <1>2, <1>3, <2>2 DEF State, CState, TypeOK
  <1>9. Settled(s, held, l)
    <2>1. Waiting(s)
      BY <1>5, <1>6, <1>7, <1>8 DEF Settled, Waiting, ActiveDisabled, Fresh
    <2>2. \A i \in Combos : s.combo[i].state = {} /\ ~s.combo[i].active
      BY <1>6 DEF Fresh
    <2>3. QED
      BY <1>5, <1>7, <2>1, <2>2 DEF Settled
  <1>10. RestOK'
    BY <1>1, <1>2 DEF TypeOK, RestOK
  <1>11. Settled(State', held', layout')
    BY <1>2, <1>3, <1>9
  <1>12. TypeOK'
    BY <1>10, <1>11, NextType
  <1>13. ASSUME ~edited'
         PROVE  ~edited /\ held = {} /\ Firing(s, l) /\ CompleteInRing(s, l)
    <2>1. ~edited /\ held = {}
      BY <1>2, <1>13
    <2>2. KeysIn(s.keys) = {} /\ ToSet(s.ring) \subseteq Combos
      BY <1>9, <2>1 DEF Settled, UsedCombos
    <2>3. QED
      BY <1>6, <2>1, <2>2, FreshFacts
  <1>14. ASSUME RoomForCombos, NoSingleKeys, ~edited' PROVE Sound(s, held, l)
    <2>1. ~edited /\ held = {} /\ CompleteInRing(s, l)
      BY <1>13, <1>14
    <2>2. Justified(c, held, layout)
      BY <1>4, <1>14, <2>1 DEF ComboInv, Sound
    <2>3. \A i \in Combos : c.combo[i].state = {}
      BY <1>7, <2>1 DEF Settled
    <2>4. \A x : ~Reason(c, held, layout, x)
      BY <2>1, <2>3 DEF Reason
    <2>5. \A x \in s.report : FALSE
      BY <1>5, <2>2, <2>4 DEF Justified
    <2>6. QED
      BY <2>1, <2>5 DEF Sound, Justified
  <1>15. ~edited' => Firing(State', layout')
    BY <1>2, <1>3, <1>13
  <1>16. RoomForCombos /\ NoSingleKeys /\ ~edited' => Sound(State', held', layout')
    BY <1>2, <1>3, <1>14
  <1>17. QED
    BY <1>11, <1>12, <1>15, <1>16 DEF ComboInv

LEMMA InitHolds ==
  ASSUME Init
  PROVE  ComboInv
  <1>1. PICK s : s = State
    OBVIOUS
  <1>2. /\ s.combo = [i \in Combos |-> Fresh] /\ s.longest = 0 /\ s.keys = <<>> /\ s.ring = <<>>
        /\ s.report = {} /\ s.lost = {} /\ s.part = FALSE
    BY <1>1 DEF Init, State
  <1>3. \A i \in Combos : s.combo[i] = Fresh /\ s.combo[i].state = {} /\ ~s.combo[i].active
    BY <1>2 DEF Fresh
  <1>4. s.combo \in [Combos -> ComboRecord]
    <2>1. Fresh \in ComboRecord
      BY DEF Fresh, ComboRecord
    <2>2. QED
      BY <1>2, <2>1
  <1>5. s \in CState
    <2>1. /\ combo = s.combo /\ longest_term = 0 /\ key_buffer = <<>> /\ combo_buffer = <<>>
          /\ report = {} /\ lost = {}
      BY <1>2 DEF Init
    <2>2. QED
      BY <1>1, <1>4, <2>1 DEF State, CState
  <1>6. KeysIn(s.keys) = {} /\ ToSet(s.ring) = {} /\ Len(s.keys) = 0 /\ Len(s.ring) = 0
    BY <1>2 DEF KeysIn, ToSet
  <1>7. Waiting(s)
    <2>1. Plain(s.keys) /\ DifferentKeys(s.keys) /\ Distinct(s.ring)
      BY <1>6 DEF Plain, DifferentKeys, Distinct
    <2>2. QED
      BY <1>3, <1>5, <2>1 DEF Waiting, ActiveDisabled
  <1>8. Settled(s, held, layout)
    <2>1. Len(s.ring) < COMBO_BUFFER_LENGTH /\ Len(s.keys) <= COMBO_KEY_BUFFER_LENGTH
      BY <1>6, ComboAssumption
    <2>2. QED
      BY <1>3, <1>6, <1>7, <2>1 DEF Settled
  <1>9. TypeOK
    <2>1. 0 \in Time
      BY ComboAssumption DEF Time
    <2>2. combo = s.combo /\ \A i \in Combos : combo[i].state = {}
      BY <1>2, <1>3 DEF Init
    <2>3. key_buffer \in Seq(QueuedRecord) /\ combo_buffer \in Seq(Combos)
          /\ Len(key_buffer) = 0 /\ Len(combo_buffer) = 0
      BY DEF Init
    <2>4. Len(key_buffer) <= COMBO_KEY_BUFFER_LENGTH /\ Len(combo_buffer) < COMBO_BUFFER_LENGTH
      BY <2>3, ComboAssumption
    <2>5. /\ held = {} /\ now = 0 /\ timer = 0 /\ b_combo_enable = TRUE /\ unset = FALSE /\ edited = FALSE
          /\ layout \in Layouts /\ longest_term = 0 /\ report = {} /\ lost = {}
      BY DEF Init
    <2>6. QED
      BY <1>4, <2>1, <2>2, <2>3, <2>4, <2>5 DEF TypeOK
  <1>10. Firing(s, layout) /\ CompleteInRing(s, layout)
    <2>1. \A i \in Combos : s.combo[i] = Fresh
      BY <1>3
    <2>2. ToSet(s.ring) \subseteq Combos
      BY <1>6
    <2>3. QED
      BY <1>6, <2>1, <2>2, FreshFacts
  <1>11. Sound(s, held, layout)
    BY <1>2, <1>10 DEF Sound, Justified
  <1>12. QED
    BY <1>1, <1>8, <1>9, <1>10, <1>11 DEF ComboInv

LEMMA NextHolds ==
  ASSUME ComboInv, [Next]_vars
  PROVE  ComboInv'
  <1>1. CASE \E key \in Keys : PressSwitch(key)
    BY <1>1, PressSwitchKeeps
  <1>2. CASE \E key \in Keys : KeyEvent(key)
    BY <1>2, KeyEventKeeps
  <1>3. CASE Task
    BY <1>3, TaskKeeps DEF Task
  <1>4. CASE \E l \in Layouts : reload_combo(l)
    BY <1>4, ReloadKeeps
  <1>5. CASE UNCHANGED vars
    <2>1. State' = State /\ held' = held /\ layout' = layout /\ edited' = edited
      BY <1>5 DEF vars, State
    <2>2. TypeOK'
      BY <1>5 DEF vars, TypeOK, ComboInv
    <2>3. QED
      BY <2>1, <2>2 DEF ComboInv
  <1>6. QED
    BY <1>1, <1>2, <1>3, <1>4, <1>5 DEF Next

(***************************************************************************)
(* Type correctness, with what the code needs of it: a combo counts only   *)
(* keys of its own, the key buffer never holds more than                   *)
(* COMBO_KEY_BUFFER_LENGTH records and the ring always has a free slot.    *)
(***************************************************************************)
THEOREM ComboTypeCorrectness == Spec => []TypeOK
  <1>1. Init => ComboInv
    BY InitHolds
  <1>2. ComboInv /\ [Next]_vars => ComboInv'
    BY NextHolds
  <1>3. ComboInv => TypeOK
    BY DEF ComboInv
  <1>4. QED
    BY <1>1, <1>2, <1>3, PTL DEF Spec

(***************************************************************************)
(* Of overlapping combos only one fires (overlaps, drop_combo_from_buffer  *)
(* and apply_combos): no key that is down belongs to two active combos,    *)
(* for any number of combos of any keys, however the ring wraps and        *)
(* whenever combos are switched off and on.                                *)
(***************************************************************************)
THEOREM OverlappingCombosExclude == Spec => []OneComboPerKey
  <1>1. Init => ComboInv
    BY InitHolds
  <1>2. ComboInv /\ [Next]_vars => ComboInv'
    BY NextHolds
  <1>3. ComboInv => OneComboPerKey
    <2> SUFFICES ASSUME ComboInv, ~edited PROVE OneComboPerKey
      BY DEF OneComboPerKey
    <2>1. OneActive(State)
      BY DEF ComboInv, Firing
    <2>2. State.combo = combo
      BY DEF State
    <2>3. QED
      BY <2>1, <2>2 DEF OneActive, OneComboPerKey
  <1>4. QED
    BY <1>1, <1>2, <1>3, PTL DEF Spec

(***************************************************************************)
(* No key is stuck (process_combo, release_combo, dump_key_buffer): when   *)
(* all keys are up nothing is registered and nothing is held back, if the  *)
(* combo buffer has a place for every combo the host may use and none of   *)
(* them has a single key.  Both are needed: a combo that is complete but   *)
(* not in the ring swallows the release of a key whose press is dumped,    *)
(* and a combo of one key that is tapped within the term fires when its    *)
(* key is up already.                                                      *)
(***************************************************************************)
THEOREM CombosLeaveNothingStuck ==
  ASSUME RoomForCombos, NoSingleKeys
  PROVE  Spec => []NoStuckKeys
  <1>1. Init => ComboInv
    BY InitHolds
  <1>2. ComboInv /\ [Next]_vars => ComboInv'
    BY NextHolds
  <1>3. ComboInv => NoStuckKeys
    <2> SUFFICES ASSUME ComboInv, held = {}, ~edited PROVE report = {} /\ key_buffer = <<>>
      BY DEF NoStuckKeys
    <2>1. PICK s : s = State
      OBVIOUS
    <2>2. s.report = report /\ s.keys = key_buffer
      BY <2>1 DEF State
    <2>3. Settled(s, {}, layout) /\ Justified(s, {}, layout)
      BY <2>1 DEF ComboInv, Sound
    <2>4. \A x : ~Reason(s, {}, layout, x)
      BY <2>3 DEF Reason, Settled
    <2>5. report = {}
      BY <2>2, <2>3, <2>4 DEF Justified
    <2>6. KeysIn(s.keys) = {} /\ s.keys \in Seq(QueuedRecord)
      BY <2>3, CStateFields DEF Settled, Waiting
    <2>7. s.keys = <<>>
      <3> SUFFICES ASSUME s.keys # <<>> PROVE FALSE
        OBVIOUS
      <3>1. 1 \in 1..Len(s.keys)
        BY <2>6
      <3>2. s.keys[1].key \in KeysIn(s.keys)
        BY <3>1 DEF KeysIn
      <3>3. QED
        BY <2>6, <3>2
    <2>8. QED
      BY <2>2, <2>5, <2>7
  <1>4. QED
    BY <1>1, <1>2, <1>3, PTL DEF Spec

-----------------------------------------------------------------------------
(* No press is lost.  The ring is clean when its combos are enabled, their   *)
(* keys are all in the buffer and no two overlap: each is applied in turn,   *)
(* takes its own records, and leaves the ring.                               *)
CleanRing(c) ==
  /\ \A i \in ToSet(c.ring) : ~c.combo[i].disabled /\ layout[i].keys \subseteq KeysIn(c.keys)
  /\ \A i, j \in ToSet(c.ring) : i # j => layout[i].keys \cap layout[j].keys = {}
LossTo(c, d, n) == d.lost = c.lost /\ Suffix(d.ring, c.ring, n)

LEMMA LossStep ==
  ASSUME NEW c, Waiting(c), layout \in Layouts, CleanRing(c),
         NEW n \in 1..Len(c.ring), NEW d \in CState, AppliedTo(c, d, n - 1), LossTo(c, d, n - 1),
         NEW e, e = apply_combo(d, c.ring[n])
  PROVE  LossTo(c, e, n)
  <1>1. /\ c \in CState /\ c.ring \in Seq(Combos) /\ Len(c.ring) \in Nat /\ d.ring \in Seq(Combos)
        /\ n \in Nat /\ n - 1 \in Nat /\ n <= Len(c.ring)
    BY CStateFields DEF Waiting
  <1>2. PICK i : i = c.ring[n]
    OBVIOUS
  <1>3. i \in Combos /\ i \in ToSet(c.ring)
    BY <1>1, <1>2 DEF ToSet
  <1>4. ASSUME NEW j, Among(c.ring, n - 1, j) PROVE j # i /\ j \in ToSet(c.ring)
    <2>1. PICK p \in 1..(n - 1) : c.ring[p] = j
      BY <1>4 DEF Among
    <2>2. p \in 1..Len(c.ring) /\ p # n
      BY <1>1, <2>1
    <2>3. c.ring[p] # c.ring[n]
      BY <2>2 DEF Waiting, Distinct
    <2>4. j \in ToSet(c.ring)
      BY <1>1, <2>1, <2>2 DEF ToSet
    <2>5. QED
      BY <1>2, <2>1, <2>3, <2>4
  <1>5. ~d.combo[i].disabled
    <2>1. d.combo[i].disabled = (c.combo[i].disabled \/ Among(c.ring, n - 1, i))
      BY <1>3 DEF AppliedTo, AppliedCombos
    <2>2. QED
      BY <1>3, <1>4, <2>1 DEF CleanRing
  <1>6. ApplyLoses(d, e, i) /\ e.ring = Dropped(d.ring, i)
    BY <1>2, <1>3, <1>5, ApplyEffect
  <1>7. Len(d.keys) = Len(c.keys) /\ \A m \in 1..Len(c.keys) : d.keys[m].key = c.keys[m].key
    BY DEF AppliedTo, AppliedData
  <1>8. layout[i].keys \subseteq KeysIn(d.keys)
    <2>1. KeysIn(d.keys) = KeysIn(c.keys)
      BY <1>7 DEF KeysIn
    <2>2. QED
      BY <1>3, <2>1 DEF CleanRing
  <1>9. ASSUME NEW m \in 1..Len(d.keys), d.keys[m].key \in layout[i].keys PROVE d.keys[m].kind # "combo"
    <2>1. m \in 1..Len(c.keys) /\ c.keys[m].key \in layout[i].keys
      BY <1>7, <1>9
    <2>2. CASE d.keys[m] = c.keys[m]
      BY <2>1, <2>2 DEF Waiting, Plain
    <2>3. CASE d.keys[m].kind = "tick"
      BY <2>3
    <2>4. ASSUME NEW j \in Combos, Among(c.ring, n - 1, j), c.keys[m].key \in layout[j].keys PROVE FALSE
      BY <1>3, <1>4, <2>1, <2>4 DEF CleanRing
    <2>5. QED
      BY <2>1, <2>2, <2>3, <2>4 DEF AppliedTo, AppliedRecords
  <1>10. e.lost = c.lost
    BY <1>6, <1>8, <1>9 DEF ApplyLoses, LossTo
  <1>11. Suffix(e.ring, c.ring, n)
    <2>1. PICK k : k = n - 1
      OBVIOUS
    <2>2. Suffix(d.ring, c.ring, k)
      BY <2>1 DEF LossTo
    <2>3. Len(d.ring) = Len(c.ring) - k /\ Len(d.ring) \in Nat /\ Len(d.ring) >= 1 /\ k + 1 = n
      BY <1>1, <2>1, <2>2 DEF Suffix
    <2>4. 1 \in 1..Len(d.ring) /\ d.ring # <<>>
      BY <2>3
    <2>5. d.ring[1] = i
      <3>1. d.ring[1] = c.ring[1 + k]
        BY <2>2, <2>4 DEF Suffix
      <3>2. 1 + k = n
        BY <1>1, <2>1
      <3>3. QED
        BY <1>2, <3>1, <3>2
    <2>6. Suffix(Dropped(d.ring, i), c.ring, k + 1)
      BY <1>1, <2>2, <2>4, <2>5, SuffixDropped
    <2>7. QED
      BY <1>6, <2>3, <2>6
  <1>12. QED
    BY <1>10, <1>11 DEF LossTo

LEMMA EndLossless ==
  ASSUME NEW c, Waiting(c), layout \in Layouts, CleanRing(c), NEW d, d = EndWait(c)
  PROVE  d.lost = c.lost /\ d.ring = <<>>
  <1>1. /\ c \in CState /\ c.ring \in Seq(Combos) /\ Len(c.ring) \in Nat
        /\ DifferentKeys(c.keys) /\ Distinct(c.ring)
    BY CStateFields DEF Waiting
  <1>2. ASSUME NEW x \in CState, NEW y, y = clear_combos(dump_key_buffer(x))
        PROVE  y.lost = x.lost /\ y.ring = x.ring
    <2>1. PICK z : z = dump_key_buffer(x)
      OBVIOUS
    <2>2. z \in CState /\ z.lost = x.lost /\ z.ring = x.ring
      BY <1>2, <2>1, DumpEffect
    <2>3. y = clear_combos(z)
      BY <1>2, <2>1
    <2>4. y.lost = z.lost /\ y.ring = z.ring
      BY <2>2, <2>3, ClearEffect
    <2>5. QED
      BY <2>2, <2>4
  <1>3. CASE c.ring = <<>>
    <2>1. d = clear_combos(dump_key_buffer(c))
      BY <1>3 DEF EndWait
    <2>2. QED
      BY <1>1, <1>2, <1>3, <2>1
  <1>4. CASE c.ring # <<>>
    <2>1. PICK N : N = Len(c.ring)
      OBVIOUS
    <2>2. d = apply_combos(c)
      BY <1>4 DEF EndWait
    <2>3. PICK f : Applies(f, c) /\ d = clear_combos(dump_key_buffer(f[Len(c.ring)]))
      BY <1>1, <2>2, ApplyRun
    <2>4. f \in [0..N -> CState] /\ f[0] = c /\ \A n \in 1..N : f[n] = apply_combo(f[n - 1], c.ring[n])
      BY <2>1, <2>3 DEF Applies
    <2> DEFINE P == {n \in 0..N : AppliedTo(c, f[n], n) /\ LossTo(c, f[n], n)}
    <2>5. 0 \in P
      <3>1. Suffix(c.ring, c.ring, 0)
        BY <1>1 DEF Suffix
      <3>2. \A j : ~Among(c.ring, 0, j)
        BY DEF Among
      <3>3. AppliedTo(c, c, 0)
        <4>1. AppliedRing(c, c, 0)
          BY <3>1 DEF AppliedRing
        <4>2. AppliedCombos(c, c, 0)
          <5>1. \A j \in Combos : c.combo[j].disabled \in BOOLEAN
            BY <1>1, CStateFields
          <5>2. QED
            BY <3>2, <5>1 DEF AppliedCombos
        <4>3. AppliedData(c, c) /\ AppliedRecords(c, c, 0)
          BY <3>2 DEF AppliedData, AppliedRecords
        <4>4. QED
          BY <4>1, <4>2, <4>3 DEF AppliedTo
      <3>4. 0 \in 0..N
        BY <1>1, <2>1
      <3>5. QED
        BY <2>4, <3>1, <3>3, <3>4 DEF LossTo
    <2>6. ASSUME NEW n \in 1..N, n - 1 \in P PROVE n \in P
      <3>1. n - 1 \in 0..N /\ n \in 0..N /\ n \in 1..Len(c.ring)
        BY <1>1, <2>1
      <3>2. PICK x : x = f[n - 1]
        OBVIOUS
      <3>3. x \in CState /\ AppliedTo(c, x, n - 1) /\ LossTo(c, x, n - 1)
        BY <2>4, <2>6, <3>1, <3>2
      <3>4. f[n] = apply_combo(x, c.ring[n])
        BY <2>4, <3>2
      <3>5. AppliedTo(c, f[n], n)
        BY <1>1, <3>1, <3>3, <3>4, AppliedStep
      <3>6. LossTo(c, f[n], n)
        BY <3>1, <3>3, <3>4, LossStep
      <3>7. QED
        BY <3>1, <3>5, <3>6
    <2>7. N \in P
      <3>1. N \in Nat
        BY <1>1, <2>1
      <3> HIDE DEF P
      <3>2. \A n \in 0..N : n \in P
        BY <2>5, <2>6, <3>1, UpTo
      <3>3. QED
        BY <3>1, <3>2
    <2>8. PICK x : x = f[N]
      OBVIOUS
    <2>9. x \in CState /\ x.lost = c.lost /\ Suffix(x.ring, c.ring, N)
      <3>1. N \in 0..N
        BY <1>1, <2>1
      <3>2. QED
        BY <2>4, <2>7, <2>8, <3>1 DEF LossTo
    <2>10. x.ring = <<>>
      <3>1. Len(x.ring) = 0 /\ x.ring \in Seq(Combos)
        BY <1>1, <2>1, <2>9, CStateFields DEF Suffix
      <3>2. QED
        BY <3>1
    <2>11. d = clear_combos(dump_key_buffer(x))
      BY <2>1, <2>3, <2>8
    <2>12. QED
      BY <1>2, <2>9, <2>10, <2>11
  <1>5. QED
    BY <1>3, <1>4

-----------------------------------------------------------------------------
(* The combos of a layout are disjoint or overlap each other, and the key    *)
(* buffer has a place for each of their keys.                                *)
SimpleOverlaps ==
  \A l \in Layouts :
    \/ \A i, j \in Combos : i # j => l[i].keys \cap l[j].keys = {}
    \/ \A i, j \in Combos : l[i].keys # {} /\ l[j].keys # {} => l[i].keys \cap l[j].keys # {}
ComboKeys(l) == UNION {l[i].keys : i \in Combos}
RoomForKeys ==
  \A l \in Layouts : IsFiniteSet(ComboKeys(l)) /\ Cardinality(ComboKeys(l)) <= COMBO_KEY_BUFFER_LENGTH

ReadyRing(c, l) == \A i \in ToSet(c.ring) : Complete(c, l, i) /\ l[i].keys # {}
Lossless(c, l) ==
  /\ c.lost = {}
  /\ ReadyRing(c, l)
  /\ \A i \in Combos : ~c.combo[i].disabled => c.combo[i].state \subseteq KeysIn(c.keys)
  /\ KeysIn(c.keys) \subseteq ComboKeys(l)

LEMMA ReadyPressed ==
  ASSUME NEW c, Settled(c, held, layout), ReadyDisjoint(c, layout), layout \in Layouts, SimpleOverlaps,
         NEW key \in Keys, key \notin held, NEW i \in Combos, NEW d \in CState, PressedTo(c, d, i, key),
         ReadyRing(d, layout), NEW e, Offer(d, e, i, key, TRUE)
  PROVE  ReadyRing(e, layout)
  <1>1. e \in CState /\ ToSet(d.ring) \subseteq Combos
    BY CStateFields DEF Offer, ToSet
  <1>2. key \notin d.combo[i].state
    <2>1. PressedCombos(c, d, i, key) /\ c.combo[i].state \subseteq held
      BY DEF PressedTo, Settled
    <2>2. ~(i < i)
      BY ComboAssumption DEF Combos
    <2>3. QED
      BY <2>1, <2>2 DEF PressedCombos
  <1>3. CASE key \notin layout[i].keys
    BY <1>3 DEF Offer
  <1>4. CASE key \in layout[i].keys /\ ~d.combo[i].disabled /\ b_combo_enable
    <2>1. PressCombos(d, e, i, key) /\ PressRing(d, e, i) /\ PressClean(d, e, i) /\ PressEnters(d, e, i)
      BY <1>4 DEF Offer, OfferPress
    <2>2. i \notin ToSet(d.ring)
      BY <1>2, <1>4 DEF ReadyRing, Complete
    <2>3. \A j \in ToSet(d.ring) : ~d.combo[j].disabled
      BY DEF ReadyRing, Complete
    <2>4. (\A j \in ToSet(d.ring) : ~Overlap(j, i)) \/ Len(d.ring) <= 1
      <3>1. CASE \A j, k \in Combos : j # k => layout[j].keys \cap layout[k].keys = {}
        BY <1>1, <2>2, <3>1 DEF Overlap
      <3>2. CASE \A j, k \in Combos :
                   layout[j].keys # {} /\ layout[k].keys # {} => layout[j].keys \cap layout[k].keys # {}
        <4> SUFFICES ASSUME ~(Len(d.ring) <= 1) PROVE FALSE
          OBVIOUS
        <4>1. d.ring \in Seq(Combos) /\ Len(d.ring) \in Nat
          BY CStateFields
        <4>2. 1 \in 1..Len(d.ring) /\ 2 \in 1..Len(d.ring) /\ 1 # 2
          BY <4>1
        <4>3. PICK a, b : a = d.ring[1] /\ b = d.ring[2]
          OBVIOUS
        <4>4. a # b /\ a \in ToSet(d.ring) /\ b \in ToSet(d.ring)
          BY <4>1, <4>2, <4>3 DEF PressedTo, PressedRing, Distinct, ToSet
        <4>5. ReadyDisjoint(d, layout)
          BY DEF PressedTo, PressedRing
        <4>6. layout[a].keys \cap layout[b].keys = {}
          BY <4>4, <4>5 DEF ReadyDisjoint, ReadyRing
        <4>7. QED
          BY <1>1, <3>2, <4>4, <4>6 DEF ReadyRing
      <3>3. QED
        BY <3>1, <3>2 DEF SimpleOverlaps
    <2>5. \A j \in ToSet(e.ring) : ~e.combo[j].disabled
      BY <1>4, <2>1, <2>2, <2>3, <2>4 DEF PressClean
    <2>6. ASSUME NEW j \in ToSet(e.ring) PROVE Complete(e, layout, j) /\ layout[j].keys # {}
      <3>1. CASE j = i
        <4>1. e.combo[i].state = layout[i].keys
          BY <2>1, <2>2, <2>6, <3>1 DEF PressEnters
        <4>2. QED
          BY <1>4, <2>5, <3>1, <4>1 DEF Complete
      <3>2. CASE j # i
        <4>1. j \in ToSet(d.ring)
          BY <2>1, <2>6, <3>2 DEF PressRing
        <4>2. e.combo[j].state = d.combo[j].state
          BY <1>1, <2>1, <3>2, <4>1 DEF PressCombos
        <4>3. QED
          BY <2>5, <4>1, <4>2 DEF ReadyRing, Complete
      <3>3. QED
        BY <3>1, <3>2
    <2>7. QED
      BY <2>6 DEF ReadyRing
  <1>5. CASE key \in layout[i].keys /\ ~(~d.combo[i].disabled /\ b_combo_enable)
    <2>1. ReleaseCombos(d, e, i, key) /\ ReleaseRing(d, e, i)
      BY <1>5 DEF Offer, OfferRelease
    <2>2. ToSet(e.ring) \subseteq ToSet(d.ring)
      BY <1>1, <2>1, ReleaseRingFacts
    <2>3. ASSUME NEW j \in Combos
          PROVE  e.combo[j].state = d.combo[j].state /\ e.combo[j].disabled = d.combo[j].disabled
      <3>1. CASE j = i
        BY <1>2, <2>1, <3>1 DEF ReleaseCombos
      <3>2. CASE j # i
        BY <2>1, <3>2 DEF ReleaseCombos
      <3>3. QED
        BY <3>1, <3>2
    <2>4. QED
      BY <1>1, <2>2, <2>3 DEF ReadyRing, Complete
  <1>6. QED
    BY <1>3, <1>4, <1>5

LEMMA ReadyPressedAll ==
  ASSUME Settled(State, held, layout), ReadyDisjoint(State, layout), layout \in Layouts, SimpleOverlaps,
         ReadyRing(State, layout), NEW key \in Keys, key \notin held
  PROVE  ReadyRing(OfferedToCombos(key), layout)
  <1>1. State \in CState
    BY DEF Settled, Waiting
  <1>2. PICK f : Offers(f, key) /\ OfferedToCombos(key) = f[COMBO_COUNT]
    BY <1>1, OfferedRun
  <1>3. PICK c : c = State
    OBVIOUS
  <1>4. COMBO_COUNT \in Nat /\ f \in [0..COMBO_COUNT -> CState] /\ f[0] = c
    BY <1>2, <1>3, ComboAssumption DEF Offers
  <1>5. Settled(c, held, layout) /\ ReadyDisjoint(c, layout) /\ ReadyRing(c, layout)
    BY <1>3
  <1>6. PressedTo(c, c, 0, key)
    <2>1. c.part = FALSE
      BY <1>3 DEF State
    <2>2. QED
      BY <1>5, <2>1, PressedNone
  <1> DEFINE P == {n \in 0..COMBO_COUNT : PressedTo(c, f[n], n, key) /\ ReadyRing(f[n], layout)}
  <1>7. 0 \in P
    BY <1>4, <1>5, <1>6
  <1>8. ASSUME NEW n \in 1..COMBO_COUNT, n - 1 \in P PROVE n \in P
    <2>1. PICK i : i = n - 1
      OBVIOUS
    <2>2. i \in 0..COMBO_COUNT /\ i + 1 = n /\ n \in 0..COMBO_COUNT
      BY <1>4, <2>1
    <2>3. i \in Combos /\ Offer(f[i], f[n], i, key, TRUE)
      BY <1>2, <2>1 DEF Offers
    <2>4. f[i] \in CState /\ PressedTo(c, f[i], i, key) /\ ReadyRing(f[i], layout)
      BY <1>4, <1>8, <2>1, <2>2
    <2>5. PressedTo(c, f[n], i + 1, key)
      BY <1>5, <2>3, <2>4, PressedStep
    <2>6. ReadyRing(f[n], layout)
      BY <1>5, <2>3, <2>4, ReadyPressed
    <2>7. QED
      BY <2>2, <2>5, <2>6
  <1>9. COMBO_COUNT \in P
    <2> HIDE DEF P
    <2>1. \A n \in 0..COMBO_COUNT : n \in P
      BY <1>4, <1>7, <1>8, UpTo
    <2>2. QED
      BY <1>4, <2>1
  <1>10. QED
    BY <1>2, <1>9

(* The buffer has room for one more key of a combo. *)
LEMMA RoomForKey ==
  ASSUME NEW q \in Seq(QueuedRecord), DifferentKeys(q), NEW l \in Layouts, RoomForKeys,
         KeysIn(q) \subseteq ComboKeys(l), NEW key \in Keys, key \in ComboKeys(l), key \notin KeysIn(q)
  PROVE  Len(q) < COMBO_KEY_BUFFER_LENGTH
  <1>1. PICK r : r = Append(q, Queued(key))
    OBVIOUS
  <1>2. PICK N : N = Len(q) + 1
    OBVIOUS
  <1>3. PICK U : U = ComboKeys(l)
    OBVIOUS
  <1>4. Len(r) = N /\ N \in Nat /\ Len(q) \in Nat /\ KeysIn(r) \subseteq U /\ DifferentKeys(r)
    <2>1. Len(r) = Len(q) + 1 /\ KeysIn(r) = KeysIn(q) \cup {key} /\ DifferentKeys(r)
      BY <1>1, AppendedKeys
    <2>2. Len(q) \in Nat
      OBVIOUS
    <2>3. QED
      BY <1>2, <1>3, <2>1, <2>2
  <1>5. PICK f : f = [n \in 1..N |-> r[n].key]
    OBVIOUS
  <1>6. f \in [1..N -> U] /\ \A m, n \in 1..N : m # n => f[m] # f[n]
    BY <1>4, <1>5 DEF KeysIn, DifferentKeys
  <1>7. IsFiniteSet(1..N) /\ Cardinality(1..N) = N
    BY <1>4, FS_Interval
  <1>8. IsFiniteSet(U) /\ Cardinality(U) <= COMBO_KEY_BUFFER_LENGTH
    BY <1>3 DEF RoomForKeys
  <1>9. ~(Cardinality(U) < N)
    <2> SUFFICES ASSUME Cardinality(U) < N PROVE FALSE
      OBVIOUS
    <2>1. PICK S : S = 1..N
      OBVIOUS
    <2>2. IsFiniteSet(S) /\ IsFiniteSet(U) /\ Cardinality(U) < Cardinality(S) /\ f \in [S -> U]
      BY <1>6, <1>7, <1>8, <2>1
    <2>3. \E x, y \in S : x # y /\ f[x] = f[y]
      BY <2>2, FS_PigeonHole
    <2>4. QED
      BY <1>6, <2>1, <2>3
  <1>10. Cardinality(U) \in Nat
    BY <1>8, FS_CardinalityType
  <1>11. QED
    BY <1>2, <1>4, <1>8, <1>9, <1>10, ComboAssumption

LEMMA LosslessSame ==
  ASSUME NEW c, NEW d, SameFields(c, d), d.lost = c.lost, NEW l, Lossless(c, l)
  PROVE  Lossless(d, l)
  BY DEF Lossless, SameFields, ReadyRing, Complete

(* The wait is over and nothing was lost. *)
LEMMA LosslessEnd ==
  ASSUME NEW c, NEW e, NEW h, Ending(c, e, h), NEW d, Ends(e, d), d.lost = {}, ToSet(d.ring) = {}
  PROVE  Lossless(d, layout)
  <1>1. KeysIn(d.keys) = {}
    BY DEF Ends, KeysIn
  <1>2. ASSUME NEW i \in Combos, ~d.combo[i].disabled PROVE d.combo[i].state = {}
    <2>1. EndedCombo(c, e, d, i)
      BY EndedCombos
    <2>2. QED
      BY <1>2, <2>1 DEF EndedCombo
  <1>3. QED
    BY <1>1, <1>2 DEF Lossless, ReadyRing

LEMMA LosslessWait ==
  ASSUME NEW c, NEW e, NEW h, Ending(c, e, h), layout \in Layouts, CleanRing(e), e.lost = {},
         NEW d, d = EndWait(e)
  PROVE  Lossless(d, layout) /\ d \in CState
  <1>1. Waiting(e)
    BY DEF Ending
  <1>2. Ends(e, d) /\ d \in CState
    <2>1. Ends(e, d)
      BY <1>1, EndWaitEnds
    <2>2. QED
      BY <2>1 DEF Ends
  <1>3. d.lost = {} /\ d.ring = <<>>
    BY <1>1, EndLossless
  <1>4. ToSet(d.ring) = {}
    BY <1>3 DEF ToSet
  <1>5. QED
    BY <1>2, <1>3, <1>4, LosslessEnd

LEMMA LosslessTask ==
  ASSUME NEW c, Settled(c, held, layout), layout \in Layouts, Firing(c, layout), Lossless(c, layout),
         NEW d, d = EndWait(c)
  PROVE  Lossless(d, layout)
  <1>1. Ending(c, c, held)
    BY DEF Ending, Settled
  <1>2. ToSet(c.ring) \subseteq Combos
    BY DEF Settled, UsedCombos
  <1>3. CleanRing(c)
    <2>1. \A i \in ToSet(c.ring) : ~c.combo[i].disabled /\ layout[i].keys \subseteq KeysIn(c.keys)
      BY <1>2 DEF Lossless, ReadyRing, Complete
    <2>2. \A i, j \in ToSet(c.ring) : i # j => layout[i].keys \cap layout[j].keys = {}
      BY DEF Lossless, ReadyRing, Firing, ReadyDisjoint
    <2>3. QED
      BY <2>1, <2>2 DEF CleanRing
  <1>4. c.lost = {}
    BY DEF Lossless
  <1>5. QED
    BY <1>1, <1>3, <1>4, LosslessWait

LEMMA LosslessOff ==
  ASSUME NEW c, Settled(c, held, layout), Lossless(c, layout), NEW d, d = combo_disable(c)
  PROVE  Lossless(d, layout)
  <1>1. PICK e : e = [c EXCEPT !.ring = <<>>]
    OBVIOUS
  <1>2. /\ e \in CState /\ Waiting(e) /\ e.ring = <<>> /\ e.combo = c.combo /\ e.keys = c.keys
        /\ d.lost = c.lost /\ Ends(e, d)
    BY <1>1, DisableEnds DEF combo_disable
  <1>3. ToSet(e.ring) = {} /\ Len(e.ring) = 0
    BY <1>2 DEF ToSet
  <1>4. Ending(c, e, held)
    <2>1. Len(e.ring) < COMBO_BUFFER_LENGTH
      BY <1>3, ComboAssumption
    <2>2. QED
      BY <1>2, <1>3, <2>1 DEF Ending, Settled
  <1>5. ToSet(d.ring) = {}
    <2>1. d.ring \in Seq(Combos) /\ e.ring \in Seq(Combos)
      BY <1>2, CStateFields DEF Ends
    <2>2. PICK k \in 0..Len(e.ring) : Suffix(d.ring, e.ring, k)
      BY <1>2 DEF Ends
    <2>3. ToSet(d.ring) \subseteq ToSet(e.ring)
      BY <2>1, <2>2, SuffixFacts
    <2>4. QED
      BY <1>3, <2>3
  <1>6. QED
    BY <1>2, <1>4, <1>5, LosslessEnd DEF Lossless

LEMMA LosslessPress ==
  ASSUME NEW c, Settled(c, held, layout), layout \in Layouts, Firing(c, layout), Lossless(c, layout),
         NEW key \in Keys, NEW e \in CState, PressedTo(c, e, COMBO_COUNT, key), ~e.part,
         ReadyRing(e, layout), NEW p, p = ProcessKey(EndWait(e), key)
  PROVE  Lossless(p, layout)
  <1>1. /\ Ending(c, e, held)
        /\ \A i \in Combos : e.combo[i].state = c.combo[i].state
    BY PressedNot
  <1>2. e.keys = c.keys /\ e.lost = {}
    BY DEF PressedTo, SameBuffer, Lossless
  <1>3. ToSet(e.ring) \subseteq Combos
    BY CStateFields DEF ToSet
  <1>4. CleanRing(e)
    <2>1. ASSUME NEW i \in ToSet(e.ring)
          PROVE  ~e.combo[i].disabled /\ layout[i].keys \subseteq KeysIn(e.keys)
      <3>1. i \in Combos /\ ~e.combo[i].disabled /\ e.combo[i].state = layout[i].keys
        BY <1>3 DEF ReadyRing, Complete
      <3>2. ~c.combo[i].disabled /\ c.combo[i].state = layout[i].keys
        BY <1>1, <3>1 DEF Ending
      <3>3. QED
        BY <1>2, <3>1, <3>2 DEF Lossless
    <2>2. ReadyDisjoint(e, layout)
      BY DEF PressedTo, PressedRing, Firing
    <2>3. \A i, j \in ToSet(e.ring) : i # j => layout[i].keys \cap layout[j].keys = {}
      BY <2>2 DEF ReadyRing, ReadyDisjoint
    <2>4. QED
      BY <2>1, <2>3 DEF CleanRing
  <1>5. PICK d : d = EndWait(e)
    OBVIOUS
  <1>6. Lossless(d, layout) /\ d \in CState
    BY <1>1, <1>2, <1>4, <1>5, LosslessWait
  <1>7. SameFields(d, p) /\ p.lost = d.lost
    BY <1>5, <1>6, ProcessKeyEffect
  <1>8. QED
    BY <1>6, <1>7, LosslessSame

LEMMA LosslessRelease ==
  ASSUME NEW c, Settled(c, held, layout), layout \in Layouts, Firing(c, layout), Lossless(c, layout),
         NEW key \in Keys, NEW e \in CState, ReleasedTo(c, e, COMBO_COUNT, key),
         NEW p, p = ProcessKey(EndWait(e), key)
  PROVE  Lossless(p, layout)
  <1>1. ASSUME NEW i \in Combos
        PROVE  /\ e.combo[i].disabled = c.combo[i].disabled
               /\ e.combo[i].state = c.combo[i].state \ {key}
               /\ e.combo[i].active = (c.combo[i].active /\ c.combo[i].state # {key})
    <2>1. i < COMBO_COUNT
      BY ComboAssumption DEF Combos
    <2>2. QED
      BY <2>1 DEF ReleasedTo, ReleasedCombos
  <1>2. e.keys = c.keys /\ e.lost = {} /\ ReleasedRing(c, e)
    BY DEF ReleasedTo, SameBuffer, Lossless
  <1>3. Ending(c, e, held)
    <2>1. Plain(e.keys) /\ DifferentKeys(e.keys)
      BY <1>2 DEF Settled, Waiting
    <2>2. ActiveDisabled(e)
      BY <1>1 DEF Settled, Waiting, ActiveDisabled
    <2>3. Waiting(e)
      BY <1>2, <2>1, <2>2 DEF Waiting, ReleasedRing
    <2>4. ToSet(e.ring) \subseteq UsedCombos /\ Len(e.ring) < COMBO_BUFFER_LENGTH
      BY <1>2 DEF ReleasedRing, Settled
    <2>5. ASSUME NEW i \in Combos
          PROVE  /\ e.combo[i].state \subseteq c.combo[i].state
                 /\ e.combo[i].state \subseteq held
                 /\ e.combo[i].active => c.combo[i].active
                 /\ c.combo[i].disabled => e.combo[i].disabled
      BY <1>1 DEF Settled
    <2>6. QED
      BY <1>2, <2>3, <2>4, <2>5 DEF Ending
  <1>4. CleanRing(e)
    <2>1. ASSUME NEW i \in ToSet(e.ring)
          PROVE  /\ ~e.combo[i].disabled /\ layout[i].keys \subseteq KeysIn(e.keys)
                 /\ i \in ToSet(c.ring) /\ Complete(c, layout, i)
      <3>1. i \in ToSet(c.ring) /\ i \in Combos
        BY <1>2 DEF ReleasedRing, Settled, UsedCombos
      <3>2. Complete(c, layout, i)
        BY <3>1 DEF Lossless, ReadyRing
      <3>3. QED
        BY <1>1, <1>2, <3>1, <3>2 DEF Complete, Lossless
    <2>2. \A i, j \in ToSet(e.ring) : i # j => layout[i].keys \cap layout[j].keys = {}
      BY <2>1 DEF Firing, ReadyDisjoint
    <2>3. QED
      BY <2>1, <2>2 DEF CleanRing
  <1>5. PICK d : d = EndWait(e)
    OBVIOUS
  <1>6. Lossless(d, layout) /\ d \in CState
    BY <1>2, <1>3, <1>4, <1>5, LosslessWait
  <1>7. SameFields(d, p) /\ p.lost = d.lost
    BY <1>5, <1>6, ProcessKeyEffect
  <1>8. QED
    BY <1>6, <1>7, LosslessSame

LEMMA LosslessBuffered ==
  ASSUME NEW c, Settled(c, held, layout), layout \in Layouts, Lossless(c, layout), RoomForKeys,
         NEW key \in Keys, key \notin held, NEW e \in CState, PressedTo(c, e, COMBO_COUNT, key), e.part,
         ReadyRing(e, layout), NEW d, d = BufferKey(e, key)
  PROVE  Lossless(d, layout)
  <1>1. e.keys = c.keys /\ e.lost = {}
    BY DEF PressedTo, SameBuffer, Lossless
  <1>2. key \in ComboKeys(layout)
    BY DEF PressedTo, ComboKeys
  <1>3. /\ c.keys \in Seq(QueuedRecord) /\ DifferentKeys(c.keys) /\ key \notin KeysIn(c.keys)
        /\ KeysIn(c.keys) \subseteq ComboKeys(layout)
    BY CStateFields DEF Settled, Waiting, Lossless
  <1>4. Len(c.keys) < COMBO_KEY_BUFFER_LENGTH
    <2>1. PICK l \in Layouts : l = layout
      OBVIOUS
    <2>2. QED
      BY <1>2, <1>3, <2>1, RoomForKey
  <1>5. /\ d.combo = e.combo /\ d.ring = e.ring /\ d.lost = {}
        /\ d.keys = Append(c.keys, Queued(key))
    <2>1. PICK q : q = Append(e.keys, Queued(key))
      OBVIOUS
    <2>2. d = [e EXCEPT !.keys = q]
      BY <1>1, <1>4, <2>1 DEF BufferKey
    <2>3. d.combo = e.combo /\ d.ring = e.ring /\ d.lost = e.lost /\ d.keys = q
      BY <2>2 DEF CState
    <2>4. QED
      BY <1>1, <2>1, <2>3
  <1>6. KeysIn(d.keys) = KeysIn(c.keys) \cup {key}
    BY <1>3, <1>5, AppendedKeys
  <1>7. ReadyRing(d, layout)
    BY <1>5 DEF ReadyRing, Complete
  <1>8. ASSUME NEW i \in Combos, ~d.combo[i].disabled PROVE d.combo[i].state \subseteq KeysIn(d.keys)
    <2>1. PressedCombos(c, e, COMBO_COUNT, key)
      BY DEF PressedTo
    <2>2. d.combo[i].state \subseteq c.combo[i].state \cup {key} /\ ~c.combo[i].disabled
      BY <1>5, <1>8, <2>1 DEF PressedCombos
    <2>3. c.combo[i].state \subseteq KeysIn(c.keys)
      BY <2>2 DEF Lossless
    <2>4. QED
      BY <1>6, <2>2, <2>3
  <1>9. QED
    BY <1>2, <1>3, <1>5, <1>6, <1>7, <1>8 DEF Lossless

-----------------------------------------------------------------------------
(* The inductive invariant of the theorem about lost presses. *)
LossInv == ComboInv /\ (~edited => Lossless(State, layout))

LEMMA NextLossless ==
  ASSUME NEW d, Becomes(d), Lossless(d, layout), layout' = layout
  PROVE  Lossless(State', layout')
  <1>1. PICK s : s = State'
    OBVIOUS
  <1>2. SameFields(d, s) /\ s.lost = d.lost
    BY <1>1 DEF State, Becomes, SameFields
  <1>3. Lossless(s, layout)
    BY <1>2, LosslessSame
  <1>4. QED
    BY <1>1, <1>3

LEMMA PressSwitchLossless ==
  ASSUME LossInv, ~edited, NEW key \in Keys, PressSwitch(key)
  PROVE  Lossless(State', layout')
  <1>1. Settled(State, held, layout) /\ Lossless(State, layout)
    BY DEF LossInv, ComboInv
  <1>2. PICK on : on = (SwitchOf[key] = "on" \/ (SwitchOf[key] = "toggle" /\ ~b_combo_enable))
    OBVIOUS
  <1>3. PICK d : d = IF on THEN State ELSE combo_disable(State)
    OBVIOUS
  <1>4. Becomes(d) /\ layout' = layout
    BY <1>2, <1>3 DEF PressSwitch
  <1>5. PICK c : c = State
    OBVIOUS
  <1>6. Lossless(d, layout)
    <2>1. CASE on
      BY <1>1, <1>3, <2>1
    <2>2. CASE ~on
      <3>1. d = combo_disable(c) /\ Settled(c, held, layout) /\ Lossless(c, layout)
        BY <1>1, <1>3, <1>5, <2>2
      <3>2. QED
        BY <3>1, LosslessOff
    <2>3. QED
      BY <2>1, <2>2
  <1>7. QED
    BY <1>4, <1>6, NextLossless

LEMMA KeyEventLossless ==
  ASSUME LossInv, ~edited, SimpleOverlaps, RoomForKeys, NEW key \in Keys, KeyEvent(key)
  PROVE  Lossless(State', layout')
  <1>1. /\ Settled(State, held, layout) /\ Lossless(State, layout) /\ Firing(State, layout)
        /\ layout \in Layouts /\ TypeOK
    BY DEF LossInv, ComboInv, TypeOK
  <1>2. PICK e : e = OfferedToCombos(key)
    OBVIOUS
  <1>3. PICK c : c = State
    OBVIOUS
  <1>4. Settled(c, held, layout) /\ Lossless(c, layout) /\ Firing(c, layout)
    BY <1>1, <1>3
  <1>5. /\ layout' = layout
        /\ \/ e.part /\ key \notin held /\ Becomes(BufferKey(e, key))
           \/ ~(e.part /\ key \notin held) /\ Becomes(ProcessKey(EndWait(e), key))
    BY <1>2 DEF KeyEvent
  <1>6. CASE key \notin held
    <2>1. e \in CState /\ PressedTo(c, e, COMBO_COUNT, key)
      BY <1>1, <1>2, <1>3, <1>6, PressedAll
    <2>2. ReadyRing(e, layout)
      <3>1. ReadyDisjoint(State, layout) /\ ReadyRing(State, layout)
        BY <1>1 DEF Firing, Lossless
      <3>2. QED
        BY <1>1, <1>2, <1>6, <3>1, ReadyPressedAll
    <2>3. CASE e.part
      <3>1. PICK d : d = BufferKey(e, key)
        OBVIOUS
      <3>2. Becomes(d)
        BY <1>5, <1>6, <2>3, <3>1
      <3>3. Lossless(d, layout)
        BY <1>1, <1>4, <1>6, <2>1, <2>2, <2>3, <3>1, LosslessBuffered
      <3>4. QED
        BY <1>5, <3>2, <3>3, NextLossless
    <2>4. CASE ~e.part
      <3>1. PICK d : d = ProcessKey(EndWait(e), key)
        OBVIOUS
      <3>2. Becomes(d)
        BY <1>5, <2>4, <3>1
      <3>3. Lossless(d, layout)
        BY <1>1, <1>4, <2>1, <2>2, <2>4, <3>1, LosslessPress
      <3>4. QED
        BY <1>5, <3>2, <3>3, NextLossless
    <2>5. QED
      BY <2>3, <2>4
  <1>7. CASE key \in held
    <2>1. e \in CState /\ ReleasedTo(c, e, COMBO_COUNT, key)
      BY <1>1, <1>2, <1>3, <1>7, ReleasedAll
    <2>2. PICK d : d = ProcessKey(EndWait(e), key)
      OBVIOUS
    <2>3. Becomes(d)
      BY <1>5, <1>7, <2>2
    <2>4. Lossless(d, layout)
      BY <1>1, <1>4, <2>1, <2>2, LosslessRelease
    <2>5. QED
      BY <1>5, <2>3, <2>4, NextLossless
  <1>8. QED
    BY <1>6, <1>7

LEMMA TaskLossless ==
  ASSUME LossInv, ~edited, NEW g \in 1..MaxGap, combo_task(g)
  PROVE  Lossless(State', layout')
  <1>1. /\ Settled(State, held, layout) /\ Lossless(State, layout) /\ Firing(State, layout)
        /\ layout \in Layouts
    BY DEF LossInv, ComboInv, TypeOK
  <1>2. PICK t : t = (now + g) % TimerRange
    OBVIOUS
  <1>3. PICK over : over = (b_combo_enable /\ timer # 0 /\ (t - timer) % TimerRange > longest_term)
    OBVIOUS
  <1>4. PICK d : d = IF over THEN EndWait(State) ELSE State
    OBVIOUS
  <1>5. Becomes(d) /\ layout' = layout
    BY <1>2, <1>3, <1>4 DEF combo_task
  <1>6. PICK c : c = State
    OBVIOUS
  <1>7. Lossless(d, layout)
    <2>1. CASE over
      <3>1. /\ d = EndWait(c) /\ Settled(c, held, layout) /\ Lossless(c, layout)
            /\ Firing(c, layout)
        BY <1>1, <1>4, <1>6, <2>1
      <3>2. QED
        BY <1>1, <3>1, LosslessTask
    <2>2. CASE ~over
      BY <1>1, <1>4, <2>2
    <2>3. QED
      BY <2>1, <2>2
  <1>8. QED
    BY <1>5, <1>7, NextLossless

(* When no key is down nothing waits, so that it does not matter which the   *)
(* combos are.                                                               *)
LEMMA ReloadLossless ==
  ASSUME LossInv, NEW l \in Layouts, reload_combo(l), ~edited'
  PROVE  Lossless(State', layout')
  <1>1. /\ layout' = l /\ combo' = [i \in Combos |-> Fresh] /\ key_buffer' = key_buffer
        /\ combo_buffer' = combo_buffer /\ lost' = lost /\ ~edited /\ held = {}
    BY DEF reload_combo
  <1>2. PICK s : s = State'
    OBVIOUS
  <1>3. PICK c : c = State
    OBVIOUS
  <1>4. s.combo = combo' /\ s.keys = c.keys /\ s.ring = c.ring /\ s.lost = c.lost
    BY <1>1, <1>2, <1>3 DEF State
  <1>5. Settled(c, held, layout) /\ Lossless(c, layout)
    BY <1>1, <1>3 DEF LossInv, ComboInv
  <1>6. KeysIn(c.keys) = {} /\ ToSet(c.ring) \subseteq Combos /\ \A i \in Combos : c.combo[i].state = {}
    BY <1>1, <1>5 DEF Settled, UsedCombos
  <1>7. ToSet(c.ring) = {}
    BY <1>5, <1>6 DEF Lossless, ReadyRing, Complete
  <1>8. \A i \in Combos : s.combo[i].state = {}
    BY <1>1, <1>4 DEF Fresh
  <1>9. Lossless(s, l)
    BY <1>4, <1>5, <1>6, <1>7, <1>8 DEF Lossless, ReadyRing
  <1>10. QED
    BY <1>1, <1>2, <1>9

LEMMA InitLossless ==
  ASSUME Init
  PROVE  LossInv
  <1>1. PICK s : s = State
    OBVIOUS
  <1>2. s.combo = [i \in Combos |-> Fresh] /\ s.keys = <<>> /\ s.ring = <<>> /\ s.lost = {}
    BY <1>1 DEF Init, State
  <1>3. KeysIn(s.keys) = {} /\ ToSet(s.ring) = {} /\ \A i \in Combos : s.combo[i].state = {}
    BY <1>2 DEF KeysIn, ToSet, Fresh
  <1>4. Lossless(s, layout)
    BY <1>2, <1>3 DEF Lossless, ReadyRing
  <1>5. QED
    BY <1>1, <1>4, InitHolds DEF LossInv

LEMMA NextLossInv ==
  ASSUME SimpleOverlaps, RoomForKeys, LossInv, [Next]_vars
  PROVE  LossInv'
  <1>1. ComboInv'
    BY NextHolds DEF LossInv
  <1>2. ASSUME ~edited' PROVE Lossless(State', layout')
    <2>1. CASE \E key \in Keys : PressSwitch(key)
      <3>1. ~edited
        BY <1>2, <2>1 DEF PressSwitch
      <3>2. QED
        BY <2>1, <3>1, PressSwitchLossless
    <2>2. CASE \E key \in Keys : KeyEvent(key)
      <3>1. ~edited
        BY <1>2, <2>2 DEF KeyEvent
      <3>2. QED
        BY <2>2, <3>1, KeyEventLossless
    <2>3. CASE Task
      <3>1. ~edited
        BY <1>2, <2>3 DEF Task, combo_task
      <3>2. QED
        BY <2>3, <3>1, TaskLossless DEF Task
    <2>4. CASE \E l \in Layouts : reload_combo(l)
      BY <1>2, <2>4, ReloadLossless
    <2>5. CASE UNCHANGED vars
      <3>1. State' = State /\ layout' = layout /\ edited' = edited
        BY <2>5 DEF vars, State
      <3>2. QED
        BY <1>2, <3>1 DEF LossInv
    <2>6. QED
      BY <2>1, <2>2, <2>3, <2>4, <2>5 DEF Next
  <1>3. QED
    BY <1>1, <1>2 DEF LossInv

(***************************************************************************)
(* No press is lost (apply_combo, dump_key_buffer, process_combo): a press *)
(* that is held back is sent on or replaced by a combo that fires, if the  *)
(* combos of a layout are either pairwise disjoint or all overlap, and the *)
(* key buffer has a place for each of their keys.  Both are needed: among  *)
(* three combos of which only some overlap a disabled one can stay in the  *)
(* ring, and a press that finds the key buffer full is dropped.            *)
(***************************************************************************)
THEOREM NoPressIsLost ==
  ASSUME SimpleOverlaps, RoomForKeys
  PROVE  Spec => []NoLostPress
  <1>1. Init => LossInv
    BY InitLossless
  <1>2. LossInv /\ [Next]_vars => LossInv'
    BY NextLossInv
  <1>3. LossInv => NoLostPress
    <2> SUFFICES ASSUME LossInv, ~edited PROVE lost = {}
      BY DEF NoLostPress
    <2>1. State.lost = {}
      BY DEF LossInv, Lossless
    <2>2. QED
      BY <2>1 DEF State
  <1>4. QED
    BY <1>1, <1>2, <1>3, PTL DEF Spec
=============================================================================
