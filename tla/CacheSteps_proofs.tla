-------------------------- MODULE CacheSteps_proofs --------------------------
(***************************************************************************)
(* What the books of a cache keep for every number of layers, every window, *)
(* every policy and every way forwards are captured: the books first, then  *)
(* what attention reads of the counters and what the tallies record.        *)
(***************************************************************************)
EXTENDS CacheSteps, TLAPS

-----------------------------------------------------------------------------
(* A forward only begins when every layer has room for it; the layers that  *)
(* are still to be updated keep that room.                                  *)

Done(l) == l < fwd.layer \/ (pc \in {"attend", "end"} /\ l = fwd.layer)

Room ==
    pc # "idle" =>
        /\ fwd.added \in Adds
        /\ \A l \in Layers : Done(l) \/ held[l] + fwd.added <= MaxLen

TypeInv == TypeOK /\ Room /\ (pc = "end" => fwd.layer = Last)

LEMMA FitsBounds ==
    ASSUME NEW l, NEW n \in Nat
    PROVE  Fits(l, n) \in Nat /\ Fits(l, n) <= n
BY SizeAssumption DEF Fits, Least

LEMMA PlainTyped ==
    /\ NoMask \in Masks /\ Plain \in Masks /\ None \notin Layers
    /\ NoMask.of = None /\ Plain.of = None
    /\ Plain.bound /\ Plain.made = None /\ NoMask.made = None /\ Plain # NoMask
<1>1. None \in -1 .. MaxLen /\ None \notin Layers
  BY SizeAssumption, LayerAssumption DEF None, Layers
<1>2. NoMask \in Masks
  BY <1>1 DEF NoMask, Masks
<1> QED BY <1>1, <1>2 DEF Plain, NoMask, Masks

(* A write nobody looked at changes nothing of a mask but that history.     *)
LEMMA OverlookedTyped ==
    ASSUME NEW m \in Masks, NEW l
    PROVE  LET n == Overlooked(m, l) IN
           /\ n \in Masks
           /\ n.of = m.of /\ n.at = m.at /\ n.made = m.made /\ n.bound = m.bound
           /\ n.unseen = (m.unseen \/ m.of = l)
           /\ m.of # l => n = m
BY DEF Overlooked, Masks

(* When a forward is over, what was kept of its mask reads a counter.       *)
LEMMA OverMasks ==
    ASSUME TypeOK, Over, offer' \in Layers \cup {None}
    PROVE  /\ MasksOK'
           /\ pc' = "idle" /\ fwd' = NoForward /\ mask' = NoMask
           /\ fwd' \in [added : Adds \cup {0}, capture : Captures \cup {"none"}, layer : Layers]
           /\ \A m \in kept' : m \in kept \/ m = mask
<1>1. pc' = "idle" /\ fwd' = NoForward /\ mask' = NoMask
  BY DEF Over
<1>2. NoForward \in [added : Adds \cup {0}, capture : Captures \cup {"none"}, layer : Layers]
  BY LayerAssumption DEF NoForward, Layers
<1>3. kept' = kept \/ (mask # NoMask /\ ~mask.bound /\ kept' = kept \cup {mask})
  BY DEF Over
<1>4. mask # NoMask /\ ~mask.bound => mask.of \in Layers
  BY PlainTyped DEF TypeOK, MasksOK
<1>5. kept' \subseteq Masks /\ \A m \in kept' : m.of \in Layers
  BY <1>3, <1>4 DEF TypeOK, MasksOK
<1> QED BY <1>1, <1>2, <1>3, <1>5, PlainTyped DEF MasksOK

LEMMA InitType == Init => TypeInv
<1> SUFFICES ASSUME Init PROVE TypeInv
  OBVIOUS
<1> USE DEF Init
<1>1. /\ held \in [Layers -> 0 .. MaxLen]
      /\ books \in [lengths : [Layers -> -1 .. MaxLen], prev : Layers \cup {-1},
                    target : -1 .. MaxLen]
  BY LayerAssumption, SizeAssumption DEF Layers, None
<1>2. /\ MasksOK
      /\ fwd \in [added : Adds \cup {0}, capture : Captures \cup {"none"}, layer : Layers]
  BY PlainTyped, LayerAssumption, SizeAssumption DEF Layers, NoForward, MasksOK
<1>3. /\ recorded \in [Rules -> 0 .. ReportBound]
      /\ grown \in [lost : BOOLEAN, blurred : BOOLEAN, capped : BOOLEAN, breaks : SUBSET KvRules]
      /\ looked \in [wrong : BOOLEAN, told : BOOLEAN]
      /\ round \in [checked : SUBSET Layers, uneven : BOOLEAN]
  BY DEF ReportBound, NothingGrown, NothingRead, NoRound
<1>4. TypeOK
  BY <1>1, <1>2, <1>3, PolicyAssumption, FaultBoundAssumption DEF TypeOK
<1> QED BY <1>4 DEF TypeInv, Room

(* What Report leaves is typed, whatever rules it is given. *)
LEMMA ReportType ==
    ASSUME TypeOK, NEW rules \in SUBSET Rules, Report(rules)
    PROVE  recorded' \in [Rules -> 0 .. ReportBound] /\ seen' \subseteq Rules
BY DEF TypeOK, Report, ReportBound, Least

LEMMA BeginType ==
    ASSUME TypeInv, NEW n \in Adds, NEW capture \in Captures, Begin(n, capture)
    PROVE  TypeInv'
<1> USE DEF TypeInv, Begin
<1>1. n \in Nat \ {0} /\ 0 \in Layers
  BY SizeAssumption, LayerAssumption DEF Layers
<1>2. fwd' # NoForward /\ fwd' \in [added : Adds \cup {0}, capture : Captures \cup {"none"},
                                    layer : Layers]
  BY <1>1 DEF NoForward
<1>3. round' \in [checked : SUBSET Layers, uneven : BOOLEAN]
      /\ grown' \in [lost : BOOLEAN, blurred : BOOLEAN, capped : BOOLEAN, breaks : SUBSET KvRules]
      /\ looked' \in [wrong : BOOLEAN, told : BOOLEAN]
  BY DEF NoRound, NothingGrown, NothingRead
<1>4. MasksOK'
  <2>1. MasksOK /\ pc = "idle" /\ pc' = "offer" /\ UNCHANGED <<offer, mask, kept>>
    BY DEF TypeOK, time
  <2> HIDE DEF TypeInv, Begin
  <2> QED BY <2>1 DEF MasksOK
<1>5. TypeOK'
  BY <1>1, <1>2, <1>3, <1>4 DEF TypeOK, setting, kv, time, tally
<1>6. Room'
  BY <1>1 DEF Room, Done
<1> QED BY <1>5, <1>6

LEMMA HandOutType ==
    ASSUME TypeInv, NEW l \in Layers, HandOut(l)
    PROVE  TypeInv'
<1> USE DEF TypeInv, HandOut
<1>1. left' \in Nat /\ alone' \subseteq Boundaries
  <2>1. left \in Nat /\ alone \subseteq Boundaries /\ (Works \/ FailsAt("mask"))
    BY DEF TypeOK
  <2> HIDE DEF TypeInv, HandOut
  <2>2. CASE Works
    BY <2>1, <2>2 DEF Works
  <2>3. CASE FailsAt("mask")
    <3>1. left' \in Nat
      BY <2>1, <2>3 DEF FailsAt, Fault
    <3>2. alone' \subseteq Boundaries
      BY <2>1, <2>3 DEF FailsAt, Boundaries
    <3> QED BY <3>1, <3>2
  <2> QED BY <2>1, <2>2, <2>3
<1>2. live' \in [Layers -> Nat \cup {None}]
  BY DEF TypeOK, HandedOutAt
<1>3. MasksOK'
  <2>1. /\ MasksOK /\ pc = "offer" /\ pc' = "mask" /\ UNCHANGED <<mask, kept>>
        /\ offer' \in Layers \cup {None}
    BY DEF TypeOK
  <2> HIDE DEF TypeInv, HandOut
  <2> QED BY <2>1 DEF MasksOK
<1>4. TypeOK'
  BY <1>1, <1>2, <1>3 DEF TypeOK, setting, kv, ghosts
<1>5. Room'
  BY DEF Room, Done, ghosts
<1> QED BY <1>4, <1>5

LEMMA BuildMaskType ==
    ASSUME TypeInv, BuildMask
    PROVE  TypeInv'
<1> USE DEF TypeInv, BuildMask
<1>1. left' \in Nat /\ alone' \subseteq Boundaries
  <2>1. left \in Nat /\ alone \subseteq Boundaries /\ (Works \/ FailsAt("mask"))
    BY DEF TypeOK
  <2> HIDE DEF TypeInv, BuildMask
  <2>2. CASE Works
    BY <2>1, <2>2 DEF Works
  <2>3. CASE FailsAt("mask")
    <3>1. left' \in Nat
      BY <2>1, <2>3 DEF FailsAt, Fault
    <3>2. alone' \subseteq Boundaries
      BY <2>1, <2>3 DEF FailsAt, Boundaries
    <3> QED BY <3>1, <3>2
  <2> QED BY <2>1, <2>2, <2>3
<1>2. mask' \in Masks /\ (mask'.of \in Layers \/ mask' = Plain)
  <2>1. CASE offer = None
    BY <2>1, PlainTyped
  <2>2. CASE offer # None
    <3>1. offer \in Layers /\ held[offer] \in 0 .. MaxLen /\ live[offer] \in Nat \cup {None}
      BY <2>2 DEF TypeOK, MasksOK
    <3>2. PICK bound \in BOOLEAN, made \in Nat \cup {None}, unseen \in BOOLEAN :
             mask' = [of |-> offer, at |-> held[offer], made |-> made, bound |-> bound,
                      unseen |-> unseen]
      BY <2>2, <3>1
    <3>3. held[offer] \in -1 .. MaxLen
      BY <3>1, SizeAssumption
    <3> QED BY <3>1, <3>2, <3>3 DEF Masks
  <2> QED BY <2>1, <2>2
<1>3. MasksOK'
  BY <1>2 DEF TypeOK, MasksOK
<1>4. TypeOK'
  BY <1>1, <1>3 DEF TypeOK, setting, kv, ghosts
<1>5. Room'
  BY DEF Room, Done, ghosts
<1> QED BY <1>4, <1>5

LEMMA ReuseType ==
    ASSUME TypeInv, NEW m \in kept, Reuse(m)
    PROVE  TypeInv'
<1>1. MasksOK'
  BY DEF TypeInv, TypeOK, MasksOK, Reuse
<1>2. TypeOK'
  BY <1>1 DEF TypeInv, TypeOK, Reuse, setting, kv, tally, ghosts
<1>3. Room' /\ pc' # "end"
  BY DEF TypeInv, Room, Done, Reuse
<1> QED BY <1>2, <1>3 DEF TypeInv

(* What every update does, whoever looks at it. *)
LEMMA UpdateCases ==
    ASSUME TypeInv, NEW l \in Layers, Update(l)
    PROVE  \E got \in {fwd.added, fwd.added - 1} :
              LET after == Fits(l, held[l] + got) IN
              /\ held[l] + got \in 0 .. MaxLen /\ after \in 0 .. MaxLen
              /\ held' = [held EXCEPT ![l] = after]
              /\ faulty' = (faulty \/ got # fwd.added)
              /\ alone \subseteq alone'
              /\ \/ Unseen(l, after) /\ (Active("update", "layers") => "update" \in alone')
                 \/ Active("update", "layers") /\ static /\ Deferred(l, held[l], after)
                 \/ Active("update", "layers") /\ ~static /\ Grew(l, held[l], after)
<1>1. PICK got \in {fwd.added, fwd.added - 1} :
         LET after == Fits(l, held[l] + got) IN
         /\ held' = [held EXCEPT ![l] = after]
         /\ faulty' = (faulty \/ got # fwd.added)
         /\ \/ ~Active("update", "layers") /\ Works /\ Unseen(l, after)
            \/ Active("update", "layers") /\ FailsAt("update") /\ Unseen(l, after)
            \/ ~Active("update", "layers") /\ UNCHANGED alone /\ Unseen(l, after)
            \/ /\ Active("update", "layers") /\ UNCHANGED alone
               /\ IF static THEN Deferred(l, held[l], after) ELSE Grew(l, held[l], after)
  BY DEF Update, Works
<1>2. fwd.added \in Nat \ {0} /\ held[l] \in Nat /\ held[l] + fwd.added <= MaxLen
  <2>1. pc = "update" /\ l = fwd.layer /\ l \in Nat /\ ~Done(l)
    BY LayerAssumption DEF Update, Layers, Done
  <2>2. fwd.added \in Adds /\ held[l] + fwd.added <= MaxLen
    BY <2>1 DEF TypeInv, Room
  <2>3. held[l] \in Nat
    BY DEF TypeInv, TypeOK
  <2> QED BY <2>2, <2>3, SizeAssumption
<1>3. held[l] + got \in 0 .. MaxLen
  BY <1>1, <1>2, SizeAssumption
<1>4. Fits(l, held[l] + got) \in 0 .. MaxLen
  BY <1>3, FitsBounds, SizeAssumption
<1>5. alone \subseteq alone'
  BY <1>1 DEF Works, FailsAt
<1>6. Active("update", "layers") /\ FailsAt("update") => "update" \in alone'
  BY DEF FailsAt
<1> QED BY <1>1, <1>3, <1>4, <1>5, <1>6

(* How an update leaves the forward and the masks: the forward is over, or  *)
(* goes on with the masks as they were, or with a write they overlooked.    *)
LEMMA UpdateGoes ==
    ASSUME NEW l, NEW after, Unseen(l, after) \/ Deferred(l, held[l], after) \/ Grew(l, held[l], after)
    PROVE  \/ Over
           \/ /\ pc' = "attend" /\ fwd' = fwd
              /\ \/ UNCHANGED <<mask, kept>>
                 \/ mask' = Overlooked(mask, l) /\ kept' = {Overlooked(m, l) : m \in kept}
<1>1. CASE Unseen(l, after)
  BY <1>1 DEF Unseen
<1>2. CASE Deferred(l, held[l], after)
  BY <1>2 DEF Deferred, Goes
<1>3. CASE Grew(l, held[l], after)
  <2>1. \E refused : Goes(refused)
    BY <1>3 DEF Grew
  <2> QED BY <2>1 DEF Goes
<1> QED BY <1>1, <1>2, <1>3

LEMMA UpdateType ==
    ASSUME TypeInv, NEW l \in Layers, Update(l)
    PROVE  TypeInv'
<1>1. PICK after \in 0 .. MaxLen :
         /\ held' = [held EXCEPT ![l] = after]
         /\ faulty' \in BOOLEAN
         /\ Unseen(l, after) \/ Deferred(l, held[l], after) \/ Grew(l, held[l], after)
  BY UpdateCases DEF TypeInv, TypeOK
<1>2. left' \in Nat /\ alone' \subseteq Boundaries
  BY DEF Update, TypeInv, TypeOK, Works, FailsAt, Fault, Boundaries
<1>3. /\ pc = "update" /\ l = fwd.layer /\ looked' = NothingRead
      /\ UNCHANGED <<static, policy, live, offer, halted>>
  BY DEF Update, setting
<1>4. /\ books' \in [lengths : [Layers -> -1 .. MaxLen], prev : Layers \cup {-1},
                     target : -1 .. MaxLen]
      /\ grown' \in [lost : BOOLEAN, blurred : BOOLEAN, capped : BOOLEAN, breaks : SUBSET KvRules]
      /\ round' \in [checked : SUBSET Layers, uneven : BOOLEAN]
      /\ seen' \subseteq Rules /\ recorded' \in [Rules -> 0 .. ReportBound]
      /\ flags' \subseteq Layers /\ epoch' \in [Layers -> Nat]
      /\ lost' \subseteq Layers /\ blurred' \subseteq Layers /\ jumped' \subseteq Layers
  <2> USE DEF TypeInv, TypeOK
  <2>1. CASE Unseen(l, after)
    BY <2>1 DEF Unseen
  <2>2. CASE Deferred(l, held[l], after)
    <3>1. PICK wrong \in BOOLEAN :
             flags' = Flagged(l, wrong) /\ jumped' = IF wrong THEN jumped \cup {l} ELSE jumped
      BY <2>2 DEF Deferred
    <3>2. flags' \subseteq Layers /\ jumped' \subseteq Layers
      BY <3>1 DEF Flagged
    <3>3. /\ epoch' = [epoch EXCEPT ![l] = @ + 1]
          /\ UNCHANGED <<books, seen, recorded, grown, lost, blurred, round>>
      BY <2>2 DEF Deferred, Advanced
    <3>4. epoch' \in [Layers -> Nat]
      BY <3>3
    <3> QED BY <3>2, <3>3, <3>4
  <2>3. CASE Grew(l, held[l], after)
    <3> DEFINE short == LengthBreaks(l, held[l], after)
               raised == policy.stops /\ short # {}
               breaks == IF raised THEN short ELSE short \cup LayersBreak(l, after)
    <3>1. breaks \in SUBSET KvRules /\ raised \in BOOLEAN
      BY PolicyAssumption DEF LengthBreaks, LayersBreak, KvRules
    <3> HIDE DEF short, raised, breaks
    <3>2. /\ Report(breaks)
          /\ books' = IF raised THEN books ELSE Booked(l, after)
          /\ grown' = [lost |-> l \in lost \/ after < Fits(l, held[l] + fwd.added),
                       blurred |-> l \in blurred, capped |-> Capped(l, held[l] + fwd.added),
                       breaks |-> breaks]
          /\ lost' = lost \ {l}
          /\ blurred' = IF raised THEN blurred \cup {l} ELSE blurred \ {l}
          /\ round' = [checked |-> round.checked \cup {l},
                       uneven |-> round.uneven \/ "kv_layers" \in breaks]
          /\ UNCHANGED <<flags, epoch, jumped>>
      BY <2>3 DEF Grew, short, raised, breaks
    <3>3. Booked(l, after) \in [lengths : [Layers -> -1 .. MaxLen], prev : Layers \cup {-1},
                                target : -1 .. MaxLen]
      BY SizeAssumption DEF Booked, RoundTarget, None
    <3>4. seen' \subseteq Rules /\ recorded' \in [Rules -> 0 .. ReportBound]
      BY <3>1, <3>2, ReportType DEF Rules
    <3>5. grown' \in [lost : BOOLEAN, blurred : BOOLEAN, capped : BOOLEAN,
                      breaks : SUBSET KvRules]
      BY <3>1, <3>2 DEF Capped
    <3>6. round' \in [checked : SUBSET Layers, uneven : BOOLEAN]
      BY <3>2
    <3> QED BY <3>1, <3>2, <3>3, <3>4, <3>5, <3>6
  <2> QED BY <1>1, <2>1, <2>2, <2>3
<1>5. \/ Over
      \/ /\ pc' = "attend" /\ fwd' = fwd
         /\ \/ UNCHANGED <<mask, kept>>
            \/ mask' = Overlooked(mask, l) /\ kept' = {Overlooked(m, l) : m \in kept}
  BY <1>1, UpdateGoes
<1>6. pc' \in {"idle", "attend"} /\ fwd' = IF pc' = "idle" THEN NoForward ELSE fwd
  BY <1>5 DEF Over
<1>7. fwd' \in [added : Adds \cup {0}, capture : Captures \cup {"none"}, layer : Layers]
      /\ (pc' = "idle" <=> fwd' = NoForward)
  BY <1>3, <1>6, LayerAssumption DEF TypeInv, TypeOK, NoForward, Layers
<1>8. MasksOK'
  <2>1. CASE Over
    BY <1>3, <2>1, OverMasks DEF TypeInv, TypeOK, MasksOK
  <2>2. CASE pc' = "attend" /\ UNCHANGED <<mask, kept>>
    BY <1>3, <2>2 DEF TypeInv, TypeOK, MasksOK
  <2>3. CASE /\ pc' = "attend" /\ mask' = Overlooked(mask, l)
             /\ kept' = {Overlooked(m, l) : m \in kept}
    <3>1. \A m \in Masks : Overlooked(m, l) \in Masks /\ Overlooked(m, l).of = m.of
      BY OverlookedTyped
    <3>2. Plain.of # l /\ Overlooked(Plain, l) = Plain
      BY PlainTyped, OverlookedTyped
    <3>3. mask'.of \in Layers \/ mask' = Plain
      BY <1>3, <2>3, <3>1, <3>2 DEF TypeInv, TypeOK, MasksOK
    <3> QED BY <1>3, <2>3, <3>1, <3>3 DEF TypeInv, TypeOK, MasksOK
  <2> QED BY <1>5, <2>1, <2>2, <2>3
<1>9. held' \in [Layers -> 0 .. MaxLen] /\ looked' \in [wrong : BOOLEAN, told : BOOLEAN]
  BY <1>1, <1>3 DEF TypeInv, TypeOK, NothingRead
<1>10. TypeOK'
  BY <1>1, <1>2, <1>3, <1>4, <1>6, <1>7, <1>8, <1>9 DEF TypeInv, TypeOK
<1>11. Room'
  BY <1>1, <1>3, <1>6 DEF TypeInv, TypeOK, Room, Done, Layers
<1> QED BY <1>6, <1>10, <1>11 DEF TypeInv

(* A forward that goes on to its next layer is still a forward. *)
LEMMA NextLayer ==
    ASSUME TypeOK, NEW l \in Layers, l = fwd.layer, l # Last
    PROVE  /\ l + 1 \in Layers
           /\ [fwd EXCEPT !.layer = l + 1] # NoForward
           /\ [fwd EXCEPT !.layer = l + 1] \in [added : Adds \cup {0},
                                                 capture : Captures \cup {"none"}, layer : Layers]
           /\ [fwd EXCEPT !.layer = l + 1].layer = l + 1
           /\ [fwd EXCEPT !.layer = l + 1].added = fwd.added
           /\ [fwd EXCEPT !.layer = l + 1].capture = fwd.capture
<1>1. l + 1 \in Layers /\ l + 1 # 0
  BY LayerAssumption DEF Layers
<1>2. fwd \in [added : Adds \cup {0}, capture : Captures \cup {"none"}, layer : Layers]
  BY DEF TypeOK
<1>3. [fwd EXCEPT !.layer = l + 1].layer = l + 1 /\ NoForward.layer = 0
  BY <1>2 DEF NoForward
<1> QED BY <1>1, <1>2, <1>3

LEMMA SkipType ==
    ASSUME TypeInv, NEW l \in Layers, Skip(l)
    PROVE  TypeInv'
<1> USE DEF TypeInv, Skip
<1>1. /\ pc' = IF l = Last THEN "end" ELSE "update"
      /\ fwd' = IF l = Last THEN fwd ELSE [fwd EXCEPT !.layer = l + 1]
      /\ l < Last => l + 1 \in Layers
      /\ l <= Last
  BY LayerAssumption DEF Layers
<1>2. fwd' # NoForward /\ fwd' \in [added : Adds \cup {0}, capture : Captures \cup {"none"},
                                    layer : Layers]
  BY <1>1, NextLayer DEF TypeOK
<1>3. left' \in Nat /\ looked' \in [wrong : BOOLEAN, told : BOOLEAN]
  BY DEF Fault, TypeOK, NothingRead
<1>4. TypeOK'
  BY <1>1, <1>2, <1>3 DEF TypeOK, MasksOK, setting, kv, time, tally
<1>5. Room'
  <2>1. CASE l = Last
    BY <1>1, <2>1 DEF Room, Done
  <2>2. CASE l # Last
    <3>1. fwd'.added = fwd.added /\ fwd'.layer = fwd.layer + 1
      BY <1>1, <2>2, NextLayer
    <3> QED BY <1>1, <2>2, <3>1 DEF Room, Done, Layers
  <2> QED BY <2>1, <2>2
<1> QED BY <1>1, <1>4, <1>5

LEMMA AttendType ==
    ASSUME TypeInv, NEW l \in Layers, Attend(l)
    PROVE  TypeInv'
<1> USE DEF TypeInv
<1>0. /\ offer' = offer
      /\ \/ Over
         \/ /\ pc' = IF l = Last THEN "end" ELSE "update"
            /\ fwd' = IF l = Last THEN fwd ELSE [fwd EXCEPT !.layer = l + 1]
            /\ UNCHANGED <<mask, kept>>
  BY DEF Attend
<1>1. /\ \/ pc' = "idle" /\ fwd' = NoForward /\ mask' = NoMask
         \/ /\ pc' = IF l = Last THEN "end" ELSE "update"
            /\ fwd' = IF l = Last THEN fwd ELSE [fwd EXCEPT !.layer = l + 1]
            /\ mask' = mask
      /\ pc = "attend" /\ l = fwd.layer
      /\ left' \in Nat /\ alone' \subseteq Boundaries
      /\ UNCHANGED <<seen, recorded>> \/ Report({"epoch_stale"})
  BY <1>0 DEF Attend, Over, Works, FailsAt, Fault, TypeOK, Boundaries
<1>2. /\ grown' = NothingGrown
      /\ UNCHANGED <<static, policy, held, books, flags, epoch, live>>
      /\ UNCHANGED <<lost, blurred, jumped, round, faulty, halted>>
      /\ looked' \in [wrong : BOOLEAN, told : BOOLEAN]
  <2> DEFINE wrong == ~mask.bound /\ held[mask.of] # mask.at
  <2>1. looked' \in {[wrong |-> wrong, told |-> TRUE], [wrong |-> wrong, told |-> FALSE]}
    BY DEF Attend
  <2>2. wrong \in BOOLEAN
    OBVIOUS
  <2> HIDE DEF wrong
  <2>3. \A w, t \in BOOLEAN : [wrong |-> w, told |-> t] \in [wrong : BOOLEAN, told : BOOLEAN]
    OBVIOUS
  <2>4. looked' \in [wrong : BOOLEAN, told : BOOLEAN]
    BY <2>1, <2>2, <2>3, Zenon
  <2> QED BY <2>4 DEF Attend, setting, kv
<1>3. seen' \subseteq Rules /\ recorded' \in [Rules -> 0 .. ReportBound]
  BY <1>1, ReportType DEF TypeOK, Rules
<1>4. (l < Last => l + 1 \in Layers) /\ l <= Last
  BY LayerAssumption DEF Layers
<1>5. fwd' \in [added : Adds \cup {0}, capture : Captures \cup {"none"}, layer : Layers]
      /\ (pc' = "idle" <=> fwd' = NoForward)
  <2>1. CASE fwd' = NoForward /\ pc' = "idle"
    BY <2>1, LayerAssumption DEF NoForward, Layers
  <2>2. CASE l = Last /\ fwd' = fwd /\ pc' = "end"
    BY <1>1, <2>2 DEF TypeOK
  <2>3. CASE l # Last /\ fwd' = [fwd EXCEPT !.layer = l + 1] /\ pc' = "update"
    BY <1>1, <2>3, NextLayer
  <2> QED BY <1>1, <2>1, <2>2, <2>3
<1>6. MasksOK'
  <2>1. CASE Over
    BY <1>0, <2>1, OverMasks DEF TypeOK, MasksOK
  <2>2. CASE pc' \in {"update", "end"} /\ UNCHANGED <<mask, kept>>
    BY <1>0, <1>1, <2>2 DEF TypeOK, MasksOK
  <2> QED BY <1>0, <2>1, <2>2
<1>7. grown' \in [lost : BOOLEAN, blurred : BOOLEAN, capped : BOOLEAN, breaks : SUBSET KvRules]
  BY <1>2 DEF NothingGrown
<1>8. TypeOK'
  BY <1>1, <1>2, <1>3, <1>5, <1>6, <1>7 DEF TypeOK
<1>9. Room'
  <2>1. CASE pc' = "idle"
    BY <2>1 DEF Room
  <2>2. CASE l = Last /\ fwd' = fwd /\ pc' = "end"
    BY <1>1, <1>2, <2>2 DEF Room, Done
  <2>3. CASE l # Last /\ fwd' = [fwd EXCEPT !.layer = l + 1] /\ pc' = "update"
    <3>1. fwd'.added = fwd.added /\ fwd'.layer = fwd.layer + 1
      BY <1>1, <2>3, NextLayer
    <3> QED BY <1>1, <1>2, <2>3, <3>1 DEF Room, Done, Layers
  <2> QED BY <1>1, <2>1, <2>2, <2>3
<1> QED BY <1>1, <1>8, <1>9

LEMMA StepType == TypeInv /\ [Next]_vars => TypeInv'
<1> SUFFICES ASSUME TypeInv, [Next]_vars PROVE TypeInv'
  OBVIOUS
<1> USE DEF TypeInv
<1>1. CASE End \/ Interrupt
  <2>1. /\ looked' \in [wrong : BOOLEAN, told : BOOLEAN]
        /\ round' \in [checked : SUBSET Layers, uneven : BOOLEAN]
        /\ grown' \in [lost : BOOLEAN, blurred : BOOLEAN, capped : BOOLEAN,
                        breaks : SUBSET KvRules]
        /\ halted' \in BOOLEAN /\ left' \in Nat
    <3>1. /\ grown \in [lost : BOOLEAN, blurred : BOOLEAN, capped : BOOLEAN,
                        breaks : SUBSET KvRules]
          /\ halted \in BOOLEAN /\ left \in Nat
      BY DEF TypeOK
    <3>2. /\ looked' = NothingRead /\ round' = NoRound /\ grown' \in {grown, NothingGrown}
          /\ halted' \in {halted, halted \/ Halfway} /\ left' \in {left, left - 1}
          /\ left' = left \/ left > 0
      BY <1>1 DEF End, Interrupt, Fault
    <3> HIDE DEF TypeInv
    <3>3. NothingGrown \in [lost : BOOLEAN, blurred : BOOLEAN, capped : BOOLEAN,
                            breaks : SUBSET KvRules]
      BY DEF NothingGrown
    <3>4. left' \in Nat
      BY <3>1, <3>2
    <3>5. halted' \in BOOLEAN
      BY <3>1, <3>2 DEF Halfway
    <3> QED BY <3>1, <3>2, <3>3, <3>4, <3>5 DEF NothingRead, NoRound
  <2>2. Over /\ offer' \in Layers \cup {None}
    BY <1>1 DEF End, Interrupt, TypeOK, MasksOK
  <2>3. /\ MasksOK' /\ pc' = "idle" /\ fwd' = NoForward
        /\ fwd' \in [added : Adds \cup {0}, capture : Captures \cup {"none"}, layer : Layers]
    BY <2>2, OverMasks
  <2>4. UNCHANGED <<setting, held, kv, epoch, live, tally, lost, blurred, jumped, faulty>>
    BY <1>1 DEF End, Interrupt
  <2>5. TypeOK'
    BY <2>1, <2>3, <2>4 DEF TypeOK, setting, kv, tally
  <2> QED BY <2>3, <2>5 DEF Room
<1>2. ASSUME NEW l \in Layers, Drop(l) PROVE TypeInv'
  <2>1. held' \in [Layers -> 0 .. MaxLen] /\ left' \in Nat /\ lost' \subseteq Layers
    <3>1. held[l] - 1 \in 0 .. MaxLen /\ held' = [held EXCEPT ![l] = held[l] - 1]
      BY <1>2, SizeAssumption DEF Drop, TypeOK
    <3> QED BY <1>2, <3>1 DEF Drop, Fault, TypeOK
  <2>2. MasksOK'
    <3>1. \A m \in Masks : Overlooked(m, l) \in Masks /\ Overlooked(m, l).of = m.of
      BY OverlookedTyped
    <3> QED BY <1>2, <3>1 DEF Drop, TypeOK, MasksOK
  <2>3. TypeOK'
    BY <1>2, <2>1, <2>2 DEF Drop, TypeOK, setting, kv, tally
  <2> QED BY <1>2, <2>3 DEF Drop, Room
<1>3. CASE Flush
  <2>1. recorded' \in [Rules -> 0 .. ReportBound]
    BY <1>3 DEF Flush, TypeOK, Least, ReportBound, Rules, KvRules
  <2>2. MasksOK /\ UNCHANGED <<pc, offer, mask, kept>>
    BY <1>3 DEF Flush, TypeOK, time
  <2>3. MasksOK'
    BY <2>2 DEF MasksOK
  <2>4. TypeOK'
    <3>1. /\ flags' = {} /\ jumped' = {}
          /\ UNCHANGED <<static, policy, held, books, epoch, live, seen, alone, pc, fwd, left,
                         grown, looked, lost, blurred, round, faulty, halted>>
      BY <1>3 DEF Flush, setting, time
    <3> QED BY <2>1, <2>3, <3>1 DEF TypeOK
  <2> QED BY <1>3, <2>4 DEF Flush, Room
<1>4. CASE UNCHANGED vars
  BY <1>4 DEF vars, setting, kv, time, tally, ghosts, TypeOK, MasksOK, Room, Done
<1>5. ASSUME NEW l \in Asked, HandOut(l) PROVE TypeInv'
  BY <1>5, HandOutType, LayerAssumption
<1> QED
  BY <1>1, <1>2, <1>3, <1>4, <1>5, BeginType, BuildMaskType, ReuseType, UpdateType, SkipType,
     AttendType DEF Next

(* Every variable keeps its type: in particular no layer grows past MaxLen, *)
(* and a mask that reads its counter later names a layer of the cache.      *)
THEOREM TypeCorrect == Spec => []TypeOK
<1>1. Init => TypeInv
  BY InitType
<1>2. TypeInv /\ [Next]_vars => TypeInv'
  BY StepType
<1>3. TypeInv => TypeOK
  BY DEF TypeInv
<1> QED BY <1>1, <1>2, <1>3, PTL DEF Spec
-----------------------------------------------------------------------------
(* The flags: only a flush forgets one, and it forgets all of them together *)
(* with the jumps they stand for.                                           *)

(* No update takes back what an earlier one found wrong on the device: a    *)
(* counter that jumped stays flagged until flush reads it.                  *)
THEOREM JumpsAreKept == Spec => []JumpsKept
<1>1. Init => TypeInv /\ JumpsKept
  BY InitType DEF Init, JumpsKept
<1>2. TypeInv /\ JumpsKept /\ [Next]_vars => TypeInv' /\ JumpsKept'
  <2> SUFFICES ASSUME TypeInv, JumpsKept, [Next]_vars PROVE JumpsKept'
    BY StepType
  <2>1. ASSUME NEW l \in Layers, Update(l) PROVE JumpsKept'
    <3>1. PICK after : \/ Unseen(l, after) \/ Deferred(l, held[l], after)
                       \/ Grew(l, held[l], after)
      BY <2>1, UpdateCases
    <3>2. CASE Deferred(l, held[l], after)
      BY <3>2 DEF Deferred, Flagged, JumpsKept
    <3> QED BY <3>1, <3>2 DEF Unseen, Grew, JumpsKept
  <2>2. CASE Flush
    BY <2>2 DEF Flush, JumpsKept
  <2>3. CASE UNCHANGED <<flags, jumped>>
    BY <2>3 DEF JumpsKept
  <2>4. CASE \E n \in Adds, capture \in Captures : Begin(n, capture)
    BY <2>3, <2>4 DEF Begin, kv
  <2>5. CASE (\E l \in Asked : HandOut(l)) \/ \E l \in Layers : Skip(l) \/ Attend(l) \/ Drop(l)
    BY <2>3, <2>5 DEF HandOut, Skip, Attend, Drop, kv, ghosts
  <2>6. CASE BuildMask \/ (\E m \in kept : Reuse(m)) \/ End \/ Interrupt \/ UNCHANGED vars
    BY <2>3, <2>6 DEF BuildMask, Reuse, End, Interrupt, vars, kv, ghosts
  <2> QED BY <2>1, <2>2, <2>4, <2>5, <2>6 DEF Next
<1> QED BY <1>1, <1>2, PTL DEF Spec
-----------------------------------------------------------------------------
(* The target of a round is held by a layer at or before the one updated    *)
(* last: an update that keeps the target comes after that one, and cannot   *)
(* take the target away from the layer that holds it.                       *)

TargetHeld ==
    books.target # None =>
        \E l \in Layers \ Windowed : l <= books.prev /\ books.lengths[l] = books.target

LEMMA BookedHeld ==
    ASSUME TypeOK, TargetHeld, NEW l \in Layers, NEW after \in 0 .. MaxLen,
           books' = Booked(l, after)
    PROVE  TargetHeld'
<1>1. /\ books'.lengths = [books.lengths EXCEPT ![l] = after]
      /\ books'.prev = l
      /\ books'.target = IF l \in Windowed \/ RoundTarget(l) # None THEN RoundTarget(l)
                         ELSE after
  BY DEF Booked
<1>2. books.lengths \in [Layers -> -1 .. MaxLen] /\ books.prev \in Layers \cup {-1}
  BY DEF TypeOK
<1> SUFFICES ASSUME books'.target # None
             PROVE  \E m \in Layers \ Windowed :
                       m <= l /\ books'.lengths[m] = books'.target
  BY <1>1 DEF TargetHeld
<1>3. CASE RoundTarget(l) = None
  BY <1>1, <1>2, <1>3, LayerAssumption DEF Layers
<1>4. CASE RoundTarget(l) # None
  <2>1. l > books.prev /\ books.target # None /\ books'.target = books.target
    BY <1>1, <1>2, <1>4, LayerAssumption DEF RoundTarget, Layers
  <2>2. PICK m \in Layers \ Windowed : m <= books.prev /\ books.lengths[m] = books.target
    BY <2>1 DEF TargetHeld
  <2>3. m # l /\ m <= l
    BY <1>2, <2>1, <2>2, LayerAssumption DEF Layers
  <2> QED BY <1>1, <1>2, <2>1, <2>2, <2>3
<1> QED BY <1>3, <1>4

(* Only an update that was looked at changes the books. *)
LEMMA BooksStep ==
    ASSUME TypeInv, [Next]_vars
    PROVE  \/ UNCHANGED books
           \/ \E l \in Layers : \E after \in 0 .. MaxLen : books' = Booked(l, after)
<1>1. ASSUME NEW l \in Layers, Update(l)
      PROVE  books' = books \/ \E after \in 0 .. MaxLen : books' = Booked(l, after)
  <2>1. PICK after \in 0 .. MaxLen : \/ Unseen(l, after) \/ Deferred(l, held[l], after)
                                     \/ Grew(l, held[l], after)
    BY <1>1, UpdateCases
  <2>2. CASE Grew(l, held[l], after)
    BY <2>2 DEF Grew
  <2> QED BY <2>1, <2>2 DEF Unseen, Deferred
<1>2. CASE \E n \in Adds, capture \in Captures : Begin(n, capture)
  BY <1>2 DEF Begin, kv
<1>3. CASE (\E l \in Asked : HandOut(l)) \/ \E l \in Layers : Skip(l) \/ Attend(l) \/ Drop(l)
  BY <1>3 DEF HandOut, Skip, Attend, Drop, kv
<1>4. CASE \/ BuildMask \/ (\E m \in kept : Reuse(m)) \/ End \/ Interrupt \/ Flush
           \/ UNCHANGED vars
  BY <1>4 DEF BuildMask, Reuse, End, Interrupt, Flush, vars, kv
<1> QED BY <1>1, <1>2, <1>3, <1>4 DEF Next

(* When a layer disagrees with its round, another one that agrees is in the *)
(* books: grew never comes to name an odd layer and finds none.             *)
THEOREM OddIsFound == Spec => []OddLayerFound
<1>1. Init => TypeInv /\ TargetHeld
  BY InitType DEF Init, TargetHeld
<1>2. TypeInv /\ TargetHeld /\ [Next]_vars => TypeInv' /\ TargetHeld'
  <2> SUFFICES ASSUME TypeInv, TargetHeld, [Next]_vars PROVE TargetHeld'
    BY StepType
  <2>1. CASE UNCHANGED books
    BY <2>1 DEF TargetHeld
  <2>2. CASE \E l \in Layers : \E after \in 0 .. MaxLen : books' = Booked(l, after)
    BY <2>2, BookedHeld DEF TypeInv
  <2> QED BY <2>1, <2>2, BooksStep
<1>3. TargetHeld => OddLayerFound
  BY DEF TargetHeld, OddLayerFound
<1> QED BY <1>1, <1>2, <1>3, PTL DEF Spec
-----------------------------------------------------------------------------
(* An engine that does nothing wrong, on a dynamic cache. In a forward the  *)
(* layers are level when those still to come are counted with the tokens    *)
(* they will be given, unless a forward ended between two of them; and a    *)
(* round that goes on knows the layers it has come past.                    *)

Level(l) == IF pc = "idle" \/ Done(l) THEN held[l] ELSE held[l] + fwd.added

Fresh == pc \in {"idle", "offer", "mask"} \/ (pc = "update" /\ fwd.layer = 0)

RoundGoesOn ==
    /\ books.prev = IF pc = "update" THEN fwd.layer - 1 ELSE fwd.layer
    /\ \A m \in Layers : m <= books.prev => books.lengths[m] = held[m]

Levelled == \A l, m \in Layers \ Windowed : Level(l) = Level(m)

Rounds == "update" \notin alone /\ ~Fresh /\ ~Captured("layers") => RoundGoesOn

Healthy ==
    /\ mask \in {NoMask, Plain} /\ offer = None /\ kept = {}
    /\ pc \in {"offer", "mask"} => fwd.layer = 0
    /\ \A l \in Layers : books.lengths[l] <= held[l]
    /\ \A l \in Windowed : held[l] <= Window
    /\ books.prev = -1 => books.target = None
    /\ ~halted => Levelled
    /\ Rounds

Quiet ==
    /\ grown.breaks \subseteq {"kv_layers"}
    /\ grown.breaks # {} => halted /\ Disagree /\ pc \in {"idle", "attend"}

HealthyInv ==
    /\ TypeInv /\ TargetHeld
    /\ static => grown.breaks = {}
    /\ ~faulty /\ ~static => Healthy /\ Quiet

(* A forward that is over keeps no mask that reads nothing later.           *)
LEMMA HealthyOver ==
    ASSUME Healthy, Over
    PROVE  pc' = "idle" /\ mask' = NoMask /\ kept' = {}
BY PlainTyped DEF Healthy, Over

(* A layer given all its tokens holds them, up to its window, and no fewer  *)
(* than before.                                                             *)
LEMMA FullUpdate ==
    ASSUME TypeInv, Healthy, ~static, NEW l \in Layers, pc = "update", l = fwd.layer
    PROVE  LET after == Fits(l, held[l] + fwd.added) IN
           /\ after \in Nat /\ held[l] <= after
           /\ l \in Windowed => after <= Window
           /\ ~Capped(l, held[l] + fwd.added) => after = held[l] + fwd.added
           /\ l \notin Windowed => after = Level(l)
<1>1. fwd.added \in Nat \ {0} /\ held[l] \in Nat
  BY SizeAssumption DEF TypeInv, TypeOK, Room
<1>2. ~Done(l) /\ Level(l) = held[l] + fwd.added
  BY LayerAssumption DEF Done, Level, Layers
<1>3. l \in Windowed => held[l] <= Window
  BY DEF Healthy
<1> QED BY <1>1, <1>2, <1>3, SizeAssumption DEF Fits, Least, Capped

(* Such an update breaks no rule of the layer's own length.                 *)
LEMMA NoLengthBreaks ==
    ASSUME TypeInv, Healthy, ~static, NEW l \in Layers, pc = "update", l = fwd.layer
    PROVE  LengthBreaks(l, held[l], Fits(l, held[l] + fwd.added)) = {}
<1> DEFINE after == Fits(l, held[l] + fwd.added)
<1>1. /\ after \in Nat
      /\ ~Capped(l, held[l] + fwd.added) => after = held[l] + fwd.added
  BY FullUpdate
<1> HIDE DEF after
<1>2. /\ books.lengths[l] \in -1 .. MaxLen /\ books.lengths[l] <= held[l]
      /\ held[l] \in Nat /\ fwd.added \in Nat
  BY SizeAssumption DEF TypeInv, TypeOK, Room, Healthy
<1>3. LengthBreaks(l, held[l], after) = {}
  BY <1>1, <1>2, SizeAssumption DEF LengthBreaks, Previous
<1> QED BY <1>3 DEF after

(* And it is only said to disagree with a layer of this round that holds    *)
(* something else, which takes a forward that ended halfway.                *)
LEMMA OnlyDisagreement ==
    ASSUME TypeInv, TargetHeld, Healthy, ~static, NEW l \in Layers, pc = "update", l = fwd.layer,
           Active("update", "layers"),
           LayersBreak(l, Fits(l, held[l] + fwd.added)) # {}
    PROVE  /\ halted /\ l \notin Windowed
           /\ \E m \in Layers \ Windowed : m # l /\ held[m] # Fits(l, held[l] + fwd.added)
<1> DEFINE after == Fits(l, held[l] + fwd.added)
<1>1. l \notin Windowed /\ RoundTarget(l) # None /\ after # RoundTarget(l)
  BY DEF LayersBreak
<1>2. after = Level(l)
  BY <1>1, FullUpdate
<1> HIDE DEF after
<1>3. books.prev < l /\ books.target # None /\ RoundTarget(l) = books.target
  BY <1>1, LayerAssumption DEF RoundTarget, TypeInv, TypeOK, Layers
<1>4. PICK m \in Layers \ Windowed : m <= books.prev /\ books.lengths[m] = books.target
  BY <1>3 DEF TargetHeld
<1>5. /\ l \in Int /\ m \in Int /\ books.prev \in Int /\ m >= 0
  BY <1>4, LayerAssumption DEF TypeInv, TypeOK, Layers
<1>6. ~Fresh /\ m # l /\ Done(m)
  BY <1>3, <1>4, <1>5 DEF Fresh, Done
<1>7. RoundGoesOn
  BY <1>6 DEF Healthy, Rounds, Active
<1>8. held[m] = books.target
  BY <1>4, <1>7 DEF RoundGoesOn
<1>9. held[m] # after
  BY <1>1, <1>3, <1>8
<1>10. halted
  <2> SUFFICES ASSUME ~halted PROVE FALSE
    OBVIOUS
  <2>1. Level(m) = Level(l)
    BY <1>1, <1>4 DEF Healthy, Levelled
  <2>2. Level(m) = held[m]
    BY <1>6 DEF Level
  <2> QED BY <1>2, <1>9, <2>1, <2>2
<1> QED BY <1>1, <1>4, <1>6, <1>9, <1>10 DEF after

(* The level does not change when a layer gets its tokens, nor when the     *)
(* forward goes on to the next.                                             *)
LEMMA SameLevel ==
    ASSUME TypeInv, Healthy, ~static, NEW l \in Layers, pc = "update", l = fwd.layer,
           held' = [held EXCEPT ![l] = Fits(l, held[l] + fwd.added)],
           pc' = "attend", fwd' = fwd
    PROVE  \A m \in Layers \ Windowed : Level(m)' = Level(m)
<1> SUFFICES ASSUME NEW m \in Layers \ Windowed PROVE Level(m)' = Level(m)
  OBVIOUS
<1>1. CASE m = l
  <2>1. Done(l)' /\ held'[l] = Fits(l, held[l] + fwd.added)
    BY DEF Done, TypeInv, TypeOK
  <2> QED BY <1>1, <2>1, FullUpdate DEF Level
<1>2. CASE m # l
  <2>1. Done(m)' = Done(m) /\ held'[m] = held[m]
    BY <1>2 DEF Done, TypeInv, TypeOK
  <2> QED BY <2>1 DEF Level
<1> QED BY <1>1, <1>2

LEMMA HealthyUpdate ==
    ASSUME HealthyInv, NEW l \in Layers, Update(l), ~faulty', ~static
    PROVE  Healthy' /\ Quiet'
<1> DEFINE after == Fits(l, held[l] + fwd.added)
<1>1. /\ TypeInv /\ TargetHeld /\ ~faulty /\ Healthy /\ Quiet
      /\ pc = "update" /\ l = fwd.layer /\ UNCHANGED <<offer, halted>>
      /\ held' = [held EXCEPT ![l] = after]
      /\ alone \subseteq alone'
      /\ \/ Unseen(l, after) /\ (Active("update", "layers") => "update" \in alone')
         \/ Active("update", "layers") /\ Grew(l, held[l], after)
  BY UpdateCases DEF HealthyInv, Update, setting
<1>2. grown.breaks = {}
  BY <1>1 DEF Quiet
<1>3. /\ after \in Nat /\ held[l] <= after /\ (l \in Windowed => after <= Window)
      /\ l \notin Windowed => after = Level(l)
  BY <1>1, FullUpdate
<1>4. \A m \in Layers : held'[m] = IF m = l THEN after ELSE held[m]
  BY <1>1 DEF TypeInv, TypeOK
<1>5. pc' = "attend" /\ fwd' = fwd => \A m \in Layers \ Windowed : Level(m)' = Level(m)
  BY <1>1, SameLevel
<1>6. Active("update", "layers") =>
         /\ LengthBreaks(l, held[l], after) = {}
         /\ LayersBreak(l, after) # {} =>
               /\ halted /\ l \notin Windowed
               /\ \E m \in Layers \ Windowed : m # l /\ held[m] # after
  BY <1>1, NoLengthBreaks, OnlyDisagreement
<1> HIDE DEF after
<1>7. /\ \/ pc' = "attend" /\ fwd' = fwd /\ mask' \in {mask, Overlooked(mask, l)} /\ kept' = {}
         \/ Over /\ halted
      /\ Quiet'
      /\ \/ UNCHANGED books /\ (Captured("layers") \/ "update" \in alone')
         \/ books' = Booked(l, after) /\ ~Captured("layers")
  <2>1. CASE Unseen(l, after) /\ (Active("update", "layers") => "update" \in alone')
    <3>1. /\ grown' = grown /\ UNCHANGED books /\ pc' = "attend" /\ fwd' = fwd
          /\ mask' = Overlooked(mask, l) /\ kept' = {Overlooked(m, l) : m \in kept}
      BY <2>1 DEF Unseen
    <3>2. Captured("layers") \/ "update" \in alone'
      BY <1>1, <2>1 DEF Active
    <3>3. kept' = {}
      BY <1>1, <3>1 DEF Healthy
    <3> QED BY <1>2, <3>1, <3>2, <3>3 DEF Quiet
  <2>2. CASE Active("update", "layers") /\ Grew(l, held[l], after)
    <3> DEFINE uneven == LayersBreak(l, after)
    <3>1. uneven \subseteq {"kv_layers"}
      BY DEF LayersBreak
    <3>2. grown'.breaks = uneven /\ books' = Booked(l, after) /\ Goes(policy.stops /\ uneven # {})
      BY <1>6, <2>2 DEF Grew
    <3>3. uneven # {} => halted /\ Disagree'
      BY <1>4, <1>6, <2>2 DEF Disagree
    <3> HIDE DEF uneven
    <3>4. \/ pc' = "attend" /\ fwd' = fwd /\ mask' = mask /\ kept' = kept
          \/ Over /\ uneven # {}
      BY <3>2 DEF Goes
    <3>5. kept' = kept => kept' = {}
      BY <1>1 DEF Healthy
    <3>6. pc' \in {"idle", "attend"}
      BY <3>4 DEF Over
    <3>7. Quiet'
      BY <1>1, <3>1, <3>2, <3>3, <3>6 DEF Quiet
    <3> QED BY <2>2, <3>2, <3>3, <3>4, <3>5, <3>7 DEF Active
  <2> QED BY <1>1, <2>1, <2>2
<1>8. mask' \in {NoMask, Plain} /\ kept' = {} /\ pc' \in {"idle", "attend"}
  <2>1. CASE Over
    BY <1>1, <2>1, HealthyOver
  <2>2. CASE pc' = "attend" /\ mask' \in {mask, Overlooked(mask, l)} /\ kept' = {}
    <3>1. Overlooked(NoMask, l) = NoMask /\ Overlooked(Plain, l) = Plain
      BY PlainTyped DEF Overlooked
    <3> QED BY <1>1, <2>2, <3>1 DEF Healthy
  <2> QED BY <1>7, <2>1, <2>2
<1>9. \A m \in Layers : books'.lengths[m] <= held'[m]
  <2>1. \A m \in Layers : /\ books.lengths[m] <= held[m] /\ books.lengths[m] \in Int
                          /\ held[m] \in Int
    BY <1>1, SizeAssumption DEF Healthy, TypeInv, TypeOK
  <2>2. CASE UNCHANGED books
    BY <1>3, <1>4, <2>1, <2>2
  <2>3. CASE books' = Booked(l, after)
    BY <1>1, <1>3, <1>4, <2>1, <2>3 DEF Booked, TypeInv, TypeOK
  <2> QED BY <1>7, <2>2, <2>3
<1>10. \A m \in Windowed : held'[m] <= Window
  BY <1>1, <1>3, <1>4, LayerAssumption DEF Healthy
<1>11. books'.prev = -1 => books'.target = None
  BY <1>1, <1>7, LayerAssumption DEF Healthy, Booked, Layers
<1>12. ~halted' => Levelled'
  <2> SUFFICES ASSUME ~halted PROVE Levelled'
    BY <1>1
  <2>1. \A m \in Layers \ Windowed : Level(m)' = Level(m)
    BY <1>5, <1>7
  <2> QED BY <1>1, <2>1 DEF Healthy, Levelled
<1>13. Rounds'
  <2> SUFFICES ASSUME "update" \notin alone', pc' = "attend", ~Captured("layers")'
               PROVE  RoundGoesOn'
    BY <1>8 DEF Rounds, Fresh
  <2>1. "update" \notin alone /\ fwd' = fwd /\ ~Captured("layers")
    BY <1>1, <1>7 DEF Captured, Over
  <2>2. books' = Booked(l, after)
    BY <1>7, <2>1
  <2>3. /\ books'.prev = l /\ books'.lengths = [books.lengths EXCEPT ![l] = after]
    BY <2>2 DEF Booked
  <2>4. ASSUME NEW m \in Layers, m <= l PROVE books'.lengths[m] = held'[m]
    <3>1. CASE m = l
      BY <1>1, <1>4, <2>3, <3>1 DEF TypeInv, TypeOK
    <3>2. CASE m # l
      <4>1. l \in Int /\ m \in Int /\ m < l /\ m >= 0
        BY <2>4, <3>2, LayerAssumption DEF Layers
      <4>2. ~Fresh
        BY <1>1, <4>1 DEF Fresh
      <4>3. RoundGoesOn
        BY <1>1, <2>1, <4>2 DEF Healthy, Rounds
      <4>4. books.lengths[m] = held[m]
        BY <1>1, <4>1, <4>3 DEF RoundGoesOn
      <4>5. books'.lengths[m] = books.lengths[m]
        BY <1>1, <2>3, <3>2 DEF TypeInv, TypeOK
      <4> QED BY <1>4, <3>2, <4>4, <4>5
    <3> QED BY <3>1, <3>2
  <2> QED BY <1>1, <2>1, <2>3, <2>4 DEF RoundGoesOn
<1> QED BY <1>1, <1>7, <1>8, <1>9, <1>10, <1>11, <1>12, <1>13 DEF Healthy

LEMMA HealthyBegin ==
    ASSUME HealthyInv, NEW n \in Adds, NEW capture \in Captures, Begin(n, capture),
           ~faulty', ~static
    PROVE  Healthy' /\ Quiet'
<1>1. /\ pc = "idle" /\ pc' = "offer" /\ grown' = NothingGrown
      /\ fwd' = [added |-> n, capture |-> capture, layer |-> 0]
      /\ UNCHANGED <<held, books, offer, mask, kept, alone, faulty, halted>>
  BY DEF Begin, kv, time, tally
<1>2. Quiet'
  BY <1>1 DEF NothingGrown, Quiet
<1>3. Healthy
  BY <1>1 DEF HealthyInv
<1>4. \A l \in Layers : Level(l) = held[l] /\ Level(l)' = held[l] + n
  BY <1>1, LayerAssumption DEF Level, Done, Layers
<1>5. ~halted' => Levelled'
  BY <1>1, <1>3, <1>4 DEF Healthy, Levelled
<1>6. Rounds'
  BY <1>1 DEF Rounds, Fresh
<1> QED BY <1>1, <1>2, <1>3, <1>5, <1>6 DEF Healthy

LEMMA HealthyMask ==
    ASSUME HealthyInv, (\E l \in Asked : HandOut(l)) \/ BuildMask, ~faulty', ~static
    PROVE  Healthy' /\ Quiet'
<1>1. /\ pc \in {"offer", "mask"} /\ pc' \in {"mask", "update"}
      /\ UNCHANGED <<held, books, kept, fwd, grown, faulty, halted>>
      /\ alone \subseteq alone'
  BY DEF HandOut, BuildMask, setting, kv, ghosts, Works, FailsAt
<1>2. Healthy /\ Quiet
  BY <1>1 DEF HealthyInv
<1>3. Quiet'
  BY <1>1, <1>2 DEF Quiet
<1>4. offer' = None /\ mask' \in {NoMask, Plain}
  BY <1>2 DEF HandOut, BuildMask, Healthy
<1>5. \A l \in Layers : Level(l)' = Level(l)
  BY <1>1 DEF Level, Done
<1>6. ~halted' => Levelled'
  BY <1>1, <1>2, <1>5 DEF Healthy, Levelled
<1>7. Rounds'
  BY <1>1, <1>2 DEF Healthy, Rounds, Fresh
<1> QED BY <1>1, <1>2, <1>3, <1>4, <1>6, <1>7 DEF Healthy

LEMMA HealthyAttend ==
    ASSUME HealthyInv, NEW l \in Layers, Attend(l), ~faulty', ~static
    PROVE  Healthy' /\ Quiet'
<1>1. /\ pc = "attend" /\ l = fwd.layer /\ grown' = NothingGrown
      /\ UNCHANGED <<held, books, offer, faulty, halted>>
      /\ alone \subseteq alone'
  BY DEF Attend, setting, kv, Works, FailsAt
<1>2. Quiet'
  BY <1>1 DEF NothingGrown, Quiet
<1>3. Healthy /\ TypeOK
  BY <1>1 DEF HealthyInv, TypeInv
<1>4. ~IsStale(mask)
  BY <1>3, PlainTyped DEF Healthy, IsStale
<1>5. /\ pc' = IF l = Last THEN "end" ELSE "update"
      /\ fwd' = IF l = Last THEN fwd ELSE [fwd EXCEPT !.layer = l + 1]
      /\ mask' = mask /\ kept' = kept
  BY <1>4 DEF Attend
<1>6. /\ fwd'.added = fwd.added /\ fwd'.capture = fwd.capture
      /\ fwd'.layer = IF l = Last THEN l ELSE l + 1
  <2>1. CASE l = Last
    BY <1>1, <1>5, <2>1
  <2>2. CASE l # Last
    BY <1>1, <1>3, <1>5, <2>2, NextLayer
  <2> QED BY <2>1, <2>2
<1>7. l \in 0 .. Last /\ Last \in Nat
  BY LayerAssumption DEF Layers
<1>8. \A m \in Layers : Level(m)' = Level(m)
  BY <1>1, <1>5, <1>6, <1>7 DEF Level, Done, Layers
<1>9. ~halted' => Levelled'
  BY <1>1, <1>3, <1>8 DEF Healthy, Levelled
<1>10. Rounds'
  <2>1. ~Fresh /\ ~Fresh' /\ (Captured("layers")' <=> Captured("layers"))
    BY <1>1, <1>5, <1>6, <1>7 DEF Fresh, Captured
  <2>2. RoundGoesOn => RoundGoesOn'
    BY <1>1, <1>5, <1>6, <1>7 DEF RoundGoesOn
  <2> QED BY <1>1, <1>3, <2>1, <2>2 DEF Healthy, Rounds
<1> QED BY <1>1, <1>2, <1>3, <1>5, <1>9, <1>10 DEF Healthy

(* A forward that is over, at its end or wherever it was stopped.           *)
LEMMA HealthyEnd ==
    ASSUME HealthyInv, End \/ Interrupt, ~faulty', ~static
    PROVE  Healthy' /\ Quiet'
<1>1. /\ Over /\ pc # "idle" /\ grown' \in {grown, NothingGrown}
      /\ offer' \in {offer, None}
      /\ UNCHANGED <<held, books, alone, faulty>>
      /\ ~halted' => ~halted /\ (pc = "end" \/ ~Halfway)
      /\ grown' = grown => pc = "end" \/ grown = NothingGrown
  <2>1. CASE End
    BY <2>1 DEF End, setting, kv, tally
  <2>2. CASE Interrupt
    BY <2>2 DEF Interrupt, setting, kv, tally
  <2> QED BY <2>1, <2>2
<1>2. TypeInv /\ Healthy /\ Quiet
  BY <1>1 DEF HealthyInv
<1>3. grown'.breaks = {} /\ Quiet'
  BY <1>1, <1>2 DEF Quiet, NothingGrown
<1>4. pc' = "idle" /\ mask' = NoMask /\ kept' = {} /\ offer' = None
  BY <1>1, <1>2, HealthyOver DEF Healthy
<1>5. ~halted' => Levelled'
  <2> SUFFICES ASSUME ~halted' PROVE Levelled'
    OBVIOUS
  <2>1. Levelled /\ \A l \in Layers : Level(l)' = held[l]
    BY <1>1, <1>2, <1>4 DEF Healthy, Level
  <2>2. (\A l \in Layers : Done(l)) \/ (\A l \in Layers : ~Done(l))
    <3>1. fwd.layer \in Layers /\ Last \in Nat
      BY <1>2, LayerAssumption DEF TypeInv, TypeOK
    <3>2. pc \in {"offer", "mask", "update", "attend", "end"}
      BY <1>1, <1>2 DEF TypeInv, TypeOK
    <3>3. CASE pc = "end" \/ (pc = "attend" /\ fwd.layer = Last)
      <4>1. fwd.layer = Last
        BY <1>2, <3>3 DEF TypeInv
      <4> QED BY <3>1, <3>3, <4>1 DEF Done, Layers
    <3>4. CASE pc \in {"offer", "mask"} \/ (pc = "update" /\ fwd.layer = 0)
      <4>1. fwd.layer = 0
        BY <1>2, <3>4 DEF Healthy
      <4> QED BY <3>1, <3>4, <4>1 DEF Done, Layers
    <3>5. CASE (pc = "attend" /\ fwd.layer # Last) \/ (pc = "update" /\ fwd.layer # 0)
      <4>1. Halfway
        BY <3>1, <3>5 DEF Halfway, Layers
      <4> QED BY <1>1, <3>5, <4>1
    <3> QED BY <3>2, <3>3, <3>4, <3>5
  <2>3. \A l, m \in Layers \ Windowed : held[l] = held[m]
    <3> SUFFICES ASSUME NEW l \in Layers \ Windowed, NEW m \in Layers \ Windowed
                 PROVE  held[l] = held[m]
      OBVIOUS
    <3>1. Level(l) = Level(m)
      BY <2>1 DEF Levelled
    <3>2. CASE Done(l) /\ Done(m)
      BY <3>1, <3>2 DEF Level
    <3>3. CASE ~Done(l) /\ ~Done(m)
      <4>1. held[l] + fwd.added = held[m] + fwd.added
        BY <1>1, <3>1, <3>3 DEF Level
      <4>2. held[l] \in Int /\ held[m] \in Int
        BY <1>2 DEF TypeInv, TypeOK
      <4>3. fwd.added \in Int
        <5>1. pc # "idle" /\ Room
          BY <1>1, <1>2 DEF TypeInv
        <5>2. fwd.added \in Adds
          BY <5>1 DEF Room
        <5>3. fwd.added \in Nat \ {0}
          BY <5>2, SizeAssumption
        <5> QED BY <5>3
      <4>4. \A a, b, n \in Int : a + n = b + n => a = b
        OBVIOUS
      <4> QED BY <4>1, <4>2, <4>3, <4>4
    <3> QED BY <2>2, <3>2, <3>3
  <2> QED BY <2>1, <2>3 DEF Levelled
<1>6. Rounds'
  BY <1>4 DEF Rounds, Fresh
<1> QED BY <1>1, <1>2, <1>3, <1>4, <1>5, <1>6 DEF Healthy

(* Nothing but an update of a dynamic cache breaks a rule.                  *)
LEMMA StaticBreaksNothing ==
    ASSUME HealthyInv, [Next]_vars
    PROVE  static' = static /\ (static => grown'.breaks = {})
<1>1. static' = static
  BY DEF Next, vars, setting, Begin, HandOut, Reuse, Update, Skip, Attend, Drop, BuildMask, End,
         Interrupt, Flush
<1>2. ASSUME NEW l \in Layers, Update(l), static PROVE grown' = grown
  <2>1. PICK after : Unseen(l, after) \/ Deferred(l, held[l], after)
    BY <1>2, UpdateCases DEF HealthyInv
  <2> QED BY <2>1 DEF Unseen, Deferred
<1>3. CASE grown' \in {grown, NothingGrown}
  BY <1>1, <1>3 DEF HealthyInv, NothingGrown
<1>4. CASE \E n \in Adds, capture \in Captures : Begin(n, capture)
  BY <1>3, <1>4 DEF Begin
<1>5. CASE (\E l \in Asked : HandOut(l)) \/ \E l \in Layers : Skip(l) \/ Attend(l) \/ Drop(l)
  BY <1>3, <1>5 DEF HandOut, Skip, Attend, Drop, ghosts
<1>6. CASE \/ BuildMask \/ (\E m \in kept : Reuse(m)) \/ End \/ Interrupt \/ Flush
           \/ UNCHANGED vars
  BY <1>3, <1>6 DEF BuildMask, Reuse, End, Interrupt, Flush, vars, ghosts
<1> QED BY <1>1, <1>2, <1>3, <1>4, <1>5, <1>6 DEF Next

(* "The length nobody compared is the one that drifts", and no other: of an *)
(* engine that drops, loses and skips nothing the rules of one layer's      *)
(* length report nothing, and the layers are only said to disagree when     *)
(* they do, after a forward that ended between two of them; for any number  *)
(* of layers, windows and captured forwards, and whatever boundary entail   *)
(* fails at on the way (kv_contract.grew).                                  *)
THEOREM HealthyIsQuiet == Spec => []NoFalseBreak
<1>1. Init => HealthyInv
  <2> SUFFICES ASSUME Init PROVE HealthyInv
    OBVIOUS
  <2>1. TypeInv /\ TargetHeld /\ grown.breaks = {}
    BY InitType DEF Init, NothingGrown, TargetHeld
  <2>2. Healthy
    BY LayerAssumption, SizeAssumption
       DEF Init, Healthy, Levelled, Level, Rounds, Fresh, None
  <2> QED BY <2>1, <2>2 DEF HealthyInv, Quiet
<1>2. HealthyInv /\ [Next]_vars => HealthyInv'
  <2> SUFFICES ASSUME HealthyInv, [Next]_vars PROVE HealthyInv'
    OBVIOUS
  <2>1. TypeInv' /\ static' = static /\ (static => grown'.breaks = {})
    BY StepType, StaticBreaksNothing DEF HealthyInv
  <2>2. TargetHeld'
    <3>1. CASE UNCHANGED books
      BY <3>1 DEF HealthyInv, TargetHeld
    <3>2. CASE \E l \in Layers : \E after \in 0 .. MaxLen : books' = Booked(l, after)
      BY <3>2, BookedHeld DEF HealthyInv, TypeInv
    <3> QED BY <3>1, <3>2, BooksStep DEF HealthyInv
  <2> SUFFICES ASSUME ~faulty', ~static
               PROVE  Healthy' /\ Quiet'
    BY <2>1, <2>2 DEF HealthyInv
  <2>3. CASE \E l \in Layers : Skip(l) \/ Drop(l)
    BY <2>3 DEF Skip, Drop
  <2>4. CASE Flush
    BY <2>4 DEF Flush
  <2>5. CASE \E m \in kept : Reuse(m)
    <3>1. ~faulty
      BY <2>5 DEF Reuse, ghosts
    <3> QED BY <2>5, <3>1 DEF HealthyInv, Healthy
  <2>6. CASE UNCHANGED vars
    <3>1. UNCHANGED <<held, books, offer, mask, kept, alone, pc, fwd, grown, faulty, halted>>
      BY <2>6 DEF vars, setting, kv, time, tally, ghosts
    <3> QED BY <3>1 DEF HealthyInv, Healthy, Quiet, Disagree, Levelled, Level, Done, Rounds, Fresh,
                        Captured, RoundGoesOn
  <2> QED BY <2>3, <2>4, <2>5, <2>6, HealthyBegin, HealthyMask, HealthyUpdate, HealthyAttend,
             HealthyEnd DEF Next
<1>3. HealthyInv => NoFalseBreak
  BY DEF HealthyInv, Quiet, NoFalseBreak
<1> QED BY <1>1, <1>2, <1>3, PTL DEF Spec
-----------------------------------------------------------------------------
(* A loss, whenever it happened. The books of a layer that never grew       *)
(* unseen hold what it held when they saw it last, which is more than it    *)
(* holds if something was dropped since.                                    *)

BooksRemember ==
    \A l \in Layers \ blurred :
        IF books.lengths[l] = None THEN held[l] = 0 /\ l \notin lost
        ELSE held[l] <= books.lengths[l] /\ (l \in lost => held[l] < books.lengths[l])

LossInv ==
    /\ TypeInv
    /\ static => grown = NothingGrown
    /\ LossNoticed
    /\ ~static => BooksRemember

(* An update after which a token is missing breaks a rule. *)
LEMMA LossBreaks ==
    ASSUME TypeInv, BooksRemember, ~static, NEW l \in Layers, l = fwd.layer, pc = "update",
           NEW got \in {fwd.added, fwd.added - 1},
           l \notin blurred, ~Capped(l, held[l] + fwd.added),
           l \in lost \/ Fits(l, held[l] + got) < Fits(l, held[l] + fwd.added)
    PROVE  LengthBreaks(l, held[l], Fits(l, held[l] + got)) # {}
<1> DEFINE after == Fits(l, held[l] + got)
<1>1. /\ fwd.added \in Nat \ {0} /\ held[l] \in Nat
      /\ books.lengths[l] \in -1 .. MaxLen
  BY SizeAssumption DEF TypeInv, TypeOK, Room
<1>2. after = held[l] + got /\ Fits(l, held[l] + fwd.added) = held[l] + fwd.added
  BY <1>1, SizeAssumption DEF Fits, Least, Capped
<1> HIDE DEF after
<1>3. CASE after < held[l] + fwd.added
  <2>1. "kv_needed" \in LengthBreaks(l, held[l], after)
    BY <1>3 DEF LengthBreaks
  <2> QED BY <2>1 DEF after
<1>4. CASE l \in lost
  <2>1. books.lengths[l] # None /\ held[l] < books.lengths[l]
    BY <1>4 DEF BooksRemember
  <2>2. after < Previous(l, fwd.added)
    BY <1>1, <1>2, <2>1, SizeAssumption DEF Previous
  <2>3. "kv_shrank" \in LengthBreaks(l, held[l], after)
    BY <2>1, <2>2 DEF LengthBreaks
  <2> QED BY <2>3 DEF after
<1> QED BY <1>2, <1>3, <1>4 DEF after

LEMMA LossUpdate ==
    ASSUME LossInv, NEW l \in Layers, Update(l)
    PROVE  /\ static => grown' = NothingGrown
           /\ LossNoticed'
           /\ ~static => BooksRemember'
<1>1. PICK got \in {fwd.added, fwd.added - 1} :
         LET after == Fits(l, held[l] + got) IN
         /\ after \in 0 .. MaxLen
         /\ held' = [held EXCEPT ![l] = after]
         /\ \/ Unseen(l, after)
            \/ static /\ Deferred(l, held[l], after)
            \/ ~static /\ Grew(l, held[l], after)
  BY UpdateCases DEF LossInv
<1> DEFINE after == Fits(l, held[l] + got)
<1>2. after \in 0 .. MaxLen
  BY <1>1
<1>3. pc = "update" /\ l = fwd.layer
  BY DEF Update
<1>4. \A m \in Layers : held'[m] = IF m = l THEN after ELSE held[m]
  BY <1>1 DEF LossInv, TypeInv, TypeOK
<1>5. CASE Unseen(l, after)
  <2>1. grown' = grown /\ books' = books /\ lost' = lost /\ blurred' = blurred \cup {l}
    BY <1>5 DEF Unseen
  <2> HIDE DEF after
  <2>2. ~static => BooksRemember'
    BY <1>4, <2>1 DEF LossInv, BooksRemember
  <2> QED BY <2>1, <2>2 DEF LossInv, LossNoticed
<1>6. CASE static /\ Deferred(l, held[l], after)
  BY <1>6 DEF Deferred, LossInv, LossNoticed
<1>7. CASE ~static /\ Grew(l, held[l], after)
  <2> DEFINE short == LengthBreaks(l, held[l], after)
             raised == policy.stops /\ short # {}
  <2>1. /\ grown'.lost = (l \in lost \/ after < Fits(l, held[l] + fwd.added))
        /\ grown'.blurred = (l \in blurred)
        /\ grown'.capped = Capped(l, held[l] + fwd.added)
        /\ short \subseteq grown'.breaks
    BY <1>7 DEF Grew
  <2>2. /\ books' = IF raised THEN books ELSE Booked(l, after)
        /\ lost' = lost \ {l}
        /\ blurred' = IF raised THEN blurred \cup {l} ELSE blurred \ {l}
    BY <1>7 DEF Grew
  <2>3. LossNoticed'
    <3> SUFFICES ASSUME grown'.lost, ~grown'.blurred, ~grown'.capped
                 PROVE  grown'.breaks # {}
      BY DEF LossNoticed
    <3>1. short # {}
      BY <1>3, <1>7, <2>1, LossBreaks DEF LossInv
    <3> QED BY <2>1, <3>1
  <2> HIDE DEF after, short, raised
  <2>4. BooksRemember'
    <3> SUFFICES ASSUME NEW m \in Layers, m \notin blurred'
                 PROVE  IF books'.lengths[m] = None THEN held'[m] = 0 /\ m \notin lost'
                        ELSE /\ held'[m] <= books'.lengths[m]
                             /\ m \in lost' => held'[m] < books'.lengths[m]
      BY DEF BooksRemember
    <3>1. CASE m = l
      <4>1. ~raised /\ books'.lengths[m] = after /\ m \notin lost'
        BY <2>2, <3>1 DEF Booked, LossInv, TypeInv, TypeOK
      <4> QED BY <1>2, <1>4, <3>1, <4>1, SizeAssumption DEF None
    <3>2. CASE m # l
      <4>1. /\ m \notin blurred /\ (m \in lost' <=> m \in lost)
            /\ books'.lengths[m] = books.lengths[m] /\ held'[m] = held[m]
        BY <1>4, <2>2, <3>2 DEF Booked, LossInv, TypeInv, TypeOK
      <4> QED BY <1>7, <4>1 DEF LossInv, BooksRemember
    <3> QED BY <3>1, <3>2
  <2>5. UNCHANGED static
    BY DEF Update, setting
  <2> QED BY <1>7, <2>3, <2>4, <2>5
<1> QED BY <1>1, <1>5, <1>6, <1>7

(* A layer that lost a token, in an update or at any time before it, breaks *)
(* a rule at the next update the books see, unless a window caps it or it   *)
(* grew in between where they did not look.                                 *)
THEOREM LossIsNoticed == Spec => []LossNoticed
<1>1. Init => LossInv
  BY InitType DEF Init, LossInv, LossNoticed, NothingGrown, BooksRemember
<1>2. LossInv /\ [Next]_vars => LossInv'
  <2> SUFFICES ASSUME LossInv, [Next]_vars PROVE LossInv'
    OBVIOUS
  <2>1. TypeInv' /\ UNCHANGED static
    BY StepType DEF LossInv, Next, vars, setting, Begin, HandOut, Reuse, Update, Skip, Attend, Drop,
                    BuildMask, End, Interrupt, Flush
  <2>2. CASE \E l \in Layers : Update(l)
    BY <2>1, <2>2, LossUpdate DEF LossInv
  <2>3. ASSUME NEW l \in Layers, Drop(l) PROVE LossInv'
    <3>1. /\ held[l] > 0 /\ lost' = lost \cup {l} /\ UNCHANGED <<books, blurred, grown>>
          /\ \A m \in Layers : held'[m] = IF m = l THEN held[l] - 1 ELSE held[m]
      BY <2>3 DEF Drop, kv, LossInv, TypeInv, TypeOK
    <3>2. \A m \in Layers : held[m] \in Nat /\ books.lengths[m] \in Int
      BY SizeAssumption DEF LossInv, TypeInv, TypeOK
    <3>3. ~static => BooksRemember'
      BY <3>1, <3>2 DEF LossInv, BooksRemember
    <3> QED BY <2>1, <3>1, <3>3 DEF LossInv, LossNoticed
  <2>4. CASE UNCHANGED <<held, books, lost, blurred>> /\ grown' \in {grown, NothingGrown}
    BY <2>1, <2>4 DEF LossInv, LossNoticed, NothingGrown, BooksRemember
  <2>5. CASE \E n \in Adds, capture \in Captures : Begin(n, capture)
    BY <2>4, <2>5 DEF Begin, kv
  <2>6. CASE (\E l \in Asked : HandOut(l)) \/ \E l \in Layers : Skip(l) \/ Attend(l)
    BY <2>4, <2>6 DEF HandOut, Skip, Attend, kv, ghosts
  <2>7. CASE \/ BuildMask \/ (\E m \in kept : Reuse(m)) \/ End \/ Interrupt \/ Flush
             \/ UNCHANGED vars
    BY <2>4, <2>7 DEF BuildMask, Reuse, End, Interrupt, Flush, vars, kv, ghosts
  <2> QED BY <2>2, <2>3, <2>5, <2>6, <2>7 DEF Next
<1>3. LossInv => LossNoticed
  BY DEF LossInv
<1> QED BY <1>1, <1>2, <1>3, PTL DEF Spec

-----------------------------------------------------------------------------
(* The masks. One that entail saw made and that reads its counter later     *)
(* carries the epoch the counter was handed out at, and as long as the      *)
(* counter's epoch is that one, and every write of it was seen, the layer    *)
(* holds what it held: for the mask of the forward and for those kept.      *)

Known(m) ==
    /\ ~m.bound /\ ~m.unseen =>
          /\ m.made # None /\ m.made <= epoch[m.of]
          /\ epoch[m.of] = m.made => held[m.of] = m.at
    /\ policy.binds => m.made = None /\ (m.bound \/ m.unseen)

StaleInv ==
    /\ ~static => offer = None /\ kept = {} /\ mask \in {NoMask, Plain}
    /\ \A m \in kept : Known(m)
    /\ pc \in {"update", "attend", "end"} /\ mask # Plain => Known(mask)
    /\ pc = "mask" /\ fwd.capture # "all" /\ "mask" \notin alone /\ offer # None =>
          live[offer] = epoch[offer]
    /\ NoSilentStale

LEMMA KnownStays ==
    ASSUME NEW m, Known(m), policy' = policy, epoch'[m.of] = epoch[m.of], held'[m.of] = held[m.of]
    PROVE  Known(m)'
BY DEF Known

(* A write of a counter goes unseen, or moves its epoch on.                 *)
LEMMA OverlookedKnown ==
    ASSUME NEW m \in Masks, NEW l, Known(m), policy' = policy, epoch' = epoch,
           m.of # l => held'[m.of] = held[m.of]
    PROVE  Known(Overlooked(m, l))'
<1>1. Overlooked(m, l)' = Overlooked(m, l)
  BY DEF Overlooked
<1>2. CASE m.of = l
  <2>1. /\ Overlooked(m, l).unseen /\ Overlooked(m, l).made = m.made
    BY <1>2, OverlookedTyped
  <2> QED BY <1>1, <2>1 DEF Known
<1>3. CASE m.of # l
  BY <1>1, <1>3, OverlookedTyped, KnownStays
<1> QED BY <1>2, <1>3

LEMMA AdvancedKnown ==
    ASSUME NEW m \in Masks, m.of \in Layers, NEW l \in Layers, Known(m), policy' = policy,
           epoch \in [Layers -> Nat], epoch' = [epoch EXCEPT ![l] = epoch[l] + 1],
           m.of # l => held'[m.of] = held[m.of]
    PROVE  Known(m)'
<1>1. CASE m.of # l
  BY <1>1, KnownStays
<1>2. CASE m.of = l
  <2>1. epoch'[m.of] = epoch[m.of] + 1 /\ epoch[m.of] \in Nat /\ m.made \in Nat \cup {None}
    BY <1>2 DEF Masks
  <2>2. m.made # None /\ m.made <= epoch[m.of] => m.made <= epoch'[m.of] /\ m.made # epoch'[m.of]
    BY <2>1
  <2> QED BY <2>2 DEF Known
<1> QED BY <1>1, <1>2

(* What holds of the masks when a forward is over.                          *)
LEMMA OverStale ==
    ASSUME TypeInv, StaleInv, Over, offer' \in {offer, None}, static' = static, policy' = policy,
           static => UNCHANGED <<held, epoch>>, NoSilentStale'
    PROVE  StaleInv'
<1>1. pc' = "idle" /\ mask' = NoMask
  BY DEF Over
<1>2. kept' = kept \/ (mask # NoMask /\ ~mask.bound /\ kept' = kept \cup {mask})
  BY DEF Over
<1>3. ~static => kept' = {} /\ offer' = None
  BY <1>2, PlainTyped DEF StaleInv
<1>4. mask # NoMask /\ ~mask.bound => Known(mask)
  BY PlainTyped DEF StaleInv, TypeInv, TypeOK, MasksOK
<1>5. \A m \in kept' : Known(m)
  BY <1>2, <1>4 DEF StaleInv
<1>6. \A m \in kept' : Known(m)'
  BY <1>3, <1>5, KnownStays
<1> QED BY <1>1, <1>3, <1>6 DEF StaleInv

LEMMA InitStale == Init => StaleInv
BY PlainTyped DEF Init, StaleInv, NoSilentStale, NothingRead

LEMMA BeginStale ==
    ASSUME TypeInv, StaleInv, NEW n \in Adds, NEW capture \in Captures, Begin(n, capture)
    PROVE  StaleInv'
<1>1. /\ pc' = "offer" /\ looked' = NothingRead
      /\ UNCHANGED <<static, policy, held, epoch, offer, mask, kept>>
  BY DEF Begin, setting, time
<1>2. \A m \in kept' : Known(m)'
  BY <1>1, KnownStays DEF StaleInv
<1> QED BY <1>1, <1>2 DEF StaleInv, NoSilentStale, NothingRead

LEMMA HandOutStale ==
    ASSUME TypeInv, StaleInv, NEW l \in Layers, HandOut(l)
    PROVE  StaleInv'
<1>1. /\ pc = "offer" /\ pc' = "mask" /\ alone \subseteq alone'
      /\ UNCHANGED <<static, policy, held, epoch, mask, kept, fwd, looked>>
      /\ offer' = IF static THEN l ELSE None
  BY DEF HandOut, setting, ghosts, Works, FailsAt
<1>2. \A m \in kept' : Known(m)'
  BY <1>1, KnownStays DEF StaleInv
<1>3. static /\ fwd.capture # "all" /\ "mask" \notin alone' => live'[l] = epoch'[l]
  <2> SUFFICES ASSUME static, fwd.capture # "all", "mask" \notin alone'
               PROVE  live'[l] = epoch'[l]
    OBVIOUS
  <2>1. Active("mask", "mask") /\ ~FailsAt("mask")
    BY <1>1 DEF Active, Captured, FailsAt
  <2>2. live' = [live EXCEPT ![l] = epoch[l]]
    BY <2>1 DEF HandOut, HandedOutAt
  <2> QED BY <1>1, <2>2 DEF TypeInv, TypeOK
<1>4. NoSilentStale'
  BY <1>1 DEF StaleInv, NoSilentStale, Captured
<1> QED BY <1>1, <1>2, <1>3, <1>4 DEF StaleInv

LEMMA BuildMaskStale ==
    ASSUME TypeInv, StaleInv, BuildMask
    PROVE  StaleInv'
<1>1. /\ pc = "mask" /\ pc' = "update" /\ offer' = None /\ alone \subseteq alone'
      /\ UNCHANGED <<static, policy, held, epoch, live, kept, fwd, looked>>
  BY DEF BuildMask, setting, ghosts, Works, FailsAt
<1>2. \A m \in kept' : Known(m)'
  BY <1>1, KnownStays DEF StaleInv
<1>3. NoSilentStale'
  <2>1. mask = NoMask /\ ~NoMask.unseen
    BY <1>1 DEF TypeInv, TypeOK, MasksOK, NoMask
  <2> QED BY <1>1, <2>1 DEF StaleInv, NoSilentStale, Captured
<1>4. ~static => mask' = Plain
  BY DEF BuildMask, StaleInv
<1>5. ASSUME mask' # Plain PROVE Known(mask)'
  <2>1. offer \in Layers /\ offer # None
    BY <1>5 DEF BuildMask, TypeInv, TypeOK, MasksOK
  <2> DEFINE Built(b, m, u) ==
          mask' = [of |-> offer, at |-> held[offer], made |-> m, bound |-> b, unseen |-> u]
  <2>2. ASSUME NEW b, NEW m, NEW u, Built(b, m, u)
        PROVE  /\ mask'.of = offer /\ mask'.at = held[offer]
               /\ mask'.bound = b /\ mask'.made = m /\ mask'.unseen = u
    BY <2>2
  <2>3. CASE Built(FALSE, None, TRUE)
    BY <1>1, <2>2, <2>3 DEF Known
  <2>4. CASE ~Built(FALSE, None, TRUE)
    <3>1. Active("mask", "mask") /\ Works
      BY <2>1, <2>4 DEF BuildMask
    <3>2. live[offer] = epoch[offer] /\ epoch[offer] \in Nat
      BY <1>1, <2>1, <3>1 DEF Active, Captured, StaleInv, TypeInv, TypeOK
    <3>3. live[offer] # None
      BY <3>2 DEF None
    <3>4. IF policy.binds THEN Built(TRUE, None, FALSE) ELSE Built(FALSE, live[offer], FALSE)
      BY <2>1, <2>4, <3>1, <3>3 DEF BuildMask
    <3>5. CASE policy.binds
      BY <1>1, <2>2, <3>4, <3>5 DEF Known
    <3>6. CASE ~policy.binds
      <4>1. /\ mask'.of = offer /\ mask'.at = held[offer] /\ mask'.made = epoch[offer]
        BY <2>2, <3>2, <3>4, <3>6
      <4> QED BY <1>1, <3>2, <3>3, <3>6, <4>1 DEF Known
    <3> QED BY <3>5, <3>6
  <2> QED BY <2>3, <2>4
<1> QED BY <1>1, <1>2, <1>3, <1>4, <1>5 DEF StaleInv

LEMMA ReuseStale ==
    ASSUME TypeInv, StaleInv, NEW m \in kept, Reuse(m)
    PROVE  StaleInv'
<1>1. /\ pc \in {"offer", "mask"} /\ pc' = "update" /\ mask' = m /\ offer' = None
      /\ UNCHANGED <<static, policy, held, epoch, kept, fwd, alone, looked>>
  BY DEF Reuse, setting, tally, ghosts
<1>2. \A n \in kept' : Known(n)'
  BY <1>1, KnownStays DEF StaleInv
<1>3. NoSilentStale'
  <2>1. mask = NoMask /\ ~NoMask.unseen
    BY <1>1 DEF TypeInv, TypeOK, MasksOK, NoMask
  <2> QED BY <1>1, <2>1 DEF StaleInv, NoSilentStale, Captured
<1> QED BY <1>1, <1>2, <1>3 DEF StaleInv, Known

LEMMA UpdateStale ==
    ASSUME TypeInv, StaleInv, NEW l \in Layers, Update(l)
    PROVE  StaleInv'
<1>1. PICK after :
         /\ held' = [held EXCEPT ![l] = after]
         /\ \/ Unseen(l, after)
            \/ static /\ Deferred(l, held[l], after)
            \/ ~static /\ Grew(l, held[l], after)
  BY UpdateCases
<1>2. pc = "update" /\ looked' = NothingRead /\ UNCHANGED <<static, policy, offer>>
  BY DEF Update, setting
<1>3. NoSilentStale'
  BY <1>2 DEF NoSilentStale, NothingRead
<1>4. /\ \A m \in kept : m \in Masks /\ m.of \in Layers /\ Known(m)
      /\ mask \in Masks /\ (mask # Plain => mask.of \in Layers /\ Known(mask))
      /\ \A k \in Layers : k # l => held'[k] = held[k]
      /\ epoch \in [Layers -> Nat]
  BY <1>1, <1>2 DEF StaleInv, TypeInv, TypeOK, MasksOK
<1>5. CASE Unseen(l, after)
  <2>1. /\ pc' = "attend" /\ epoch' = epoch /\ mask' = Overlooked(mask, l)
        /\ kept' = {Overlooked(m, l) : m \in kept}
    BY <1>5 DEF Unseen
  <2>2. ASSUME NEW m \in kept PROVE Known(Overlooked(m, l))'
    BY <1>2, <1>4, <2>1, OverlookedKnown
  <2>3. \A m \in kept' : Known(m)'
    <3> SUFFICES ASSUME NEW n \in kept' PROVE Known(n)'
      OBVIOUS
    <3>1. PICK m \in kept : n = Overlooked(m, l)
      BY <2>1
    <3> QED BY <2>2, <3>1 DEF Overlooked, Known
  <2>4. Overlooked(Plain, l) = Plain /\ Overlooked(NoMask, l) = NoMask
    BY PlainTyped DEF Overlooked
  <2>5. mask' # Plain => Known(mask)'
    <3> SUFFICES ASSUME mask' # Plain PROVE Known(mask)'
      OBVIOUS
    <3>1. PICK m \in Masks : m = mask
      BY <1>4
    <3>2. m.of \in Layers /\ Known(m)
      BY <1>4, <2>1, <2>4, <3>1 DEF Known
    <3>3. Known(Overlooked(m, l))'
      BY <1>2, <1>4, <2>1, <3>1, <3>2, OverlookedKnown
    <3>4. PICK n : n = Overlooked(m, l)
      OBVIOUS
    <3>5. mask' = n
      BY <2>1, <3>1, <3>4
    <3>6. Known(n)'
      BY <3>3, <3>4 DEF Overlooked, Known
    <3> QED BY <3>5, <3>6 DEF Known
  <2>6. ~static => kept' = {} /\ mask' \in {NoMask, Plain}
    BY <2>1, <2>4 DEF StaleInv
  <2> QED BY <1>2, <1>3, <2>1, <2>3, <2>5, <2>6 DEF StaleInv
<1>6. CASE static /\ Deferred(l, held[l], after)
  <2>1. pc' = "attend" /\ UNCHANGED <<mask, kept>> /\ epoch' = [epoch EXCEPT ![l] = epoch[l] + 1]
    BY <1>6 DEF Deferred, Goes, Advanced
  <2>2. \A m \in kept : Known(m)'
    BY <1>2, <1>4, <2>1, AdvancedKnown
  <2>3. ASSUME mask # Plain PROVE Known(mask)'
    <3>1. PICK m \in Masks : m = mask
      BY <1>4
    <3>2. Known(m)'
      BY <1>2, <1>4, <2>1, <2>3, <3>1, AdvancedKnown
    <3> QED BY <2>1, <3>1, <3>2 DEF Known
  <2> QED BY <1>2, <1>3, <1>6, <2>1, <2>2, <2>3 DEF StaleInv
<1>7. CASE ~static /\ Grew(l, held[l], after)
  <2>1. Over \/ (pc' = "attend" /\ UNCHANGED <<mask, kept>>)
    <3>1. \E refused : Goes(refused)
      BY <1>7 DEF Grew
    <3> QED BY <3>1 DEF Goes
  <2>2. CASE Over
    BY <1>2, <1>3, <1>7, <2>2, OverStale
  <2>3. CASE pc' = "attend" /\ UNCHANGED <<mask, kept>>
    <3>1. kept' = {} /\ mask' \in {NoMask, Plain} /\ mask # NoMask /\ offer' = None
      BY <1>2, <1>4, <1>7, <2>3, PlainTyped DEF StaleInv
    <3> QED BY <1>2, <1>3, <2>3, <3>1 DEF StaleInv
  <2> QED BY <2>1, <2>2, <2>3
<1> QED BY <1>1, <1>5, <1>6, <1>7

LEMMA SkipStale ==
    ASSUME TypeInv, StaleInv, NEW l \in Layers, Skip(l)
    PROVE  StaleInv'
<1>1. /\ pc = "update" /\ pc' \in {"update", "end"} /\ looked' = NothingRead
      /\ UNCHANGED <<static, policy, held, epoch, offer, mask, kept>>
  BY DEF Skip, setting, time
<1>2. (\A m \in kept' : Known(m)') /\ (mask' # Plain => Known(mask)')
  BY <1>1 DEF StaleInv, Known
<1> QED BY <1>1, <1>2 DEF StaleInv, NoSilentStale, NothingRead

(* What a stale read comes to: a mask that entail saw made, and whose       *)
(* counter it saw written, is told from its epoch.                          *)
LEMMA AttendTells ==
    ASSUME TypeInv, StaleInv, NEW l \in Layers, Attend(l)
    PROVE  NoSilentStale'
<1> SUFFICES ASSUME looked'.wrong
             PROVE  /\ looked'.told \/ Captured("layers")' \/ "flex" \in alone' \/ mask'.unseen
                    /\ policy'.binds => mask'.unseen
  BY DEF NoSilentStale
<1> DEFINE wrong == ~mask.bound /\ held[mask.of] # mask.at
<1>1. pc = "attend" /\ policy' = policy /\ alone \subseteq alone' /\ l = fwd.layer
  BY DEF Attend, setting, Works, FailsAt
<1>2. wrong
  <2>1. looked' \in {[wrong |-> wrong, told |-> TRUE], [wrong |-> wrong, told |-> FALSE]}
    BY DEF Attend
  <2> HIDE DEF wrong
  <2> QED BY <2>1
<1>3. Known(mask) /\ mask # Plain
  BY <1>1, <1>2, PlainTyped DEF StaleInv
<1>4. policy.binds => mask.unseen /\ ~IsStale(mask)
  BY <1>2, <1>3 DEF Known, IsStale
<1>5. CASE Active("flex", "layers") /\ IsStale(mask) /\ looked' = [wrong |-> wrong, told |-> TRUE]
  <2>1. looked'.told /\ ~policy.binds
    BY <1>4, <1>5
  <2> QED BY <1>1, <2>1
<1>6. CASE /\ \/ Active("flex", "layers") /\ ~IsStale(mask)
              \/ Active("flex", "layers") /\ FailsAt("flex")
              \/ ~Active("flex", "layers")
           /\ mask' = mask /\ fwd' = IF l = Last THEN fwd ELSE [fwd EXCEPT !.layer = l + 1]
  <2>1. fwd'.capture = fwd.capture
    BY <1>1, <1>6, NextLayer DEF TypeInv
  <2>2. Captured("layers") \/ "flex" \in alone' \/ mask.unseen
    <3>1. CASE Active("flex", "layers") /\ ~IsStale(mask)
      BY <1>2, <1>3, <3>1 DEF Known, IsStale
    <3>2. CASE FailsAt("flex")
      BY <3>2 DEF FailsAt
    <3>3. CASE ~Active("flex", "layers")
      BY <1>1, <3>3 DEF Active
    <3> QED BY <1>6, <3>1, <3>2, <3>3
  <2> QED BY <1>1, <1>4, <1>6, <2>1, <2>2 DEF Captured
<1> QED BY <1>5, <1>6 DEF Attend

LEMMA AttendStale ==
    ASSUME TypeInv, StaleInv, NEW l \in Layers, Attend(l)
    PROVE  StaleInv'
<1>1. /\ pc = "attend" /\ UNCHANGED <<static, policy, held, epoch, offer>>
      /\ Over \/ (pc' \in {"update", "end"} /\ UNCHANGED <<mask, kept>>)
  BY DEF Attend, setting
<1>2. NoSilentStale'
  BY AttendTells
<1>3. CASE Over
  BY <1>1, <1>2, <1>3, OverStale
<1>4. CASE pc' \in {"update", "end"} /\ UNCHANGED <<mask, kept>>
  <2>1. (\A m \in kept' : Known(m)') /\ (mask' # Plain => Known(mask)')
    BY <1>1, <1>4 DEF StaleInv, Known
  <2> QED BY <1>1, <1>2, <1>4, <2>1 DEF StaleInv
<1> QED BY <1>1, <1>3, <1>4

LEMMA DropStale ==
    ASSUME TypeInv, StaleInv, NEW l \in Layers, Drop(l)
    PROVE  StaleInv'
<1>1. /\ pc' = "idle" /\ held' = [held EXCEPT ![l] = held[l] - 1]
      /\ kept' = {Overlooked(m, l) : m \in kept}
      /\ UNCHANGED <<static, policy, epoch, offer, mask, fwd, alone, looked>>
  BY DEF Drop, setting, tally
<1>2. NoSilentStale'
  BY <1>1 DEF StaleInv, NoSilentStale, Captured
<1>3. \A m \in kept' : Known(m)'
  <2> SUFFICES ASSUME NEW n \in kept' PROVE Known(n)'
    OBVIOUS
  <2>1. PICK m \in kept : n = Overlooked(m, l)
    BY <1>1
  <2>2. /\ m \in Masks /\ m.of \in Layers /\ Known(m)
        /\ m.of # l => held'[m.of] = held[m.of]
    BY <1>1 DEF StaleInv, TypeInv, TypeOK, MasksOK
  <2>3. Known(Overlooked(m, l))'
    BY <1>1, <2>2, OverlookedKnown
  <2> QED BY <2>1, <2>3 DEF Overlooked, Known
<1>4. ~static => kept' = {}
  BY <1>1 DEF StaleInv
<1> QED BY <1>1, <1>2, <1>3, <1>4 DEF StaleInv

LEMMA StepStale == TypeInv /\ StaleInv /\ [Next]_vars => StaleInv'
<1> SUFFICES ASSUME TypeInv, StaleInv, [Next]_vars PROVE StaleInv'
  OBVIOUS
<1>1. CASE End \/ Interrupt
  <2>1. looked' = NothingRead /\ Over /\ offer' \in {offer, None}
        /\ UNCHANGED <<static, policy, held, epoch>>
    BY <1>1 DEF End, Interrupt, setting
  <2>2. NoSilentStale'
    BY <2>1 DEF NoSilentStale, NothingRead
  <2> QED BY <2>1, <2>2, OverStale
<1>2. CASE Flush \/ UNCHANGED vars
  <2>1. UNCHANGED <<static, policy, held, epoch, live, offer, mask, kept, pc, fwd, alone, looked>>
    BY <1>2 DEF Flush, vars, setting, time, tally, ghosts
  <2>2. (\A m \in kept' : Known(m)') /\ (Known(mask) => Known(mask)')
    BY <2>1 DEF StaleInv, Known
  <2>3. NoSilentStale'
    BY <2>1 DEF StaleInv, NoSilentStale, Captured
  <2> QED BY <2>1, <2>2, <2>3 DEF StaleInv
<1>3. ASSUME NEW l \in Asked, HandOut(l) PROVE StaleInv'
  BY <1>3, HandOutStale, LayerAssumption
<1> QED BY <1>1, <1>2, <1>3, BeginStale, BuildMaskStale, ReuseStale, UpdateStale, SkipStale,
           AttendStale, DropStale DEF Next

(* Attention that reads a mask whose counter has moved on is reported,       *)
(* whether the mask was made for this forward or kept from an earlier one,   *)
(* unless the read is captured or its boundary left alone, or entail did not *)
(* see the mask made or the counter written; and a policy that binds leaves  *)
(* no mask to go stale that it saw made (epochs.bind, carried, read).        *)
THEOREM StaleIsSaid == Spec => []NoSilentStale
<1>1. Init => TypeInv /\ StaleInv
  BY InitType, InitStale
<1>2. TypeInv /\ StaleInv /\ [Next]_vars => TypeInv' /\ StaleInv'
  BY StepType, StepStale
<1>3. StaleInv => NoSilentStale
  BY DEF StaleInv
<1> QED BY <1>1, <1>2, <1>3, PTL DEF Spec

-----------------------------------------------------------------------------
(* The rounds. Within a forward the layers checked come before the next one, *)
(* and so does the last one in the books; unless a disagreement was said,     *)
(* every one of them that takes part holds the round's target.                *)

RoundInv ==
    pc # "idle" =>
        /\ \A m \in round.checked : Done(m)
        /\ round.checked # {} => Done(books.prev)
        /\ ~round.uneven => \A m \in round.checked \ Windowed : held[m] = books.target

LEMMA UpdateRound ==
    ASSUME TypeInv, RoundInv, NEW l \in Layers, Update(l)
    PROVE  RoundInv'
<1>1. PICK after \in 0 .. MaxLen :
         /\ held' = [held EXCEPT ![l] = after]
         /\ Unseen(l, after) \/ Deferred(l, held[l], after) \/ Grew(l, held[l], after)
  BY UpdateCases
<1>2. pc = "update" /\ l = fwd.layer
  BY DEF Update
<1>3. /\ held \in [Layers -> 0 .. MaxLen] /\ round.checked \subseteq Layers
      /\ books.prev \in Layers \cup {-1} /\ books.target \in -1 .. MaxLen
      /\ fwd.layer \in Layers
  BY DEF TypeInv, TypeOK
<1>4. /\ \A m \in round.checked : m < l
      /\ round.checked # {} => books.prev < l
      /\ ~round.uneven => \A m \in round.checked \ Windowed : held[m] = books.target
  BY <1>2, LayerAssumption DEF RoundInv, Done
<1>5. \A m \in round.checked : held'[m] = held[m]
  BY <1>1, <1>3, <1>4, LayerAssumption DEF Layers
<1> SUFFICES ASSUME pc' # "idle" PROVE RoundInv'
  BY DEF RoundInv
<1>6. ASSUME Unseen(l, after) \/ Deferred(l, held[l], after)
      PROVE  RoundInv'
  <2>1. pc' = "attend" /\ fwd' = fwd /\ round' = round /\ books' = books
    BY <1>6 DEF Unseen, Deferred, Goes
  <2> QED BY <1>2, <1>4, <1>5, <2>1 DEF RoundInv, Done
<1>7. CASE Grew(l, held[l], after)
  <2> DEFINE short == LengthBreaks(l, held[l], after)
             raised == policy.stops /\ short # {}
             breaks == IF raised THEN short ELSE short \cup LayersBreak(l, after)
  <2>1. ~raised /\ pc' = "attend" /\ fwd' = fwd
    BY <1>7 DEF Grew, Goes, Over
  <2>2. /\ books' = Booked(l, after)
        /\ round'.checked = round.checked \cup {l}
        /\ round'.uneven = (round.uneven \/ "kv_layers" \in breaks)
    BY <1>7, <2>1 DEF Grew
  <2>3. LayersBreak(l, after) \subseteq breaks
    BY <2>1
  <2> HIDE DEF short, raised, breaks
  <2>4. /\ books'.prev = l
        /\ books'.target = IF l \in Windowed \/ RoundTarget(l) # None THEN RoundTarget(l)
                           ELSE after
    BY <2>2 DEF Booked
  <2>5. ASSUME ~round'.uneven, NEW m \in round'.checked \ Windowed
        PROVE  held'[m] = books'.target
    <3>1. ~round.uneven /\ LayersBreak(l, after) = {}
      BY <2>2, <2>3, <2>5 DEF LayersBreak
    <3>2. CASE m = l
      <4>1. held'[l] = after
        BY <1>1, <1>3
      <4>2. RoundTarget(l) = None \/ after = RoundTarget(l)
        BY <2>5, <3>1, <3>2 DEF LayersBreak
      <4> QED BY <2>4, <2>5, <3>2, <4>1, <4>2
    <3>3. CASE m \in round.checked
      <4>1. held'[m] = books.target /\ books.prev < l
        BY <1>4, <1>5, <2>5, <3>1, <3>3
      <4>2. RoundTarget(l) = books.target
        BY <1>2, <1>3, <4>1, LayerAssumption DEF RoundTarget, Layers
      <4>3. books.target # None
        BY <1>3, <1>5, <3>3, <4>1 DEF None
      <4> QED BY <2>4, <4>1, <4>2, <4>3
    <3> QED BY <2>2, <2>5, <3>2, <3>3
  <2> QED BY <1>2, <1>4, <2>1, <2>2, <2>4, <2>5 DEF RoundInv, Done
<1> QED BY <1>1, <1>6, <1>7

LEMMA StepRound == TypeInv /\ RoundInv /\ [Next]_vars => RoundInv'
<1> SUFFICES ASSUME TypeInv, RoundInv, [Next]_vars PROVE RoundInv'
  OBVIOUS
<1>1. CASE \E n \in Adds, capture \in Captures : Begin(n, capture)
  BY <1>1 DEF Begin, RoundInv, NoRound
<1>2. CASE (\E l \in Asked : HandOut(l)) \/ BuildMask \/ \E m \in kept : Reuse(m)
  BY <1>2 DEF HandOut, BuildMask, Reuse, RoundInv, Done, kv, ghosts
<1>3. ASSUME NEW l \in Layers, Skip(l) \/ Attend(l) PROVE RoundInv'
  <2> SUFFICES ASSUME pc' # "idle" PROVE RoundInv'
    BY DEF RoundInv
  <2>1. /\ pc \in {"update", "attend"} /\ l = fwd.layer
        /\ pc' = IF l = Last THEN "end" ELSE "update"
        /\ fwd' = IF l = Last THEN fwd ELSE [fwd EXCEPT !.layer = l + 1]
        /\ UNCHANGED <<held, books, round>>
    BY <1>3 DEF Skip, Attend, Over, kv
  <2>2. fwd'.layer = IF l = Last THEN l ELSE l + 1
    BY <2>1, NextLayer DEF TypeInv
  <2>3. l \in Int /\ \A m \in round.checked : m \in Int
    BY LayerAssumption DEF TypeInv, TypeOK, Layers
  <2>4. books.prev \in Int
    BY LayerAssumption DEF TypeInv, TypeOK, Layers
  <2>5. \A m \in Int : Done(m) => Done(m)'
    BY <2>1, <2>2, <2>3 DEF Done
  <2> QED BY <2>1, <2>3, <2>4, <2>5 DEF RoundInv
<1>4. CASE End \/ Interrupt \/ (\E l \in Layers : Drop(l)) \/ Flush
  BY <1>4 DEF End, Interrupt, Over, Drop, Flush, RoundInv
<1>5. CASE UNCHANGED vars
  BY <1>5 DEF vars, kv, ghosts, RoundInv, Done
<1> QED BY <1>1, <1>2, <1>3, <1>4, <1>5, UpdateRound DEF Next

(* At the end of a forward that was checked on every layer that takes part,   *)
(* the layers agree or one was reported: telling the rounds apart by layer     *)
(* numbers alone never compares a layer with another round's length (grew).    *)
THEOREM RoundsAreCompared == Spec => []RoundsAgree
<1>1. Init => TypeInv /\ RoundInv
  BY InitType DEF Init, RoundInv
<1>2. TypeInv /\ RoundInv /\ [Next]_vars => TypeInv' /\ RoundInv'
  BY StepType, StepRound
<1>3. RoundInv => RoundsAgree
  BY DEF RoundInv, RoundsAgree
<1> QED BY <1>1, <1>2, <1>3, PTL DEF Spec
-----------------------------------------------------------------------------
(* The tallies: under a policy that reports, a rule has been recorded once   *)
(* if it was seen broken, and never if not; only flush records without an     *)
(* owner, of a static cache, whose updates break no rule.                     *)

RecordedInv ==
    ~policy.stops =>
        /\ \A r \in Rules : \/ recorded[r] = IF r \in seen THEN 1 ELSE 0
                            \/ static /\ r = "kv_needed"
        /\ grown.breaks \subseteq seen
        /\ static => grown.breaks = {}
        /\ looked.told => "epoch_stale" \in seen

(* What a report of some rules records under a policy that goes on. *)
LEMMA ReportOnce ==
    ASSUME TypeOK, ~policy.stops, NEW rules \in SUBSET Rules, Report(rules),
           \A r \in Rules : recorded[r] = (IF r \in seen THEN 1 ELSE 0) \/ (static /\ r = "kv_needed")
    PROVE  /\ seen' = seen \cup rules
           /\ \A r \in Rules : \/ recorded'[r] = IF r \in seen' THEN 1 ELSE 0
                               \/ static /\ r = "kv_needed"
<1>1. /\ seen' = seen \cup rules
      /\ recorded' = [r \in Rules |-> IF r \in rules \ seen THEN Least(recorded[r] + 1, ReportBound)
                                      ELSE recorded[r]]
  BY DEF Report, First
<1> QED BY <1>1 DEF Least, ReportBound

LEMMA StepRecorded == TypeInv /\ RecordedInv /\ [Next]_vars => RecordedInv'
<1> SUFFICES ASSUME TypeInv, RecordedInv, [Next]_vars, ~policy'.stops PROVE RecordedInv'
  BY DEF RecordedInv
<1>0. static' = static /\ policy' = policy
  BY DEF Next, Begin, HandOut, BuildMask, Reuse, Update, Skip, Attend, End, Interrupt, Drop, Flush,
         vars, setting
<1>1. ASSUME NEW l \in Layers, Update(l) PROVE RecordedInv'
  <2>1. PICK after : \/ Unseen(l, after)
                     \/ static /\ Deferred(l, held[l], after)
                     \/ ~static /\ Grew(l, held[l], after)
    BY <1>1, UpdateCases
  <2>2. looked' = NothingRead
    BY <1>1 DEF Update
  <2>3. CASE Unseen(l, after) \/ Deferred(l, held[l], after)
    BY <1>0, <2>2, <2>3 DEF Unseen, Deferred, RecordedInv, NothingRead
  <2>4. CASE ~static /\ Grew(l, held[l], after)
    <3> DEFINE breaks == LengthBreaks(l, held[l], after) \cup LayersBreak(l, after)
    <3>1. Report(breaks) /\ grown'.breaks = breaks
      BY <1>0, <2>4 DEF Grew
    <3>2. breaks \in SUBSET Rules
      BY DEF LengthBreaks, LayersBreak, Rules, KvRules
    <3> HIDE DEF breaks
    <3> QED BY <1>0, <2>2, <2>4, <3>1, <3>2, ReportOnce DEF TypeInv, RecordedInv, NothingRead
  <2> QED BY <2>1, <2>3, <2>4
<1>2. ASSUME NEW l \in Layers, Attend(l) PROVE RecordedInv'
  <2>1. grown'.breaks = {}
    BY <1>2 DEF Attend, NothingGrown
  <2>2. CASE Report({"epoch_stale"})
    <3>1. {"epoch_stale"} \in SUBSET Rules
      BY DEF Rules
    <3> QED BY <1>0, <2>1, <2>2, <3>1, ReportOnce DEF TypeInv, RecordedInv
  <2>3. CASE UNCHANGED <<seen, recorded>> /\ ~looked'.told
    BY <1>0, <2>1, <2>3 DEF RecordedInv
  <2> QED BY <1>2, <2>2, <2>3 DEF Attend
<1>3. CASE Flush
  <2>1. static /\ UNCHANGED <<seen, grown, looked>>
        /\ \A r \in Rules \ {"kv_needed"} : recorded'[r] = recorded[r]
    BY <1>3 DEF Flush, TypeInv, TypeOK
  <2> QED BY <1>0, <2>1 DEF RecordedInv
<1>4. CASE (\E n \in Adds, capture \in Captures : Begin(n, capture))
  BY <1>0, <1>4 DEF Begin, RecordedInv, NothingGrown, NothingRead, tally
<1>5. CASE (\E l \in Asked : HandOut(l)) \/ \E l \in Layers : Skip(l) \/ Drop(l)
  BY <1>0, <1>5 DEF HandOut, Skip, Drop, RecordedInv, NothingRead, tally, ghosts
<1>6. CASE BuildMask \/ (\E m \in kept : Reuse(m)) \/ End \/ Interrupt \/ UNCHANGED vars
  BY <1>0, <1>6 DEF BuildMask, Reuse, End, Interrupt, RecordedInv, NothingGrown, NothingRead, tally,
                    ghosts, vars
<1> QED BY <1>1, <1>2, <1>3, <1>4, <1>5, <1>6 DEF Next

(* Where the policy goes on, a rule found broken for a cache is recorded once,  *)
(* however often it is found again (tally._decide, _refuse).                    *)
THEOREM BreaksAreRecordedOnce == Spec => []RecordedOnce
<1>1. Init => TypeInv /\ RecordedInv
  BY InitType DEF Init, RecordedInv, NothingGrown, NothingRead
<1>2. TypeInv /\ RecordedInv /\ [Next]_vars => TypeInv' /\ RecordedInv'
  BY StepType, StepRecorded
<1>3. TypeInv /\ RecordedInv => RecordedOnce
  <2> SUFFICES ASSUME TypeInv, RecordedInv, ~policy.stops PROVE RecordedOnce
    BY DEF RecordedOnce
  <2>1. grown.breaks \subseteq Rules /\ "epoch_stale" \in Rules /\ "epoch_stale" # "kv_needed"
    BY DEF TypeInv, TypeOK, Rules
  <2> QED BY <2>1 DEF RecordedInv, RecordedOnce
<1> QED BY <1>1, <1>2, <1>3, PTL DEF Spec
=============================================================================
