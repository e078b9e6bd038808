----------------------------- MODULE CacheSteps -----------------------------
(***************************************************************************)
(* One KV cache of transformers, updated layer by layer in each forward,   *)
(* and what the cache adapter (adapters/cache_contract.py) says of it at    *)
(* every step: the books of its lengths (kv_contract.grew, flush), and the  *)
(* epochs of the position counters a flex mask reads later (epochs.live,    *)
(* bind, carried, read). Both go through the tallies: a break is recorded   *)
(* once for the cache, nothing is looked at inside a capture, and a         *)
(* boundary entail failed at is left alone. The engine may stop a forward   *)
(* between two layers, and use a mask again that it made for an earlier one.*)
(*                                                                         *)
(* A dynamic layer keeps its length as an int, a static one in a device     *)
(* tensor it writes in place: the counter. Another cache has entries of its *)
(* own in every table, except that flush reads the flags of all.            *)
(***************************************************************************)
EXTENDS Integers, FiniteSets

CONSTANTS
    Last,      \* the last layer; the first is 0
    Windowed,  \* the layers with a sliding window
    Window,    \* the tokens a windowed layer may hold
    Asked,     \* the layers whose counter a mask is made from
    Adds,      \* how many tokens a forward may add
    MaxLen,    \* no layer grows past this
    Policies,  \* [binds, stops]: bind a live value or not, stop or report
    Captures,  \* what of a forward a graph captures: "none", "layers", "all"
    FaultBound, \* how often the engine or entail itself may go wrong
    KeptBound  \* how many masks the engine keeps over forwards

Layers == 0 .. Last
Boundaries == {"update", "mask", "flex"}
KvRules == {"kv_needed", "kv_shrank", "kv_layers"}
Rules == KvRules \cup {"epoch_stale"}

ASSUME LayerAssumption == Last \in Nat /\ Windowed \subseteq Layers /\ Asked \subseteq Layers
ASSUME SizeAssumption == Window \in Nat \ {0} /\ MaxLen \in Nat /\ Adds \subseteq Nat \ {0}
ASSUME PolicyAssumption == Policies \subseteq [binds : BOOLEAN, stops : BOOLEAN]
ASSUME CaptureAssumption == Captures \subseteq {"none", "layers", "all"}
ASSUME FaultBoundAssumption == FaultBound \in Nat
ASSUME KeptBoundAssumption == KeptBound \in Nat

VARIABLES
    static,    \* the cache keeps its lengths in device tensors
    policy,    \* the policy in force
    held,      \* layer -> the tokens it holds
    books,     \* kv_contract._BOOKS: the lengths last seen, and the round
    flags,     \* the layers whose device flag was set since the last flush
    epoch,     \* epochs._EPOCHS: layer -> writes of its counter entail saw
    live,      \* epochs._LIVE: layer -> epoch at which its counter was handed out
    offer,     \* the layer whose counter this forward was handed, if one was
    mask,      \* the flex mask of this forward
    kept,      \* masks of earlier forwards that read their counter later
    seen,      \* tally._SEEN_OWNERS: the rules recorded for this cache
    alone,     \* tally._BROKEN: the boundaries left alone
    pc,        \* where the forward is
    fwd,       \* the forward: tokens added, what is captured, the layer it is at
    left,      \* faults still allowed
    recorded,  \* history: rule -> decisions recorded
    grown,     \* history: what the last look at an update saw
    looked,    \* history: what the last attention read
    lost,      \* history: layers that lost tokens since the books last saw them
    blurred,   \* history: layers that grew since without the books seeing it
    jumped,    \* history: layers whose counter was seen to go wrong since the last flush
    round,     \* history: the layers this forward was checked on, and if they disagreed
    faulty,    \* history: the engine dropped, lost or skipped something
    halted     \* history: a forward ended between two layers

setting == <<static, policy>>
kv == <<books, flags>>
time == <<epoch, live, offer, mask, kept>>
tally == <<seen, alone, recorded>>
ghosts == <<grown, looked, lost, blurred, jumped, round, faulty, halted>>
vars == <<setting, held, kv, time, tally, pc, fwd, left, ghosts>>

None == -1

(* A mask reads the counter of layer `of`, which was `at` when it was made;  *)
(* `made` is the epoch entail noted, `bound` that it got a copy. History:    *)
(* `unseen`, it was made or its counter written where entail did not look.   *)
NoMask == [of |-> None, at |-> None, made |-> None, bound |-> FALSE, unseen |-> FALSE]
Plain == [NoMask EXCEPT !.bound = TRUE]    \* made from a number: it reads nothing later
NoForward == [added |-> 0, capture |-> "none", layer |-> 0]
NothingGrown == [lost |-> FALSE, blurred |-> FALSE, capped |-> FALSE, breaks |-> {}]
NoRound == [checked |-> {}, uneven |-> FALSE]
NothingRead == [wrong |-> FALSE, told |-> FALSE]

Init ==
    /\ static \in BOOLEAN /\ policy \in Policies
    /\ held = [l \in Layers |-> 0]
    /\ books = [lengths |-> [l \in Layers |-> None], prev |-> -1, target |-> None]
    /\ flags = {}
    /\ epoch = [l \in Layers |-> 0]
    /\ live = [l \in Layers |-> None]
    /\ offer = None /\ mask = NoMask /\ kept = {}
    /\ seen = {} /\ alone = {} /\ recorded = [r \in Rules |-> 0]
    /\ pc = "idle" /\ fwd = NoForward /\ left = FaultBound
    /\ grown = NothingGrown /\ looked = NothingRead
    /\ lost = {} /\ blurred = {} /\ jumped = {} /\ round = NoRound
    /\ faulty = FALSE /\ halted = FALSE
-----------------------------------------------------------------------------
Fault == left > 0 /\ left' = left - 1

Least(m, n) == IF m <= n THEN m ELSE n

(* inside_capture, and a boundary that is left alone (guarded). *)
Captured(part) == fwd.capture = "all" \/ (fwd.capture = "layers" /\ part = "layers")
Active(boundary, part) == ~Captured(part) /\ boundary \notin alone

(* guarded: an error inside entail leaves the boundary alone from then on. *)
FailsAt(boundary) == Fault /\ alone' = alone \cup {boundary}
Works == UNCHANGED <<left, alone>>

BugRecordsAgain(rules) == rules
First(rules) == rules \ seen

(* _refuse and _decide with the cache as owner: a break is recorded every   *)
(* time under a policy that stops, else the first time for the cache.       *)
ReportBound == 2    \* recorded counts up to two
Report(rules) ==
    LET made == IF policy.stops THEN rules ELSE First(rules) IN
    /\ recorded' = [r \in Rules |-> IF r \in made THEN Least(recorded[r] + 1, ReportBound)
                                    ELSE recorded[r]]
    /\ seen' = IF policy.stops THEN seen ELSE seen \cup rules
-----------------------------------------------------------------------------
(* The engine begins a forward and builds its mask. *)

Begin(n, capture) ==
    /\ pc = "idle"
    /\ \A l \in Layers : held[l] + n <= MaxLen
    /\ pc' = "offer"
    /\ fwd' = [added |-> n, capture |-> capture, layer |-> 0]
    /\ round' = NoRound /\ grown' = NothingGrown /\ looked' = NothingRead
    /\ UNCHANGED <<setting, held, kv, time, tally, left, lost, blurred, jumped, faulty, halted>>

HandedOutAt(l) == epoch[l]

(* Cache.get_query_offset: a static cache hands out layer l's counter       *)
(* itself, and epochs.live notes the epoch it is at.                        *)
HandOut(l) ==
    /\ pc = "offer"
    /\ pc' = "mask"
    /\ offer' = IF static THEN l ELSE None
    /\ IF Active("mask", "mask")
       THEN \/ Works /\ live' = IF static THEN [live EXCEPT ![l] = HandedOutAt(l)] ELSE live
            \/ FailsAt("mask") /\ UNCHANGED live
       ELSE Works /\ UNCHANGED live
    /\ UNCHANGED <<setting, held, kv, epoch, mask, kept, seen, recorded, fwd, ghosts>>

(* add_offsets_to_mask_function: bind hands the mask a snapshot, unless the *)
(* policy repairs nothing; then the mask carries what its offset reads.     *)
BuildMask ==
    LET built(bound, made, unseen) ==
            mask' = IF offer = None THEN Plain
                    ELSE [of |-> offer, at |-> held[offer], made |-> made, bound |-> bound,
                          unseen |-> unseen]
        untouched == built(FALSE, None, TRUE)
    IN  /\ pc = "mask"
        /\ pc' = "update"
        /\ IF Active("mask", "mask")
           THEN \/ Works /\ IF policy.binds THEN built(live[offer] # None, None, FALSE)
                           ELSE built(FALSE, live[offer], FALSE)
                \/ FailsAt("mask") /\ untouched
           ELSE Works /\ untouched
        /\ offer' = None
        /\ UNCHANGED <<setting, held, kv, epoch, live, kept, seen, recorded, fwd, ghosts>>

(* The engine uses a mask it kept, whether it was handed a counter or not.  *)
Reuse(m) ==
    /\ pc \in {"offer", "mask"}
    /\ pc' = "update"
    /\ mask' = m /\ offer' = None
    /\ UNCHANGED <<setting, held, kv, epoch, live, kept, tally, fwd, left, ghosts>>

(* The forward is over, and the engine may keep its mask; one that reads    *)
(* nothing later need not be followed.                                      *)
Over ==
    /\ pc' = "idle" /\ fwd' = NoForward /\ mask' = NoMask
    /\ \/ kept' = kept
       \/ /\ mask # NoMask /\ ~mask.bound /\ Cardinality(kept) < KeptBound
          /\ kept' = kept \cup {mask}
-----------------------------------------------------------------------------
(* Cache.update and what grew makes of it *)

(* A windowed layer holds at most its window; a static one's counter goes   *)
(* on counting the tokens it was given.                                     *)
Fits(l, n) == IF l \in Windowed /\ ~static THEN Least(n, Window) ELSE n
Capped(l, needed) == l \in Windowed /\ needed > Window

BugExpectsTheLast(l, added) == books.lengths[l]
Previous(l, added) == books.lengths[l] + added

(* _rules: what a layer that held `before` and was given the forward's      *)
(* tokens breaks with `after`; a window that caps exempts it.               *)
LengthBreaks(l, before, after) ==
    {r \in {"kv_needed", "kv_shrank"} :
        /\ ~Capped(l, before + fwd.added)
        /\ CASE r = "kv_needed" -> after < before + fwd.added
             [] OTHER -> books.lengths[l] # None /\ after < Previous(l, fwd.added)}

BugSameRound(l) == books.target
BugAlwaysNewRound(l) == None

(* A layer at or before the one updated last begins a new round. *)
RoundTarget(l) == IF l <= books.prev THEN None ELSE books.target

LayersBreak(l, after) ==
    IF l \notin Windowed /\ RoundTarget(l) # None /\ after # RoundTarget(l)
    THEN {"kv_layers"} ELSE {}

BugWindowSetsTarget(l, after) ==
    [lengths |-> [books.lengths EXCEPT ![l] = after], prev |-> l,
     target |-> IF RoundTarget(l) # None THEN RoundTarget(l) ELSE after]

Booked(l, after) ==
    [lengths |-> [books.lengths EXCEPT ![l] = after],
     prev |-> l,
     target |-> IF l \in Windowed \/ RoundTarget(l) # None THEN RoundTarget(l) ELSE after]

(* The forward goes on with the layer's attention, or an entail refusal     *)
(* raised in the update ends it.                                            *)
Goes(refused) ==
    IF refused THEN Over ELSE pc' = "attend" /\ UNCHANGED <<fwd, mask, kept>>

(* grew on a dynamic layer: the length rules, then the books, then the      *)
(* agreement of the round; a refusal by the former leaves the books alone.  *)
Grew(l, before, after) ==
    LET short == LengthBreaks(l, before, after)
        uneven == LayersBreak(l, after)
        raised == policy.stops /\ short # {}
        breaks == IF raised THEN short ELSE short \cup uneven
        refused == policy.stops /\ breaks # {}
    IN  /\ Report(breaks)
        /\ books' = IF raised THEN books ELSE Booked(l, after)
        /\ grown' = [lost |-> l \in lost \/ after < Fits(l, before + fwd.added),
                     blurred |-> l \in blurred, capped |-> Capped(l, before + fwd.added),
                     breaks |-> breaks]
        /\ lost' = lost \ {l}
        /\ blurred' = IF raised THEN blurred \cup {l} ELSE blurred \ {l}
        /\ round' = [checked |-> round.checked \cup {l},
                     uneven |-> round.uneven \/ "kv_layers" \in breaks]
        /\ Goes(refused)
        /\ UNCHANGED <<flags, epoch, jumped>>

Flagged(l, wrong) == IF wrong THEN flags \cup {l} ELSE flags

Advanced(l) == [epoch EXCEPT ![l] = @ + 1]

(* _defer on a static layer: the comparison stays on the device; and its    *)
(* counter was written in place (epochs.advance).                           *)
Deferred(l, before, after) ==
    LET wrong == after # before + fwd.added IN
    /\ flags' = Flagged(l, wrong)
    /\ jumped' = IF wrong THEN jumped \cup {l} ELSE jumped
    /\ epoch' = Advanced(l)
    /\ Goes(FALSE)
    /\ UNCHANGED <<books, seen, recorded, grown, lost, blurred, round>>

(* A counter was written and its epoch was not. *)
Overlooked(m, l) == IF m.of = l THEN [m EXCEPT !.unseen = TRUE] ELSE m

(* What nobody looks at: a captured update, or a boundary left alone. *)
Unseen(l, after) ==
    /\ blurred' = blurred \cup {l}
    /\ pc' = "attend" /\ UNCHANGED fwd
    /\ mask' = Overlooked(mask, l) /\ kept' = {Overlooked(m, l) : m \in kept}
    /\ UNCHANGED <<books, flags, epoch, seen, recorded, grown, lost, jumped, round>>

(* Layer l is given the forward's tokens, and may lose one of them. *)
Update(l) ==
    /\ pc = "update" /\ l = fwd.layer
    /\ \E got \in {fwd.added, fwd.added - 1} :
        LET after == Fits(l, held[l] + got) IN
        /\ held' = [held EXCEPT ![l] = after]
        /\ faulty' = (faulty \/ got # fwd.added)
        /\ \/ /\ got = fwd.added
              /\ \/ ~Active("update", "layers") /\ Works /\ Unseen(l, after)
                 \/ Active("update", "layers") /\ FailsAt("update") /\ Unseen(l, after)
                 \/ /\ Active("update", "layers") /\ Works
                    /\ IF static THEN Deferred(l, held[l], after) ELSE Grew(l, held[l], after)
           \/ /\ got # fwd.added /\ Fault /\ UNCHANGED alone
              /\ IF ~Active("update", "layers") THEN Unseen(l, after)
                 ELSE IF static THEN Deferred(l, held[l], after)
                 ELSE Grew(l, held[l], after)
    /\ looked' = NothingRead
    /\ UNCHANGED <<setting, live, offer, halted>>

(* The engine leaves layer l out of this forward. *)
Skip(l) ==
    /\ pc = "update" /\ l = fwd.layer
    /\ Fault
    /\ IF l = Last THEN pc' = "end" /\ UNCHANGED fwd
       ELSE UNCHANGED pc /\ fwd' = [fwd EXCEPT !.layer = l + 1]
    /\ faulty' = TRUE
    /\ looked' = NothingRead
    /\ UNCHANGED <<setting, held, kv, time, tally, grown, lost, blurred, jumped, round, halted>>

BugAsksTheCounter(m) == m.made # None /\ epoch[m.of] # live[m.of]
IsStale(m) == m.made # None /\ epoch[m.of] # m.made

(* flex_attention: the mask is read, and epochs.read compares the epochs; a *)
(* refusal raised there ends the forward.                                   *)
Attend(l) ==
    LET wrong == ~mask.bound /\ held[mask.of] # mask.at
        next == IF l = Last THEN "end" ELSE "update"
        onward == /\ pc' = next /\ UNCHANGED <<mask, kept>>
                  /\ fwd' = IF l = Last THEN fwd ELSE [fwd EXCEPT !.layer = l + 1]
    IN  /\ pc = "attend" /\ l = fwd.layer
        /\ \/ /\ Active("flex", "layers") /\ IsStale(mask) /\ Works
              /\ Report({"epoch_stale"})
              /\ looked' = [wrong |-> wrong, told |-> TRUE]
              /\ IF policy.stops THEN Over ELSE onward
           \/ /\ \/ Active("flex", "layers") /\ ~IsStale(mask) /\ Works
                 \/ Active("flex", "layers") /\ FailsAt("flex")
                 \/ ~Active("flex", "layers") /\ Works
              /\ looked' = [wrong |-> wrong, told |-> FALSE]
              /\ onward
              /\ UNCHANGED <<seen, recorded>>
        /\ grown' = NothingGrown
        /\ UNCHANGED <<setting, held, kv, epoch, live, offer, lost, blurred, jumped, round, faulty,
                       halted>>

End ==
    /\ pc = "end"
    /\ Over
    /\ looked' = NothingRead
    /\ round' = NoRound
    /\ UNCHANGED <<setting, held, kv, epoch, live, offer, tally, left, grown, lost, blurred, jumped,
                   faulty, halted>>

(* Some layers have this forward's tokens and some do not. *)
Halfway == (pc = "update" /\ fwd.layer > 0) \/ (pc = "attend" /\ fwd.layer < Last)

(* An error of the engine, or an interrupt, ends the forward where it is;   *)
(* entail is not told.                                                      *)
Interrupt ==
    /\ pc # "idle"
    /\ Fault
    /\ Over
    /\ offer' = None
    /\ halted' = (halted \/ Halfway)
    /\ grown' = NothingGrown /\ looked' = NothingRead /\ round' = NoRound
    /\ UNCHANGED <<setting, held, kv, epoch, live, tally, lost, blurred, jumped, faulty>>
-----------------------------------------------------------------------------
(* Between two forwards *)

(* Something drops a token of a layer and says nothing. *)
Drop(l) ==
    /\ pc = "idle" /\ held[l] > 0
    /\ Fault
    /\ held' = [held EXCEPT ![l] = @ - 1]
    /\ lost' = lost \cup {l}
    /\ faulty' = TRUE
    /\ kept' = {Overlooked(m, l) : m \in kept}
    /\ UNCHANGED <<setting, kv, epoch, live, offer, mask, tally, pc, fwd, grown, looked, blurred,
                   jumped, round, halted>>

(* flush, after a request: the flags are read once and forgotten. It has no *)
(* owner to report for, so what it finds is recorded each time.             *)
Flush ==
    /\ pc = "idle" /\ static
    /\ flags' = {} /\ jumped' = {}
    /\ recorded' = IF flags = {} THEN recorded
                   ELSE [recorded EXCEPT !["kv_needed"] = Least(@ + 1, ReportBound)]
    /\ UNCHANGED <<setting, held, books, time, seen, alone, pc, fwd, left, grown, looked, lost,
                   blurred, round, faulty, halted>>

Next ==
    \/ \E n \in Adds, capture \in Captures : Begin(n, capture)
    \/ \E l \in Asked : HandOut(l)
    \/ \E l \in Layers : Update(l) \/ Skip(l) \/ Attend(l) \/ Drop(l)
    \/ \E m \in kept : Reuse(m)
    \/ BuildMask \/ End \/ Interrupt \/ Flush

Spec == Init /\ [][Next]_vars
-----------------------------------------------------------------------------
(* Properties *)

(* Every variable keeps its type, and a forward has a mask from the time    *)
(* one was offered to the engine.                                           *)
Masks == [of : Layers \cup {None}, at : -1 .. MaxLen, made : Nat \cup {None},
          bound : BOOLEAN, unseen : BOOLEAN]

MasksOK ==
    /\ offer \in Layers \cup {None} /\ mask \in Masks /\ kept \subseteq Masks
    /\ pc \in {"idle", "offer", "mask"} => mask = NoMask
    /\ pc \in {"update", "attend", "end"} => mask.of \in Layers \/ mask = Plain
    /\ \A m \in kept : m.of \in Layers

TypeOK ==
    /\ static \in BOOLEAN /\ policy \in Policies
    /\ held \in [Layers -> 0 .. MaxLen]
    /\ books \in [lengths : [Layers -> -1 .. MaxLen], prev : Layers \cup {-1},
                  target : -1 .. MaxLen]
    /\ flags \subseteq Layers
    /\ epoch \in [Layers -> Nat]
    /\ live \in [Layers -> Nat \cup {None}]
    /\ MasksOK
    /\ seen \subseteq Rules /\ alone \subseteq Boundaries
    /\ pc \in {"idle", "offer", "mask", "update", "attend", "end"}
    /\ fwd \in [added : Adds \cup {0}, capture : Captures \cup {"none"}, layer : Layers]
    /\ left \in Nat
    /\ recorded \in [Rules -> 0 .. ReportBound]
    /\ grown \in [lost : BOOLEAN, blurred : BOOLEAN, capped : BOOLEAN, breaks : SUBSET KvRules]
    /\ looked \in [wrong : BOOLEAN, told : BOOLEAN]
    /\ lost \subseteq Layers /\ blurred \subseteq Layers /\ jumped \subseteq Layers
    /\ round \in [checked : SUBSET Layers, uneven : BOOLEAN]
    /\ faulty \in BOOLEAN /\ halted \in BOOLEAN
    /\ pc = "idle" <=> fwd = NoForward

(* "The length nobody compared is the one that drifts": a layer that lost a *)
(* token, in an update or before it, breaks a rule at that update - unless  *)
(* a window caps it or it grew in between where the books did not see it.   *)
LossNoticed == grown.lost /\ ~grown.blurred /\ ~grown.capped => grown.breaks # {}

Disagree == \E l, m \in Layers \ Windowed : held[l] # held[m]

(* No false alarm: an engine that drops, loses and skips nothing breaks no  *)
(* rule of one layer's length, however its forwards are captured or end     *)
(* halfway; its layers are only said to disagree when they do, after a      *)
(* forward that ended between two of them.                                  *)
NoFalseBreak ==
    /\ grown.breaks \cap {"kv_needed", "kv_shrank"} # {} => faulty
    /\ "kv_layers" \in grown.breaks => faulty \/ (halted /\ Disagree)

(* "Every layer a round updates holds what the first one it updated holds": *)
(* at the end of a forward that was checked on every layer without a window *)
(* they agree, or one of them was reported.                                 *)
RoundsAgree ==
    pc = "end" /\ Layers \ Windowed \subseteq round.checked /\ ~round.uneven =>
        \A l, m \in Layers \ Windowed : held[l] = held[m]

(* What grew relies on when layers disagree (sorted(odd.items())[0]): the   *)
(* round's target is still held, in the books, by a layer that takes part   *)
(* in the agreement, so that an odd layer is found to name.                 *)
OddLayerFound ==
    books.target # None => \E l \in Layers \ Windowed : books.lengths[l] = books.target

(* A counter that went wrong in an update that was looked at is in the      *)
(* flags until flush reads them, whatever the updates after it say.         *)
JumpsKept == jumped \subseteq flags

(* No silent stale read: attention that reads a mask whose counter has      *)
(* moved on, in this forward or since an earlier one, is reported, unless    *)
(* the read is captured or its boundary left alone, or entail did not see    *)
(* the mask made or the counter written; and a policy that binds leaves no   *)
(* mask that reads its counter later but those it did not see made.          *)
NoSilentStale ==
    looked.wrong =>
        /\ looked.told \/ Captured("layers") \/ "flex" \in alone \/ mask.unseen
        /\ policy.binds => mask.unseen

(* "The same break again for the same cache is counted, not recorded": a    *)
(* rule found broken has its one decision, except for flush's, which names  *)
(* no cache.                                                                *)
RecordedOnce ==
    ~policy.stops =>
        /\ \A r \in Rules : recorded[r] <= 1 \/ (static /\ r = "kv_needed")
        /\ \A r \in grown.breaks : recorded[r] = 1
        /\ looked.told => recorded["epoch_stale"] = 1
=============================================================================
