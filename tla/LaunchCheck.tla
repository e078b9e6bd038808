---------------------------- MODULE LaunchCheck ----------------------------
(* entail/kernel_check.py: meanings attached to memory, and what is said of    *)
(* every Triton launch from them (ENTAIL=types). A producer issues a quantized *)
(* value with its scale, the loader makes constants of the parameters, torch   *)
(* and the kernels write; a launch is judged by what the arguments mean        *)
(* (the verdict, kept by configuration) and by whether their memory still      *)
(* holds it (the lifetime check). Bytes carry what was last written there, so  *)
(* that what is said can be compared with what is so.                          *)
(* One tensor fills each storage; views, scopes, pointer tables and graphs are *)
(* left out, and of the rule's verdicts only the pairing of a value with its   *)
(* scale is judged ("dequant": o = x * y).                                     *)
EXTENDS Integers, FiniteSets
CONSTANTS
    Values, Scales, \* storages shaped as a value, and as a scale
    Extent,         \* [start, end) of each storage, in bytes
    Kernels,        \* subset of {"dequant", "fill", "blind"}
    Policies,       \* values of ENTAIL_ON_BROKEN: "report", "stop"
    MaxStamp,       \* bound on issues: a pair takes two, a plain meaning one
    MaxKept,        \* bound on launch configurations decided
    MaxSteps        \* bound on launches, torch writes and collected tensors
Storages == Values \cup Scales
Bytes == [s \in Storages |-> Extent[s].start .. Extent[s].end - 1]
Sharing == {p \in Storages \X Storages : p[1] # p[2] /\ Bytes[p[1]] \cap Bytes[p[2]] # {}}
Overlaps(s, t) == <<s, t>> \in Sharing

\* The storages that start where s does: the checker knows a storage by its start (_storage_key).
Own(s) == {t \in Storages : Extent[t].start = Extent[s].start}

ASSUME ShapeAssumption == Values \cap Scales = {}
ASSUME ExtentAssumption ==
    \A s \in Storages : /\ Extent[s].start \in Int /\ Extent[s].end \in Int
                        /\ Extent[s].start < Extent[s].end
\* A tensor at another's address and of its layout takes over its entry (_attach_at): the same storage.
ASSUME LayoutAssumption ==
    \A s, t \in Storages : Extent[s] = Extent[t] /\ (s \in Values <=> t \in Values) => s = t
\* _register_extent looks at a storage's two neighbours and _overlapping stops at the first
\* storage that ends before the write: "storages are disjoint unless aliased"
ASSUME PairAssumption ==
    \A s, t, u \in Storages : Overlaps(s, t) /\ Overlaps(s, u) => t = u

VARIABLES
    stop,       \* ENTAIL_ON_BROKEN=stop
    fact,       \* storage -> the meaning on its tensor (_FACTS), or NoFact
    moved,      \* storage -> what moved its version since the meaning was born: writes to it,
                \* by torch or a launch, and writes through another storage ("alien")
    extent,     \* storages registered by their bytes (_EXTENT)
    aliased,    \* registered storages known to overlap another (_ALIASED)
    verdicts,   \* launch configuration -> verdict (_VERDICTS and the cache on disk)
    stamp,      \* counter of serials
    steps,      \* launches, torch writes and collections so far
    mem,        \* history: byte -> what it holds, of what a meaning was given to
    excuse      \* history: storage -> writes the checker does not follow
vars == <<stop, fact, moved, extent, aliased, verdicts, stamp, steps, mem, excuse>>

Blank == <<0, "nothing">>

(* A meaning: the axes' names, the serials of a pair, the lifetime; `holds` is *)
(* what the memory should hold while the meaning is true of it.                *)
Meaning(names, serial, pair, holds) ==
    [names |-> names, serial |-> serial, pair |-> pair, life |-> "value",
     unwritten |-> FALSE, holds |-> holds]
NoFact == Meaning("absent", 0, 0, Blank)
HasFact(s) == fact[s] # NoFact
Named(f) == f.names \notin {"absent", "none"}
Holds(s, what) == \A b \in Bytes[s] : mem[b] = what

Init ==
    /\ stop \in {p = "stop" : p \in Policies}
    /\ fact = [s \in Storages |-> NoFact]
    /\ moved = [s \in Storages |-> {}]
    /\ extent = {} /\ aliased = {}
    /\ verdicts = <<>>
    /\ stamp = 0 /\ steps = 0
    /\ mem = [b \in UNION {Bytes[s] : s \in Storages} |-> Blank]
    /\ excuse = [s \in Storages |-> {}]

-----------------------------------------------------------------------------
(* Producers attach a meaning: its version starts anew, and the storage's      *)
(* bytes are registered, when another live storage over them is found out. A   *)
(* storage that starts where a registered one does is taken for that one.      *)
Unregistered(ss) == {s \in ss : Own(s) \cap extent = {}}
\* BUG: only the storage registered last is marked
BugMarksOne(ss) ==
    /\ extent' = extent \cup Unregistered(ss)
    /\ aliased' = aliased \cup {s \in Unregistered(ss) : \E t \in extent' : Overlaps(s, t)}
Register(ss) ==
    /\ extent' = extent \cup Unregistered(ss)
    /\ aliased' = aliased \cup
          {s \in extent' : \E t \in extent' : Overlaps(s, t) /\ {s, t} \cap Unregistered(ss) # {}}
\* BUG: the version a meaning was born with is not taken anew
BugBornBefore(new) ==
    /\ fact' = [s \in Storages |-> IF s \in DOMAIN new THEN new[s] ELSE fact[s]]
    /\ UNCHANGED moved
Attach(new) ==
    /\ fact' = [s \in Storages |-> IF s \in DOMAIN new THEN new[s] ELSE fact[s]]
    /\ moved' = [s \in Storages |-> IF s \in DOMAIN new THEN {} ELSE moved[s]]
Filled(what) ==
    [b \in DOMAIN mem |-> IF \E s \in DOMAIN what : b \in Bytes[s]
                          THEN what[CHOOSE s \in DOMAIN what : b \in Bytes[s]] ELSE mem[b]]
(* What a producer writes is not followed: values over whose memory it goes    *)
(* are others' from then on, without a word.                                   *)
Unseen(ss) ==
    excuse' = [s \in Storages |->
                 IF s \in ss \/ ~HasFact(s) THEN {}
                 ELSE IF \E t \in ss : Overlaps(s, t) THEN excuse[s] \cup {"hidden"} ELSE excuse[s]]

(* A quantizer hands out a value and its scale, two tensors of its own         *)
(* (issue_pair).                                                               *)
Issue(v, c) ==
    LET s == stamp + 1  p == stamp + 2
        what == [t \in {v, c} |-> IF t = v THEN <<s, "value">> ELSE <<s, "scale">>]
    IN /\ ~Overlaps(v, c) /\ p <= MaxStamp /\ stamp' = p
       /\ Attach([t \in {v, c} |-> IF t = v THEN Meaning("activation", s, p, what[v])
                                   ELSE Meaning("activation", p, s, what[c])])
       /\ Register({v, c})
       /\ mem' = Filled(what)
       /\ Unseen({v, c})
       /\ UNCHANGED <<stop, verdicts, steps>>

(* The loader fills a quantized weight and its scale, issues them, makes them  *)
(* constants, and finds out when elements of the weight were left unwritten    *)
(* (install_weights, set_life, set_unwritten).                                 *)
LoadPair(v, c, holes) ==
    LET s == stamp + 1  p == stamp + 2
        what == [t \in {v, c} |-> IF t = c THEN <<s, "scale">>
                                  ELSE IF holes THEN Blank ELSE <<s, "value">>]
        const(f) == [f EXCEPT !.life = "const"]
    IN /\ ~Overlaps(v, c) /\ p <= MaxStamp /\ stamp' = p
       /\ Attach([t \in {v, c} |->
             IF t = v THEN [const(Meaning("weight", s, p, <<s, "value">>)) EXCEPT !.unwritten = holes]
             ELSE const(Meaning("weight", p, s, what[c]))])
       /\ Register({v, c})
       /\ mem' = Filled(what)
       /\ Unseen({v, c})
       /\ UNCHANGED <<stop, verdicts, steps>>

(* A parameter nobody names becomes a constant all the same (set_life).        *)
LoadPlain(v) ==
    /\ ~HasFact(v)
    /\ stamp < MaxStamp /\ stamp' = stamp + 1
    /\ Attach([t \in {v} |-> [Meaning("none", 0, 0, <<stamp', "other">>) EXCEPT !.life = "const"]])
    /\ Register({v})
    /\ mem' = Filled([t \in {v} |-> <<stamp', "other">>])
    /\ Unseen({v})
    /\ UNCHANGED <<stop, verdicts, steps>>

(* One that has a meaning keeps it, with its serials: only its lifetime starts *)
(* anew (set_life). What was written to it before is forgotten.                *)
MakeConstant(s) ==
    /\ HasFact(s) /\ steps < MaxSteps /\ steps' = steps + 1
    /\ fact' = [fact EXCEPT ![s].life = "const"]
    /\ moved' = [moved EXCEPT ![s] = {}]
    /\ excuse' = [excuse EXCEPT ![s] = IF Holds(s, fact[s].holds) \/ fact[s].unwritten THEN @
                                       ELSE @ \cup {"hidden"}]
    /\ UNCHANGED <<stop, extent, aliased, verdicts, stamp, mem>>

(* The tensor is collected: its meaning goes, and when it was the last at its  *)
(* start, the bytes are no longer registered (the weak reference's callback,   *)
(* _drop_extent).                                                              *)
Collect(s) ==
    /\ HasFact(s) /\ steps < MaxSteps /\ steps' = steps + 1
    /\ fact' = [fact EXCEPT ![s] = NoFact]
    /\ moved' = [moved EXCEPT ![s] = {}]
    /\ excuse' = [excuse EXCEPT ![s] = {}]
    /\ LET gone == IF \E t \in Own(s) \ {s} : HasFact(t) THEN {} ELSE Own(s)
       IN extent' = extent \ gone /\ aliased' = aliased \ gone
    /\ UNCHANGED <<stop, verdicts, stamp, mem>>

(* A torch operation writes in place; the tensor's own counter tells, unless   *)
(* it is an inference tensor (_version_of).                                    *)
TorchWrite(s, counted) ==
    /\ steps < MaxSteps /\ steps' = steps + 1
    /\ mem' = Filled([t \in {s} |-> Blank])
    /\ moved' = IF counted /\ HasFact(s) THEN [moved EXCEPT ![s] = @ \cup {"written"}] ELSE moved
    /\ excuse' = [t \in Storages |->
                    IF t = s /\ HasFact(s) THEN excuse[t] \cup {IF counted THEN "own" ELSE "hidden"}
                    ELSE IF Overlaps(s, t) /\ HasFact(t) THEN excuse[t] \cup {"hidden"} ELSE excuse[t]]
    /\ UNCHANGED <<stop, fact, extent, aliased, verdicts, stamp>>

-----------------------------------------------------------------------------
(* A launch binds a kernel's arguments: "dequant" writes o = x * y, the others *)
(* fill o with what the rule cannot follow; the IR of "blind" does not tell    *)
(* that it writes o at all.                                                    *)
Bound(k) == IF k = "dequant" THEN [x : Values, y : Scales, o : Values] ELSE [o : Values]
Written(k) == IF k = "blind" THEN {} ELSE {"o"}

(* What of a meaning the verdict is kept by (_sig_of), and the configuration.  *)
Sig(f) == <<f.names, f.pair # 0>>
Configuration(k, a) == <<k, [n \in DOMAIN a |-> Sig(fact[a[n]])]>>

(* The rule on o = x * y (kernel_types._binary, _store_typed, check_launch): a *)
(* scale goes with the value whose serial it carries; an output that has axes  *)
(* must be reached by them; one that has none takes the value's, or the        *)
(* argument's own where it has none either. A scale never applied is pending.  *)
IsScale(s) == fact[s].pair # 0
\* BUG: any scale goes with any value
BugAnyScale(x, y) == IsScale(x)
OwnScale(x, y) == IsScale(x) /\ fact[y].pair = fact[x].serial
AxesOf(f) == IF Named(f) THEN f.names ELSE "argument"
Nothing == [verdict |-> "unproven", names |-> "none", pending |-> 0]
Decided(k, a) ==
    IF k # "dequant" THEN Nothing
    ELSE IF IsScale(a.y) /\ ~OwnScale(a.x, a.y) THEN [Nothing EXCEPT !.verdict = "violation"]
    ELSE IF Named(fact[a.o]) /\ fact[a.o].names # fact[a.x].names THEN Nothing
    ELSE [verdict |-> "proven",
          names |-> IF Named(fact[a.o]) THEN "none" ELSE AxesOf(fact[a.x]),
          pending |-> IF IsScale(a.y) THEN 0 ELSE fact[a.x].pair]
Cached(k, a) == Configuration(k, a) \in DOMAIN verdicts
VerdictOn(k, a) == IF Cached(k, a) THEN verdicts[Configuration(k, a)] ELSE Decided(k, a)
\* The first verdict stays; one that is never other than unproven need not be remembered.
Kept(k, a) ==
    [d \in DOMAIN verdicts \cup (IF k = "dequant" THEN {Configuration(k, a)} ELSE {}) |->
       IF d \in DOMAIN verdicts THEN verdicts[d] ELSE Decided(k, a)]

(* What an argument's lifetime says against the launch (_life_check).          *)
Unfit(s, written) ==
    LET f == fact[s]  constant == f.life = "const"
    IN {w \in {"unwritten", "alien", "writes", "changed"} :
          \/ w = "unwritten" /\ f.unwritten /\ ~written
          \/ w = "alien" /\ ~constant /\ ~written /\ "alien" \in moved[s]
          \/ w = "writes" /\ constant /\ written
          \/ w = "changed" /\ constant /\ ~written /\ moved[s] # {}}
(* The other live values whose memory the written argument reaches             *)
(* (_overlapping); its own start is left out.                                  *)
\* BUG: what a write reaches is looked up by the meanings' own storage only
BugOwnOnly(k, o) == {}
Reached(k, o) ==
    IF Written(k) # {} /\ o \in aliased THEN {t \in extent \ Own(o) : Overlaps(o, t)} ELSE {}
LifeOf(k, a) ==
    [n \in DOMAIN a |-> Unfit(a[n], n \in Written(k))
                         \cup (IF n = "o" /\ Reached(k, a.o) # {} THEN {"reaches"} ELSE {})]
Broken(k, a) ==
    VerdictOn(k, a).verdict = "violation" \/ \E n \in DOMAIN a : LifeOf(k, a)[n] # {}

(* The versions a launch moves (_note_writes), the refused one too; a start    *)
(* has one count.                                                              *)
Noted(k, o) ==
    [s \in Storages |->
       moved[s] \cup (IF s \in Own(o) /\ HasFact(s) /\ Written(k) # {} THEN {"written"} ELSE {})
                \cup (IF s \in Reached(k, o) THEN {"alien"} ELSE {})]
(* Writes of a launch that are not followed: through memory whose meaning was  *)
(* only inferred, or by a kernel whose IR does not tell what it writes.        *)
Followed(k, o, s) == Written(k) # {} /\ {o, s} \subseteq extent
Excused(k, o) ==
    [s \in Storages |->
       IF ~HasFact(s) THEN {}
       ELSE IF s \in Own(o) THEN excuse[s] \cup {IF Written(k) # {} THEN "own" ELSE "hidden"}
       ELSE IF Overlaps(s, o) /\ ~Followed(k, o, s) THEN excuse[s] \cup {"hidden"} ELSE excuse[s]]

(* A launch: judged before the kernel runs, refused when the policy stops at   *)
(* what is broken, else run; a proven one gives its output the axes inferred   *)
(* for it (_launch, _broken, install_triton).                                  *)
Launch(k, a) ==
    LET v == VerdictOn(k, a)
        refused == stop /\ Broken(k, a)
        inferred == ~refused /\ v.verdict = "proven" /\ v.names # "none"
        what == IF inferred THEN <<stamp + 1, "other">> ELSE Blank
        serial == IF v.pending # 0 THEN stamp + 1 ELSE 0
    IN /\ steps < MaxSteps /\ steps' = steps + 1
       /\ stamp' = IF inferred THEN stamp + 1 ELSE stamp
       /\ stamp' <= MaxStamp
       /\ verdicts' = Kept(k, a)
       /\ Cardinality(DOMAIN verdicts') <= MaxKept
       /\ mem' = IF refused THEN mem ELSE Filled([t \in {a.o} |-> what])
       /\ fact' = IF inferred THEN [fact EXCEPT ![a.o] = Meaning(v.names, serial, v.pending, what)]
                  ELSE fact
       /\ moved' = [Noted(k, a.o) EXCEPT ![a.o] = IF inferred THEN {} ELSE @]
       /\ excuse' = IF refused THEN excuse
                    ELSE [Excused(k, a.o) EXCEPT ![a.o] = IF inferred THEN {} ELSE @]
       /\ UNCHANGED <<stop, extent, aliased>>

Next ==
    \/ \E v \in Values, c \in Scales :
          \/ Issue(v, c)
          \/ \E holes \in BOOLEAN : LoadPair(v, c, holes)
    \/ \E v \in Values : LoadPlain(v)
    \/ \E s \in Storages :
          \/ MakeConstant(s)
          \/ Collect(s)
          \/ \E counted \in BOOLEAN : TorchWrite(s, counted)
    \/ \E k \in Kernels : \E a \in Bound(k) : Launch(k, a)
Spec == Init /\ [][Next]_vars

-----------------------------------------------------------------------------
Marks == Nat \X {"nothing", "value", "scale", "other"}
Names == {"absent", "none", "argument", "activation", "weight"}
Facts == [names : Names, serial : Nat, pair : Nat, life : {"value", "const"},
          unwritten : BOOLEAN, holds : Marks]

(* Every variable keeps its type, and a start is registered only while a       *)
(* meaning lives there.                                                        *)
TypeOK ==
    /\ stop \in BOOLEAN
    /\ fact \in [Storages -> Facts]
    /\ moved \in [Storages -> SUBSET {"written", "alien"}]
    /\ extent \subseteq {s \in Storages : \E t \in Own(s) : HasFact(t)} /\ aliased \subseteq extent
    /\ \A d \in DOMAIN verdicts :
          verdicts[d] \in [verdict : {"proven", "violation", "unproven"}, names : Names, pending : Nat]
    /\ stamp \in Nat /\ steps \in Nat
    /\ mem \in [UNION {Bytes[s] : s \in Storages} -> Marks]
    /\ excuse \in [Storages -> SUBSET {"own", "hidden"}]

(* Storages that are registered over the same bytes are known to, whatever was *)
(* collected and attached again in between (_register_extent, _drop_extent).   *)
(* A second storage at a registered start is not registered, nor an output     *)
(* whose meaning was inferred.                                                 *)
OverlapKnown ==
    \A s \in extent : (\E t \in extent : Overlaps(s, t)) => s \in aliased

Spoiled(s) ==
    /\ HasFact(s) /\ ~Holds(s, fact[s].holds)
    /\ "hidden" \notin excuse[s]
    /\ fact[s].life = "const" \/ "own" \notin excuse[s]
Pair(x, y) == \E n \in 1 .. stamp : Holds(x, <<n, "value">>) /\ Holds(y, <<n, "scale">>)
Claimed(a) ==
    /\ IsScale(a.y) /\ excuse[a.x] = {} /\ excuse[a.y] = {}
    /\ VerdictOn("dequant", a).verdict = "proven" /\ ~Broken("dequant", a)

(* Whatever launch comes next: reading a constant whose memory no longer holds *)
(* it, a weight the loader left unwritten, or a value another storage's value  *)
(* was written over is reported before the kernel runs (_life_check); excepted *)
(* are writes the checker does not follow (by what made a new value over its    *)
(* memory, or before it was called constant with the meaning it had), and a    *)
(* value written again at its own start without a new meaning.                 *)
SpoiledIsSaid == \A s \in Storages : Spoiled(s) => Unfit(s, FALSE) # {}

(* A pairing proven on this launch is right: when nothing is said of a value   *)
(* and a scale, their memory holds one issue's value and its scale, with the   *)
(* same exceptions. (A verdict kept from another launch is KeptPairsAreOwn's.)   *)
OwnScaleProven ==
    \A a \in Bound("dequant") : Claimed(a) /\ ~Cached("dequant", a) => Pair(a.x, a.y)

(* Nothing is called broken that is not: memory said to be changed is, a pair  *)
(* said to be another's is. Excepted: what the policy refused to have written  *)
(* counts as written (_note_writes comes before _broken stops the launch); a   *)
(* value whose tensor is gone, or with a write the checker does not follow; a   *)
(* verdict kept from another launch.                                           *)
NoFalseAlarm ==
    /\ ~stop => \A s \in Storages :
          {"changed", "alien"} \cap Unfit(s, FALSE) # {} => ~Holds(s, fact[s].holds)
    /\ \A a \in Bound("dequant") :
          (/\ Pair(a.x, a.y) /\ HasFact(a.x)
           /\ excuse[a.x] = {} /\ excuse[a.y] = {} /\ ~Cached("dequant", a)) =>
              VerdictOn("dequant", a).verdict # "violation"

(* "Read once per launch configuration (kernel, ..., and which arguments carry *)
(* which meanings)": a proven launch pairs a value with its own scale, also    *)
(* when the verdict is one kept from an earlier launch.                        *)
KeptPairsAreOwn == \A a \in Bound("dequant") : Claimed(a) => Pair(a.x, a.y)
=============================================================================
