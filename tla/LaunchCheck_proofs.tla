------------------------- MODULE LaunchCheck_proofs -------------------------
(* What holds of the launch check for any storages, extents and policies,    *)
(* however many values are issued, loaded, written, collected and launched.   *)
EXTENDS LaunchCheck, TLAPS

-----------------------------------------------------------------------------
(* Stamps only grow, so that what is written now is told from all that was    *)
(* written before; what is forgotten leaves no trace.                        *)
Grounded ==
    /\ \A s \in Storages :
          /\ fact[s].serial <= stamp /\ (s \in Scales => fact[s].pair <= stamp)
          /\ HasFact(s) => fact[s].holds[1] \in 1 .. stamp
          /\ ~HasFact(s) => moved[s] = {} /\ excuse[s] = {}
    /\ \A b \in DOMAIN mem : mem[b][1] <= stamp

(* The serials of a value and of a scale say what their memory should hold.   *)
ValueShaped(x, f) == f.holds[2] = "value" => f.serial = f.holds[1] /\ f.pair # 0
ScaleShaped(f) == f.holds[2] = "scale" /\ f.pair = f.holds[1]
OneIssue(f, g) ==
    (g.pair # 0 /\ g.pair = f.serial) => f.holds = <<g.pair, "value">> /\ g.holds = <<g.pair, "scale">>
Shaped ==
    /\ \A x \in Values : HasFact(x) => ValueShaped(x, fact[x])
    /\ \A y \in Scales : HasFact(y) => ScaleShaped(fact[y])
    /\ \A x \in Values, y \in Scales : OneIssue(fact[x], fact[y])

(* Where the policy lets every launch run, a version that moved is one whose   *)
(* memory changed; and a value or scale that lies in memory no one wrote       *)
(* unseen is the one its meaning says.                                         *)
MovedIsChanged == ~stop => \A s \in Storages : moved[s] # {} => ~Holds(s, fact[s].holds)
SeenIsMeant ==
    \A s \in Storages : HasFact(s) /\ excuse[s] = {} =>
        \A b \in Bytes[s] : mem[b][2] \in {"value", "scale"} => mem[b] = fact[s].holds

Inv ==
    /\ TypeOK /\ Grounded /\ OverlapKnown
    /\ SpoiledIsSaid /\ Shaped /\ MovedIsChanged /\ SeenIsMeant

-----------------------------------------------------------------------------
LEMMA OverlapIs ==
    ASSUME NEW s \in Storages, NEW t \in Storages
    PROVE  /\ Overlaps(s, t) <=> s # t /\ \E b \in Bytes[s] : b \in Bytes[t]
           /\ Overlaps(s, t) <=> Overlaps(t, s)
           /\ Bytes[s] \subseteq UNION {Bytes[u] : u \in Storages}
BY DEF Overlaps, Sharing

(* Storages of one start share a byte, so one of them overlaps no other start.  *)
LEMMA OwnIs ==
    ASSUME NEW s \in Storages
    PROVE  /\ s \in Own(s) /\ Own(s) \subseteq Storages /\ Bytes[s] # {}
           /\ \A t \in Own(s) : t # s => Overlaps(s, t)
           /\ \A t \in Storages : t \in Own(s) <=> s \in Own(t)
<1>1. ASSUME NEW t \in Storages, t \in Own(s)
      PROVE  Extent[s].start \in Bytes[s] /\ Extent[s].start \in Bytes[t]
  <2>1. /\ Extent[s].start \in Int /\ Extent[s].end \in Int /\ Extent[s].start < Extent[s].end
        /\ Extent[t].start = Extent[s].start /\ Extent[t].end \in Int
        /\ Extent[t].start < Extent[t].end
    BY <1>1, ExtentAssumption DEF Own
  <2>2. Bytes[s] = Extent[s].start .. Extent[s].end - 1 /\ Bytes[t] = Extent[t].start .. Extent[t].end - 1
    BY DEF Bytes
  <2> QED BY <2>1, <2>2
<1>2. s \in Own(s) /\ Own(s) \subseteq Storages
      /\ \A t \in Storages : t \in Own(s) <=> s \in Own(t)
  BY DEF Own
<1> QED BY <1>1, <1>2, OverlapIs

LEMMA ApartIsAlone ==
    ASSUME NEW s \in Storages, NEW o \in Storages, Overlaps(o, s), s \notin Own(o)
    PROVE  Own(s) = {s}
<1>1. ASSUME NEW t \in Own(s), t # s PROVE FALSE
  <2>1. t \in Storages /\ Overlaps(s, t) /\ Overlaps(s, o)
    BY <1>1, OwnIs, OverlapIs
  <2>2. t = o
    BY <2>1, PairAssumption
  <2> QED BY <1>1, <2>2, OwnIs
<1> QED BY <1>1, OwnIs

(* What a write leaves: its mark in the storage written, the rest as it was.   *)
LEMMA FilledIn ==
    ASSUME TypeOK, NEW ss \in SUBSET Storages, NEW what \in [ss -> Marks],
           \A s, t \in ss : ~Overlaps(s, t)
    PROVE  /\ Filled(what) \in [UNION {Bytes[s] : s \in Storages} -> Marks]
           /\ DOMAIN Filled(what) = DOMAIN mem
           /\ \A s \in ss : \A b \in Bytes[s] : Filled(what)[b] = what[s]
           /\ \A b \in DOMAIN mem :
                 (\A s \in ss : b \notin Bytes[s]) => Filled(what)[b] = mem[b]
           /\ \A b \in DOMAIN mem :
                 Filled(what)[b] = mem[b] \/ \E s \in ss : Filled(what)[b] = what[s]
<1>1. mem \in [UNION {Bytes[s] : s \in Storages} -> Marks]
  BY DEF TypeOK
<1>2. ASSUME NEW b, NEW s \in ss, b \in Bytes[s]
      PROVE  (CHOOSE t \in DOMAIN what : b \in Bytes[t]) = s
  BY <1>2, OverlapIs
<1>3. ASSUME NEW s \in ss, NEW b \in Bytes[s]
      PROVE  Filled(what)[b] = what[s]
  <2>1. b \in DOMAIN mem
    BY <1>1, OverlapIs
  <2> QED BY <2>1, <1>2 DEF Filled
<1>4. ASSUME NEW b \in DOMAIN mem, \A s \in ss : b \notin Bytes[s]
      PROVE  Filled(what)[b] = mem[b]
  BY <1>4 DEF Filled
<1>5. ASSUME NEW b \in DOMAIN mem
      PROVE  Filled(what)[b] = mem[b] \/ \E s \in ss : Filled(what)[b] = what[s]
  BY <1>3, <1>4
<1>6. DOMAIN Filled(what) = DOMAIN mem
  BY DEF Filled
<1>7. \A b \in DOMAIN mem : Filled(what)[b] \in Marks
  BY <1>1, <1>5
<1> QED BY <1>1, <1>3, <1>4, <1>5, <1>6, <1>7 DEF Filled

LEMMA InitHolds == Init => Inv
<1> SUFFICES ASSUME Init PROVE Inv
  OBVIOUS
<1> USE DEF Init
<1>1. NoFact \in Facts /\ Blank \in Marks
  <2>1. Blank \in Marks
    BY DEF Blank, Marks
  <2> QED BY <2>1 DEF NoFact, Meaning, Facts, Names
<1>2. \A s \in Storages : ~HasFact(s) /\ fact[s] = NoFact
  BY DEF HasFact
<1>3. TypeOK
  <2>1. stop \in BOOLEAN
    BY Zenon
  <2>3. DOMAIN verdicts = {}
    OBVIOUS
  <2>2. fact \in [Storages -> Facts] /\ mem \in [UNION {Bytes[s] : s \in Storages} -> Marks]
    BY <1>1
  <2> QED BY <2>1, <2>2, <2>3 DEF TypeOK
<1>4. Grounded /\ Shaped
  BY <1>2 DEF Grounded, Shaped, OneIssue, NoFact, Meaning, Blank, Storages
<1> QED BY <1>2, <1>3, <1>4
        DEF Inv, OverlapKnown, SpoiledIsSaid, Spoiled, MovedIsChanged, SeenIsMeant

-----------------------------------------------------------------------------
(* What the producers have in common: new meanings on storages of their own,   *)
(* with stamps nothing had before, and memory that holds them or is said not   *)
(* to.                                                                        *)
Fresh(n) == n \in stamp + 1 .. stamp'
Produces(ss, new, what) ==
    /\ ss \in SUBSET Storages /\ new \in [ss -> Facts] /\ what \in [ss -> Marks]
    /\ \A s, t \in ss : ~Overlaps(s, t)
    /\ stamp' \in Nat /\ stamp <= stamp'
    /\ \A s \in ss :
          /\ Fresh(new[s].holds[1])
          /\ new[s].serial = 0 \/ Fresh(new[s].serial)
          /\ new[s].pair = 0 \/ Fresh(new[s].pair)
          /\ what[s] = new[s].holds \/ (what[s] = Blank /\ new[s].unwritten)
    /\ \A x \in ss \cap Values : ValueShaped(x, new[x])
    /\ \A y \in ss \cap Scales : ScaleShaped(new[y])
    /\ \A x \in ss \cap Values, y \in ss \cap Scales : OneIssue(new[x], new[y])
    /\ Attach(new) /\ Register(ss) /\ mem' = Filled(what) /\ Unseen(ss)
    /\ UNCHANGED <<stop, verdicts>> /\ steps' \in Nat

LEMMA ProducesKeeps ==
    ASSUME Inv, NEW ss, NEW new, NEW what, Produces(ss, new, what)
    PROVE  Inv'
<1>1. /\ TypeOK /\ Grounded /\ OverlapKnown
      /\ SpoiledIsSaid /\ Shaped /\ MovedIsChanged /\ SeenIsMeant
  BY DEF Inv
<1>2. /\ ss \in SUBSET Storages /\ new \in [ss -> Facts] /\ what \in [ss -> Marks]
      /\ \A s, t \in ss : ~Overlaps(s, t)
      /\ stamp \in Nat /\ stamp' \in Nat /\ stamp <= stamp'
      /\ Attach(new) /\ Register(ss) /\ mem' = Filled(what) /\ Unseen(ss)
      /\ UNCHANGED <<stop, verdicts>> /\ steps' \in Nat
  BY <1>1 DEF Produces, TypeOK
<1>3. ASSUME NEW s \in ss
      PROVE  /\ s \in Storages /\ fact'[s] = new[s] /\ moved'[s] = {} /\ excuse'[s] = {}
             /\ HasFact(s)' /\ new[s].holds[1] \in 1 .. stamp'
             /\ new[s].serial <= stamp' /\ new[s].pair <= stamp'
             /\ new[s].holds # Blank
  <2>1. Fresh(new[s].holds[1]) /\ new[s] \in Facts
        /\ (new[s].serial = 0 \/ Fresh(new[s].serial)) /\ (new[s].pair = 0 \/ Fresh(new[s].pair))
    BY <1>3, <1>2 DEF Produces
  <2>2. new[s].holds # Blank /\ new[s].holds[1] \in 1 .. stamp'
    BY <2>1, <1>2 DEF Fresh, Blank
  <2>3. new[s].serial <= stamp' /\ new[s].pair <= stamp'
    BY <2>1, <1>2 DEF Fresh
  <2>4. new[s] # NoFact
    BY <2>2 DEF NoFact, Meaning
  <2>5. fact'[s] = new[s] /\ moved'[s] = {} /\ excuse'[s] = {}
    BY <1>2 DEF Attach, Unseen
  <2> QED BY <1>2, <2>2, <2>3, <2>4, <2>5 DEF HasFact
<1>4. ASSUME NEW s \in Storages, s \notin ss
      PROVE  /\ fact'[s] = fact[s] /\ moved'[s] = moved[s] /\ (HasFact(s)' <=> HasFact(s))
             /\ excuse'[s] = IF ~HasFact(s) THEN {}
                             ELSE IF \E t \in ss : Overlaps(s, t) THEN excuse[s] \cup {"hidden"}
                             ELSE excuse[s]
  BY <1>2, <1>4 DEF Attach, Unseen, HasFact
<1>0. /\ DOMAIN mem' = DOMAIN mem /\ mem' \in [UNION {Bytes[s] : s \in Storages} -> Marks]
      /\ \A s \in ss : \A b \in Bytes[s] : mem'[b] = what[s]
      /\ \A b \in DOMAIN mem : (\A s \in ss : b \notin Bytes[s]) => mem'[b] = mem[b]
      /\ \A b \in DOMAIN mem : mem'[b] = mem[b] \/ \E s \in ss : mem'[b] = what[s]
  <2>1. mem' = Filled(what)
    BY <1>2
  <2>2. /\ DOMAIN Filled(what) = DOMAIN mem
        /\ Filled(what) \in [UNION {Bytes[s] : s \in Storages} -> Marks]
        /\ \A s \in ss : \A b \in Bytes[s] : Filled(what)[b] = what[s]
        /\ \A b \in DOMAIN mem : (\A s \in ss : b \notin Bytes[s]) => Filled(what)[b] = mem[b]
        /\ \A b \in DOMAIN mem : Filled(what)[b] = mem[b] \/ \E s \in ss : Filled(what)[b] = what[s]
    <3>1. ss \in SUBSET Storages /\ what \in [ss -> Marks] /\ \A s, t \in ss : ~Overlaps(s, t)
      BY <1>2
    <3> QED BY <3>1, <1>1, FilledIn
  <2> QED BY <2>1, <2>2, Zenon
<1>5. ASSUME NEW s \in Storages, s \notin ss, \A t \in ss : ~Overlaps(s, t), NEW b \in Bytes[s]
      PROVE  mem'[b] = mem[b]
  <2>1. \A t \in ss : b \notin Bytes[t]
    BY <1>2, <1>5, OverlapIs
  <2>2. b \in DOMAIN mem
    BY <1>1, OverlapIs DEF TypeOK
  <2> QED BY <2>1, <2>2, <1>0
<1>6. \A s \in ss : \A b \in Bytes[s] : mem'[b] = what[s]
  BY <1>0
<1>7. \A s \in ss : what[s] = new[s].holds \/ (what[s] = Blank /\ new[s].unwritten)
  BY DEF Produces
<1>8. TypeOK'
  <2>1. fact' \in [Storages -> Facts]
    BY <1>1, <1>2 DEF TypeOK, Attach
  <2>2. moved' \in [Storages -> SUBSET {"written", "alien"}]
    BY <1>1, <1>2 DEF TypeOK, Attach
  <2>3. excuse' \in [Storages -> SUBSET {"own", "hidden"}]
    BY <1>1, <1>2 DEF TypeOK, Unseen
  <2>4. extent' \subseteq extent \cup ss /\ aliased' \subseteq extent'
    <3>1. /\ extent' = extent \cup Unregistered(ss) /\ Unregistered(ss) \subseteq ss
          /\ aliased' \subseteq aliased \cup extent' /\ aliased \subseteq extent
      BY <1>1, <1>2 DEF Register, Unregistered, TypeOK
    <3> QED BY <3>1
  <2>5. extent' \subseteq {s \in Storages : \E t \in Own(s) : HasFact(t)'}
    <3>1. ASSUME NEW s \in extent' PROVE s \in Storages /\ \E t \in Own(s) : HasFact(t)'
      <4>1. CASE s \in ss
        BY <4>1, <1>3, OwnIs
      <4>2. CASE s \notin ss
        <5>1. s \in Storages /\ s \in extent
          BY <3>1, <4>2, <2>4, <1>1 DEF TypeOK
        <5>2. PICK t \in Own(s) : HasFact(t)
          BY <5>1, <1>1 DEF TypeOK
        <5>3. t \in Storages
          BY <5>1, OwnIs
        <5>4. HasFact(t)'
          BY <5>2, <5>3, <1>3, <1>4
        <5> QED BY <5>1, <5>4
      <4> QED BY <4>1, <4>2
    <3> QED BY <3>1
  <2>6. mem' \in [UNION {Bytes[s] : s \in Storages} -> Marks]
    BY <1>0
  <2>7. stop' \in BOOLEAN /\ steps' \in Nat /\ stamp' \in Nat /\ verdicts' = verdicts
    BY <1>1, <1>2 DEF TypeOK
  <2> QED BY <2>1, <2>2, <2>3, <2>4, <2>5, <2>6, <2>7, <1>1 DEF TypeOK, HasFact
<1>9. Grounded'
  <2>1. ASSUME NEW b \in DOMAIN mem' PROVE mem'[b][1] <= stamp'
    <3>1. DOMAIN mem' = DOMAIN mem
      BY <1>0
    <3>2. mem[b] \in Marks /\ mem[b][1] <= stamp
      BY <3>1, <1>1 DEF Grounded, TypeOK
    <3>3. \A s \in ss : what[s] \in Marks /\ what[s][1] <= stamp'
      <4> TAKE s \in ss
      <4>1. what[s] = new[s].holds \/ what[s] = Blank
        BY <1>7
      <4>2. what[s] \in Marks /\ new[s].holds[1] <= stamp'
        BY <1>2, <1>3
      <4> QED BY <4>1, <4>2, <1>2 DEF Blank
    <3>4. mem'[b] = mem[b] \/ \E s \in ss : mem'[b] = what[s]
      BY <3>1, <1>0
    <3>5. mem[b][1] \in Nat /\ mem[b][1] <= stamp'
      BY <3>2, <1>2 DEF Marks
    <3> QED BY <3>3, <3>4, <3>5
  <2>2. ASSUME NEW s \in Storages
        PROVE  /\ fact'[s].serial <= stamp' /\ (s \in Scales => fact'[s].pair <= stamp')
               /\ HasFact(s)' => fact'[s].holds[1] \in 1 .. stamp'
               /\ ~HasFact(s)' => moved'[s] = {} /\ excuse'[s] = {}
    <3>1. CASE s \in ss
      BY <3>1, <1>3
    <3>2. CASE s \notin ss
      <4>1. fact[s] \in Facts
        BY <1>1 DEF TypeOK
      <4>2. fact[s].serial \in Nat /\ fact[s].pair \in Nat
        BY <4>1 DEF Facts
      <4>3. /\ fact[s].serial <= stamp /\ (s \in Scales => fact[s].pair <= stamp)
            /\ HasFact(s) => fact[s].holds[1] \in 1 .. stamp
            /\ ~HasFact(s) => moved[s] = {}
        BY <1>1 DEF Grounded
      <4>4. /\ fact'[s] = fact[s] /\ moved'[s] = moved[s] /\ (HasFact(s)' <=> HasFact(s))
            /\ ~HasFact(s) => excuse'[s] = {}
        BY <3>2, <1>4
      <4> QED BY <4>2, <4>3, <4>4, <1>2
    <3> QED BY <3>1, <3>2
  <2> QED BY <2>1, <2>2 DEF Grounded, HasFact
<1>10. OverlapKnown'
  <2> SUFFICES ASSUME NEW s \in extent', NEW t \in extent', Overlaps(s, t)
               PROVE  s \in aliased'
    BY DEF OverlapKnown
  <2>1. CASE {s, t} \cap Unregistered(ss) # {}
    BY <2>1, <1>2 DEF Register
  <2>2. CASE {s, t} \cap Unregistered(ss) = {}
    <3>1. s \in extent /\ t \in extent
      BY <2>2, <1>2 DEF Register
    <3> QED BY <3>1, <1>1, <1>2 DEF OverlapKnown, Register
  <2> QED BY <2>1, <2>2
<1>11. SpoiledIsSaid'
  <2> SUFFICES ASSUME NEW s \in Storages, Spoiled(s)' PROVE Unfit(s, FALSE)' # {}
    BY DEF SpoiledIsSaid
  <2>1. CASE s \in ss
    <3>1. what[s] # new[s].holds
      BY <2>1, <1>3, <1>6 DEF Spoiled, Holds
    <3>2. fact'[s].unwritten
      BY <3>1, <2>1, <1>3, <1>7
    <3> QED BY <3>2 DEF Unfit
  <2>2. CASE s \notin ss
    <3>1. HasFact(s) /\ \A t \in ss : ~Overlaps(s, t)
      BY <2>2, <1>4 DEF Spoiled
    <3>2. excuse'[s] = excuse[s] /\ fact'[s] = fact[s] /\ moved'[s] = moved[s]
      BY <2>2, <3>1, <1>4
    <3>3. Spoiled(s)
      BY <2>2, <3>1, <3>2, <1>5 DEF Spoiled, Holds
    <3>4. Unfit(s, FALSE) # {}
      BY <3>3, <1>1 DEF SpoiledIsSaid
    <3> QED BY <3>2, <3>4 DEF Unfit
  <2> QED BY <2>1, <2>2
<1>12. Shaped'
  <2>1. \A x \in Values : HasFact(x)' => ValueShaped(x, fact'[x])
    <3> TAKE x \in Values
    <3>1. CASE x \in ss
      BY <3>1, <1>3 DEF Produces
    <3>2. CASE x \notin ss
      BY <3>2, <1>1, <1>4 DEF Shaped, Storages
    <3> QED BY <3>1, <3>2
  <2>2. \A y \in Scales : HasFact(y)' => ScaleShaped(fact'[y])
    <3> TAKE y \in Scales
    <3>1. CASE y \in ss
      BY <3>1, <1>3 DEF Produces
    <3>2. CASE y \notin ss
      BY <3>2, <1>1, <1>4 DEF Shaped, Storages
    <3> QED BY <3>1, <3>2
  <2>3. ASSUME NEW x \in Values, NEW y \in Scales
        PROVE  OneIssue(fact'[x], fact'[y])
    <3>0. x \in Storages /\ y \in Storages /\ fact[x] \in Facts /\ fact[y] \in Facts
      BY <1>1 DEF TypeOK, Storages
    <3>1. CASE x \in ss /\ y \in ss
      BY <3>1, <1>3 DEF Produces
    <3>2. CASE x \notin ss /\ y \notin ss
      BY <3>0, <3>2, <1>1, <1>4 DEF Shaped
    <3>3. CASE x \in ss /\ y \notin ss
      <4>1. fact'[x] = new[x] /\ fact'[y] = fact[y] /\ fact[y].pair <= stamp
        BY <3>0, <3>3, <1>1, <1>3, <1>4 DEF Grounded
      <4>2. new[x].serial = 0 \/ Fresh(new[x].serial)
        BY <3>3 DEF Produces
      <4>3. fact[y].pair \in Nat
        BY <3>0 DEF Facts
      <4> QED BY <4>1, <4>2, <4>3, <1>2 DEF OneIssue, Fresh
    <3>4. CASE x \notin ss /\ y \in ss
      <4>1. fact'[y] = new[y] /\ fact'[x] = fact[x] /\ fact[x].serial <= stamp
        BY <3>0, <3>4, <1>1, <1>3, <1>4 DEF Grounded
      <4>2. new[y].pair = 0 \/ Fresh(new[y].pair)
        BY <3>4 DEF Produces
      <4>3. fact[x].serial \in Nat
        BY <3>0 DEF Facts
      <4> QED BY <4>1, <4>2, <4>3, <1>2 DEF OneIssue, Fresh
    <3> QED BY <3>1, <3>2, <3>3, <3>4
  <2> QED BY <2>1, <2>2, <2>3 DEF Shaped, HasFact
<1>13. MovedIsChanged'
  <2> SUFFICES ASSUME ~stop', NEW s \in Storages, moved'[s] # {}
               PROVE  \E b \in Bytes[s] : mem'[b] # fact'[s].holds
    BY DEF MovedIsChanged, Holds
  <2>1. s \notin ss /\ fact'[s] = fact[s] /\ moved[s] # {} /\ ~stop
    BY <1>2, <1>3, <1>4
  <2>2. HasFact(s) /\ fact[s].holds[1] \in 1 .. stamp /\ fact[s].holds \in Marks
    BY <2>1, <1>1 DEF Grounded, TypeOK, Facts
  <2>3. PICK b \in Bytes[s] : mem[b] # fact[s].holds
    BY <2>1, <1>1 DEF MovedIsChanged, Holds
  <2>4. b \in DOMAIN mem
    BY <1>1, OverlapIs DEF TypeOK
  <2>5. mem'[b] = mem[b] \/ \E t \in ss : mem'[b] = what[t]
    BY <2>4, <1>0
  <2>6. \A t \in ss : what[t] # fact[s].holds
    <3> TAKE t \in ss
    <3>1. Fresh(new[t].holds[1])
      BY DEF Produces
    <3> QED BY <3>1, <2>2, <1>2, <1>7 DEF Fresh, Blank
  <2> QED BY <2>1, <2>3, <2>5, <2>6
<1>14. SeenIsMeant'
  <2> SUFFICES ASSUME NEW s \in Storages, HasFact(s)', excuse'[s] = {}, NEW b \in Bytes[s],
                      mem'[b][2] \in {"value", "scale"}
               PROVE  mem'[b] = fact'[s].holds
    BY DEF SeenIsMeant
  <2>1. CASE s \in ss
    BY <2>1, <1>3, <1>6, <1>7 DEF Blank
  <2>2. CASE s \notin ss
    <3>1. HasFact(s) /\ \A t \in ss : ~Overlaps(s, t)
      BY <2>2, <1>4
    <3>2. excuse[s] = {} /\ fact'[s] = fact[s] /\ mem'[b] = mem[b]
      BY <2>2, <3>1, <1>4, <1>5
    <3> QED BY <3>1, <3>2, <1>1 DEF SeenIsMeant
  <2> QED BY <2>1, <2>2
<1> QED BY <1>8, <1>9, <1>10, <1>11, <1>12, <1>13, <1>14 DEF Inv

LEMMA IssueKeeps ==
    ASSUME Inv, NEW v \in Values, NEW c \in Scales, Issue(v, c)
    PROVE  Inv'
<1> DEFINE s == stamp + 1
           p == stamp + 2
           what == [t \in {v, c} |-> IF t = v THEN <<s, "value">> ELSE <<s, "scale">>]
           new == [t \in {v, c} |-> IF t = v THEN Meaning("activation", s, p, what[v])
                                    ELSE Meaning("activation", p, s, what[c])]
<1>1. /\ stamp \in Nat /\ v # c /\ v \in Storages /\ c \in Storages /\ ~Overlaps(v, c)
      /\ v \notin Scales /\ c \notin Values /\ stamp' = p
      /\ Attach(new) /\ Register({v, c}) /\ mem' = Filled(what) /\ Unseen({v, c})
      /\ UNCHANGED <<stop, verdicts, steps>> /\ steps \in Nat
  BY ShapeAssumption DEF Inv, TypeOK, Issue, Storages
<1>2. what[v] = <<s, "value">> /\ what[c] = <<s, "scale">> /\ what \in [{v, c} -> Marks]
  BY <1>1 DEF Marks
<1>3. new[v] = Meaning("activation", s, p, what[v]) /\ new[c] = Meaning("activation", p, s, what[c])
  BY <1>1
<1>4. new[v] \in Facts /\ new[c] \in Facts
  BY <1>1, <1>2, <1>3 DEF Meaning, Facts, Names, Marks
<1>5. new \in [{v, c} -> Facts]
  BY <1>4
<1> HIDE DEF what, new
<1>6. \A t, u \in {v, c} : ~Overlaps(t, u)
  BY <1>1, OverlapIs
<1>7. \A t \in {v, c} :
         /\ Fresh(new[t].holds[1]) /\ Fresh(new[t].serial) /\ Fresh(new[t].pair)
         /\ what[t] = new[t].holds
  BY <1>1, <1>2, <1>3 DEF Meaning, Fresh
<1>8. /\ ValueShaped(v, new[v]) /\ ScaleShaped(new[c]) /\ OneIssue(new[v], new[c])
      /\ {v, c} \cap Values = {v} /\ {v, c} \cap Scales = {c}
  BY <1>1, <1>2, <1>3 DEF Meaning, ValueShaped, ScaleShaped, OneIssue
<1>9. Produces({v, c}, new, what)
  BY <1>1, <1>2, <1>5, <1>6, <1>7, <1>8 DEF Produces
<1> QED BY <1>9, ProducesKeeps

LEMMA LoadPairKeeps ==
    ASSUME Inv, NEW v \in Values, NEW c \in Scales, NEW holes \in BOOLEAN, LoadPair(v, c, holes)
    PROVE  Inv'
<1> DEFINE s == stamp + 1
           p == stamp + 2
           what == [t \in {v, c} |-> IF t = c THEN <<s, "scale">>
                                     ELSE IF holes THEN Blank ELSE <<s, "value">>]
           const(f) == [f EXCEPT !.life = "const"]
           new == [t \in {v, c} |->
                     IF t = v THEN [const(Meaning("weight", s, p, <<s, "value">>)) EXCEPT !.unwritten = holes]
                     ELSE const(Meaning("weight", p, s, what[c]))]
<1>1. /\ stamp \in Nat /\ v # c /\ v \in Storages /\ c \in Storages /\ ~Overlaps(v, c)
      /\ v \notin Scales /\ c \notin Values /\ stamp' = p
      /\ Attach(new) /\ Register({v, c}) /\ mem' = Filled(what) /\ Unseen({v, c})
      /\ UNCHANGED <<stop, verdicts, steps>> /\ steps \in Nat
  BY ShapeAssumption DEF Inv, TypeOK, LoadPair, Storages
<1>2. /\ what[v] = (IF holes THEN Blank ELSE <<s, "value">>) /\ what[c] = <<s, "scale">>
      /\ what \in [{v, c} -> Marks]
  BY <1>1 DEF Marks, Blank
<1>3. /\ new[v] = [const(Meaning("weight", s, p, <<s, "value">>)) EXCEPT !.unwritten = holes]
      /\ new[c] = const(Meaning("weight", p, s, what[c]))
  BY <1>1
<1>4. new[v] \in Facts /\ new[c] \in Facts
  <2>1. Meaning("weight", s, p, <<s, "value">>) \in Facts /\ Meaning("weight", p, s, what[c]) \in Facts
    BY <1>1, <1>2 DEF Meaning, Facts, Names, Marks
  <2>2. \A f \in Facts : const(f) \in Facts /\ [const(f) EXCEPT !.unwritten = holes] \in Facts
    BY DEF Facts
  <2> QED BY <2>1, <2>2, <1>3
<1>10. /\ new[v].holds = <<s, "value">> /\ new[v].serial = s /\ new[v].pair = p
       /\ new[c].holds = what[c] /\ new[c].serial = p /\ new[c].pair = s
       /\ new[v].unwritten = holes
  BY <1>3 DEF Meaning
<1>5. new \in [{v, c} -> Facts]
  BY <1>4
<1> HIDE DEF what, new
<1>6. \A t, u \in {v, c} : ~Overlaps(t, u)
  BY <1>1, OverlapIs
<1>7. \A t \in {v, c} :
         /\ Fresh(new[t].holds[1]) /\ Fresh(new[t].serial) /\ Fresh(new[t].pair)
         /\ what[t] = new[t].holds \/ (what[t] = Blank /\ new[t].unwritten)
  BY <1>1, <1>2, <1>10 DEF Fresh
<1>8. /\ ValueShaped(v, new[v]) /\ ScaleShaped(new[c]) /\ OneIssue(new[v], new[c])
      /\ {v, c} \cap Values = {v} /\ {v, c} \cap Scales = {c}
  BY <1>1, <1>2, <1>10 DEF ValueShaped, ScaleShaped, OneIssue
<1>9. Produces({v, c}, new, what)
  BY <1>1, <1>2, <1>5, <1>6, <1>7, <1>8 DEF Produces
<1> QED BY <1>9, ProducesKeeps

LEMMA LoadPlainKeeps ==
    ASSUME Inv, NEW v \in Values, LoadPlain(v)
    PROVE  Inv'
<1> DEFINE what == [t \in {v} |-> <<stamp', "other">>]
           new == [t \in {v} |-> [Meaning("none", 0, 0, <<stamp', "other">>) EXCEPT !.life = "const"]]
<1>1. /\ stamp \in Nat /\ v \in Storages /\ v \notin Scales /\ stamp' = stamp + 1
      /\ Attach(new) /\ Register({v}) /\ mem' = Filled(what) /\ Unseen({v})
      /\ UNCHANGED <<stop, verdicts, steps>> /\ steps \in Nat
  BY ShapeAssumption DEF Inv, TypeOK, LoadPlain, Storages
<1>2. what[v] = <<stamp', "other">> /\ what \in [{v} -> Marks]
  BY <1>1 DEF Marks
<1>3. new[v] = [Meaning("none", 0, 0, <<stamp', "other">>) EXCEPT !.life = "const"]
  BY <1>1
<1>4. new[v] \in Facts
  <2>1. Meaning("none", 0, 0, <<stamp', "other">>) \in Facts
    BY <1>1 DEF Meaning, Facts, Names, Marks
  <2>2. \A f \in Facts : [f EXCEPT !.life = "const"] \in Facts
    BY DEF Facts
  <2> QED BY <2>1, <2>2, <1>3
<1>5. new \in [{v} -> Facts]
  BY <1>4
<1> HIDE DEF what, new
<1>6. \A t, u \in {v} : ~Overlaps(t, u)
  BY <1>1, OverlapIs
<1>7. /\ Fresh(new[v].holds[1]) /\ new[v].serial = 0 /\ new[v].pair = 0
      /\ what[v] = new[v].holds
  BY <1>1, <1>2, <1>3 DEF Meaning, Fresh
<1>8. ValueShaped(v, new[v]) /\ {v} \cap Scales = {}
  BY <1>1, <1>2, <1>3 DEF Meaning, ValueShaped
<1>9. Produces({v}, new, what)
  BY <1>1, <1>2, <1>5, <1>6, <1>7, <1>8 DEF Produces
<1> QED BY <1>9, ProducesKeeps

-----------------------------------------------------------------------------
LEMMA CollectKeeps ==
    ASSUME Inv, NEW s \in Storages, Collect(s)
    PROVE  Inv'
<1>1. /\ TypeOK /\ Grounded /\ OverlapKnown
      /\ SpoiledIsSaid /\ Shaped /\ MovedIsChanged /\ SeenIsMeant
  BY DEF Inv
<1>2. /\ fact'[s] = NoFact /\ moved'[s] = {} /\ excuse'[s] = {} /\ ~HasFact(s)'
      /\ \A t \in Storages \ {s} :
            /\ fact'[t] = fact[t] /\ moved'[t] = moved[t] /\ excuse'[t] = excuse[t]
            /\ HasFact(t)' <=> HasFact(t)
      /\ UNCHANGED <<stop, verdicts, stamp, mem>>
  BY <1>1 DEF Collect, TypeOK, HasFact
<1> DEFINE gone == IF \E t \in Own(s) \ {s} : HasFact(t) THEN {} ELSE Own(s)
<1>11. extent' = extent \ gone /\ aliased' = aliased \ gone
  BY DEF Collect
<1>3. NoFact \in Facts /\ NoFact.serial = 0 /\ NoFact.pair = 0
  BY DEF NoFact, Meaning, Facts, Names, Marks, Blank
<1>4. TypeOK'
  <2>1. /\ fact' \in [Storages -> Facts] /\ moved' \in [Storages -> SUBSET {"written", "alien"}]
        /\ excuse' \in [Storages -> SUBSET {"own", "hidden"}] /\ steps' \in Nat
    BY <1>1, <1>3 DEF TypeOK, Collect
  <2>2. aliased' \subseteq extent'
    <3>1. aliased \subseteq extent
      BY <1>1 DEF TypeOK
    <3> HIDE DEF gone
    <3> QED BY <3>1, <1>11
  <2>3. ASSUME NEW t \in extent' PROVE t \in Storages /\ \E u \in Own(t) : HasFact(u)'
    <3>1. t \in extent /\ t \in Storages /\ t \notin gone
      BY <2>3, <1>1, <1>11 DEF TypeOK
    <3>2. PICK u \in Own(t) : HasFact(u)
      BY <3>1, <1>1 DEF TypeOK
    <3>3. u \in Storages
      BY <3>1, OwnIs
    <3>4. CASE u # s
      BY <3>1, <3>3, <3>4, <3>2, <1>2
    <3>5. CASE u = s
      <4>1. t \in Own(s)
        BY <3>1, <3>2, <3>5, OwnIs
      <4>2. PICK w \in Own(s) \ {s} : HasFact(w)
        BY <3>1, <4>1
      <4>3. w \in Own(t) /\ w \in Storages
        BY <4>1, <4>2 DEF Own
      <4> QED BY <3>1, <4>2, <4>3, <1>2
    <3> QED BY <3>4, <3>5
  <2>4. stop' \in BOOLEAN /\ stamp' \in Nat /\ verdicts' = verdicts /\ mem' = mem
    BY <1>1, <1>2 DEF TypeOK
  <2> QED BY <2>1, <2>2, <2>3, <2>4, <1>1 DEF TypeOK, HasFact
<1>5. Grounded'
  BY <1>1, <1>2, <1>3 DEF Grounded, TypeOK, HasFact
<1>6. OverlapKnown'
  <2> HIDE DEF gone
  <2> QED BY <1>1, <1>11 DEF OverlapKnown
<1>7. SpoiledIsSaid'
  <2> SUFFICES ASSUME NEW t \in Storages, Spoiled(t)' PROVE Unfit(t, FALSE)' # {}
    BY DEF SpoiledIsSaid
  <2>1. t # s
    BY <1>2 DEF Spoiled
  <2>2. Spoiled(t)
    BY <2>1, <1>2 DEF Spoiled, Holds
  <2> QED BY <2>1, <2>2, <1>1, <1>2 DEF SpoiledIsSaid, Unfit
<1>8. Shaped'
  <2>1. \A x \in Values : HasFact(x)' => ValueShaped(x, fact'[x])
    BY <1>1, <1>2 DEF Shaped, Storages
  <2>2. \A y \in Scales : HasFact(y)' => ScaleShaped(fact'[y])
    BY <1>1, <1>2 DEF Shaped, Storages
  <2>3. ASSUME NEW x \in Values, NEW y \in Scales PROVE OneIssue(fact'[x], fact'[y])
    <3>1. x \in Storages /\ y \in Storages /\ OneIssue(fact[x], fact[y])
      BY <1>1 DEF Shaped, Storages
    <3>2. CASE y = s
      BY <3>2, <1>2, <1>3 DEF OneIssue
    <3>3. CASE x = s /\ y # s
      BY <3>1, <3>3, <1>2, <1>3 DEF OneIssue
    <3>4. CASE x # s /\ y # s
      BY <3>1, <3>4, <1>2
    <3> QED BY <3>2, <3>3, <3>4
  <2> QED BY <2>1, <2>2, <2>3 DEF Shaped, HasFact
<1>9. MovedIsChanged'
  BY <1>1, <1>2 DEF MovedIsChanged, Holds
<1>10. SeenIsMeant'
  BY <1>1, <1>2 DEF SeenIsMeant, HasFact
<1> QED BY <1>4, <1>5, <1>6, <1>7, <1>8, <1>9, <1>10 DEF Inv

LEMMA MakeConstantKeeps ==
    ASSUME Inv, NEW s \in Storages, MakeConstant(s)
    PROVE  Inv'
<1>1. /\ TypeOK /\ Grounded /\ OverlapKnown
      /\ SpoiledIsSaid /\ Shaped /\ MovedIsChanged /\ SeenIsMeant
  BY DEF Inv
<1>2. /\ HasFact(s) /\ fact[s] \in Facts /\ fact'[s] = [fact[s] EXCEPT !.life = "const"]
      /\ moved'[s] = {}
      /\ excuse'[s] = IF Holds(s, fact[s].holds) \/ fact[s].unwritten THEN excuse[s]
                      ELSE excuse[s] \cup {"hidden"}
      /\ \A t \in Storages \ {s} :
            fact'[t] = fact[t] /\ moved'[t] = moved[t] /\ excuse'[t] = excuse[t]
      /\ UNCHANGED <<stop, extent, aliased, verdicts, stamp, mem>>
  BY <1>1 DEF MakeConstant, TypeOK
<1>3. /\ fact'[s] \in Facts /\ fact'[s].serial = fact[s].serial /\ fact'[s].pair = fact[s].pair
      /\ fact'[s].holds = fact[s].holds /\ fact'[s].unwritten = fact[s].unwritten
      /\ fact'[s].names = fact[s].names
  BY <1>2 DEF Facts
<1>4. \A t \in Storages : /\ HasFact(t)' <=> HasFact(t)
                          /\ fact'[t].serial = fact[t].serial /\ fact'[t].pair = fact[t].pair
                          /\ fact'[t].holds = fact[t].holds
  <2>1. HasFact(s)'
    <3>1. fact[s].holds[1] # 0
      BY <1>1, <1>2 DEF Grounded
    <3> QED BY <3>1, <1>3 DEF HasFact, NoFact, Meaning, Blank
  <2> QED BY <2>1, <1>2, <1>3 DEF HasFact
<1>5. TypeOK'
  <2>1. /\ fact' \in [Storages -> Facts] /\ moved' \in [Storages -> SUBSET {"written", "alien"}]
        /\ excuse' \in [Storages -> SUBSET {"own", "hidden"}] /\ steps' \in Nat
    BY <1>1, <1>3 DEF TypeOK, MakeConstant
  <2>2. ASSUME NEW t \in extent PROVE t \in Storages /\ \E u \in Own(t) : HasFact(u)'
    <3>1. t \in Storages /\ \E u \in Own(t) : HasFact(u)
      BY <1>1 DEF TypeOK
    <3> QED BY <3>1, <1>4, OwnIs
  <2>3. /\ stop' \in BOOLEAN /\ stamp' \in Nat /\ verdicts' = verdicts /\ mem' = mem
        /\ extent' = extent /\ aliased' = aliased /\ aliased \subseteq extent
    BY <1>1, <1>2 DEF TypeOK
  <2> QED BY <2>1, <2>2, <2>3, <1>1 DEF TypeOK, HasFact
<1>6. Grounded'
  <2>1. \A t \in Storages : ~HasFact(t)' => t # s
    BY <1>2, <1>4
  <2> QED BY <2>1, <1>1, <1>2, <1>4 DEF Grounded, HasFact
<1>7. OverlapKnown'
  BY <1>1, <1>2 DEF OverlapKnown
<1>8. Shaped'
  <2>1. \A x \in Values : HasFact(x)' => ValueShaped(x, fact'[x])
    BY <1>1, <1>4 DEF Shaped, ValueShaped, Storages
  <2>2. \A y \in Scales : HasFact(y)' => ScaleShaped(fact'[y])
    BY <1>1, <1>4 DEF Shaped, ScaleShaped, Storages
  <2>3. \A x \in Values, y \in Scales : OneIssue(fact'[x], fact'[y])
    BY <1>1, <1>4 DEF Shaped, OneIssue, Storages
  <2> QED BY <2>1, <2>2, <2>3 DEF Shaped, HasFact
<1>9. SpoiledIsSaid'
  <2> SUFFICES ASSUME NEW t \in Storages, Spoiled(t)' PROVE Unfit(t, FALSE)' # {}
    BY DEF SpoiledIsSaid
  <2>1. CASE t = s
    <3>1. ~Holds(s, fact[s].holds) /\ "hidden" \notin excuse'[s]
      BY <2>1, <1>2, <1>3 DEF Spoiled, Holds
    <3>2. fact'[s].unwritten
      BY <3>1, <1>2, <1>3
    <3> QED BY <2>1, <3>2 DEF Unfit
  <2>2. CASE t # s
    <3>1. Spoiled(t)
      BY <2>2, <1>2 DEF Spoiled, Holds, HasFact
    <3> QED BY <2>2, <3>1, <1>1, <1>2 DEF SpoiledIsSaid, Unfit
  <2> QED BY <2>1, <2>2
<1>10. MovedIsChanged'
  BY <1>1, <1>2 DEF MovedIsChanged, Holds
<1>11. SeenIsMeant'
  <2> SUFFICES ASSUME NEW t \in Storages, HasFact(t)', excuse'[t] = {}, NEW b \in Bytes[t],
                      mem[b][2] \in {"value", "scale"}
               PROVE  mem[b] = fact'[t].holds
    BY <1>2 DEF SeenIsMeant
  <2>1. HasFact(t) /\ excuse[t] = {}
    BY <1>2, <1>4
  <2> QED BY <2>1, <1>1, <1>4 DEF SeenIsMeant
<1> QED BY <1>5, <1>6, <1>7, <1>8, <1>9, <1>10, <1>11 DEF Inv

LEMMA TorchWriteKeeps ==
    ASSUME Inv, NEW s \in Storages, NEW counted \in BOOLEAN, TorchWrite(s, counted)
    PROVE  Inv'
<1>1. /\ TypeOK /\ Grounded /\ OverlapKnown
      /\ SpoiledIsSaid /\ Shaped /\ MovedIsChanged /\ SeenIsMeant
  BY DEF Inv
<1>2. /\ UNCHANGED <<stop, fact, extent, aliased, verdicts, stamp>>
      /\ \A t \in Storages : HasFact(t)' <=> HasFact(t)
  BY DEF TorchWrite, HasFact
<1>3. Blank \in Marks /\ Blank = <<0, "nothing">>
  BY DEF Marks, Blank
<1>4. /\ mem' \in [UNION {Bytes[t] : t \in Storages} -> Marks] /\ DOMAIN mem' = DOMAIN mem
      /\ \A b \in Bytes[s] : mem'[b] = Blank
      /\ \A b \in DOMAIN mem : b \notin Bytes[s] => mem'[b] = mem[b]
      /\ \A b \in DOMAIN mem : mem'[b] = mem[b] \/ mem'[b] = Blank
  <2> DEFINE what == [t \in {s} |-> Blank]
  <2>1. what \in [{s} -> Marks] /\ what[s] = Blank /\ ~Overlaps(s, s) /\ mem' = Filled(what)
    BY <1>3, OverlapIs DEF TorchWrite
  <2> HIDE DEF what
  <2>2. /\ DOMAIN Filled(what) = DOMAIN mem
        /\ Filled(what) \in [UNION {Bytes[t] : t \in Storages} -> Marks]
        /\ \A t \in {s} : \A b \in Bytes[t] : Filled(what)[b] = what[t]
        /\ \A b \in DOMAIN mem : (\A t \in {s} : b \notin Bytes[t]) => Filled(what)[b] = mem[b]
        /\ \A b \in DOMAIN mem : Filled(what)[b] = mem[b] \/ \E t \in {s} : Filled(what)[b] = what[t]
    <3>1. {s} \in SUBSET Storages /\ \A t, u \in {s} : ~Overlaps(t, u)
      BY <2>1
    <3> QED BY <3>1, <2>1, <1>1, FilledIn
  <2> QED BY <2>1, <2>2, Zenon
<1>5. ASSUME NEW t \in Storages
      PROVE  /\ moved'[t] = moved[t] \cup (IF t = s /\ counted /\ HasFact(s) THEN {"written"} ELSE {})
             /\ excuse'[t] = excuse[t] \cup
                    (IF t = s /\ HasFact(t) THEN {IF counted THEN "own" ELSE "hidden"}
                     ELSE IF Overlaps(s, t) /\ HasFact(t) THEN {"hidden"} ELSE {})
  BY <1>1 DEF TorchWrite, TypeOK
<1>6. TypeOK'
  <2>1. moved' \in [Storages -> SUBSET {"written", "alien"}]
    BY <1>1 DEF TypeOK, TorchWrite
  <2>2. excuse' \in [Storages -> SUBSET {"own", "hidden"}]
    BY <1>1 DEF TypeOK, TorchWrite
  <2>3. steps' \in Nat
    BY <1>1 DEF TypeOK, TorchWrite
  <2> QED BY <2>1, <2>2, <2>3, <1>1, <1>2, <1>4 DEF TypeOK, HasFact
<1>7. Grounded'
  <2>1. \A b \in DOMAIN mem' : mem'[b][1] <= stamp
    BY <1>1, <1>3, <1>4 DEF Grounded, TypeOK
  <2>2. ASSUME NEW t \in Storages, ~HasFact(t) PROVE moved'[t] = {} /\ excuse'[t] = {}
    <3>1. moved[t] = {} /\ excuse[t] = {}
      BY <2>2, <1>1 DEF Grounded
    <3> QED BY <2>2, <3>1, <1>5
  <2> QED BY <2>1, <2>2, <1>1, <1>2 DEF Grounded, HasFact
<1>8. OverlapKnown' /\ Shaped'
  BY <1>1, <1>2 DEF OverlapKnown, Shaped, HasFact
<1>9. SpoiledIsSaid'
  <2> SUFFICES ASSUME NEW t \in Storages, Spoiled(t)' PROVE Unfit(t, FALSE)' # {}
    BY DEF SpoiledIsSaid
  <2>1. /\ HasFact(t) /\ ~Holds(t, fact[t].holds)' /\ "hidden" \notin excuse'[t]
        /\ fact[t].life = "const" \/ "own" \notin excuse'[t]
    BY <1>2 DEF Spoiled
  <2>2. CASE t = s
    <3>1. counted /\ "own" \in excuse'[t] /\ "written" \in moved'[t]
      BY <2>1, <2>2, <1>5
    <3> QED BY <2>1, <3>1, <1>2 DEF Unfit
  <2>3. CASE t # s
    <3>1. ~Overlaps(s, t)
      BY <2>1, <2>3, <1>5
    <3>2. \A b \in Bytes[t] : mem'[b] = mem[b]
      BY <2>3, <3>1, <1>1, <1>4, OverlapIs DEF TypeOK
    <3>3. excuse[t] \subseteq excuse'[t] /\ moved'[t] = moved[t]
      BY <2>3, <1>5
    <3>4. Spoiled(t)
      BY <2>1, <3>2, <3>3, <1>2 DEF Spoiled, Holds
    <3> QED BY <3>3, <3>4, <1>1, <1>2 DEF SpoiledIsSaid, Unfit
  <2> QED BY <2>2, <2>3
<1>10. MovedIsChanged'
  <2> SUFFICES ASSUME ~stop, NEW t \in Storages, moved'[t] # {}
               PROVE  \E b \in Bytes[t] : mem'[b] # fact[t].holds
    BY <1>2 DEF MovedIsChanged, Holds
  <2>1. HasFact(t)
    BY <1>1, <1>5 DEF Grounded
  <2>2. fact[t].holds[1] # 0 /\ fact[t].holds # Blank
    BY <2>1, <1>1, <1>3 DEF Grounded, TypeOK
  <2>3. CASE moved[t] # {}
    <3>1. PICK b \in Bytes[t] : mem[b] # fact[t].holds
      BY <2>3, <1>1 DEF MovedIsChanged, Holds
    <3>2. b \in DOMAIN mem
      BY <1>1, OverlapIs DEF TypeOK
    <3> QED BY <3>1, <3>2, <2>2, <1>4
  <2>4. CASE moved[t] = {}
    <3>1. t = s
      BY <2>4, <1>5
    <3>2. PICK b \in Bytes[s] : TRUE
      BY OwnIs
    <3> QED BY <3>1, <3>2, <2>2, <1>4
  <2> QED BY <2>3, <2>4
<1>11. SeenIsMeant'
  <2> SUFFICES ASSUME NEW t \in Storages, HasFact(t), excuse'[t] = {}, NEW b \in Bytes[t],
                      mem'[b][2] \in {"value", "scale"}
               PROVE  mem'[b] = fact[t].holds
    BY <1>2 DEF SeenIsMeant
  <2>0. b \in DOMAIN mem /\ mem'[b] = mem[b]
    <3>1. b \in DOMAIN mem
      BY <1>1, OverlapIs DEF TypeOK
    <3>2. mem'[b] # Blank
      BY <1>3
    <3> QED BY <3>1, <3>2, <1>4
  <2>1. b \in DOMAIN mem /\ excuse[t] = {} /\ mem'[b] = mem[b]
    BY <2>0, <1>5
  <2> QED BY <2>1, <1>1 DEF SeenIsMeant
<1> QED BY <1>6, <1>7, <1>8, <1>9, <1>10, <1>11 DEF Inv

(* What a launch is said to reach starts elsewhere and holds a meaning: of      *)
(* storages that overlap, at most one other starts where a given one does.      *)
LEMMA ReachedIs ==
    ASSUME TypeOK, NEW k \in Kernels, NEW o \in Storages, NEW t \in Reached(k, o)
    PROVE  t \in Storages /\ Overlaps(o, t) /\ HasFact(t)
<1>1. t \in extent /\ t \notin Own(o) /\ Overlaps(o, t) /\ t \in Storages
  BY DEF Reached, TypeOK
<1>2. \E u \in Own(t) : HasFact(u)
  BY <1>1 DEF TypeOK
<1> QED BY <1>1, <1>2, ApartIsAlone

(* The verdict of a launch is one of the three, whatever was kept before.      *)
LEMMA DecidedType ==
    ASSUME TypeOK, NEW k \in Kernels, NEW a \in Bound(k)
    PROVE  /\ a.o \in Values
           /\ Decided(k, a) \in [verdict : {"proven", "violation", "unproven"}, names : Names, pending : Nat]
           /\ VerdictOn(k, a) \in [verdict : {"proven", "violation", "unproven"}, names : Names, pending : Nat]
           /\ \A d \in DOMAIN Kept(k, a) :
                 Kept(k, a)[d] \in [verdict : {"proven", "violation", "unproven"}, names : Names, pending : Nat]
<1> DEFINE Results == [verdict : {"proven", "violation", "unproven"}, names : Names, pending : Nat]
<1>1. a.o \in Values
  BY DEF Bound
<1>2. Nothing \in Results /\ [Nothing EXCEPT !.verdict = "violation"] \in Results
  BY DEF Nothing, Names
<1>3. Decided(k, a) \in Results
  <2>1. CASE k # "dequant"
    BY <2>1, <1>2 DEF Decided
  <2>2. CASE k = "dequant"
    <3>1. a.x \in Storages /\ a.o \in Storages
      BY <2>2 DEF Bound, Storages
    <3>2. fact[a.x] \in Facts /\ fact[a.o] \in Facts
      BY <3>1 DEF TypeOK
    <3>3. AxesOf(fact[a.x]) \in Names /\ fact[a.x].pair \in Nat
      BY <3>2 DEF AxesOf, Facts, Names
    <3>4. "none" \in Names
      BY DEF Names
    <3> HIDE DEF Results
    <3>5. \A n \in Names, p \in Nat : [verdict |-> "proven", names |-> n, pending |-> p] \in Results
      BY DEF Results
    <3>6. (IF Named(fact[a.o]) THEN "none" ELSE AxesOf(fact[a.x])) \in Names
      BY <3>3, <3>4
    <3>7. (IF IsScale(a.y) THEN 0 ELSE fact[a.x].pair) \in Nat
      BY <3>3
    <3> QED BY <3>5, <3>6, <3>7, <1>2 DEF Decided
  <2> QED BY <2>1, <2>2
<1>4. \A d \in DOMAIN verdicts : verdicts[d] \in Results
  BY DEF TypeOK
<1> HIDE DEF Results
<1>5. VerdictOn(k, a) \in Results
  BY <1>3, <1>4 DEF VerdictOn, Cached
<1>6. \A d \in DOMAIN Kept(k, a) : Kept(k, a)[d] \in Results
  BY <1>3, <1>4 DEF Kept
<1> QED BY <1>1, <1>3, <1>5, <1>6 DEF Results

LEMMA LaunchKeeps ==
    ASSUME Inv, NEW k \in Kernels, NEW a \in Bound(k), Launch(k, a)
    PROVE  Inv'
<1> DEFINE v == VerdictOn(k, a)
           refused == stop /\ Broken(k, a)
           inferred == ~refused /\ v.verdict = "proven" /\ v.names # "none"
           what == IF inferred THEN <<stamp + 1, "other">> ELSE Blank
           serial == IF v.pending # 0 THEN stamp + 1 ELSE 0
           o == a.o
           born == Meaning(v.names, serial, v.pending, what)
<1>1. /\ TypeOK /\ Grounded /\ OverlapKnown
      /\ SpoiledIsSaid /\ Shaped /\ MovedIsChanged /\ SeenIsMeant
  BY DEF Inv
<1>2. /\ o \in Values /\ o \in Storages /\ o \notin Scales
      /\ v.names \in Names /\ v.pending \in Nat /\ stamp \in Nat
  BY <1>1, DecidedType, ShapeAssumption DEF Storages, TypeOK
<1>3. /\ UNCHANGED <<stop, extent, aliased>>
      /\ stamp' = IF inferred THEN stamp + 1 ELSE stamp
      /\ verdicts' = Kept(k, a) /\ steps' = steps + 1
      /\ mem' = IF refused THEN mem ELSE Filled([t \in {o} |-> what])
      /\ fact' = IF inferred THEN [fact EXCEPT ![o] = born] ELSE fact
      /\ moved' = [Noted(k, o) EXCEPT ![o] = IF inferred THEN {} ELSE @]
      /\ excuse' = IF refused THEN excuse
                   ELSE [Excused(k, o) EXCEPT ![o] = IF inferred THEN {} ELSE @]
  BY DEF Launch
<1>4. what \in Marks /\ what[2] \in {"nothing", "other"} /\ what[1] \in {0, stamp'}
      /\ (inferred => what[1] = stamp + 1) /\ (~inferred => what[1] = 0)
  BY <1>2, <1>3 DEF Marks, Blank
<1>5. /\ born \in Facts /\ (inferred => born # NoFact) /\ born.holds = what
      /\ born.serial \in {0, stamp + 1} /\ born.pair = v.pending
  <2>1. serial \in Nat /\ serial \in {0, stamp + 1}
    BY <1>2
  <2> HIDE DEF what, serial
  <2>2. /\ born.holds = what /\ born.serial = serial /\ born.pair = v.pending
    BY DEF Meaning
  <2>3. born \in Facts
    BY <2>1, <1>2, <1>4 DEF Meaning, Facts
  <2>4. inferred => born # NoFact
    BY <2>2, <1>2, <1>4 DEF NoFact, Meaning, Blank
  <2> QED BY <2>1, <2>2, <2>3, <2>4
<1>6. /\ mem' \in [UNION {Bytes[t] : t \in Storages} -> Marks] /\ DOMAIN mem' = DOMAIN mem
      /\ ~refused => \A b \in Bytes[o] : mem'[b] = what
      /\ \A b \in DOMAIN mem : b \notin Bytes[o] => mem'[b] = mem[b]
      /\ \A b \in DOMAIN mem : mem'[b] = mem[b] \/ mem'[b] = what
      /\ refused => mem' = mem
  <2> DEFINE w == [t \in {o} |-> what]
  <2>1. w \in [{o} -> Marks] /\ w[o] = what /\ ~Overlaps(o, o)
    BY <1>2, <1>4, OverlapIs
  <2>2. mem' = IF refused THEN mem ELSE Filled(w)
    BY <1>3
  <2> HIDE DEF what, w, refused
  <2>3. /\ DOMAIN Filled(w) = DOMAIN mem
        /\ Filled(w) \in [UNION {Bytes[t] : t \in Storages} -> Marks]
        /\ \A t \in {o} : \A b \in Bytes[t] : Filled(w)[b] = w[t]
        /\ \A b \in DOMAIN mem : (\A t \in {o} : b \notin Bytes[t]) => Filled(w)[b] = mem[b]
        /\ \A b \in DOMAIN mem : Filled(w)[b] = mem[b] \/ \E t \in {o} : Filled(w)[b] = w[t]
    <3>1. {o} \in SUBSET Storages /\ \A t, u \in {o} : ~Overlaps(t, u)
      BY <2>1, <1>2
    <3> QED BY <3>1, <2>1, <1>1, FilledIn
  <2>4. CASE refused
    BY <2>4, <2>2, <1>1 DEF TypeOK
  <2>5. CASE ~refused
    <3>1. mem' = Filled(w)
      BY <2>5, <2>2
    <3> QED BY <2>5, <3>1, <2>3, <2>1, Zenon
  <2> QED BY <2>4, <2>5
<1>7. ASSUME NEW t \in Storages
      PROVE  /\ t # o => fact'[t] = fact[t]
             /\ fact'[o] = IF inferred THEN born ELSE fact[o]
             /\ ~inferred => HasFact(t)' = HasFact(t)
             /\ t # o => HasFact(t)' = HasFact(t)
             /\ inferred => HasFact(o)'
  BY <1>1, <1>2, <1>3, <1>5 DEF TypeOK, HasFact
<1>8. ASSUME NEW t \in Storages
      PROVE  moved'[t] = IF t = o /\ inferred THEN {} ELSE Noted(k, o)[t]
  BY <1>2, <1>3 DEF Noted
<1>9. ASSUME NEW t \in Storages
      PROVE  excuse'[t] = IF refused THEN excuse[t]
                          ELSE IF t = o /\ inferred THEN {} ELSE Excused(k, o)[t]
  BY <1>2, <1>3 DEF Excused
<1> HIDE DEF born, what, serial, v, o
<1>10. TypeOK'
  <2>1. fact' \in [Storages -> Facts]
    BY <1>1, <1>2, <1>3, <1>5 DEF TypeOK
  <2>2. moved' \in [Storages -> SUBSET {"written", "alien"}]
    <3>1. Noted(k, o) \in [Storages -> SUBSET {"written", "alien"}]
      BY <1>1 DEF TypeOK, Noted
    <3> QED BY <3>1, <1>3
  <2>3. excuse' \in [Storages -> SUBSET {"own", "hidden"}]
    <3>1. Excused(k, o) \in [Storages -> SUBSET {"own", "hidden"}]
      BY <1>1 DEF TypeOK, Excused
    <3> QED BY <3>1, <1>1, <1>3 DEF TypeOK
  <2>4. /\ extent' \subseteq {t \in Storages : \E u \in Own(t) : HasFact(u)'}
        /\ aliased' \subseteq extent'
    <3>1. \A t \in Storages : HasFact(t) => HasFact(t)'
      BY <1>7
    <3>2. ASSUME NEW t \in extent PROVE t \in Storages /\ \E u \in Own(t) : HasFact(u)'
      <4>1. t \in Storages /\ \E u \in Own(t) : HasFact(u)
        BY <1>1 DEF TypeOK
      <4> QED BY <3>1, <4>1, OwnIs
    <3>3. extent' = extent /\ aliased' = aliased /\ aliased \subseteq extent
      BY <1>1, <1>3 DEF TypeOK
    <3> QED BY <3>2, <3>3
  <2>5. stamp' \in Nat /\ steps' \in Nat /\ stop' \in BOOLEAN
    BY <1>1, <1>2, <1>3 DEF TypeOK
  <2>6. \A d \in DOMAIN verdicts' :
           verdicts'[d] \in [verdict : {"proven", "violation", "unproven"}, names : Names, pending : Nat]
    BY <1>1, <1>3, DecidedType
  <2> QED BY <2>1, <2>2, <2>3, <2>4, <2>5, <2>6, <1>6 DEF TypeOK, HasFact
<1>11. Grounded'
  <2>1. ASSUME NEW b \in DOMAIN mem' PROVE mem'[b][1] <= stamp'
    <3>1. mem[b] \in Marks /\ mem[b][1] <= stamp
      BY <1>1, <1>6 DEF Grounded, TypeOK
    <3>2. mem[b][1] \in Nat /\ stamp <= stamp'
      BY <3>1, <1>2, <1>3 DEF Marks
    <3>3. mem'[b] = mem[b] \/ mem'[b] = what
      BY <1>6
    <3>4. what[1] <= stamp' /\ stamp' \in Nat
      BY <1>2, <1>3, <1>4
    <3> QED BY <3>1, <3>2, <3>3, <3>4, <1>2
  <2>2. ASSUME NEW t \in Storages
        PROVE  /\ fact'[t].serial <= stamp' /\ (t \in Scales => fact'[t].pair <= stamp')
               /\ HasFact(t)' => fact'[t].holds[1] \in 1 .. stamp'
               /\ ~HasFact(t)' => moved'[t] = {} /\ excuse'[t] = {}
    <3>1. CASE t = o /\ inferred
      BY <3>1, <1>2, <1>3, <1>4, <1>5, <1>7
    <3>2. CASE ~(t = o /\ inferred)
      <4>1. /\ fact'[t] = fact[t] /\ (HasFact(t)' <=> HasFact(t))
            /\ fact[t].serial <= stamp /\ (t \in Scales => fact[t].pair <= stamp)
            /\ HasFact(t) => fact[t].holds[1] \in 1 .. stamp
            /\ ~HasFact(t) => moved[t] = {} /\ excuse[t] = {}
        BY <3>2, <1>1, <1>2, <1>7 DEF Grounded
      <4>2. fact[t].serial \in Nat /\ fact[t].pair \in Nat /\ stamp <= stamp' /\ stamp' \in Nat
        BY <1>1, <1>2, <1>3 DEF TypeOK, Facts
      <4>3. ~HasFact(t) => moved'[t] = {} /\ excuse'[t] = {}
        <5> SUFFICES ASSUME ~HasFact(t) PROVE moved'[t] = {} /\ excuse'[t] = {}
          OBVIOUS
        <5>1. t \notin Reached(k, o)
          BY <1>1, <1>2, ReachedIs
        <5> QED BY <5>1, <4>1, <3>2, <1>8, <1>9 DEF Noted, Excused
      <4> QED BY <4>1, <4>2, <4>3, <1>2
    <3> QED BY <3>1, <3>2
  <2> QED BY <2>1, <2>2 DEF Grounded, HasFact
<1>12. OverlapKnown'
  BY <1>1, <1>3 DEF OverlapKnown
<1>13. SpoiledIsSaid'
  <2> SUFFICES ASSUME NEW t \in Storages, Spoiled(t)' PROVE Unfit(t, FALSE)' # {}
    BY DEF SpoiledIsSaid
  <2>1. /\ HasFact(t)' /\ (\E b \in Bytes[t] : mem'[b] # fact'[t].holds) /\ "hidden" \notin excuse'[t]
        /\ fact'[t].life = "const" \/ "own" \notin excuse'[t]
    BY DEF Spoiled, Holds
  <2>2. CASE t = o /\ inferred
    BY <2>1, <2>2, <1>5, <1>6, <1>7
  <2>3. CASE ~(t = o /\ inferred)
    <3>1. HasFact(t) /\ fact'[t] = fact[t] /\ moved'[t] = Noted(k, o)[t] /\ moved[t] \subseteq moved'[t]
      BY <2>1, <2>3, <1>2, <1>7, <1>8 DEF Noted
    <3>2. CASE refused \/ (t # o /\ ~Overlaps(t, o))
      <4>1. \A b \in Bytes[t] : mem'[b] = mem[b]
        BY <3>2, <1>1, <1>2, <1>6, OverlapIs DEF TypeOK
      <4>2. excuse'[t] = excuse[t]
        BY <3>1, <3>2, <1>2, <1>9, OwnIs, OverlapIs DEF Excused
      <4>3. Spoiled(t)
        BY <2>1, <3>1, <4>1, <4>2 DEF Spoiled, Holds
      <4> QED BY <3>1, <4>3, <1>1 DEF SpoiledIsSaid, Unfit
    <3>3. CASE ~refused /\ t \in Own(o)
      <4>1. Written(k) # {} /\ "own" \in excuse'[t]
        BY <2>1, <2>3, <3>1, <3>3, <1>9 DEF Excused
      <4>2. "written" \in moved'[t] /\ fact'[t].life = "const"
        BY <2>1, <3>1, <3>3, <4>1 DEF Noted
      <4> QED BY <4>2 DEF Unfit
    <3>4. CASE ~refused /\ t \notin Own(o) /\ Overlaps(t, o)
      <4>1. Followed(k, o, t)
        <5>1. excuse'[t] = Excused(k, o)[t]
          BY <2>3, <3>4, <1>9
        <5>2. "hidden" \notin Excused(k, o)[t]
          BY <2>1, <5>1
        <5> QED BY <3>1, <3>4, <5>2 DEF Excused
      <4>2. t \in Reached(k, o)
        BY <4>1, <3>4, <1>1, <1>2, OverlapIs DEF Followed, Reached, OverlapKnown
      <4>3. "alien" \in moved'[t]
        BY <4>2, <3>1 DEF Noted
      <4> QED BY <4>3 DEF Unfit
    <3> QED BY <3>2, <3>3, <3>4, <1>2, OwnIs
  <2> QED BY <2>2, <2>3
<1>14. Shaped'
  <2>1. ASSUME NEW x \in Values, HasFact(x)' PROVE ValueShaped(x, fact'[x])
    <3>1. CASE x = o /\ inferred
      <4>1. fact'[x] = born /\ born.holds[2] # "value"
        BY <3>1, <1>2, <1>4, <1>5, <1>7
      <4> QED BY <4>1 DEF ValueShaped
    <3>2. CASE ~(x = o /\ inferred)
      BY <2>1, <3>2, <1>1, <1>2, <1>7 DEF Shaped, Storages
    <3> QED BY <3>1, <3>2
  <2>2. ASSUME NEW y \in Scales
        PROVE  fact'[y] = fact[y] /\ (HasFact(y)' <=> HasFact(y))
    BY <1>2, <1>7 DEF Storages
  <2>3. \A y \in Scales : HasFact(y)' => ScaleShaped(fact'[y])
    BY <2>2, <1>1 DEF Shaped
  <2>4. ASSUME NEW x \in Values, NEW y \in Scales PROVE OneIssue(fact'[x], fact'[y])
    <3>0. x \in Storages /\ y \in Storages
      BY DEF Storages
    <3>1. CASE x = o /\ inferred
      <4>1. fact'[x] = born /\ fact[y].pair <= stamp /\ fact[y].pair \in Nat
        BY <3>0, <3>1, <1>1, <1>7 DEF Grounded, TypeOK, Facts
      <4> QED BY <4>1, <2>2, <1>2, <1>5 DEF OneIssue
    <3>2. CASE ~(x = o /\ inferred)
      BY <3>0, <3>2, <2>2, <1>1, <1>2, <1>7 DEF Shaped
    <3> QED BY <3>1, <3>2
  <2> QED BY <2>1, <2>3, <2>4 DEF Shaped, HasFact
<1>15. MovedIsChanged'
  <2> SUFFICES ASSUME ~stop, NEW t \in Storages, moved'[t] # {}
               PROVE  \E b \in Bytes[t] : mem'[b] # fact'[t].holds
    BY <1>3 DEF MovedIsChanged, Holds
  <2>1. ~refused /\ ~(t = o /\ inferred) /\ fact'[t] = fact[t] /\ moved'[t] = Noted(k, o)[t]
    BY <1>2, <1>7, <1>8
  <2>2. HasFact(t)
    <3>1. HasFact(t) \/ moved[t] = {}
      BY <1>1 DEF Grounded
    <3>2. HasFact(t) \/ t \notin Reached(k, o)
      BY <1>1, <1>2, ReachedIs
    <3> QED BY <2>1, <3>1, <3>2 DEF Noted
  <2>3. fact[t].holds # what
    <3>1. fact[t].holds[1] \in 1 .. stamp
      BY <2>2, <1>1 DEF Grounded
    <3>2. what[1] = 0 \/ what[1] = stamp + 1
      BY <1>4
    <3> QED BY <3>1, <3>2, <1>2
  <2>4. CASE moved[t] # {}
    <3>1. PICK b \in Bytes[t] : mem[b] # fact[t].holds
      BY <2>4, <1>1 DEF MovedIsChanged, Holds
    <3>2. b \in DOMAIN mem
      BY <1>1, OverlapIs DEF TypeOK
    <3> QED BY <2>1, <2>3, <3>1, <3>2, <1>6
  <2>5. CASE t \in Own(o)
    <3>1. t = o \/ Overlaps(o, t)
      BY <2>5, <1>2, OwnIs
    <3>2. PICK b \in Bytes[o] : b \in Bytes[t]
      BY <3>1, <1>2, OverlapIs, OwnIs
    <3> QED BY <2>1, <2>3, <3>2, <1>6
  <2>6. CASE moved[t] = {} /\ t \notin Own(o)
    <3>1. Overlaps(o, t)
      BY <2>1, <2>6 DEF Noted, Reached
    <3>2. PICK b \in Bytes[o] : b \in Bytes[t]
      BY <3>1, <1>2, OverlapIs
    <3> QED BY <2>1, <2>3, <3>2, <1>6
  <2> QED BY <2>4, <2>5, <2>6
<1>16. SeenIsMeant'
  <2> SUFFICES ASSUME NEW t \in Storages, HasFact(t)', excuse'[t] = {}, NEW b \in Bytes[t],
                      mem'[b][2] \in {"value", "scale"}
               PROVE  mem'[b] = fact'[t].holds
    BY DEF SeenIsMeant
  <2>1. CASE t = o /\ inferred
    BY <2>1, <1>4, <1>5, <1>6, <1>7
  <2>2. CASE ~(t = o /\ inferred)
    <3>1. HasFact(t) /\ fact'[t] = fact[t]
      BY <2>2, <1>2, <1>7
    <3>2. excuse[t] = {}
      BY <2>2, <3>1, <1>9 DEF Excused
    <3>3. b \in DOMAIN mem /\ mem'[b] = mem[b]
      BY <1>1, <1>4, <1>6, OverlapIs DEF TypeOK
    <3> QED BY <3>1, <3>2, <3>3, <1>1 DEF SeenIsMeant
  <2> QED BY <2>1, <2>2
<1> QED BY <1>10, <1>11, <1>12, <1>13, <1>14, <1>15, <1>16 DEF Inv

LEMMA NextKeeps == Inv /\ [Next]_vars => Inv'
<1> SUFFICES ASSUME Inv, [Next]_vars PROVE Inv'
  OBVIOUS
<1>1. ASSUME NEW v \in Values, NEW c \in Scales, Issue(v, c) PROVE Inv'
  BY <1>1, IssueKeeps
<1>2. ASSUME NEW v \in Values, NEW c \in Scales, NEW holes \in BOOLEAN, LoadPair(v, c, holes)
      PROVE  Inv'
  BY <1>2, LoadPairKeeps
<1>3. ASSUME NEW v \in Values, LoadPlain(v) PROVE Inv'
  BY <1>3, LoadPlainKeeps
<1>4. ASSUME NEW s \in Storages, Collect(s) PROVE Inv'
  BY <1>4, CollectKeeps
<1>5. ASSUME NEW s \in Storages, NEW counted \in BOOLEAN, TorchWrite(s, counted) PROVE Inv'
  BY <1>5, TorchWriteKeeps
<1>6. ASSUME NEW k \in Kernels, NEW a \in Bound(k), Launch(k, a) PROVE Inv'
  BY <1>6, LaunchKeeps
<1>8. ASSUME NEW s \in Storages, MakeConstant(s) PROVE Inv'
  BY <1>8, MakeConstantKeeps
<1>7. CASE UNCHANGED vars
  <2> USE <1>7 DEF vars
  <2>1. TypeOK' /\ OverlapKnown'
    <3>1. \A s \in Storages : HasFact(s)' <=> HasFact(s)
      BY DEF HasFact
    <3> QED BY <3>1 DEF Inv, TypeOK, OverlapKnown, HasFact
  <2>2. Grounded' /\ Shaped'
    BY DEF Inv, Grounded, Shaped, HasFact
  <2>3. SpoiledIsSaid'
    BY DEF Inv, SpoiledIsSaid, Spoiled, Unfit, Holds, HasFact
  <2>4. MovedIsChanged' /\ SeenIsMeant'
    BY DEF Inv, MovedIsChanged, SeenIsMeant, Holds, HasFact
  <2> QED BY <2>1, <2>2, <2>3, <2>4 DEF Inv
<1> QED BY <1>1, <1>2, <1>3, <1>4, <1>5, <1>6, <1>7, <1>8 DEF Next

LEMMA Invariant == Spec => []Inv
BY InitHolds, NextKeeps, PTL DEF Spec

(* Types, of any storages and however long the process runs.                  *)
THEOREM TypeCorrect == Spec => []TypeOK
<1>1. Inv => TypeOK
  BY DEF Inv
<1> QED BY <1>1, Invariant, PTL

(* Storages over one memory are known to be, in whatever order meanings were    *)
(* attached to them, collected and attached again (_register_extent).          *)
THEOREM OverlapsAreKnown == Spec => []OverlapKnown
<1>1. Inv => OverlapKnown
  BY DEF Inv
<1> QED BY <1>1, Invariant, PTL

(* A launch that would read what its memory no longer holds is told so, for     *)
(* any storages and policies (_life_check).                                    *)
THEOREM SpoiledIsAlwaysSaid == Spec => []SpoiledIsSaid
<1>1. Inv => SpoiledIsSaid
  BY DEF Inv
<1> QED BY <1>1, Invariant, PTL

(* A value and a scale whose serials match, and of which nothing is said, hold  *)
(* what was issued together.                                                  *)
LEMMA ClaimedHolds ==
    ASSUME Inv, NEW a \in Bound("dequant"), Claimed(a), ~Cached("dequant", a)
    PROVE  Pair(a.x, a.y)
<1>1. a.x \in Values /\ a.y \in Scales /\ a.x \in Storages /\ a.y \in Storages
      /\ DOMAIN a = {"x", "y", "o"}
  BY DEF Bound, Storages
<1>2. /\ IsScale(a.y) /\ excuse[a.x] = {} /\ excuse[a.y] = {}
      /\ Decided("dequant", a).verdict = "proven" /\ ~Broken("dequant", a)
  BY DEF Claimed, VerdictOn
<1>3. OwnScale(a.x, a.y)
  BY <1>2 DEF Decided, Nothing
<1>4. HasFact(a.x) /\ HasFact(a.y)
  BY <1>2, <1>3 DEF IsScale, OwnScale, HasFact, NoFact, Meaning
<1>5. Unfit(a.x, FALSE) = {} /\ Unfit(a.y, FALSE) = {}
  <2>1. "x" \notin Written("dequant") /\ "y" \notin Written("dequant")
    BY DEF Written
  <2>2. \A n \in DOMAIN a : LifeOf("dequant", a)[n] = {}
    BY <1>2 DEF Broken
  <2>3. LifeOf("dequant", a)["x"] = {} /\ LifeOf("dequant", a)["y"] = {}
    BY <1>1, <2>2
  <2>4. /\ Unfit(a["x"], "x" \in Written("dequant")) = {}
        /\ Unfit(a["y"], "y" \in Written("dequant")) = {}
    BY <1>1, <2>3 DEF LifeOf
  <2> QED BY <2>1, <2>4 DEF Unfit
<1>6. Holds(a.x, fact[a.x].holds) /\ Holds(a.y, fact[a.y].holds)
  BY <1>1, <1>2, <1>4, <1>5 DEF Inv, SpoiledIsSaid, Spoiled
<1>7. /\ fact[a.x].holds = <<fact[a.y].pair, "value">>
      /\ fact[a.y].holds = <<fact[a.y].pair, "scale">>
  BY <1>1, <1>2, <1>3 DEF Inv, Shaped, OneIssue, OwnScale, IsScale
<1>8. fact[a.y].pair \in 1 .. stamp
  <2>1. fact[a.y].holds[1] \in 1 .. stamp
    BY <1>1, <1>4 DEF Inv, Grounded
  <2> QED BY <2>1, <1>7
<1> QED BY <1>6, <1>7, <1>8 DEF Pair

(* A pairing proven on the launch it was decided on multiplies a value by the    *)
(* scale it was issued with (kernel_types._binary over kernel_check's serials).  *)
THEOREM OwnScaleIsProven == Spec => []OwnScaleProven
<1>1. Inv => OwnScaleProven
  BY ClaimedHolds DEF OwnScaleProven
<1> QED BY <1>1, Invariant, PTL

LEMMA AlarmIsTrue == Inv => NoFalseAlarm
<1> SUFFICES ASSUME Inv PROVE NoFalseAlarm
  OBVIOUS
<1>1. ASSUME ~stop, NEW s \in Storages, {"changed", "alien"} \cap Unfit(s, FALSE) # {}
      PROVE  ~Holds(s, fact[s].holds)
  <2>1. moved[s] # {}
    BY <1>1 DEF Unfit
  <2> QED BY <1>1, <2>1 DEF Inv, MovedIsChanged
<1>2. ASSUME NEW a \in Bound("dequant"), Pair(a.x, a.y), HasFact(a.x),
             excuse[a.x] = {}, excuse[a.y] = {}, ~Cached("dequant", a),
             VerdictOn("dequant", a).verdict = "violation"
      PROVE  FALSE
  <2>1. a.x \in Values /\ a.y \in Scales /\ a.x \in Storages /\ a.y \in Storages
    BY DEF Bound, Storages
  <2>2. IsScale(a.y) /\ ~OwnScale(a.x, a.y)
    BY <1>2 DEF VerdictOn, Decided, Nothing
  <2>3. HasFact(a.y)
    BY <2>2 DEF IsScale, HasFact, NoFact, Meaning
  <2>4. PICK n \in 1 .. stamp : Holds(a.x, <<n, "value">>) /\ Holds(a.y, <<n, "scale">>)
    BY <1>2 DEF Pair
  <2>5. fact[a.x].holds = <<n, "value">> /\ fact[a.y].holds = <<n, "scale">>
    BY <1>2, <2>1, <2>3, <2>4, OwnIs DEF Inv, SeenIsMeant, Holds
  <2>6. fact[a.x].serial = n /\ fact[a.x].pair # 0 /\ fact[a.y].pair = n
    BY <1>2, <2>1, <2>3, <2>5 DEF Inv, Shaped, ValueShaped, ScaleShaped
  <2> QED BY <2>2, <2>6 DEF OwnScale, IsScale
<1> QED BY <1>1, <1>2 DEF NoFalseAlarm

(* Nothing is called changed, or another's scale, that is not (_life_check,      *)
(* _overlapping), except what NoFalseAlarm names.                              *)
THEOREM NoAlarmIsFalse == Spec => []NoFalseAlarm
<1> QED BY AlarmIsTrue, Invariant, PTL
=============================================================================
