------------------------- MODULE RopeWrites_proofs -------------------------
(* What holds of RoPE settings written under their old names, for any bases,  *)
(* configs, processes and policies.                                          *)
EXTENDS RopeWrites, TLAPS

-----------------------------------------------------------------------------
Meanings == [scaling : Scalings, theta : Thetas]
Configs ==
    [at : {"folder", "code"}, rope : Ropes, attr : Thetas \cup {None}, meaning : Meanings,
     write : Nat, said : BOOLEAN, by : {"none", "own", "copied", "failed"}]
Typed ==
    /\ configs \in [Addresses -> Configs \cup {Nothing}]
    /\ writes \in Nat

(* Until something is said, a config is what its user meant, and the attribute *)
(* that tells a restatement holds the base meant, or nothing yet.             *)
Right(c) == ~c.said => c.rope = c.meaning /\ c.attr \in {None, c.meaning.theta}
Inv == Typed /\ \A a \in Addresses : configs[a] # Nothing => Right(configs[a])

LEMMA NothingIsNone == Nothing \notin Configs
<1>1. ASSUME NEW c \in Configs PROVE c.at # "none"
  BY DEF Configs
<1> QED BY <1>1 DEF Nothing

LEMMA MeaningsAreRopes == Meanings \subseteq Ropes /\ InFile \in Meanings
BY RopeAssumption DEF Meanings, Ropes

-----------------------------------------------------------------------------
(* One declaration is what is picked, and a choice that honours it is it.      *)
LEMMA OneFact ==
    ASSUME NEW d \in Ropes, NEW kind
    PROVE  ~Conflict(<<Fact(kind, d)>>) /\ Pick(<<Fact(kind, d)>>) = d
<1> DEFINE facts == <<Fact(kind, d)>>
<1>1. DOMAIN facts = {1} /\ facts[1].value = d
  BY DEF Fact
<1> HIDE DEF facts
<1>2. ~Conflict(facts)
  BY <1>1 DEF Conflict, Compatible
<1>3. Best(facts, {1}) = 1
  BY DEF Best
<1>4. ASSUME NEW f \in DOMAIN d
      PROVE  Combined(facts)[f] = d[f]
  <2>1. CASE d[f] = None
    BY <2>1, <1>1 DEF Combined
  <2>2. CASE d[f] # None
    <3>1. {i \in DOMAIN facts : facts[i].value[f] # None} = {1}
      BY <2>2, <1>1
    <3> QED BY <3>1, <1>1, <1>3 DEF Combined
  <2> QED BY <2>1, <2>2
<1>5. Combined(facts) = d
  <2>1. DOMAIN Combined(facts) = DOMAIN d /\ d \in [{"scaling", "theta"} -> Scalings \cup Thetas \cup {None}]
    BY <1>1 DEF Combined, Ropes
  <2>2. Combined(facts) = [f \in DOMAIN d |-> Combined(facts)[f]]
    BY <1>1 DEF Combined
  <2> QED BY <2>1, <2>2, <1>4
<1> QED BY <1>2, <1>5 DEF Pick, facts

LEMMA AgreesIsEqual ==
    ASSUME NEW d \in Ropes, NEW e \in Ropes, d.theta # None, Agrees(d, e)
    PROVE  d = e
<1>1. DOMAIN d = {"scaling", "theta"} /\ d.scaling # None
  BY RopeAssumption DEF Ropes
<1>2. e.scaling = d.scaling /\ e.theta = d.theta
  BY <1>1 DEF Agrees, Filled
<1> QED BY <1>2 DEF Ropes

(* What a key means, and what the config would be by either way of writing it.  *)
LEMMA KeyCases ==
    ASSUME NEW k \in Keys
    PROVE  \/ k[1] = "rope_theta" /\ k[2] \in Thetas /\ k[2] # None
           \/ k[1] = "rope_scaling" /\ k[2] \in Scalings
BY RopeAssumption DEF Keys

LEMMA WriteTyped ==
    ASSUME NEW c \in Configs, NEW k \in Keys
    PROVE  AsFile(c, k) \in Ropes /\ AsEngine(c, k) \in Ropes /\ Means(c.meaning, k) \in Meanings
<1>1. c.rope \in Ropes /\ c.meaning \in Meanings
  BY DEF Configs
<1> QED BY <1>1, KeyCases DEF AsFile, AsEngine, Means, Ropes, Meanings

LEMMA WrittenTyped ==
    ASSUME NEW c \in Configs, NEW k \in Keys, NEW r \in Ropes, NEW said \in BOOLEAN,
           NEW by \in {"none", "own", "copied", "failed"}, writes \in Nat
    PROVE  /\ Written(c, k, r, said, by) \in Configs
           /\ Written(c, k, r, said, by).rope = r
           /\ Written(c, k, r, said, by).attr = (IF k[1] = "rope_theta" THEN k[2] ELSE c.attr)
           /\ Written(c, k, r, said, by).meaning = Means(c.meaning, k)
           /\ Written(c, k, r, said, by).said = (c.said \/ said)
           /\ Written(c, k, r, said, by).write = WriteOf(c, k) /\ Written(c, k, r, said, by).by = by
<1>1. Means(c.meaning, k) \in Meanings /\ WriteOf(c, k) \in Nat /\ c.said \in BOOLEAN
  BY WriteTyped DEF Configs, WriteOf
<1>2. (IF k[1] = "rope_theta" THEN k[2] ELSE c.attr) \in Thetas \cup {None}
  BY KeyCases DEF Configs
<1> DEFINE attr == IF k[1] = "rope_theta" THEN k[2] ELSE c.attr
           either == c.said \/ said
           new(at, m, w, s) == [c EXCEPT !.rope = r, !.attr = at, !.meaning = m, !.write = w,
                                         !.said = s, !.by = by]
<1>3. \A at \in Thetas \cup {None}, m \in Meanings, w \in Nat, s \in BOOLEAN :
         /\ new(at, m, w, s) \in Configs
         /\ new(at, m, w, s).rope = r /\ new(at, m, w, s).attr = at
         /\ new(at, m, w, s).meaning = m /\ new(at, m, w, s).said = s
         /\ new(at, m, w, s).write = w /\ new(at, m, w, s).by = by
  <2> TAKE at \in Thetas \cup {None}, m \in Meanings, w \in Nat, s \in BOOLEAN
  <2>1. new(at, m, w, s) \in Configs
    BY DEF Configs
  <2>2. new(at, m, w, s).rope = r /\ new(at, m, w, s).attr = at
    BY DEF Configs
  <2>3. new(at, m, w, s).meaning = m /\ new(at, m, w, s).said = s
    BY DEF Configs
  <2>4. new(at, m, w, s).write = w /\ new(at, m, w, s).by = by
    BY DEF Configs
  <2> QED BY <2>1, <2>2, <2>3, <2>4
<1>4. Written(c, k, r, said, by) = new(attr, Means(c.meaning, k), WriteOf(c, k), either)
  BY DEF Written, Configs
<1>5. either \in BOOLEAN
  OBVIOUS
<1>6. attr \in Thetas \cup {None}
  BY <1>2
<1> HIDE DEF new, attr, either
<1>7. /\ Written(c, k, r, said, by) \in Configs
      /\ Written(c, k, r, said, by).rope = r /\ Written(c, k, r, said, by).attr = attr
      /\ Written(c, k, r, said, by).meaning = Means(c.meaning, k)
      /\ Written(c, k, r, said, by).said = either
      /\ Written(c, k, r, said, by).write = WriteOf(c, k) /\ Written(c, k, r, said, by).by = by
  BY <1>1, <1>3, <1>4, <1>5, <1>6
<1> QED BY <1>7, Zenon DEF attr, either

-----------------------------------------------------------------------------
LEMMA InitHolds == Init => Inv
BY DEF Init, Inv, Typed

(* A config put at an address is all that a step changes.                      *)
LEMMA PutKeeps ==
    ASSUME Inv, NEW a \in Addresses, NEW c \in Configs \cup {Nothing}, Put(a, c), writes' \in Nat,
           c # Nothing => Right(c)
    PROVE  Inv'
BY DEF Inv, Typed, Put

LEMMA SameKeeps ==
    ASSUME Inv, configs' = configs, writes' \in Nat
    PROVE  Inv'
BY DEF Inv, Typed

LEMMA BuildKeeps ==
    ASSUME Inv, NEW a \in Addresses, NEW at \in {"folder", "code"}, Build(a, at)
    PROVE  Inv'
<1>1. Config(at) \in Configs
  BY MeaningsAreRopes DEF Config, Configs
<1>2. Right(Config(at))
  BY DEF Right, Config
<1> QED BY <1>1, <1>2, PutKeeps DEF Build, Inv, Typed

LEMMA HeldConfig ==
    ASSUME Inv, NEW a \in Addresses, Held(a)
    PROVE  configs[a] \in Configs /\ Right(configs[a]) /\ writes \in Nat
BY DEF Inv, Typed, Held

LEMMA SendKeeps ==
    ASSUME Inv, NEW a \in Addresses, NEW b \in Addresses, Send(a, b)
    PROVE  Inv'
<1> DEFINE c == [configs[a] EXCEPT !.by = IF @ = "own" THEN "copied" ELSE @]
<1>1. configs[a] \in Configs /\ Right(configs[a]) /\ writes' \in Nat /\ Put(b, c)
  BY HeldConfig DEF Send
<1>2. c \in Configs /\ Right(c)
  BY <1>1 DEF Configs, Right
<1> QED BY <1>1, <1>2, PutKeeps

LEMMA PassKeeps ==
    ASSUME Inv, NEW a \in Addresses, NEW k \in Keys, Pass(a, k)
    PROVE  Inv'
<1> DEFINE c == configs[a]
           no == FALSE
           n == Written(c, k, AsEngine(c, k), no, c.by)
<1>1. /\ c \in Configs /\ Right(c) /\ writes' \in Nat /\ Put(a, n)
      /\ ~Applies(c) \/ Restates(c, k)
  <2>1. Held(a) /\ writes' = writes + 1
    BY DEF Pass, AWrite
  <2>2. Put(a, n) /\ (~Applies(c) \/ Restates(c, k))
    BY DEF Pass
  <2> HIDE DEF n
  <2> QED BY <2>1, <2>2, HeldConfig
<1>2. /\ n \in Configs /\ n.rope = AsEngine(c, k) /\ n.meaning = Means(c.meaning, k)
      /\ n.attr = (IF k[1] = "rope_theta" THEN k[2] ELSE c.attr) /\ n.said = (c.said \/ no)
  <2>1. AsEngine(c, k) \in Ropes /\ c.by \in {"none", "own", "copied", "failed"} /\ writes \in Nat
    BY <1>1, HeldConfig, WriteTyped DEF Configs, Pass, AWrite
  <2>2. c \in Configs
    BY <1>1
  <2>3. no \in BOOLEAN
    OBVIOUS
  <2> HIDE DEF c, no
  <2> QED BY <2>1, <2>2, <2>3, WrittenTyped
<1> HIDE DEF c, n
<1>3. ASSUME ~c.said PROVE n.rope = n.meaning /\ n.attr \in {None, n.meaning.theta}
  <2>1. c.rope = c.meaning /\ c.attr \in {None, c.meaning.theta} /\ c.meaning \in Meanings
    BY <1>1, <1>3 DEF Right, Configs
  <2>2. Restates(c, k)
    BY <1>1, <2>1, RopeAssumption DEF Applies, Meanings
  <2>3. k[1] = "rope_theta" /\ k[2] = c.meaning.theta
    BY <2>1, <2>2, KeyCases DEF Restates
  <2>4. Means(c.meaning, k) = c.meaning
    BY <2>1, <2>3 DEF Means, Meanings
  <2> QED BY <1>2, <2>1, <2>3, <2>4 DEF AsEngine
<1> QED BY <1>1, <1>2, <1>3, PutKeeps DEF Right

LEMMA DecidedKeeps ==
    ASSUME Inv, NEW a \in Addresses, NEW k \in Keys, Decided(a, k)
    PROVE  Inv'
<1> DEFINE c == configs[a]
           verdict == Verdict(<<Fact("user", AsFile(c, k))>>, AsEngine(c, k), setting, TRUE)
           r == IF verdict = "resolved" THEN AsFile(c, k) ELSE AsEngine(c, k)
           said == verdict = "broken"
           n == Written(c, k, r, said, "own")
<1>1. /\ c \in Configs /\ Right(c) /\ writes \in Nat /\ writes' \in Nat /\ Applies(c)
      /\ (Blocks(verdict) => configs' = configs) /\ (~Blocks(verdict) => Put(a, n))
  <2>1. Held(a) /\ writes' = writes + 1
    BY DEF Decided, AWrite
  <2>2. Applies(c) /\ (Blocks(verdict) => configs' = configs) /\ (~Blocks(verdict) => Put(a, n))
    BY DEF Decided
  <2> HIDE DEF n, verdict
  <2> QED BY <2>1, <2>2, HeldConfig
<1>2. CASE Blocks(verdict)
  BY <1>1, <1>2, SameKeeps
<1>3. CASE ~Blocks(verdict)
  <2>1. AsFile(c, k) \in Ropes /\ AsEngine(c, k) \in Ropes
    BY <1>1, WriteTyped
  <2>2. verdict \in {"pass", "resolved", "broken"}
        /\ (verdict = "pass" => Agrees(AsFile(c, k), AsEngine(c, k)))
    BY <1>3, <2>1, OneFact DEF Verdict, Blocks, Unrepaired
  <2>3. /\ n \in Configs /\ n.rope = r /\ n.meaning = Means(c.meaning, k)
        /\ n.attr = (IF k[1] = "rope_theta" THEN k[2] ELSE c.attr)
        /\ n.said = (c.said \/ said)
    <3>1. r \in Ropes /\ said \in BOOLEAN
      BY <2>1
    <3>2. c \in Configs /\ writes \in Nat
      BY <1>1
    <3> HIDE DEF c, verdict, r, said
    <3>3. "own" \in {"none", "own", "copied", "failed"}
      OBVIOUS
    <3> QED BY <3>1, <3>2, <3>3, WrittenTyped
  <2>4. ASSUME ~n.said PROVE n.rope = n.meaning /\ n.attr \in {None, n.meaning.theta}
    <3>1. ~c.said /\ verdict \in {"pass", "resolved"}
      BY <2>2, <2>3, <2>4
    <3>2. c.rope = c.meaning /\ c.attr \in {None, c.meaning.theta} /\ c.meaning \in Meanings
      BY <1>1, <3>1 DEF Right, Configs
    <3>3. AsFile(c, k) = Means(c.meaning, k)
      BY <3>2 DEF AsFile, Means
    <3>4. r = AsFile(c, k)
      <4>1. AsFile(c, k).theta # None
        BY <3>3, <1>1, WriteTyped, RopeAssumption DEF Meanings
      <4> QED BY <4>1, <3>1, <2>1, <2>2, AgreesIsEqual
    <3>5. n.attr \in {None, Means(c.meaning, k).theta}
      BY <2>3, <3>2, KeyCases DEF Means, Meanings
    <3> QED BY <2>3, <3>3, <3>4, <3>5
  <2>5. Put(a, n)
    BY <1>1, <1>3
  <2> HIDE DEF n
  <2> QED BY <2>3, <2>4, <2>5, <1>1, PutKeeps DEF Right
<1> QED BY <1>2, <1>3

LEMMA FailedKeeps ==
    ASSUME Inv, NEW a \in Addresses, NEW k \in Keys, Failed(a, k)
    PROVE  Inv'
<1> DEFINE c == configs[a]
           n == Written(c, k, AsEngine(c, k), TRUE, "failed")
<1>1. c \in Configs /\ writes \in Nat /\ writes' \in Nat /\ Put(a, n)
  <2>1. Held(a) /\ writes' = writes + 1
    BY DEF Failed, AWrite
  <2>2. Put(a, n)
    BY DEF Failed
  <2> HIDE DEF n
  <2> QED BY <2>1, <2>2, HeldConfig
<1>2. n \in Configs /\ n.said = (c.said \/ TRUE)
  <2>1. AsEngine(c, k) \in Ropes
    BY <1>1, WriteTyped
  <2> HIDE DEF c
  <2> QED BY <1>1, <2>1, WrittenTyped
<1> HIDE DEF n
<1> QED BY <1>1, <1>2, PutKeeps DEF Right

LEMMA NextKeeps == Inv /\ [Next]_vars => Inv'
<1> SUFFICES ASSUME Inv, [Next]_vars PROVE Inv'
  OBVIOUS
<1>0. writes \in Nat
  BY DEF Inv, Typed
<1>1. ASSUME NEW p \in Procs, NEW q \in Procs, Spawn(p, q) PROVE Inv'
  BY <1>0, <1>1, SameKeeps DEF Spawn
<1>2. ASSUME NEW a \in Addresses, NEW at \in {"folder", "code"}, Build(a, at) PROVE Inv'
  BY <1>2, BuildKeeps
<1>3. ASSUME NEW a \in Addresses, NEW b \in Addresses, Send(a, b) PROVE Inv'
  BY <1>3, SendKeeps
<1>4. ASSUME NEW a \in Addresses, NEW k \in Keys, Pass(a, k) PROVE Inv'
  BY <1>4, PassKeeps
<1>5. ASSUME NEW a \in Addresses, NEW k \in Keys, Decided(a, k) PROVE Inv'
  BY <1>5, DecidedKeeps
<1>6. ASSUME NEW a \in Addresses, NEW k \in Keys, Failed(a, k) PROVE Inv'
  BY <1>6, FailedKeeps
<1>7. ASSUME NEW a \in Addresses, Collect(a) PROVE Inv'
  BY <1>0, <1>7, PutKeeps DEF Collect
<1>8. ASSUME NEW a \in Addresses, Load(a) PROVE Inv'
  BY <1>0, <1>8, SameKeeps DEF Load
<1>9. CASE UNCHANGED vars
  BY <1>0, <1>9, SameKeeps DEF vars
<1> QED BY <1>1, <1>2, <1>3, <1>4, <1>5, <1>6, <1>7, <1>8, <1>9 DEF Next

LEMMA Invariant == Spec => []Inv
BY InitHolds, NextKeeps, PTL DEF Spec

(* A config is loaded as its user meant it, or it was said that it is not, for   *)
(* any writes, copies, processes and policies (rotary_write).                    *)
THEOREM LossIsAlwaysSaid == Spec => []LossIsSaid
<1>1. Inv => LossIsSaid
  BY HeldConfig DEF LossIsSaid, Right
<1> QED BY <1>1, Invariant, PTL

(* Under a policy that repairs, the last write of each old name holds, in any     *)
(* order and number (handles).                                                   *)
THEOREM LastWriteAlwaysHolds == Spec => []LastWriteHolds
<1>1. Inv => LastWriteHolds
  BY HeldConfig DEF LastWriteHolds, Right
<1> QED BY <1>1, Invariant, PTL

-----------------------------------------------------------------------------
(* What a config's write number tells of its meaning, and what the two records  *)
(* of declarations, on the object and in the environment, tell of the number.   *)
Entries == [rope : Ropes, write : Nat]
Here(a) == configs[a] # Nothing

Loses(c) == c.rope.theta \notin {None, c.meaning.theta}

(* The scaling held is always the one meant; the base may be another, but not   *)
(* as long as none was written.                                                *)
Shaped(c) ==
    /\ c.rope.scaling = c.meaning.scaling
    /\ c.attr \in {None, c.meaning.theta}
    /\ c.attr = None => c.rope.theta \in {None, c.meaning.theta}
    /\ c.write = 0 => c.meaning = InFile /\ ~Loses(c)

(* Configs of one write mean one thing, and if a base was lost at it, it was    *)
(* lost for each of them.                                                      *)
Alike(c, d) ==
    c.write = d.write => c.meaning = d.meaning /\ (Loses(c) => d.rope # d.meaning)

(* An entry's write is that of a config: if the config is as meant, the entry   *)
(* says so.                                                                    *)
Tells(e, c) ==
    e # Unstated /\ c.write = e.write /\ c.rope = c.meaning => e.rope = c.meaning

OnObject(a) ==
    /\ ~Here(a) \/ configs[a].by \in {"none", "copied"} => user[a] = Unstated
    /\ Here(a) /\ configs[a].by = "own" /\ configs[a].rope = configs[a].meaning =>
          user[a].rope = configs[a].rope

Stopped == running \cap ended = {}
Counted ==
    /\ \A a \in Addresses : Here(a) => configs[a].write <= writes
    /\ \A p \in Procs : env[p].write <= writes
    /\ \A p \in Procs : env[p] # Unstated /\ env[p].write = 0 => env[p].rope = InFile
Traced ==
    /\ Inv
    /\ env \in [Procs -> Entries \cup {Unstated}] /\ user \in [Addresses -> Entries \cup {Unstated}]
    /\ Stopped /\ Counted
    /\ \A a \in Addresses : Here(a) => Shaped(configs[a])
    /\ \A a, b \in Addresses : Here(a) /\ Here(b) => Alike(configs[a], configs[b])
    /\ \A p \in Procs : \A a \in Addresses : Here(a) => Tells(env[p], configs[a])
    /\ \A a \in Addresses : Home[a] \notin running \cup ended => ~Here(a)
    /\ \A a \in Addresses : Home[a] \notin ended => OnObject(a)

LEMMA InitTraced == Init => Traced
<1> SUFFICES ASSUME Init PROVE Traced
  OBVIOUS
<1>1. Inv
  BY InitHolds
<1>2. \A a \in Addresses : ~Here(a) /\ user[a] = Unstated
  BY DEF Init, Here
<1>3. \A p \in Procs : env[p] = Unstated
  BY DEF Init
<1>4. env \in [Procs -> Entries \cup {Unstated}] /\ user \in [Addresses -> Entries \cup {Unstated}]
  BY DEF Init
<1>5. Stopped /\ Counted
  <2>1. Unstated.write <= writes
    BY DEF Unstated, Init
  <2>2. \A p \in Procs : env[p] # Unstated => FALSE
    BY <1>3
  <2> QED BY <1>2, <1>3, <2>1, <2>2 DEF Init, Stopped, Counted
<1>6. \A a \in Addresses : OnObject(a)
  BY <1>2 DEF OnObject
<1> QED BY <1>1, <1>2, <1>4, <1>5, <1>6 DEF Traced

(* A write: what it may make of a config c, and what follows for the write      *)
(* number. A write that keeps the meaning keeps the RoPE, or loses its base.     *)
Rewrites(c, k, n) ==
    /\ n.meaning = Means(c.meaning, k) /\ n.write = WriteOf(c, k)
    /\ n.attr = IF k[1] = "rope_theta" THEN k[2] ELSE c.attr
    /\ \/ n.rope = AsEngine(c, k)
       \/ n.rope = AsFile(c, k) /\ Applies(c) /\ ~Restates(c, k)

LEMMA RopeIsItsFields ==
    ASSUME NEW d \in Ropes, NEW e \in Ropes, d.scaling = e.scaling, d.theta = e.theta
    PROVE  d = e
BY DEF Ropes

LEMMA RopesWritten ==
    ASSUME NEW c \in Configs, NEW k \in Keys
    PROVE  /\ k[1] = "rope_theta" =>
                 /\ AsFile(c, k).scaling = c.rope.scaling /\ AsFile(c, k).theta = k[2]
                 /\ AsEngine(c, k) = c.rope
                 /\ Means(c.meaning, k).scaling = c.meaning.scaling /\ Means(c.meaning, k).theta = k[2]
           /\ k[1] = "rope_scaling" =>
                 /\ AsFile(c, k).scaling = k[2] /\ AsFile(c, k).theta = c.rope.theta
                 /\ AsEngine(c, k).scaling = k[2] /\ AsEngine(c, k).theta = None
                 /\ Means(c.meaning, k).scaling = k[2] /\ Means(c.meaning, k).theta = c.meaning.theta
<1>1. c.rope \in Ropes /\ c.meaning \in Meanings
  BY DEF Configs
<1>2. CASE k[1] = "rope_theta"
  BY <1>1, <1>2 DEF AsFile, AsEngine, Means, Ropes, Meanings
<1>3. CASE k[1] = "rope_scaling"
  BY <1>1, <1>3 DEF AsFile, AsEngine, Means, Ropes, Meanings
<1> QED BY <1>2, <1>3

LEMMA Rewritten ==
    ASSUME NEW c \in Configs, NEW n \in Configs, NEW k \in Keys, writes \in Nat, c.write <= writes,
           Shaped(c), Rewrites(c, k, n)
    PROVE  /\ Shaped(n)
           /\ n.write \in {c.write, writes + 1}
           /\ n.write = c.write => n.meaning = c.meaning /\ (n.rope = c.rope \/ n.rope.theta = None)
<1> DEFINE m == Means(c.meaning, k)
<1>1. /\ c.rope \in Ropes /\ c.meaning \in Meanings /\ n.rope \in Ropes /\ n.meaning \in Meanings
      /\ c.write \in Nat /\ m \in Meanings /\ AsFile(c, k) \in Ropes /\ AsEngine(c, k) \in Ropes
  BY WriteTyped DEF Configs
<1>2. c.meaning.theta # None /\ m.theta # None /\ Meanings \subseteq Ropes
  BY <1>1, RopeAssumption, MeaningsAreRopes DEF Meanings
<1>3. n.meaning = m /\ n.write = (IF m = c.meaning THEN c.write ELSE writes + 1)
  BY DEF Rewrites, WriteOf
<1>4. n.write = c.write => m = c.meaning
  BY <1>1, <1>3
<1>5. n.rope = AsEngine(c, k) \/ (n.rope = AsFile(c, k) /\ Applies(c) /\ ~Restates(c, k))
  BY DEF Rewrites
<1>6. CASE k[1] = "rope_theta"
  <2>1. n.attr = k[2] /\ k[2] = m.theta /\ k[2] # None
    BY <1>2, <1>6, RopesWritten DEF Rewrites
  <2>2. n.rope.scaling = m.scaling
    BY <1>5, <1>6, RopesWritten DEF Shaped
  <2>4. ASSUME m = c.meaning PROVE n.rope = c.rope
    <3>1. CASE n.rope = AsEngine(c, k)
      BY <1>6, <3>1, RopesWritten
    <3>2. CASE n.rope = AsFile(c, k) /\ Applies(c) /\ ~Restates(c, k)
      <4>1. c.attr = None
        BY <1>6, <2>1, <2>4, <3>2 DEF Restates, Shaped
      <4>2. c.rope.theta = m.theta
        BY <2>4, <3>2, <4>1 DEF Applies, Shaped
      <4>3. n.rope.scaling = c.rope.scaling /\ n.rope.theta = c.rope.theta
        BY <1>6, <2>1, <3>2, <4>2, RopesWritten
      <4> QED BY <1>1, <4>3, RopeIsItsFields
    <3> QED BY <1>5, <3>1, <3>2
  <2>3. n.write = 0 => n.meaning = InFile /\ ~Loses(n)
    BY <1>1, <1>2, <1>3, <1>4, <2>4 DEF Shaped, Loses
  <2>5. Shaped(n)
    BY <1>3, <2>1, <2>2, <2>3 DEF Shaped
  <2> QED BY <1>3, <1>4, <2>4, <2>5
<1>7. CASE k[1] = "rope_scaling"
  <2>1. n.attr = c.attr /\ m.theta = c.meaning.theta
    BY <1>7, RopesWritten DEF Rewrites
  <2>2. n.rope.scaling = m.scaling /\ n.rope.theta \in {None, c.rope.theta}
    BY <1>5, <1>7, RopesWritten
  <2>4. ASSUME m = c.meaning PROVE n.rope = c.rope \/ n.rope.theta = None
    <3>1. n.rope.scaling = c.rope.scaling
      BY <2>2, <2>4 DEF Shaped
    <3> QED BY <1>1, <2>2, <3>1, RopeIsItsFields
  <2>3. n.write = 0 => n.meaning = InFile /\ ~Loses(n)
    BY <1>1, <1>2, <1>3, <1>4, <2>4 DEF Shaped, Loses
  <2>5. Shaped(n)
    BY <1>3, <2>1, <2>2, <2>3 DEF Shaped
  <2> QED BY <1>3, <1>4, <2>4, <2>5
<1> QED BY <1>6, <1>7, KeyCases

(* What is declared at a write is what the config is then, if that is as meant;  *)
(* and what it was, if the write keeps the meaning.                             *)
LEMMA StatedIsMeant ==
    ASSUME NEW c \in Configs, NEW n \in Configs, NEW k \in Keys, writes \in Nat, c.write <= writes,
           Shaped(c), Rewrites(c, k, n), Applies(c), ~Restates(c, k)
    PROVE  /\ n.rope = n.meaning => AsFile(c, k) = n.meaning
           /\ WriteOf(c, k) = c.write => AsFile(c, k) = c.rope
<1> DEFINE m == Means(c.meaning, k)
<1>1. /\ c.rope \in Ropes /\ c.meaning \in Meanings /\ m \in Meanings /\ AsFile(c, k) \in Ropes
      /\ c.write \in Nat /\ m.theta # None /\ m \in Ropes
  BY WriteTyped, RopeAssumption, MeaningsAreRopes DEF Configs, Meanings
<1>2. n.meaning = m /\ (n.rope = AsEngine(c, k) \/ n.rope = AsFile(c, k))
  BY DEF Rewrites
<1>3. WriteOf(c, k) = c.write => m = c.meaning
  BY <1>1 DEF WriteOf
<1>4. CASE k[1] = "rope_theta"
  <2>1. AsFile(c, k) = m
    BY <1>1, <1>4, RopesWritten, RopeIsItsFields DEF Shaped
  <2>2. ASSUME m = c.meaning PROVE AsFile(c, k) = c.rope
    <3>1. c.attr = None
      BY <1>1, <1>4, <2>2, RopesWritten DEF Restates, Shaped
    <3>2. c.rope.theta = m.theta /\ c.rope.scaling = m.scaling
      BY <2>2, <3>1 DEF Applies, Shaped
    <3> QED BY <1>1, <2>1, <3>2, RopeIsItsFields
  <2> QED BY <1>2, <1>3, <2>1, <2>2
<1>5. CASE k[1] = "rope_scaling"
  <2>1. n.rope = m => n.rope = AsFile(c, k)
    BY <1>1, <1>2, <1>5, RopesWritten
  <2>2. ASSUME m = c.meaning PROVE AsFile(c, k) = c.rope
    <3>1. AsFile(c, k).scaling = c.rope.scaling
      BY <1>5, <2>2, RopesWritten DEF Shaped
    <3> QED BY <1>1, <1>5, <3>1, RopesWritten, RopeIsItsFields
  <2> QED BY <1>2, <1>3, <2>1, <2>2
<1> QED BY <1>4, <1>5, KeyCases


(* A write is met by the entries and configs there were, and its entry by them   *)
(* and by what it made.                                                         *)
LEMMA WriteIsAlike ==
    ASSUME NEW c \in Configs, NEW n \in Configs, NEW d \in Configs, NEW k \in Keys, writes \in Nat,
           c.write <= writes, d.write <= writes, Shaped(c), Rewrites(c, k, n), Alike(c, d), Alike(d, c)
    PROVE  Alike(n, d) /\ Alike(d, n)
<1>1. n.meaning \in Meanings /\ n.meaning.theta # None /\ d.write \in Nat /\ c.write \in Nat
  BY RopeAssumption DEF Configs, Meanings
<1>2. n.write \in {c.write, writes + 1}
      /\ (n.write = c.write => n.meaning = c.meaning /\ (n.rope = c.rope \/ n.rope.theta = None))
  BY Rewritten
<1> SUFFICES ASSUME n.write = d.write PROVE Alike(n, d) /\ Alike(d, n)
  BY DEF Alike
<1>3. n.write = c.write
  BY <1>1, <1>2
<1>4. n.meaning = c.meaning /\ (n.rope = c.rope \/ n.rope.theta = None) /\ c.meaning = d.meaning
  BY <1>2, <1>3 DEF Alike
<1>5. Loses(n) => d.rope # d.meaning
  BY <1>3, <1>4 DEF Loses, Alike
<1>6. Loses(d) => n.rope # n.meaning
  BY <1>1, <1>3, <1>4 DEF Alike
<1> QED BY <1>4, <1>5, <1>6 DEF Alike

LEMMA EntryTellsWrite ==
    ASSUME NEW c \in Configs, NEW n \in Configs, NEW k \in Keys, NEW e, writes \in Nat,
           c.write <= writes, e.write <= writes, Shaped(c), Rewrites(c, k, n), Tells(e, c)
    PROVE  Tells(e, n)
<1> SUFFICES ASSUME e # Unstated, n.write = e.write, n.rope = n.meaning
             PROVE  e.rope = n.meaning
  BY DEF Tells
<1>1. n.meaning.theta # None
  BY RopeAssumption DEF Configs, Meanings
<1>2. n.write = c.write
  <2>1. n.write \in {c.write, writes + 1}
    BY Rewritten
  <2> QED BY <2>1
<1>3. n.meaning = c.meaning /\ n.rope = c.rope
  BY <1>1, <1>2, Rewritten
<1> QED BY <1>2, <1>3 DEF Tells

LEMMA WriteTellsConfig ==
    ASSUME NEW c \in Configs, NEW n \in Configs, NEW d \in Configs, NEW k \in Keys, NEW e, writes \in Nat,
           c.write <= writes, d.write <= writes, Shaped(c), Rewrites(c, k, n), Alike(c, d),
           Applies(c), ~Restates(c, k), e.rope = AsFile(c, k), e.write = WriteOf(c, k)
    PROVE  Tells(e, d)
<1> SUFFICES ASSUME d.write = e.write, d.rope = d.meaning
             PROVE  e.rope = d.meaning
  BY DEF Tells
<1>1. c.rope \in Ropes /\ c.meaning \in Ropes /\ c.write \in Nat /\ d.write \in Nat
  BY MeaningsAreRopes DEF Configs
<1>2. WriteOf(c, k) = c.write
  BY <1>1 DEF WriteOf
<1>3. e.rope = c.rope /\ d.meaning = c.meaning
  BY <1>2, StatedIsMeant DEF Alike
<1>4. ~Loses(c)
  BY <1>2 DEF Alike
<1>5. c.rope = c.meaning
  BY <1>1, <1>4, RopeIsItsFields DEF Loses, Applies, Shaped
<1> QED BY <1>3, <1>5

LEMMA WriteTellsOwn ==
    ASSUME NEW c \in Configs, NEW n \in Configs, NEW k \in Keys, NEW e, writes \in Nat,
           c.write <= writes, Shaped(c), Rewrites(c, k, n), Applies(c), ~Restates(c, k),
           e.rope = AsFile(c, k)
    PROVE  Tells(e, n)
BY StatedIsMeant DEF Tells

LEMMA SelfIsAlike == ASSUME NEW n \in Configs PROVE Alike(n, n)
BY DEF Alike, Loses

(* The state and what is written of one address.                               *)
LEMMA TracedAt ==
    ASSUME Traced, NEW a \in Addresses, Here(a)
    PROVE  /\ configs[a] \in Configs /\ Shaped(configs[a]) /\ configs[a].write <= writes
           /\ configs[a].write \in Nat /\ writes \in Nat
           /\ \A b \in Addresses : Here(b) => Alike(configs[a], configs[b]) /\ Alike(configs[b], configs[a])
           /\ \A p \in Procs : Tells(env[p], configs[a]) /\ env[p].write <= writes
<1>1. configs[a] \in Configs /\ writes \in Nat
  BY DEF Traced, Inv, Typed, Here
<1>2. Shaped(configs[a]) /\ configs[a].write <= writes /\ configs[a].write \in Nat
  BY <1>1 DEF Traced, Counted, Configs
<1>3. \A b \in Addresses : Here(b) => Alike(configs[a], configs[b]) /\ Alike(configs[b], configs[a])
  BY DEF Traced
<1>4. \A p \in Procs : Tells(env[p], configs[a]) /\ env[p].write <= writes
  BY DEF Traced, Counted
<1> QED BY <1>1, <1>2, <1>3, <1>4

LEMMA WriteTraces ==
    ASSUME Traced, Inv', NEW a \in Addresses, NEW k \in Keys, NEW n \in Configs, Here(a),
           Rewrites(configs[a], k, n), writes' = writes + 1,
           Put(a, n) \/ configs' = configs,
           NEW e \in Entries, e.rope = AsFile(configs[a], k), e.write = WriteOf(configs[a], k),
           \/ env' = env
           \/ env' = [env EXCEPT ![Home[a]] = e] /\ Applies(configs[a]) /\ ~Restates(configs[a], k),
           user' \in [Addresses -> Entries \cup {Unstated}], \A b \in Addresses \ {a} : user'[b] = user[b],
           \/ running' = running /\ ended' = ended /\ Home[a] \in running /\ OnObject(a)'
           \/ running' = running \ {Home[a]} /\ ended' = ended \cup {Home[a]} /\ Home[a] \in running
    PROVE  Traced'
<1> DEFINE c == configs[a]
<1>1. /\ c \in Configs /\ Shaped(c) /\ c.write <= writes /\ c.write \in Nat /\ writes \in Nat
      /\ \A b \in Addresses : Here(b) => Alike(c, configs[b]) /\ Alike(configs[b], c)
      /\ \A p \in Procs : Tells(env[p], c) /\ env[p].write <= writes
  BY TracedAt
<1>2. Shaped(n) /\ n.write <= writes + 1
  BY <1>1, Rewritten
<1>3. e.write <= writes + 1 /\ e.write \in Nat
  BY <1>1 DEF WriteOf
<1>4. /\ \A b \in Addresses \ {a} : configs'[b] = configs[b]
      /\ configs'[a] = n \/ configs' = configs
      /\ Nothing \notin Configs
  BY NothingIsNone DEF Put, Traced, Inv, Typed
<1>5. \A b \in Addresses : Here(b)' => Here(b)
  BY <1>4 DEF Here
<1>6. ASSUME NEW b \in Addresses, Here(b)
      PROVE  /\ configs[b] \in Configs /\ Shaped(configs[b]) /\ configs[b].write <= writes
             /\ configs[b].write \in Nat
  BY <1>6, TracedAt
<1>7. ASSUME NEW p \in Procs PROVE env'[p] = env[p] \/ (env'[p] = e /\ Applies(c) /\ ~Restates(c, k))
  BY DEF Traced
<1>8. env' \in [Procs -> Entries \cup {Unstated}]
  BY FirstAssumption DEF Traced
<1>9. Stopped'
  BY DEF Traced, Stopped
<1>10. Counted'
  <2>1. ASSUME NEW b \in Addresses, Here(b)' PROVE configs'[b].write <= writes'
    <3>1. configs'[b] = configs[b] \/ configs'[b] = n
      BY <1>4
    <3>2. Here(b)
      BY <1>5, <2>1
    <3> QED BY <1>1, <1>2, <1>6, <3>1, <3>2
  <2>2. ASSUME NEW p \in Procs PROVE env'[p].write <= writes'
    <3>1. env[p].write <= writes /\ env[p].write \in Nat
      BY <1>1 DEF Traced, Entries, Unstated
    <3> QED BY <1>1, <1>3, <1>7, <3>1
  <2>3. ASSUME NEW p \in Procs, env'[p] # Unstated, env'[p].write = 0 PROVE env'[p].rope = InFile
    <3>1. CASE env'[p] = env[p]
      BY <2>3, <3>1 DEF Traced, Counted
    <3>2. CASE env'[p] = e /\ Applies(c) /\ ~Restates(c, k)
      <4>1. WriteOf(c, k) = 0
        BY <2>3, <3>2
      <4>2. c.write = 0 /\ WriteOf(c, k) = c.write
        BY <1>1, <4>1 DEF WriteOf
      <4>3. e.rope = c.rope
        BY <1>1, <3>2, <4>2, StatedIsMeant
      <4>4. c.rope = c.meaning /\ c.meaning = InFile
        <5>1. c.rope \in Ropes /\ c.meaning \in Ropes
          BY <1>1, MeaningsAreRopes DEF Configs
        <5> QED BY <1>1, <3>2, <4>2, <5>1, RopeIsItsFields DEF Loses, Applies, Shaped
      <4> QED BY <3>2, <4>3, <4>4
    <3> QED BY <1>7, <3>1, <3>2
  <2> QED BY <2>1, <2>2, <2>3 DEF Counted
<1>11. ASSUME NEW b \in Addresses, Here(b)' PROVE Shaped(configs'[b])
  BY <1>2, <1>4, <1>5, <1>6, <1>11
<1>12. ASSUME NEW b \in Addresses, NEW d \in Addresses, Here(b)', Here(d)'
       PROVE  Alike(configs'[b], configs'[d])
  <2>0. Here(b) /\ Here(d)
    BY <1>5, <1>12
  <2>1. Alike(configs[b], configs[d])
    BY <2>0 DEF Traced
  <2>2. Alike(n, configs[b]) /\ Alike(configs[b], n) /\ Alike(n, configs[d]) /\ Alike(configs[d], n)
    BY <1>1, <1>6, <2>0, WriteIsAlike
  <2>3. Alike(n, n)
    BY SelfIsAlike
  <2>4. configs'[b] \in {configs[b], n} /\ configs'[d] \in {configs[d], n}
    BY <1>4
  <2> QED BY <2>1, <2>2, <2>3, <2>4
<1>13. ASSUME NEW p \in Procs, NEW b \in Addresses, Here(b)'
       PROVE  Tells(env'[p], configs'[b])
  <2>0. Here(b)
    BY <1>5, <1>13
  <2>1. configs'[b] \in {configs[b], n}
    BY <1>4
  <2>2. Tells(env[p], configs[b]) /\ Tells(env[p], n)
    <3>1. Tells(env[p], configs[b])
      BY <2>0, TracedAt
    <3>2. env[p].write <= writes /\ Tells(env[p], c)
      BY <1>1
    <3> HIDE DEF c
    <3> QED BY <1>1, <3>1, <3>2, EntryTellsWrite DEF c
  <2>3. ASSUME Applies(c), ~Restates(c, k) PROVE Tells(e, configs[b]) /\ Tells(e, n)
    <3>1. Alike(c, configs[b])
      BY <1>1, <2>0
    <3>2. Tells(e, configs[b])
      BY <1>1, <1>6, <2>0, <2>3, <3>1, WriteTellsConfig
    <3>3. Tells(e, n)
      BY <1>1, <2>3, WriteTellsOwn
    <3> QED BY <3>2, <3>3
  <2> QED BY <1>7, <2>1, <2>2, <2>3
<1>14. ASSUME NEW b \in Addresses, Home[b] \notin running' \cup ended' PROVE ~Here(b)'
  BY <1>5, <1>14 DEF Traced
<1>15. ASSUME NEW b \in Addresses, Home[b] \notin ended' PROVE OnObject(b)'
  <2>1. CASE b = a
    BY <1>15, <2>1
  <2>2. CASE b # a
    <3>1. OnObject(b) /\ configs'[b] = configs[b] /\ user'[b] = user[b]
      BY <1>4, <1>15, <2>2 DEF Traced
    <3> QED BY <3>1 DEF OnObject, Here
  <2> QED BY <2>1, <2>2
<1> QED BY <1>8, <1>9, <1>10, <1>11, <1>12, <1>13, <1>14, <1>15 DEF Traced


LEMMA WrittenRewrites ==
    ASSUME NEW c \in Configs, NEW k \in Keys, NEW r \in Ropes, NEW said \in BOOLEAN,
           NEW by \in {"none", "own", "copied", "failed"}, writes \in Nat,
           r = AsEngine(c, k) \/ (r = AsFile(c, k) /\ Applies(c) /\ ~Restates(c, k))
    PROVE  /\ Written(c, k, r, said, by) \in Configs /\ Rewrites(c, k, Written(c, k, r, said, by))
           /\ Written(c, k, r, said, by).by = by /\ Written(c, k, r, said, by).rope = r
           /\ Written(c, k, r, said, by).meaning = Means(c.meaning, k)
BY WrittenTyped DEF Rewrites

LEMMA HeldTraced ==
    ASSUME Traced, NEW a \in Addresses, Held(a)
    PROVE  /\ Here(a) /\ Home[a] \in running /\ Home[a] \notin ended /\ OnObject(a)
           /\ configs[a] \in Configs /\ Shaped(configs[a]) /\ writes \in Nat
           /\ configs[a].by \in {"none", "own", "copied", "failed"}
<1>1. Here(a) /\ Home[a] \in running /\ Home[a] \notin ended
  BY DEF Held, Here, Traced, Stopped
<1>2. configs[a] \in Configs
  BY <1>1, TracedAt
<1> QED BY <1>1, <1>2, TracedAt DEF Traced, Configs

(* What declare_on makes of the two records.                                   *)
LEMMA DeclareMakes ==
    ASSUME Traced, NEW a \in Addresses, NEW k \in Keys, Held(a), DeclareOn(a, k)
    PROVE  \E e \in Entries :
              /\ e.rope = AsFile(configs[a], k) /\ e.write = WriteOf(configs[a], k)
              /\ user' = [user EXCEPT ![a] = e]
              /\ user' \in [Addresses -> Entries \cup {Unstated}]
              /\ env' = env \/ env' = [env EXCEPT ![Home[a]] = e]
<1> DEFINE c == configs[a]
           e == [rope |-> AsFile(c, k), write |-> WriteOf(c, k)]
<1>1. c \in Configs /\ writes \in Nat
  BY HeldTraced
<1>2. AsFile(c, k) \in Ropes /\ WriteOf(c, k) \in Nat
  BY <1>1, WriteTyped DEF WriteOf, Configs
<1>3. e \in Entries /\ e.rope = AsFile(c, k) /\ e.write = WriteOf(c, k)
  BY <1>2 DEF Entries
<1>4. user' = [user EXCEPT ![a] = e] /\ (env' = env \/ env' = [env EXCEPT ![Home[a]] = e])
  BY DEF DeclareOn
<1> HIDE DEF e
<1>5. user' \in [Addresses -> Entries \cup {Unstated}]
  BY <1>3, <1>4 DEF Traced
<1> QED BY <1>3, <1>4, <1>5

LEMMA PassTraces ==
    ASSUME Traced, NEW a \in Addresses, NEW k \in Keys, Pass(a, k)
    PROVE  Traced'
<1> DEFINE c == configs[a]
           no == FALSE
           n == Written(c, k, AsEngine(c, k), no, c.by)
           e == [rope |-> AsFile(c, k), write |-> WriteOf(c, k)]
<1>1. /\ Held(a) /\ writes' = writes + 1 /\ (~Applies(c) \/ Restates(c, k))
      /\ user' = user /\ env' = env /\ running' = running /\ ended' = ended
  BY DEF Pass, AWrite, Unheard
<1>2. Put(a, n)
  BY DEF Pass
<1>3. /\ Here(a) /\ Home[a] \in running /\ OnObject(a) /\ c \in Configs /\ Shaped(c) /\ writes \in Nat
      /\ c.by \in {"none", "own", "copied", "failed"}
  BY <1>1, HeldTraced
<1>4. n \in Configs /\ Rewrites(c, k, n) /\ n.by = c.by /\ n.rope = AsEngine(c, k)
      /\ n.meaning = Means(c.meaning, k)
  <2>1. AsEngine(c, k) \in Ropes
    BY <1>3, WriteTyped
  <2>2. no \in BOOLEAN
    OBVIOUS
  <2>3. c.by \in {"none", "own", "copied", "failed"} /\ c \in Configs /\ writes \in Nat
    BY <1>3
  <2> HIDE DEF c, no
  <2> QED BY <2>1, <2>2, <2>3, WrittenRewrites
<1> HIDE DEF n
<1>5. Inv'
  BY PassKeeps DEF Traced
<1>6. e \in Entries /\ e.rope = AsFile(c, k) /\ e.write = WriteOf(c, k)
  BY <1>3, WriteTyped DEF Entries, WriteOf, Configs
<1>7. configs'[a] = n
  BY <1>2 DEF Put, Traced, Inv, Typed
<1>8. OnObject(a)'
  <2>1. ASSUME n.by \in {"none", "copied"} PROVE user'[a] = Unstated
    BY <1>1, <1>3, <1>4, <2>1 DEF OnObject
  <2>2. ASSUME n.by = "own", n.rope = n.meaning PROVE user'[a].rope = n.rope
    <3>1. n.meaning.theta # None
      BY <1>4, RopeAssumption DEF Configs, Meanings
    <3>2. Applies(c)
      <4> SUFFICES ASSUME c.rope.theta = None PROVE FALSE
        BY DEF Applies
      <4>1. AsEngine(c, k).theta = None
        <5>1. CASE k[1] = "rope_theta"
          BY <1>3, <5>1, RopesWritten
        <5>2. CASE k[1] = "rope_scaling"
          BY <1>3, <5>2, RopesWritten
        <5> QED BY <5>1, <5>2, KeyCases
      <4> QED BY <1>4, <2>2, <3>1, <4>1
    <3>3. k[1] = "rope_theta" /\ k[2] = c.meaning.theta
      BY <1>1, <1>3, <3>2, KeyCases DEF Restates, Shaped
    <3>4. n.rope = c.rope
      BY <1>3, <1>4, <3>3, RopesWritten
    <3>5. Means(c.meaning, k) = c.meaning
      BY <1>3, <3>3 DEF Means, Meanings, Configs
    <3> QED BY <1>1, <1>3, <1>4, <2>2, <3>4, <3>5 DEF OnObject
  <2>3. n # Nothing
    BY <1>4, NothingIsNone
  <2> QED BY <1>7, <2>1, <2>2, <2>3 DEF OnObject, Here
<1>9. user' \in [Addresses -> Entries \cup {Unstated}] /\ \A b \in Addresses \ {a} : user'[b] = user[b]
  BY <1>1 DEF Traced
<1> HIDE DEF e
<1> QED BY <1>1, <1>2, <1>3, <1>4, <1>5, <1>6, <1>8, <1>9, WriteTraces

LEMMA DecidedTraces ==
    ASSUME Traced, NEW a \in Addresses, NEW k \in Keys, Decided(a, k)
    PROVE  Traced'
<1> DEFINE c == configs[a]
           verdict == Verdict(<<Fact("user", AsFile(c, k))>>, AsEngine(c, k), setting, TRUE)
           r == IF verdict = "resolved" THEN AsFile(c, k) ELSE AsEngine(c, k)
           said == verdict = "broken"
           n == Written(c, k, r, said, "own")
<1>1. /\ Held(a) /\ writes' = writes + 1 /\ Applies(c) /\ ~Restates(c, k) /\ DeclareOn(a, k)
  BY DEF Decided, AWrite
<1>2. \/ running' = running \ {Home[a]} /\ ended' = ended \cup {Home[a]} /\ configs' = configs
      \/ Put(a, n) /\ running' = running /\ ended' = ended
  BY DEF Decided
<1>3. Here(a) /\ Home[a] \in running /\ OnObject(a) /\ c \in Configs /\ Shaped(c) /\ writes \in Nat
  BY <1>1, HeldTraced
<1>4. PICK e \in Entries :
         /\ e.rope = AsFile(c, k) /\ e.write = WriteOf(c, k)
         /\ user' = [user EXCEPT ![a] = e]
         /\ user' \in [Addresses -> Entries \cup {Unstated}]
         /\ env' = env \/ env' = [env EXCEPT ![Home[a]] = e]
  BY <1>1, DeclareMakes
<1>5. n \in Configs /\ Rewrites(c, k, n) /\ n.by = "own" /\ n.rope = r /\ n.meaning = Means(c.meaning, k)
  <2>1. r \in Ropes /\ said \in BOOLEAN /\ (r = AsEngine(c, k) \/ r = AsFile(c, k))
    BY <1>3, WriteTyped
  <2>2. c \in Configs /\ writes \in Nat /\ Applies(c) /\ ~Restates(c, k)
        /\ "own" \in {"none", "own", "copied", "failed"}
    BY <1>1, <1>3
  <2> HIDE DEF c, verdict, r, said
  <2> QED BY <2>1, <2>2, WrittenRewrites
<1> HIDE DEF n, verdict
<1>6. Inv'
  BY DecidedKeeps DEF Traced
<1>7. \A b \in Addresses \ {a} : user'[b] = user[b]
  BY <1>4
<1>8. ASSUME Put(a, n) PROVE OnObject(a)'
  <2>1. configs'[a] = n /\ user'[a] = e
    BY <1>4, <1>8 DEF Put, Traced, Inv, Typed
  <2>2. n # Nothing
    BY <1>5, NothingIsNone
  <2>3. c.write <= writes
    BY <1>3, TracedAt
  <2>4. n.rope = n.meaning => e.rope = n.rope
    BY <1>1, <1>3, <1>4, <1>5, <2>3, StatedIsMeant
  <2> QED BY <1>5, <2>1, <2>2, <2>4 DEF OnObject, Here
<1>9. CASE Put(a, n) /\ running' = running /\ ended' = ended
  BY <1>1, <1>3, <1>4, <1>5, <1>6, <1>7, <1>8, <1>9, WriteTraces
<1>10. CASE running' = running \ {Home[a]} /\ ended' = ended \cup {Home[a]} /\ configs' = configs
  BY <1>1, <1>3, <1>4, <1>5, <1>6, <1>7, <1>10, WriteTraces
<1> QED BY <1>2, <1>9, <1>10

LEMMA FailedTraces ==
    ASSUME Traced, NEW a \in Addresses, NEW k \in Keys, Failed(a, k)
    PROVE  Traced'
<1> DEFINE c == configs[a]
           yes == TRUE
           n == Written(c, k, AsEngine(c, k), yes, "failed")
           d == [rope |-> AsFile(c, k), write |-> WriteOf(c, k)]
<1>1. /\ Held(a) /\ writes' = writes + 1 /\ Applies(c) /\ ~Restates(c, k)
      /\ Unheard \/ DeclareOn(a, k)
      /\ running' = running /\ ended' = ended
  BY DEF Failed, AWrite
<1>2. Put(a, n)
  BY DEF Failed
<1>3. Here(a) /\ Home[a] \in running /\ OnObject(a) /\ c \in Configs /\ Shaped(c) /\ writes \in Nat
  BY <1>1, HeldTraced
<1>4. PICK e \in Entries :
         /\ e.rope = AsFile(c, k) /\ e.write = WriteOf(c, k)
         /\ user' = [user EXCEPT ![a] = e] \/ user' = user
         /\ user' \in [Addresses -> Entries \cup {Unstated}]
         /\ env' = env \/ env' = [env EXCEPT ![Home[a]] = e]
  <2>1. CASE Unheard
    <3>1. d \in Entries /\ d.rope = AsFile(c, k) /\ d.write = WriteOf(c, k)
      BY <1>3, WriteTyped DEF Entries, WriteOf, Configs
    <3> HIDE DEF d
    <3> QED BY <2>1, <3>1 DEF Unheard, Traced
  <2>2. CASE DeclareOn(a, k)
    BY <1>1, <2>2, DeclareMakes
  <2> QED BY <1>1, <2>1, <2>2
<1>5. n \in Configs /\ Rewrites(c, k, n) /\ n.by = "failed"
  <2>1. AsEngine(c, k) \in Ropes /\ yes \in BOOLEAN /\ "failed" \in {"none", "own", "copied", "failed"}
    BY <1>3, WriteTyped
  <2> HIDE DEF c, yes
  <2> QED BY <1>3, <2>1, WrittenRewrites
<1> HIDE DEF n
<1>6. Inv'
  BY FailedKeeps DEF Traced
<1>7. \A b \in Addresses \ {a} : user'[b] = user[b]
  BY <1>4
<1>8. OnObject(a)'
  <2>1. configs'[a] = n
    BY <1>2 DEF Put, Traced, Inv, Typed
  <2>2. n # Nothing
    BY <1>5, NothingIsNone
  <2> QED BY <1>5, <2>1, <2>2 DEF OnObject, Here
<1> QED BY <1>1, <1>2, <1>3, <1>4, <1>5, <1>6, <1>7, <1>8, WriteTraces


(* A config comes to a free address: built, or a copy of another.               *)
LEMMA PlaceTraces ==
    ASSUME Traced, Inv', NEW a \in Addresses, Free(a), NEW d \in Configs, Put(a, d),
           Shaped(d), d.write <= writes, d.by # "own",
           \A b \in Addresses : Here(b) => Alike(d, configs[b]) /\ Alike(configs[b], d),
           \A p \in Procs : Tells(env[p], d),
           UNCHANGED <<running, ended, env, user, writes>>
    PROVE  Traced'
<1>1. configs'[a] = d /\ \A b \in Addresses \ {a} : configs'[b] = configs[b]
  BY DEF Put, Traced, Inv, Typed
<1>2. Home[a] \in running /\ Home[a] \notin ended /\ ~Here(a)
  BY DEF Free, Here, Traced, Stopped
<1>3. user[a] = Unstated
  BY <1>2 DEF Traced, OnObject
<1>4. \A b \in Addresses : Here(b)' => (b = a /\ configs'[b] = d) \/ (Here(b) /\ configs'[b] = configs[b])
  BY <1>1 DEF Here
<1>5. ASSUME NEW b \in Addresses, NEW g \in Addresses, Here(b)', Here(g)'
      PROVE  Alike(configs'[b], configs'[g])
  <2>1. Alike(d, d)
    BY SelfIsAlike
  <2>2. Here(b) /\ Here(g) => Alike(configs[b], configs[g])
    BY DEF Traced
  <2> QED BY <1>4, <1>5, <2>1, <2>2
<1>6. ASSUME NEW p \in Procs, NEW b \in Addresses, Here(b)'
      PROVE  Tells(env'[p], configs'[b])
  <2>1. Here(b) => Tells(env[p], configs[b])
    BY DEF Traced
  <2>2. env'[p] = env[p]
    OBVIOUS
  <2> QED BY <1>4, <1>6, <2>1, <2>2
<1>7. ASSUME NEW b \in Addresses, Here(b)' PROVE Shaped(configs'[b]) /\ configs'[b].write <= writes'
  BY <1>4, <1>7 DEF Traced, Counted
<1>8. Counted'
  BY <1>7 DEF Counted, Traced
<1>9. ASSUME NEW b \in Addresses, Home[b] \notin running' \cup ended' PROVE ~Here(b)'
  BY <1>1, <1>2, <1>9 DEF Traced, Here
<1>10. ASSUME NEW b \in Addresses, Home[b] \notin ended' PROVE OnObject(b)'
  <2>1. CASE b = a
    BY <1>1, <1>3, <2>1 DEF OnObject
  <2>2. CASE b # a
    BY <1>1, <1>10, <2>2 DEF OnObject, Here, Traced
  <2> QED BY <2>1, <2>2
<1> QED BY <1>5, <1>6, <1>7, <1>8, <1>9, <1>10 DEF Traced, Stopped

LEMMA BuildTraces ==
    ASSUME Traced, NEW a \in Addresses, NEW at \in {"folder", "code"}, Build(a, at)
    PROVE  Traced'
<1> DEFINE d == Config(at)
<1>1. d \in Configs /\ d.by = "none" /\ d.write = 0 /\ d.rope = InFile /\ d.meaning = InFile /\ d.attr = None
  BY MeaningsAreRopes DEF Config, Configs
<1>2. Free(a) /\ Put(a, d) /\ UNCHANGED <<running, ended, env, user, writes>>
  BY DEF Build
<1> HIDE DEF d
<1>3. Shaped(d) /\ ~Loses(d)
  BY <1>1 DEF Shaped, Loses
<1>4. ASSUME NEW b \in Addresses, Here(b) PROVE Alike(d, configs[b]) /\ Alike(configs[b], d)
  <2>1. Shaped(configs[b])
    BY <1>4, TracedAt
  <2> QED BY <1>1, <1>3, <2>1 DEF Alike, Shaped
<1>5. ASSUME NEW p \in Procs PROVE Tells(env[p], d)
  BY <1>1 DEF Tells, Traced, Counted
<1>6. Inv' /\ writes \in Nat
  BY BuildKeeps DEF Traced, Inv, Typed
<1>7. d.write <= writes
  BY <1>1, <1>6
<1> QED BY <1>1, <1>2, <1>3, <1>4, <1>5, <1>6, <1>7, PlaceTraces

LEMMA SendTraces ==
    ASSUME Traced, NEW a \in Addresses, NEW b \in Addresses, Send(a, b)
    PROVE  Traced'
<1> DEFINE c == configs[a]
           d == [c EXCEPT !.by = IF @ = "own" THEN "copied" ELSE @]
<1>1. Held(a) /\ Free(b) /\ Put(b, d) /\ UNCHANGED <<running, ended, env, user, writes>>
  BY DEF Send
<1>2. Here(a) /\ c \in Configs /\ Shaped(c)
  BY <1>1, HeldTraced
<1>3. /\ d \in Configs /\ d.by # "own" /\ d.write = c.write /\ d.rope = c.rope /\ d.meaning = c.meaning
      /\ d.attr = c.attr
  BY <1>2 DEF Configs
<1> HIDE DEF d
<1>4. c.write <= writes /\ (\A p \in Procs : Tells(env[p], c))
      /\ \A g \in Addresses : Here(g) => Alike(c, configs[g]) /\ Alike(configs[g], c)
  BY <1>2, TracedAt
<1> HIDE DEF c
<1>5. Shaped(d)
  BY <1>2, <1>3 DEF Shaped, Loses
<1>6. ASSUME NEW g \in Addresses, Here(g) PROVE Alike(d, configs[g]) /\ Alike(configs[g], d)
  BY <1>3, <1>4, <1>6 DEF Alike, Loses
<1>7. ASSUME NEW p \in Procs PROVE Tells(env[p], d)
  BY <1>3, <1>4 DEF Tells
<1>8. Inv'
  BY SendKeeps DEF Traced
<1> QED BY <1>1, <1>3, <1>4, <1>5, <1>6, <1>7, <1>8, PlaceTraces

LEMMA CollectTraces ==
    ASSUME Traced, NEW a \in Addresses, Collect(a)
    PROVE  Traced'
<1>1. /\ configs' = [configs EXCEPT ![a] = Nothing] /\ user' = [user EXCEPT ![a] = Unstated]
      /\ Held(a) /\ UNCHANGED <<running, ended, env, writes>>
  BY DEF Collect, Put, Forgotten
<1>2. Inv'
  BY <1>1, PutKeeps DEF Collect, Traced, Inv, Typed
<1>3. \A b \in Addresses : Here(b)' => b # a /\ Here(b) /\ configs'[b] = configs[b] /\ user'[b] = user[b]
  BY <1>1 DEF Here, Traced, Inv, Typed
<1>4. ~Here(a)' /\ user'[a] = Unstated
  BY <1>1 DEF Here, Traced, Inv, Typed
<1>5. user' \in [Addresses -> Entries \cup {Unstated}]
  BY <1>1 DEF Traced
<1>6. ASSUME NEW b \in Addresses, Home[b] \notin ended' PROVE OnObject(b)'
  <2>1. CASE b = a
    BY <1>4, <2>1 DEF OnObject
  <2>2. CASE b # a
    BY <1>1, <1>6, <2>2 DEF OnObject, Here, Traced, Inv, Typed
  <2> QED BY <2>1, <2>2
<1>7. Counted'
  BY <1>1, <1>3 DEF Counted, Traced
<1>8. \A b \in Addresses : Here(b)' => Shaped(configs'[b])
  BY <1>3 DEF Traced
<1>9. \A b, g \in Addresses : Here(b)' /\ Here(g)' => Alike(configs'[b], configs'[g])
  BY <1>3 DEF Traced
<1>10. \A p \in Procs : \A b \in Addresses : Here(b)' => Tells(env'[p], configs'[b])
  BY <1>1, <1>3 DEF Traced
<1>11. \A b \in Addresses : Home[b] \notin running' \cup ended' => ~Here(b)'
  BY <1>1, <1>3 DEF Traced
<1>12. Stopped' /\ env' \in [Procs -> Entries \cup {Unstated}]
  BY <1>1 DEF Traced, Stopped
<1> QED BY <1>2, <1>5, <1>6, <1>7, <1>8, <1>9, <1>10, <1>11, <1>12 DEF Traced

(* Configs, writes and records as they were.                                   *)
LEMMA SpawnTraces ==
    ASSUME Traced, NEW p \in Procs, NEW q \in Procs, Spawn(p, q)
    PROVE  Traced'
<1>1. /\ env' = [env EXCEPT ![q] = env[p]] /\ running' = running \cup {q} /\ q \notin running \cup ended
      /\ UNCHANGED <<ended, user, configs, writes>>
  BY DEF Spawn
<1>2. Inv'
  BY <1>1, SameKeeps DEF Traced, Inv, Typed
<1>3. ASSUME NEW r \in Procs PROVE \E s \in Procs : env'[r] = env[s]
  BY <1>1 DEF Traced
<1>4. Counted'
  BY <1>1, <1>3 DEF Counted, Traced, Here
<1>5. ASSUME NEW r \in Procs, NEW a \in Addresses, Here(a)' PROVE Tells(env'[r], configs'[a])
  <2>1. PICK s \in Procs : env'[r] = env[s]
    BY <1>3
  <2>2. Here(a) /\ configs'[a] = configs[a]
    BY <1>1, <1>5 DEF Here
  <2> QED BY <2>1, <2>2 DEF Traced
<1>6. \A a \in Addresses : Home[a] \notin ended' => OnObject(a)'
  BY <1>1 DEF Traced, OnObject, Here
<1>7. env' \in [Procs -> Entries \cup {Unstated}]
  BY <1>1 DEF Traced
<1>8. Stopped' /\ \A a \in Addresses : Home[a] \notin running' \cup ended' => ~Here(a)'
  BY <1>1 DEF Traced, Stopped, Here
<1>9. \A a \in Addresses : Here(a)' => Shaped(configs'[a])
  BY <1>1 DEF Traced, Here
<1>10. \A a, b \in Addresses : Here(a)' /\ Here(b)' => Alike(configs'[a], configs'[b])
  BY <1>1 DEF Traced, Here
<1> QED BY <1>1, <1>2, <1>4, <1>5, <1>6, <1>7, <1>8, <1>9, <1>10 DEF Traced

LEMMA StandTraces ==
    ASSUME Traced, UNCHANGED <<env, user, configs, writes>>,
           \/ UNCHANGED <<running, ended>>
           \/ \E a \in Addresses : /\ Home[a] \in running
                                   /\ running' = running \ {Home[a]} /\ ended' = ended \cup {Home[a]}
    PROVE  Traced'
<1>1. Inv'
  BY SameKeeps DEF Traced, Inv, Typed
<1>2. Counted' /\ Stopped'
  BY DEF Counted, Stopped, Traced, Here
<1>3. \A a \in Addresses : Home[a] \notin ended' => OnObject(a)'
  BY DEF Traced, OnObject, Here
<1>4. \A a \in Addresses : Home[a] \notin running' \cup ended' => ~Here(a)'
  BY DEF Traced, Here
<1>5. \A a \in Addresses : Here(a)' => Shaped(configs'[a])
  BY DEF Traced, Here
<1>6. \A a, b \in Addresses : Here(a)' /\ Here(b)' => Alike(configs'[a], configs'[b])
  BY DEF Traced, Here
<1>7. \A p \in Procs : \A a \in Addresses : Here(a)' => Tells(env'[p], configs'[a])
  BY DEF Traced, Here
<1> QED BY <1>1, <1>2, <1>3, <1>4, <1>5, <1>6, <1>7 DEF Traced

LEMMA NextTraces == Traced /\ [Next]_vars => Traced'
<1> SUFFICES ASSUME Traced, [Next]_vars PROVE Traced'
  OBVIOUS
<1>1. ASSUME NEW p \in Procs, NEW q \in Procs, Spawn(p, q) PROVE Traced'
  BY <1>1, SpawnTraces
<1>2. ASSUME NEW a \in Addresses, NEW at \in {"folder", "code"}, Build(a, at) PROVE Traced'
  BY <1>2, BuildTraces
<1>3. ASSUME NEW a \in Addresses, NEW b \in Addresses, Send(a, b) PROVE Traced'
  BY <1>3, SendTraces
<1>4. ASSUME NEW a \in Addresses, NEW k \in Keys, Pass(a, k) PROVE Traced'
  BY <1>4, PassTraces
<1>5. ASSUME NEW a \in Addresses, NEW k \in Keys, Decided(a, k) PROVE Traced'
  BY <1>5, DecidedTraces
<1>6. ASSUME NEW a \in Addresses, NEW k \in Keys, Failed(a, k) PROVE Traced'
  BY <1>6, FailedTraces
<1>7. ASSUME NEW a \in Addresses, Collect(a) PROVE Traced'
  BY <1>7, CollectTraces
<1>8. ASSUME NEW a \in Addresses, Load(a) PROVE Traced'
  BY <1>8, StandTraces DEF Load, Held
<1>9. CASE UNCHANGED vars
  BY <1>9, StandTraces DEF vars
<1> QED BY <1>1, <1>2, <1>3, <1>4, <1>5, <1>6, <1>7, <1>8, <1>9 DEF Next

LEMMA AlwaysTraced == Spec => []Traced
BY InitTraced, NextTraces, PTL DEF Spec


-----------------------------------------------------------------------------
(* The best of the candidates, where it states every field, is what is picked.  *)
LEMMA RankIsNat == ASSUME NEW fact PROVE Rank(fact) \in Nat
<1>1. Len(Precedence) \in Nat /\ DOMAIN Precedence \subseteq Nat
  BY PrecedenceAssumption
<1> QED BY <1>1 DEF Rank

LEMMA UserBeforeFiles ==
    ASSUME NEW v, NEW w, NEW kind \in {"file", "config"}
    PROVE  /\ Rank(Fact("user", v)) < Rank(Fact(kind, w))
           /\ Rank(Fact("user", v)) = Rank(Fact("user", w))
<1>1. Fact("user", v).kind = "user" /\ Fact("user", w).kind = "user" /\ Fact("user", None).kind = "user"
  BY DEF Fact
<1>2. Fact(kind, w).kind = kind /\ Fact(kind, None).kind = kind
  BY DEF Fact
<1>3. Rank(Fact("user", v)) = Rank(Fact("user", None)) /\ Rank(Fact("user", w)) = Rank(Fact("user", None))
  BY <1>1 DEF Rank
<1>4. Rank(Fact(kind, w)) = Rank(Fact(kind, None))
  BY <1>2 DEF Rank
<1> QED BY <1>3, <1>4, PrecedenceAssumption

Leads(facts, b) ==
    \A j \in DOMAIN facts :
        Rank(facts[b]) < Rank(facts[j]) \/ (Rank(facts[b]) = Rank(facts[j]) /\ b <= j)

LEMMA LeaderIsBest ==
    ASSUME NEW facts, DOMAIN facts \subseteq Nat, NEW b \in DOMAIN facts, Leads(facts, b),
           NEW S \in SUBSET DOMAIN facts, b \in S
    PROVE  Best(facts, S) = b
<1>1. \A i \in S : Rank(facts[i]) \in Nat /\ i \in Nat
  BY RankIsNat
<1>2. ASSUME NEW i \in S,
             \A j \in S : Rank(facts[i]) < Rank(facts[j]) \/ (Rank(facts[i]) = Rank(facts[j]) /\ i <= j)
      PROVE  i = b
  BY <1>1, <1>2 DEF Leads
<1>3. \A j \in S : Rank(facts[b]) < Rank(facts[j]) \/ (Rank(facts[b]) = Rank(facts[j]) /\ b <= j)
  BY DEF Leads
<1> QED BY <1>2, <1>3 DEF Best

LEMMA LeaderIsPicked ==
    ASSUME NEW facts, DOMAIN facts \subseteq Nat, 1 \in DOMAIN facts,
           \A i \in DOMAIN facts : facts[i].value \in Ropes,
           NEW b \in DOMAIN facts, Leads(facts, b), facts[b].value.theta # None
    PROVE  Pick(facts) = facts[b].value
<1> DEFINE d == facts[b].value
<1>1. d \in Ropes /\ DOMAIN d = {"scaling", "theta"} /\ d.scaling # None /\ facts[1].value \in Ropes
      /\ DOMAIN facts[1].value = {"scaling", "theta"}
  BY RopeAssumption DEF Ropes
<1>2. Best(facts, DOMAIN facts) = b
  BY LeaderIsBest
<1>3. ASSUME NEW f \in {"scaling", "theta"}
      PROVE  Combined(facts)[f] = d[f]
  <2> DEFINE filling == {i \in DOMAIN facts : facts[i].value[f] # None}
  <2>1. b \in filling
    BY <1>1
  <2>2. Best(facts, filling) = b
    BY <2>1, LeaderIsBest
  <2> QED BY <1>1, <2>1, <2>2 DEF Combined
<1>4. Combined(facts) = d
  <2>1. Combined(facts) = [f \in {"scaling", "theta"} |-> Combined(facts)[f]]
    BY <1>1 DEF Combined
  <2>2. d = [f \in {"scaling", "theta"} |-> d[f]]
    BY <1>1 DEF Ropes
  <2> QED BY <1>3, <2>1, <2>2
<1> QED BY <1>2, <1>4 DEF Pick

(* A load of a config that is as meant, and that its declarations can reach, is *)
(* not called broken.                                                          *)
LEMMA MeantIsPicked ==
    ASSUME Traced, NEW a \in Addresses, Held(a), Told(a), configs[a].rope = configs[a].meaning
    PROVE  Pick(Declared(a)) = configs[a].rope
<1> DEFINE c == configs[a]
           e == env[Home[a]]
<1>1. /\ c \in Configs /\ OnObject(a) /\ Here(a) /\ c.by # "failed" /\ c.rope = c.meaning
      /\ c.by \in {"none", "own", "copied", "failed"} /\ c.at \in {"folder", "code"} /\ Shaped(c)
  BY HeldTraced DEF Told, Configs
<1>2. /\ c.rope \in Ropes /\ c.rope.theta # None /\ InFile \in Ropes /\ InFile.theta # None
  BY <1>1, MeaningsAreRopes, RopeAssumption DEF Configs, Meanings
<1>3. Home[a] \in Procs /\ e \in Entries \cup {Unstated} /\ user[a] \in Entries \cup {Unstated}
  BY FirstAssumption DEF Traced
<1>4. CASE c.by = "own"
  <2>1. user[a].rope = c.rope
    BY <1>1, <1>4 DEF OnObject
  <2>2. user[a] # Unstated
    BY <1>2, <2>1, RopeAssumption DEF Unstated
  <2>3. Stated(user[a]) = <<Fact("user", c.rope)>>
    BY <2>1, <2>2 DEF Stated
  <2>4. PICK kind \in {"file", "config"}, v \in Ropes, rest \in {<<>>, <<Fact("user", e.rope)>>} :
           /\ Declared(a) = <<Fact(kind, v)>> \o <<Fact("user", c.rope)>> \o rest
           /\ rest # <<>> => e # Unstated
    <3>1. CASE c.at = "folder"
      <4>1. Stated(e) = <<>> \/ (Stated(e) = <<Fact("user", e.rope)>> /\ e # Unstated)
        BY DEF Stated
      <4> QED BY <1>2, <2>3, <3>1, <4>1 DEF Declared
    <3>2. CASE c.at = "code"
      <4>1. Declared(a) = <<Fact("config", c.rope)>> \o <<Fact("user", c.rope)>> \o <<>>
        BY <2>3, <3>2 DEF Declared
      <4> QED BY <1>2, <4>1
    <3> QED BY <1>1, <3>1, <3>2
  <2> DEFINE facts == Declared(a)
  <2>5. /\ DOMAIN facts \in {1..2, 1..3}
        /\ facts[1] = Fact(kind, v) /\ facts[2] = Fact("user", c.rope)
        /\ 3 \in DOMAIN facts => facts[3] = Fact("user", e.rope) /\ e # Unstated
    <3>1. CASE rest = <<>>
      BY <2>4, <3>1
    <3>2. CASE rest # <<>>
      BY <2>4, <3>2
    <3> QED BY <3>1, <3>2
  <2> HIDE DEF facts
  <2>6. Leads(facts, 2)
    <3>1. Rank(facts[2]) < Rank(facts[1])
      BY <2>5, UserBeforeFiles
    <3>2. 3 \in DOMAIN facts => Rank(facts[2]) = Rank(facts[3])
      BY <2>5, UserBeforeFiles
    <3> QED BY <2>5, <3>1, <3>2 DEF Leads
  <2>7. \A i \in DOMAIN facts : facts[i].value \in Ropes
    BY <1>2, <1>3, <2>5 DEF Fact, Entries
  <2>8. 2 \in DOMAIN facts /\ 1 \in DOMAIN facts /\ DOMAIN facts \subseteq Nat /\ facts[2].value = c.rope
    BY <2>5 DEF Fact
  <2> QED BY <1>2, <2>6, <2>7, <2>8, LeaderIsPicked DEF facts
<1>5. CASE c.by # "own"
  <2>1. user[a] = Unstated /\ Stated(user[a]) = <<>>
    BY <1>1, <1>5 DEF OnObject, Stated
  <2>2. CASE c.at = "code"
    <3>1. Declared(a) = <<Fact("config", c.rope)>>
      BY <2>1, <2>2 DEF Declared
    <3> QED BY <1>2, <3>1, OneFact
  <2>3. CASE c.at = "folder" /\ e = Unstated
    <3>1. Declared(a) = <<Fact("file", InFile)>>
      BY <2>1, <2>3 DEF Declared, Stated
    <3>2. c.write = 0
      BY <1>5, <2>3 DEF Told, Unstated
    <3>3. c.rope = InFile
      BY <1>1, <3>2 DEF Shaped
    <3> QED BY <1>2, <3>1, <3>3, OneFact
  <2>4. CASE c.at = "folder" /\ e # Unstated
    <3>1. e.write = c.write
      BY <1>5, <2>4 DEF Told
    <3>2. e.rope = c.rope
      BY <1>1, <1>3, <2>4, <3>1 DEF Traced, Tells
    <3> DEFINE facts == Declared(a)
    <3>3. facts = <<Fact("file", InFile)>> \o <<>> \o <<Fact("user", c.rope)>>
      BY <2>1, <2>4, <3>2 DEF Declared, Stated
    <3>4. DOMAIN facts = 1..2 /\ facts[1] = Fact("file", InFile) /\ facts[2] = Fact("user", c.rope)
      BY <3>3
    <3> HIDE DEF facts
    <3>5. Leads(facts, 2)
      BY <3>4, UserBeforeFiles DEF Leads
    <3>6. \A i \in DOMAIN facts : facts[i].value \in Ropes
      BY <1>2, <3>4 DEF Fact
    <3>7. 2 \in DOMAIN facts /\ 1 \in DOMAIN facts /\ DOMAIN facts \subseteq Nat /\ facts[2].value = c.rope
      BY <3>4 DEF Fact
    <3> QED BY <1>2, <3>5, <3>6, <3>7, LeaderIsPicked DEF facts
  <2> QED BY <1>1, <2>2, <2>3, <2>4
<1> QED BY <1>4, <1>5

(* A load called broken has another RoPE than its user meant, for any writes,    *)
(* copies, processes and policies, as long as the last write's declaration can    *)
(* reach it (Told; declare_on, declared).                                        *)
THEOREM BreaksAreReal == Spec => []NoFalseBreak
<1>1. ASSUME Traced, NEW a \in Addresses, Held(a), Told(a), LoadSays(a) \in {"broken", "refused"}
      PROVE  configs[a].rope # configs[a].meaning
  <2> SUFFICES ASSUME configs[a].rope = configs[a].meaning PROVE FALSE
    OBVIOUS
  <2>1. Pick(Declared(a)) = configs[a].rope
    BY <1>1, MeantIsPicked
  <2>2. Agrees(configs[a].rope, configs[a].rope)
    BY DEF Agrees
  <2> QED BY <1>1, <2>1, <2>2 DEF LoadSays, Verdict
<1>2. Traced => NoFalseBreak
  BY <1>1 DEF NoFalseBreak
<1> QED BY <1>2, AlwaysTraced, PTL
=============================================================================
