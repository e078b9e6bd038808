----------------------- MODULE GuaranteeReplay_proofs -----------------------
(* What holds of the guarantee profile's eager calls for every number of      *)
(* buffers, weights, issues, faults and mishaps, and of the replays of a       *)
(* captured graph for any number of gates and replays, under every plan.       *)
EXTENDS GuaranteeReplay, SequenceTheorems, TLAPS

-----------------------------------------------------------------------------
(* Types. *)

Issued == [place : Places, fault : Faults \cup {"none"}]
Calls ==
    [a : 0..MaxIssues, w : 0..MaxIssues, repaired : BOOLEAN, near : BOOLEAN,
     path : {"kernel", "reference"}, viol : BOOLEAN, clean : BOOLEAN, blind : BOOLEAN]
Gifts ==
    [outcome : {"none", "normal", "repaired", "kernel", "reference", "blocked"},
     right : BOOLEAN, excused : BOOLEAN, sound : BOOLEAN]

LEMMA NoCallType == NoCall \in Calls
BY BoundAssumption DEF NoCall, Calls

LEMMA NothingType == Nothing \in Gifts
BY DEF Nothing, Gifts

(* A handle names an issue that was made, and its bytes a cell.              *)
LEMMA HandleType ==
    ASSUME TypeOK, NEW h \in Handles
    PROVE  /\ h[1] \in 1..Len(issue) /\ h[2] \in Parts /\ h = <<h[1], h[2]>>
           /\ h \in Serials \X Parts
           /\ Place(h) \in Places /\ Cell(h) \in Cells
<1>1. h[1] \in 1..Len(issue) /\ h[2] \in Parts /\ h = <<h[1], h[2]>>
  BY DEF Handles
<1>2. issue \in Seq(Issued) /\ Len(issue) \in Nat /\ Len(issue) <= MaxIssues
  BY DEF TypeOK, Issued
<1>3. issue[h[1]] \in Issued
  BY <1>1, <1>2
<1>4. h[1] \in Serials
  BY <1>1, <1>2, BoundAssumption DEF Serials
<1>5. Place(h) \in Places
  BY <1>3 DEF Place, Issued
<1> QED BY <1>1, <1>4, <1>5 DEF Cell, Cells

LEMMA BothType ==
    ASSUME TypeOK, NEW n \in 1..Len(issue)
    PROVE  Both(n) \subseteq Handles /\ Both(n) \subseteq Serials \X Parts /\ n \in Serials
<1>1. Len(issue) \in Nat /\ Len(issue) <= MaxIssues
  BY DEF TypeOK
<1>2. n \in Serials
  BY <1>1, BoundAssumption DEF Serials
<1> QED BY <1>2 DEF Both, Handles

LEMMA InitType == Init => TypeOK
<1> SUFFICES ASSUME Init PROVE TypeOK
  OBVIOUS
<1>1. issue \in Seq(Issued) /\ Len(issue) = 0
  BY DEF Init
<1> QED BY <1>1, NoCallType, NothingType, BoundAssumption
        DEF Init, TypeOK, Issued, Calls, Gifts, Cells

LEMMA IssueType ==
    ASSUME TypeOK, NEW p \in Places, Issue(p)
    PROVE  TypeOK'
<1> DEFINE n == Len(issue) + 1
<1>1. issue \in Seq(Issued) /\ Len(issue) \in Nat /\ n <= MaxIssues
  BY DEF TypeOK, Issued, Issue
<1>2. n \in Serials /\ n \in 0..MaxIssues
  BY <1>1, BoundAssumption DEF Serials
<1>3. PICK fault \in Faults \cup {"none"} :
          /\ issue' = Append(issue, [place |-> p, fault |-> fault])
          /\ IF fault = "none" THEN UNCHANGED trouble ELSE Mishap
  BY DEF Issue
<1>4. issue' \in Seq(Issued) /\ Len(issue') = n
  BY <1>1, <1>3 DEF Issued
<1>5. trouble' \in 0..MaxTrouble
  BY <1>3, BoundAssumption DEF TypeOK, Mishap
<1>6. Made(n, p)
  BY DEF Issue
<1>7. latest' \in [Places -> 0..MaxIssues]
  BY <1>2, <1>6 DEF Made, TypeOK
<1>8. /\ content' \in [Cells -> 0..MaxIssues]
      /\ spoiler' \in [Cells -> Writers \cup {"none", "race"}]
  BY <1>2, <1>6 DEF Made, TypeOK
<1>9. ranges' = Registered(n, p)
  BY DEF Issue
<1>10. ranges' \subseteq Serials \X Parts
  BY <1>2, <1>9 DEF Registered, TypeOK, Both
<1> HIDE DEF n
<1> QED BY <1>1, <1>4, <1>5, <1>7, <1>8, <1>10 DEF Issue, TypeOK, Issued

LEMMA CollectType ==
    ASSUME TypeOK, NEW h \in Handles, Collect(h)
    PROVE  TypeOK'
BY HandleType, BoundAssumption DEF Collect, Mishap, Released, TypeOK

LEMMA WriteType ==
    ASSUME TypeOK, NEW c \in Cells, NEW x \in Writers, Write(c, x)
    PROVE  TypeOK'
<1>1. c[1] \in Places /\ c[2] \in Parts
  BY DEF Cells
<1>2. latest[c[1]] \in Serials
  BY <1>1, BoundAssumption DEF Write, MayWrite, TypeOK, Serials
<1>3. rewritten' \subseteq Serials \X Parts
  BY <1>1, <1>2 DEF Write, Versions, TypeOK
<1>4. trouble' \in 0..MaxTrouble
  BY BoundAssumption DEF Write, MayWrite, Mishap, TypeOK
<1>5. /\ content' \in [Cells -> 0..MaxIssues]
      /\ spoiler' \in [Cells -> Writers \cup {"none", "race"}]
  BY BoundAssumption DEF Write, TypeOK
<1> QED BY <1>3, <1>4, <1>5 DEF Write, TypeOK

LEMMA RefuseWriteType ==
    ASSUME TypeOK, NEW c \in Cells, NEW x \in Writers, RefuseWrite(c, x)
    PROVE  TypeOK'
<1>1. trouble' \in 0..MaxTrouble
  BY BoundAssumption DEF RefuseWrite, MayWrite, Mishap, TypeOK
<1>2. given' \in Gifts
  BY DEF RefuseWrite, Gifts
<1> QED BY <1>1, <1>2 DEF RefuseWrite, memory, TypeOK, Gifts

LEMMA BlockType ==
    ASSUME NEW sound \in BOOLEAN, Block(sound) \/ Stop(sound)
    PROVE  given' \in Gifts /\ call' \in Calls /\ pc' \in {"idle", "stopped"}
<1>1. given' = [outcome |-> "blocked", right |-> TRUE, excused |-> FALSE, sound |-> sound]
  BY DEF Block, Stop
<1>2. given' \in Gifts
  BY <1>1 DEF Gifts
<1> QED BY <1>2, NoCallType DEF Block, Stop

LEMMA DeliverType ==
    ASSUME NEW o \in {"normal", "repaired", "kernel", "reference"}, NEW right \in BOOLEAN,
           NEW excused \in BOOLEAN, Deliver(o, right, excused)
    PROVE  given' \in Gifts /\ call' \in Calls /\ pc' = "idle"
BY NoCallType DEF Deliver, Gifts

(* What the gate lets in: the operands of the call are two issues.           *)
LEMMA AdmittedHandles ==
    ASSUME TypeOK, NEW a \in Operands, NEW w \in Operands,
           NEW aPaired \in BOOLEAN, NEW wPaired \in BOOLEAN, ~Objected(a, aPaired, w, wPaired)
    PROVE  a \in Handles \ gone /\ w \in Handles \ gone
BY DEF Objected, Operands

LEMMA EnterType ==
    ASSUME TypeOK, NEW a \in Operands, NEW w \in Operands,
           NEW aPaired \in BOOLEAN, NEW wPaired \in BOOLEAN, Enter(a, aPaired, w, wPaired)
    PROVE  TypeOK'
<1>1. CASE Objected(a, aPaired, w, wPaired)
  <2>1. Block(Deserves(a, aPaired, w, wPaired))
    BY <1>1 DEF Enter
  <2>2. given' \in Gifts /\ call' \in Calls /\ pc' \in {"idle", "stopped"}
    BY <2>1, BlockType DEF Deserves
  <2> QED BY <2>2 DEF Enter, memory, TypeOK, Gifts, Calls
<1>2. CASE ~Objected(a, aPaired, w, wPaired)
  <2>1. a[1] \in 0..MaxIssues /\ w[1] \in 0..MaxIssues
    BY <1>2, AdmittedHandles, HandleType, BoundAssumption DEF Serials
  <2>2. /\ call' = [NoCall EXCEPT !.a = a[1], !.w = w[1], !.repaired = ~aPaired \/ ~wPaired]
        /\ pc' = "admitted" /\ given' = given
    BY <1>2 DEF Enter
  <2>3. call' \in Calls
    BY <2>1, <2>2, NoCallType DEF Calls
  <2> QED BY <2>2, <2>3 DEF Enter, memory, TypeOK, Calls
<1> QED BY <1>1, <1>2

LEMMA DispatchType ==
    ASSUME TypeOK, Dispatch
    PROVE  TypeOK'
<1>1. AsIssued \in BOOLEAN /\ BlindNow \in BOOLEAN
  BY DEF AsIssued, BlindNow
<1>2. call' \in Calls
  BY <1>1 DEF Dispatch, TypeOK, Calls
<1> QED BY <1>2 DEF Dispatch, memory, TypeOK, Calls

LEMMA LateReadsType ==
    ASSUME TypeOK, LateReads
    PROVE  TypeOK'
<1>1. BlindNow \in BOOLEAN
  BY DEF BlindNow
<1>2. call' \in Calls
  BY <1>1 DEF LateReads, TypeOK, Calls
<1> QED BY <1>2 DEF LateReads, memory, TypeOK, Calls

LEMMA CompareType ==
    ASSUME TypeOK, Compare
    PROVE  TypeOK'
<1>1. Violations \subseteq BOOLEAN /\ AsIssued \in BOOLEAN
  BY DEF Violations, AsIssued, TypeOK
<1>2. call' \in Calls
  BY <1>1 DEF Compare, TypeOK, Calls
<1> QED BY <1>2 DEF Compare, memory, TypeOK, Calls

LEMMA ConcludeType ==
    ASSUME TypeOK, Conclude
    PROVE  TypeOK'
<1> USE DEF AsIssued, Faulty
<1>1. given' \in Gifts /\ call' \in Calls /\ pc' \in {"idle", "stopped"}
  <2>1. CASE SumsDiffer
    <3>1. Block(AsIssued)
      BY <2>1 DEF Conclude
    <3> QED BY <3>1, BlockType
  <2>2. CASE ~SumsDiffer /\ ScalesBad
    <3>1. Block(~Faulty)
      BY <2>2 DEF Conclude
    <3> QED BY <3>1, BlockType
  <2>3. CASE ~SumsDiffer /\ ~ScalesBad
    <3> DEFINE o == IF call.viol \/ call.repaired THEN "repaired" ELSE "normal"
               r == (IF call.viol THEN call.clean ELSE call.near) /\ ~Faulty
    <3>1. Deliver(o, r, FALSE)
      BY <2>3 DEF Conclude
    <3>2. o \in {"normal", "repaired", "kernel", "reference"} /\ r \in BOOLEAN
      BY DEF TypeOK
    <3> HIDE DEF o, r
    <3> QED BY <3>1, <3>2, DeliverType
  <2> QED BY <2>1, <2>2, <2>3
<1> QED BY <1>1 DEF Conclude, memory, TypeOK, Gifts, Calls

LEMMA HandOnType ==
    ASSUME TypeOK, HandOn, call.a \in Serials
    PROVE  TypeOK'
<1> USE DEF AsIssued, Faulty
<1>1. CASE setting.integrity = "inkernel" /\ DeviceStops
  <2>1. Stop(call.clean /\ AsIssued)
    BY <1>1 DEF HandOn
  <2>2. given' \in Gifts /\ call' \in Calls /\ pc' \in {"idle", "stopped"}
    BY <2>1, BlockType
  <2> QED BY <1>1, <2>2 DEF HandOn, TypeOK, Gifts, Calls
<1>2. CASE ~(setting.integrity = "inkernel" /\ DeviceStops)
  <2> DEFINE r == call.near /\ ~Faulty
             e == call.blind \/ Faulty
  <2>1. Deliver(call.path, r, e)
    BY <1>2 DEF HandOn
  <2>2. call.path \in {"normal", "repaired", "kernel", "reference"} /\ r \in BOOLEAN /\ e \in BOOLEAN
    BY DEF TypeOK
  <2> HIDE DEF r, e
  <2>3. given' \in Gifts /\ call' \in Calls /\ pc' = "idle"
    BY <2>1, <2>2, DeliverType
  <2>4. ranges' \subseteq Serials \X Parts /\ consumed' \subseteq Serials
    BY <1>2 DEF HandOn, TypeOK, Unguarded
  <2> QED BY <2>3, <2>4 DEF HandOn, TypeOK, Gifts, Calls
<1> QED BY <1>1, <1>2

LEMMA FailType ==
    ASSUME TypeOK, Fail
    PROVE  TypeOK'
<1>1. Block(FALSE)
  BY DEF Fail
<1>2. given' \in Gifts /\ call' \in Calls /\ pc' \in {"idle", "stopped"}
  BY <1>1, BlockType
<1>3. trouble' \in 0..MaxTrouble
  BY BoundAssumption DEF Fail, Mishap, TypeOK
<1> QED BY <1>2, <1>3 DEF Fail, memory, TypeOK, Gifts, Calls

-----------------------------------------------------------------------------
(* The invariant behind HandedOnIsRight. Bytes says what the history of a     *)
(* cell means; Unspoiled that a write which writeguard would have seen never  *)
(* reached bytes that are awaited, GuardedUntilConsumed being why; Admitted   *)
(* what the gate knows of its operands while it works; Ran and Compared that  *)
(* bytes which are not as issued stay so until the gate is done, so that what *)
(* it finds last holds of what the kernel read first, and that what changed    *)
(* after the kernel began with the issued bytes was written during the call.   *)

InGate == pc \in {"admitted", "ran", "compared"}

Bytes ==
    \A c \in Cells :
        /\ content[c] \in {0, latest[c[1]]}
        /\ content[c] = 0 /\ latest[c[1]] # 0 => spoiler[c] # "none"
        /\ c[1] \in Weights /\ spoiler[c] \in {"here", "elsewhere"} =>
               <<latest[c[1]], c[2]>> \in rewritten

Unspoiled ==
    setting.integrity = "writes" =>
        \A h \in Handles \ gone :
            latest[Place(h)] = h[1] /\ (Place(h) \in Buffers => h[1] \notin consumed) =>
                spoiler[Cell(h)] \notin {"here", "triton"}

Admitted ==
    InGate =>
        /\ ~PlanRefused
        /\ call.a \in 1..Len(issue) /\ call.w \in 1..Len(issue)
        /\ issue[call.a].place \in Buffers /\ issue[call.w].place \in Weights
        /\ latest[issue[call.a].place] = call.a /\ latest[issue[call.w].place] = call.w
        /\ \A h \in Operated : h \notin gone
        /\ \A part \in Parts :
               spoiler[<<issue[call.w].place, part>>] \notin {"here", "elsewhere"}

Raced(h) == content[Cell(h)] = h[1] \/ (content[Cell(h)] = 0 /\ spoiler[Cell(h)] = "race")
Ran ==
    pc = "ran" /\ setting.check = "static" =>
        /\ AsIssued => call.near /\ call.clean
        /\ call.near \/ call.blind \/ (setting.integrity = "inkernel" /\ ~call.clean)
        /\ call.near /\ call.clean => \A h \in Operated : Raced(h)

Compared ==
    pc = "compared" =>
        /\ setting.check = "output"
        /\ AsIssued => call.clean /\ call.viol = ~call.near

Memory == Bytes /\ GuardedUntilConsumed /\ Unspoiled
Gating == Admitted /\ Ran /\ Compared
GateInv == TypeOK /\ Memory /\ Gating /\ HandedOnIsRight

(* In the gate, every operand handle names the last issue of its place.       *)
LEMMA OperatedType ==
    ASSUME TypeOK, Admitted, InGate, NEW h \in Operated
    PROVE  /\ h \in Handles \ gone /\ latest[Place(h)] = h[1] /\ h[1] # 0
           /\ \/ Place(h) \in Buffers /\ h[1] = call.a
              \/ Place(h) \in Weights /\ h[1] = call.w /\ Place(h) = issue[call.w].place
<1>1. PICK n \in {call.a, call.w}, part \in Parts : h = <<n, part>>
  BY DEF Operated, Both
<1>2. n \in 1..Len(issue) /\ h[1] = n /\ h[2] = part
  BY <1>1 DEF Admitted
<1>3. h \in Handles
  BY <1>1, <1>2 DEF Handles
<1>4. h \notin gone
  BY DEF Admitted
<1> QED BY <1>1, <1>2, <1>3, <1>4 DEF Admitted, Place

(* The structural modes have no sums of the operands taken after the call.    *)
LEMMA StaticIntegrity ==
    ASSUME setting \in Settings, ~PlanRefused, setting.check = "static"
    PROVE  setting.integrity \in {"epoch", "writes", "inkernel"}
<1>1. setting.mode # "guarantee"
  BY DEF PlanRefused, CheckOfMode
<1>2. setting.mode \in {"structure", "structure_writes", "structure_inkernel"}
  BY <1>1, SettingAssumption DEF Modes
<1>3. setting.integrity = StructureIntegrity[setting.mode]
  BY <1>1, StructureAssumption
<1> QED BY <1>2, <1>3 DEF StructureIntegrity

(* None of them claims to see a write while the kernel runs.                  *)
LEMMA RaceIsBlind ==
    ASSUME setting \in Settings, ~PlanRefused, Ran, pc = "ran", setting.check = "static",
           call.near, call.clean, ~AsIssued
    PROVE  BlindNow
<1>1. PICK h \in Operated : content[Cell(h)] # h[1]
  BY DEF AsIssued
<1>2. content[Cell(h)] = 0 /\ spoiler[Cell(h)] = "race"
  BY <1>1 DEF Ran, Raced
<1>3. "race" \in Blind(Place(h))
  BY StaticIntegrity DEF Blind
<1> QED BY <1>2, <1>3 DEF BlindNow

(* A structural mode that reads other bytes than the issued ones reads what   *)
(* one of the writes left there that the mode says it cannot see.             *)
LEMMA WrongIsBlind ==
    ASSUME TypeOK, Memory, Gating, pc = "admitted", setting.check = "static",
           setting.integrity # "inkernel", ~AsIssued
    PROVE  BlindNow
<1>1. PICK h \in Operated : content[Cell(h)] # h[1]
  BY DEF AsIssued
<1>2. InGate /\ Admitted
  BY DEF InGate, Gating
<1>3. /\ h \in Handles \ gone /\ latest[Place(h)] = h[1] /\ h[1] # 0
      /\ \/ Place(h) \in Buffers /\ h[1] = call.a
         \/ Place(h) \in Weights /\ h[1] = call.w /\ Place(h) = issue[call.w].place
  BY <1>2, OperatedType
<1>4. /\ Cell(h) \in Cells /\ Cell(h) = <<Place(h), h[2]>> /\ h[2] \in Parts
      /\ Cell(h)[1] = Place(h)
  BY <1>3, HandleType DEF Cell
<1>5. content[Cell(h)] = 0 /\ spoiler[Cell(h)] \in Writers \cup {"race"}
  BY <1>1, <1>3, <1>4 DEF Memory, Bytes, TypeOK
<1>6. setting.integrity \in {"epoch", "writes"}
  BY <1>2, StaticIntegrity DEF Admitted, TypeOK
<1>7. spoiler[Cell(h)] \in Blind(Place(h))
  <2>1. CASE Place(h) \in Weights
    <3>1. spoiler[Cell(h)] \notin {"here", "elsewhere"}
      BY <1>2, <1>3, <1>4, <2>1, PlaceAssumption DEF Admitted
    <3>2. setting.integrity = "writes" => spoiler[Cell(h)] # "triton"
      BY <1>3, <2>1, PlaceAssumption DEF Memory, Unspoiled
    <3> QED BY <1>5, <1>6, <2>1, <3>1, <3>2 DEF Blind, Writers
  <2>2. CASE Place(h) \in Buffers
    <3>1. Place(h) \notin Weights /\ h[1] = call.a
      BY <1>3, <2>2, PlaceAssumption
    <3>2. setting.integrity = "writes" /\ call.a \notin consumed =>
             spoiler[Cell(h)] \notin {"here", "triton"}
      BY <1>3, <2>2, <3>1 DEF Memory, Unspoiled
    <3> QED BY <1>5, <1>6, <3>1, <3>2 DEF Blind, Writers
  <2> QED BY <1>3, <2>1, <2>2
<1> QED BY <1>5, <1>7 DEF BlindNow

-----------------------------------------------------------------------------
(* The producers, collections and writes. *)

LEMMA IssueKeeps ==
    ASSUME GateInv, NEW p \in Places, Issue(p)
    PROVE  GateInv'
<1> DEFINE n == Len(issue) + 1
<1> USE DEF GateInv
<1>1. /\ issue \in Seq(Issued) /\ Len(issue) \in Nat
      /\ latest \in [Places -> 0..MaxIssues] /\ content \in [Cells -> 0..MaxIssues]
      /\ spoiler \in [Cells -> Writers \cup {"none", "race"}]
  BY DEF TypeOK, Issued
<1>2. Made(n, p) /\ UNCHANGED <<setting, gone, rewritten, consumed, pc, call, given>>
  BY DEF Issue
<1>3. PICK fault \in Faults \cup {"none"} : issue' = Append(issue, [place |-> p, fault |-> fault])
  BY DEF Issue
<1>4. /\ Len(issue') = n /\ issue'[n].place = p
      /\ \A i \in 1..Len(issue) : issue'[i] = issue[i]
  BY <1>1, <1>3 DEF Issued
<1>5. \A h \in Handles' : (latest[Place(h)] = h[1])' =>
         \/ Place(h)' = p /\ h[1] = n /\ h \in Both(n)
         \/ h \in Handles /\ Place(h) # p /\ Place(h)' = Place(h) /\ latest[Place(h)] = h[1]
  <2> SUFFICES ASSUME NEW h \in Handles', (latest[Place(h)] = h[1])'
               PROVE  \/ Place(h)' = p /\ h[1] = n /\ h \in Both(n)
                      \/ h \in Handles /\ Place(h) # p /\ Place(h)' = Place(h) /\ latest[Place(h)] = h[1]
    OBVIOUS
  <2>1. h[1] \in 1..n /\ h[2] \in Parts /\ h = <<h[1], h[2]>>
    BY <1>4 DEF Handles
  <2>2. CASE h[1] = n
    BY <1>4, <2>1, <2>2 DEF Place, Both
  <2>3. CASE h[1] # n
    <3>1. h[1] \in 1..Len(issue) /\ h \in Handles
      BY <1>1, <2>1, <2>3 DEF Handles
    <3>2. Place(h)' = Place(h) /\ Place(h) \in Places
      BY <1>4, <3>1, HandleType DEF Place
    <3>3. Place(h) # p
      BY <1>1, <1>2, <2>3, <3>2 DEF Made
    <3> QED BY <1>1, <1>2, <3>1, <3>2, <3>3 DEF Made
  <2> QED BY <2>2, <2>3
<1> HIDE DEF n
<1>6. Bytes'
  <2> SUFFICES ASSUME NEW c \in Cells
               PROVE  /\ content'[c] \in {0, latest'[c[1]]}
                      /\ content'[c] = 0 /\ latest'[c[1]] # 0 => spoiler'[c] # "none"
                      /\ c[1] \in Weights /\ spoiler'[c] \in {"here", "elsewhere"} =>
                             <<latest'[c[1]], c[2]>> \in rewritten'
    BY DEF Bytes
  <2>1. c[1] \in Places
    BY DEF Cells
  <2>2. CASE c[1] = p
    BY <1>1, <1>2, <2>1, <2>2 DEF Made, n
  <2>3. CASE c[1] # p
    BY <1>1, <1>2, <2>1, <2>3 DEF Made, Memory, Bytes
  <2> QED BY <2>2, <2>3
<1>7. GuardedUntilConsumed'
  <2> SUFFICES ASSUME setting.integrity = "writes", NEW h \in Handles' \ gone,
                      (latest[Place(h)] = h[1])', (Awaited(Cell(h)))'
               PROVE  h \in ranges'
    BY <1>2 DEF GuardedUntilConsumed
  <2>1. ranges' = {g \in ranges : Place(g) # p} \cup Both(n)
    BY DEF Issue, Registered, n
  <2>2. CASE h \in Both(n)
    BY <2>1, <2>2
  <2>3. CASE h \in Handles /\ Place(h) # p /\ Place(h)' = Place(h) /\ latest[Place(h)] = h[1]
    <3>1. Cell(h)[1] = Place(h) /\ (Cell(h)[1])' = Place(h) /\ Cell(h)[2] = h[2] /\ (Cell(h)[2])' = h[2]
      BY <2>3 DEF Cell
    <3>2. latest'[Place(h)] = latest[Place(h)]
      BY <2>3
    <3>3. Awaited(Cell(h))
      BY <1>2, <3>1, <3>2 DEF Awaited
    <3> QED BY <2>1, <2>3, <3>3 DEF Memory, GuardedUntilConsumed
  <2> QED BY <1>5, <2>2, <2>3
<1>8. Unspoiled'
  <2> SUFFICES ASSUME setting.integrity = "writes", NEW h \in Handles' \ gone,
                      (latest[Place(h)] = h[1])',
                      (Place(h) \in Buffers => h[1] \notin consumed)'
               PROVE  spoiler'[(Cell(h))'] \notin {"here", "triton"}
    BY <1>2 DEF Unspoiled
  <2>1. CASE Place(h)' = p /\ h[1] = n /\ h \in Both(n)
    <3>1. Cell(h)' = <<p, h[2]>> /\ <<p, h[2]>> \in Cells
      BY <2>1 DEF Cell, Cells, Both
    <3> QED BY <1>1, <1>2, <3>1 DEF Made
  <2>2. CASE h \in Handles /\ Place(h) # p /\ Place(h)' = Place(h) /\ latest[Place(h)] = h[1]
    <3>1. Cell(h)' = Cell(h) /\ Cell(h) \in Cells /\ Cell(h)[1] # p
      BY <2>2, HandleType DEF Cell
    <3>2. spoiler[Cell(h)] \notin {"here", "triton"}
      BY <1>2, <2>2 DEF Memory, Unspoiled
    <3> QED BY <1>1, <1>2, <3>1, <3>2 DEF Made
  <2> QED BY <1>5, <2>1, <2>2
<1>9. Gating'
  BY <1>2 DEF Issue, Gating, Admitted, Ran, Compared, InGate
<1>10. HandedOnIsRight'
  BY <1>2 DEF HandedOnIsRight
<1> QED BY <1>6, <1>7, <1>8, <1>9, <1>10, IssueType DEF Memory

LEMMA CollectKeeps ==
    ASSUME GateInv, NEW h \in Handles, Collect(h)
    PROVE  GateInv'
<1> USE DEF GateInv
<1>1. /\ gone' = gone \cup {h} /\ ranges' = ranges \ {h}
      /\ UNCHANGED <<setting, issue, latest, content, spoiler, rewritten, pc, call, given, consumed>>
  BY DEF Collect, Released
<1>2. Bytes'
  BY <1>1 DEF Memory, Bytes
<1>3. GuardedUntilConsumed'
  <2> SUFFICES ASSUME setting.integrity = "writes", NEW g \in Handles \ gone',
                      latest[Place(g)] = g[1], (Awaited(Cell(g)))'
               PROVE  g \in ranges'
    BY <1>1 DEF GuardedUntilConsumed, Handles, Place
  <2>1. Awaited(Cell(g))
    BY <1>1 DEF Awaited, Cell, Place
  <2>2. g \in ranges /\ g # h
    BY <1>1, <2>1 DEF Memory, GuardedUntilConsumed
  <2> QED BY <1>1, <2>2
<1>4. Unspoiled'
  BY <1>1 DEF Memory, Unspoiled, Handles, Place, Cell
<1>5. Admitted'
  <2> SUFFICES ASSUME InGate PROVE Admitted'
    BY <1>1 DEF Admitted, InGate
  <2>1. h[1] \notin {call.a, call.w}
    BY DEF Collect, InGate
  <2>2. \A g \in Operated : g # h
    BY <2>1 DEF Operated, Both
  <2> QED BY <1>1, <2>2 DEF Gating, Admitted, Operated, PlanRefused, CheckOfMode, WeakerThanFloor
<1>6. Ran' /\ Compared' /\ HandedOnIsRight'
  BY <1>1 DEF Gating, Ran, Raced, Compared, AsIssued, Operated, Cell, Place, HandedOnIsRight
<1> QED BY <1>2, <1>3, <1>4, <1>5, <1>6, CollectType DEF Memory, Gating

(* A write that writeguard does not refuse was not to guarded bytes, or was    *)
(* none that it sees.                                                         *)
LEMMA WriteKeeps ==
    ASSUME GateInv, NEW c \in Cells, NEW x \in Writers, Write(c, x)
    PROVE  GateInv'
<1> USE DEF GateInv
<1> DEFINE left == IF pc = "idle" THEN x ELSE "race"
<1>1. /\ content' = [content EXCEPT ![c] = 0] /\ spoiler' = [spoiler EXCEPT ![c] = left]
      /\ rewritten' = Versions(c, x)
      /\ UNCHANGED <<setting, issue, latest, gone, ranges, pc, call, given, consumed>>
  BY DEF Write
<1>2. /\ content \in [Cells -> 0..MaxIssues]
      /\ spoiler \in [Cells -> Writers \cup {"none", "race"}]
  BY DEF TypeOK
<1>3. rewritten \subseteq rewritten'
  BY <1>1 DEF Versions
<1>4. /\ left # "none"
      /\ (left \in {"here", "elsewhere"} => pc = "idle" /\ x = left)
      /\ (pc # "idle" => left = "race")
  BY DEF Writers
<1> HIDE DEF left
<1>5. Bytes'
  <2> SUFFICES ASSUME NEW d \in Cells
               PROVE  /\ content'[d] \in {0, latest[d[1]]}
                      /\ content'[d] = 0 /\ latest[d[1]] # 0 => spoiler'[d] # "none"
                      /\ d[1] \in Weights /\ spoiler'[d] \in {"here", "elsewhere"} =>
                             <<latest[d[1]], d[2]>> \in rewritten'
    BY <1>1 DEF Bytes
  <2>1. CASE d = c
    BY <1>1, <1>2, <1>4, <2>1 DEF Versions
  <2>2. CASE d # c
    BY <1>1, <1>2, <1>3, <2>2 DEF Memory, Bytes
  <2> QED BY <2>1, <2>2
<1>6. GuardedUntilConsumed'
  BY <1>1 DEF Memory, GuardedUntilConsumed, Handles, Place, Cell, Awaited
<1>7. Unspoiled'
  <2> SUFFICES ASSUME setting.integrity = "writes", NEW h \in Handles \ gone,
                      latest[Place(h)] = h[1], Place(h) \in Buffers => h[1] \notin consumed
               PROVE  spoiler'[Cell(h)] \notin {"here", "triton"}
    BY <1>1 DEF Unspoiled, Handles, Place, Cell
  <2>1. Cell(h) \in Cells /\ spoiler[Cell(h)] \notin {"here", "triton"}
    BY HandleType DEF Memory, Unspoiled
  <2>2. CASE Cell(h) # c
    BY <1>1, <1>2, <2>1, <2>2
  <2>3. CASE Cell(h) = c
    <3>1. Cell(h)[1] = Place(h) /\ Cell(h)[2] = h[2] /\ <<h[1], h[2]>> = h
      BY HandleType DEF Cell
    <3>2. Awaited(Cell(h))
      BY <3>1 DEF Awaited
    <3>3. h \in ranges
      BY <3>2 DEF Memory, GuardedUntilConsumed
    <3>4. x \notin {"here", "triton"}
      BY <2>3, <3>3 DEF Write, Overseen, Guarded
    <3> QED BY <1>1, <1>2, <2>3, <3>4 DEF left
  <2> QED BY <2>2, <2>3
<1>8. Admitted'
  <2> SUFFICES ASSUME InGate PROVE Admitted'
    BY <1>1 DEF Admitted, InGate
  <2>1. pc # "idle"
    BY DEF InGate
  <2>2. \A part \in Parts : spoiler'[<<issue[call.w].place, part>>] \notin {"here", "elsewhere"}
    <3> SUFFICES ASSUME NEW part \in Parts
                 PROVE  spoiler'[<<issue[call.w].place, part>>] \notin {"here", "elsewhere"}
      OBVIOUS
    <3> DEFINE d == <<issue[call.w].place, part>>
    <3>1. d \in Cells /\ spoiler[d] \notin {"here", "elsewhere"}
      BY DEF Gating, Admitted, Cells, Places
    <3>2. left \notin {"here", "elsewhere"}
      BY <1>4, <2>1
    <3> HIDE DEF d
    <3>3. spoiler'[d] \notin {"here", "elsewhere"}
      BY <1>1, <1>2, <3>1, <3>2
    <3> QED BY <3>3 DEF d
  <2> QED BY <1>1, <2>2 DEF Gating, Admitted, Operated, PlanRefused, CheckOfMode, WeakerThanFloor
<1>9. InGate => (AsIssued' => AsIssued)
  <2> SUFFICES ASSUME InGate, AsIssued', NEW h \in Operated
               PROVE  content[Cell(h)] = h[1]
    BY DEF AsIssued
  <2>1. h \in Handles /\ h[1] # 0
    BY OperatedType DEF Gating
  <2>2. content'[Cell(h)] = h[1] /\ Cell(h) \in Cells
    BY <1>1, <2>1, HandleType DEF AsIssued, Operated, Cell, Place
  <2> QED BY <1>1, <1>2, <2>1, <2>2
<1>10. ASSUME pc = "ran", NEW h \in Operated, Raced(h) PROVE Raced(h)'
  <2>1. Cell(h) \in Cells /\ Cell(h)' = Cell(h)
    BY <1>1, <1>10, OperatedType, HandleType DEF Gating, InGate, Cell, Place
  <2>2. left = "race"
    BY <1>4, <1>10
  <2>3. \/ content'[Cell(h)] = content[Cell(h)] /\ spoiler'[Cell(h)] = spoiler[Cell(h)]
        \/ content'[Cell(h)] = 0 /\ spoiler'[Cell(h)] = "race"
    BY <1>1, <1>2, <2>1, <2>2
  <2> QED BY <1>10, <2>1, <2>3 DEF Raced
<1>11. Ran'
  BY <1>1, <1>9, <1>10 DEF Gating, Ran, InGate, Operated
<1>12. Compared' /\ HandedOnIsRight'
  BY <1>1, <1>9 DEF Gating, Compared, InGate, HandedOnIsRight
<1> QED BY <1>5, <1>6, <1>7, <1>8, <1>11, <1>12, WriteType DEF Memory, Gating

-----------------------------------------------------------------------------
(* The gate. *)

(* Steps that leave the memory and what was consumed alone.                   *)
LEMMA MemoryStays ==
    ASSUME Memory, UNCHANGED <<setting, memory, consumed>>
    PROVE  Memory'
<1> USE DEF memory
<1>1. Bytes'
  BY DEF Memory, Bytes
<1>2. GuardedUntilConsumed'
  BY DEF Memory, GuardedUntilConsumed, Handles, Place, Cell, Awaited
<1>3. Unspoiled'
  BY DEF Memory, Unspoiled, Handles, Place, Cell
<1> QED BY <1>1, <1>2, <1>3 DEF Memory

(* A refusal hands nothing on.                                                *)
LEMMA BlockKeeps ==
    ASSUME GateInv, NEW sound, Block(sound) \/ Stop(sound), UNCHANGED <<setting, memory, consumed>>
    PROVE  Memory' /\ Gating' /\ HandedOnIsRight'
<1>1. pc' \in {"idle", "stopped"} /\ given'.outcome = "blocked"
  BY DEF Block, Stop
<1>2. Gating'
  BY <1>1 DEF Gating, Admitted, Ran, Compared, InGate
<1> QED BY <1>1, <1>2, MemoryStays DEF GateInv, HandedOnIsRight

LEMMA RefuseWriteKeeps ==
    ASSUME GateInv, NEW c \in Cells, NEW x \in Writers, RefuseWrite(c, x)
    PROVE  GateInv'
<1> USE DEF GateInv
<1>1. /\ UNCHANGED <<setting, memory, pc, call, consumed>> /\ given'.outcome = "blocked"
  BY DEF RefuseWrite
<1>2. Gating'
  BY <1>1 DEF Gating, Admitted, Ran, Raced, Compared, InGate, AsIssued, Operated, Cell, Place, memory,
              PlanRefused, CheckOfMode, WeakerThanFloor
<1> QED BY <1>1, <1>2, MemoryStays, RefuseWriteType DEF HandedOnIsRight

LEMMA EnterKeeps ==
    ASSUME GateInv, NEW a \in Operands, NEW w \in Operands,
           NEW aPaired \in BOOLEAN, NEW wPaired \in BOOLEAN, Enter(a, aPaired, w, wPaired)
    PROVE  GateInv'
<1> USE DEF GateInv
<1>1. UNCHANGED <<setting, memory, consumed>> /\ TypeOK'
  BY EnterType DEF Enter
<1>2. CASE Objected(a, aPaired, w, wPaired)
  <2>1. Block(Deserves(a, aPaired, w, wPaired))
    BY <1>2 DEF Enter
  <2> QED BY <1>1, <2>1, BlockKeeps
<1>3. CASE ~Objected(a, aPaired, w, wPaired)
  <2>1. /\ pc' = "admitted" /\ given' = given
        /\ call' = [NoCall EXCEPT !.a = a[1], !.w = w[1], !.repaired = ~aPaired \/ ~wPaired]
    BY <1>3 DEF Enter
  <2>2. call'.a = a[1] /\ call'.w = w[1]
    BY <2>1 DEF NoCall
  <2>3. /\ a \in Handles \ gone /\ w \in Handles \ gone /\ a # Unissued /\ w # Unissued
    BY <1>3, AdmittedHandles DEF Objected
  <2>4. /\ a[1] \in 1..Len(issue) /\ a = <<a[1], a[2]>> /\ Place(a) \in Places
        /\ w[1] \in 1..Len(issue) /\ w = <<w[1], w[2]>> /\ Place(w) \in Places
    BY <2>3, HandleType
  <2>5. /\ Place(a) \in Buffers /\ a[2] = "value"
        /\ Place(w) \in Weights /\ w[2] = "value"
    BY <1>3, <2>4 DEF Objected, Role, Places
  <2>6. <<a[1], "scale">> \notin gone /\ <<w[1], "scale">> \notin gone
    BY <1>3, <2>3 DEF Objected, HasScale, Enter, Given
  <2>7. \A h \in Both(a[1]) \cup Both(w[1]) : h \notin gone /\ ~Stale(h)
    BY <1>3, <2>3, <2>4, <2>5, <2>6 DEF Objected, Both, Parts
  <2>8. latest[Place(a)] = a[1] /\ latest[Place(w)] = w[1]
    BY <2>3, <2>4, <2>5, <2>7 DEF Stale, Both, Parts
  <2>9. \A part \in Parts : spoiler[<<Place(w), part>>] \notin {"here", "elsewhere"}
    <3> SUFFICES ASSUME NEW part \in Parts, spoiler[<<Place(w), part>>] \in {"here", "elsewhere"}
                 PROVE  FALSE
      OBVIOUS
    <3>1. <<Place(w), part>> \in Cells
      BY <2>4 DEF Cells
    <3>2. <<w[1], part>> \in rewritten
      BY <2>5, <2>8, <3>1 DEF Memory, Bytes
    <3> QED BY <2>7, <3>2 DEF Stale, Both
  <2>10. Admitted'
    BY <1>1, <1>3, <2>1, <2>2, <2>4, <2>5, <2>7, <2>8, <2>9
       DEF Admitted, Operated, Place, memory, Objected, PlanRefused, CheckOfMode, WeakerThanFloor
  <2>11. Ran' /\ Compared' /\ HandedOnIsRight'
    BY <2>1 DEF Ran, Compared, HandedOnIsRight
  <2> QED BY <1>1, <2>10, <2>11, MemoryStays DEF Gating
<1> QED BY <1>2, <1>3

LEMMA DispatchKeeps ==
    ASSUME GateInv, Dispatch
    PROVE  GateInv'
<1> USE DEF GateInv
<1>1. UNCHANGED <<setting, memory, given, consumed>> /\ pc = "admitted" /\ pc' = "ran" /\ TypeOK'
  BY DispatchType DEF Dispatch
<1>2. PICK near \in BOOLEAN, path \in {"kernel", "reference"} :
         /\ setting.check = "static" => near = AsIssued
         /\ call' = [call EXCEPT !.near = near, !.path = path, !.clean = AsIssued, !.blind = BlindNow]
  BY DEF Dispatch
<1>3. /\ call'.a = call.a /\ call'.w = call.w
      /\ call'.near = near /\ call'.clean = AsIssued /\ call'.blind = BlindNow
  BY <1>2 DEF TypeOK
<1>4. Admitted'
  BY <1>1, <1>3 DEF Gating, Admitted, InGate, Operated, memory, PlanRefused, CheckOfMode, WeakerThanFloor
<1>5. AsIssued' = AsIssued
  BY <1>1, <1>3 DEF AsIssued, Operated, Cell, Place, memory
<1>6. ASSUME setting.check = "static" PROVE Ran'
  <2>1. call'.near = AsIssued /\ call'.clean = AsIssued
    BY <1>2, <1>3, <1>6
  <2>2. setting.integrity # "inkernel" => AsIssued \/ call'.blind
    BY <1>1, <1>3, <1>6, WrongIsBlind
  <2>3. AsIssued' => \A h \in Operated' : Raced(h)'
    BY DEF AsIssued, Raced
  <2> QED BY <1>1, <1>5, <2>1, <2>2, <2>3 DEF Ran
<1>7. Compared' /\ HandedOnIsRight'
  BY <1>1 DEF Compared, HandedOnIsRight
<1>8. Ran'
  BY <1>1, <1>6 DEF Ran
<1> QED BY <1>1, <1>4, <1>7, <1>8, MemoryStays DEF Gating

(* A write while the kernel runs may escape it and its sums; it is one the     *)
(* mode does not claim to see.                                                *)
LEMMA LateReadsKeep ==
    ASSUME GateInv, LateReads
    PROVE  GateInv'
<1> USE DEF GateInv
<1>1. /\ UNCHANGED <<setting, memory, pc, given, consumed>> /\ pc = "ran" /\ ~AsIssued
      /\ setting.check = "static" /\ call.near /\ call.clean /\ TypeOK'
  BY LateReadsType DEF LateReads
<1>2. PICK near \in BOOLEAN, clean \in BOOLEAN :
         call' = [call EXCEPT !.near = near, !.clean = clean, !.blind = BlindNow]
  BY DEF LateReads
<1>3. call'.a = call.a /\ call'.w = call.w /\ call'.blind = BlindNow
  BY <1>2 DEF TypeOK
<1>4. Admitted'
  BY <1>1, <1>3 DEF Gating, Admitted, InGate, Operated, memory, PlanRefused, CheckOfMode, WeakerThanFloor
<1>5. AsIssued' = AsIssued /\ (\A h \in Operated' : Raced(h)')
  BY <1>1, <1>3 DEF AsIssued, Raced, Operated, Cell, Place, memory, Gating, Ran
<1>6. BlindNow
  BY <1>1, RaceIsBlind DEF Gating, Admitted, InGate, TypeOK
<1>7. Ran'
  BY <1>1, <1>3, <1>5, <1>6 DEF Ran
<1>8. Compared' /\ HandedOnIsRight'
  BY <1>1 DEF Compared, HandedOnIsRight
<1> QED BY <1>1, <1>4, <1>7, <1>8, MemoryStays DEF Gating

LEMMA CompareKeeps ==
    ASSUME GateInv, Compare
    PROVE  GateInv'
<1> USE DEF GateInv
<1>1. /\ UNCHANGED <<setting, memory, given, consumed>> /\ setting.check = "output"
      /\ pc = "ran" /\ pc' = "compared" /\ TypeOK'
  BY CompareType DEF Compare
<1>2. PICK viol \in Violations : call' = [call EXCEPT !.viol = viol, !.clean = AsIssued]
  BY DEF Compare
<1>3. /\ call'.a = call.a /\ call'.w = call.w
      /\ call'.near = call.near /\ call'.clean = AsIssued /\ call'.viol = viol
  BY <1>2 DEF TypeOK
<1>4. Admitted'
  BY <1>1, <1>3 DEF Gating, Admitted, InGate, Operated, memory, PlanRefused, CheckOfMode, WeakerThanFloor
<1>5. AsIssued' = AsIssued
  BY <1>1, <1>3 DEF AsIssued, Operated, Cell, Place, memory
<1>6. AsIssued => viol = ~call.near
  BY <1>2 DEF Violations
<1>7. Ran' /\ Compared' /\ HandedOnIsRight'
  BY <1>1, <1>3, <1>5, <1>6 DEF Ran, Compared, HandedOnIsRight
<1> QED BY <1>1, <1>4, <1>7, MemoryStays DEF Gating

(* With the output compared, the sums say at the end that the bytes were the  *)
(* issued ones all along.                                                     *)
LEMMA ConcludeKeeps ==
    ASSUME GateInv, Conclude
    PROVE  GateInv'
<1> USE DEF GateInv
<1>1. UNCHANGED <<setting, memory, consumed>> /\ pc = "compared" /\ TypeOK'
  BY ConcludeType DEF Conclude
<1>2. CASE SumsDiffer \/ ScalesBad
  <2>1. PICK sound \in BOOLEAN : Block(sound)
    BY <1>2 DEF Conclude, AsIssued, Faulty
  <2> QED BY <1>1, <2>1, BlockKeeps
<1>3. CASE ~SumsDiffer /\ ~ScalesBad
  <2> DEFINE r == (IF call.viol THEN call.clean ELSE call.near) /\ ~Faulty
  <2>1. PICK o \in {"normal", "repaired"} : Deliver(o, r, FALSE)
    BY <1>3 DEF Conclude
  <2>2. setting.integrity = "checksum"
    BY <1>1 DEF Gating, Compared, Admitted, InGate, PlanRefused, CheckOfMode, WeakerThanFloor
  <2>3. AsIssued
    BY <1>3, <2>2 DEF SumsDiffer
  <2>4. r
    BY <1>1, <1>3, <2>3 DEF Gating, Compared, ScalesBad, TypeOK
  <2>5. HandedOnIsRight' /\ pc' = "idle"
    BY <2>1, <2>4 DEF Deliver, HandedOnIsRight
  <2>6. Gating'
    BY <2>5 DEF Gating, Admitted, Ran, Compared, InGate
  <2> QED BY <1>1, <2>5, <2>6, MemoryStays
<1> QED BY <1>2, <1>3

(* The device stops a call of the in-kernel sums that read other bytes; the    *)
(* other structural modes hand on what is right or excused. What is consumed   *)
(* is an activation, so that no weight loses its watch.                        *)
LEMMA HandOnKeeps ==
    ASSUME GateInv, HandOn
    PROVE  GateInv'
<1> USE DEF GateInv
<1>1. /\ UNCHANGED <<setting, issue, latest, content, spoiler, rewritten, gone>>
      /\ pc = "ran" /\ setting.check = "static" /\ InGate
  BY DEF HandOn, InGate
<1>2. /\ call.a \in 1..Len(issue) /\ issue[call.a].place \in Buffers
  BY <1>1 DEF Gating, Admitted
<1>3. TypeOK'
  BY <1>2, BothType, HandOnType
<1>4. CASE setting.integrity = "inkernel" /\ DeviceStops
  <2>1. Stop(call.clean /\ AsIssued) /\ UNCHANGED <<setting, memory, consumed>>
    BY <1>1, <1>4 DEF HandOn, memory
  <2> QED BY <1>3, <2>1, BlockKeeps
<1>5. CASE ~(setting.integrity = "inkernel" /\ DeviceStops)
  <2> DEFINE r == call.near /\ ~Faulty
             e == call.blind \/ Faulty
  <2>1. Deliver(call.path, r, e)
    BY <1>5 DEF HandOn
  <2>2. IF setting.integrity = "writes"
        THEN ranges' = Unguarded(call.a) /\ consumed' = consumed \cup {call.a}
        ELSE UNCHANGED <<ranges, consumed>>
    BY <1>5 DEF HandOn
  <2>3. r \/ e
    <3>1. CASE setting.integrity = "inkernel"
      BY <1>1, <1>5, <3>1 DEF Gating, Ran, DeviceStops, TypeOK
    <3>2. CASE setting.integrity # "inkernel"
      BY <1>1, <3>2 DEF Gating, Ran
    <3> QED BY <3>1, <3>2
  <2>4. HandedOnIsRight' /\ pc' = "idle"
    BY <2>1, <2>3 DEF Deliver, HandedOnIsRight
  <2>5. Gating'
    BY <2>4 DEF Gating, Admitted, Ran, Compared, InGate
  <2>6. Bytes'
    BY <1>1 DEF Memory, Bytes
  <2>7. consumed \subseteq consumed'
    BY <2>2
  <2>8. GuardedUntilConsumed'
    <3> SUFFICES ASSUME setting.integrity = "writes", NEW h \in Handles \ gone,
                        latest[Place(h)] = h[1], (Awaited(Cell(h)))'
                 PROVE  h \in ranges'
      BY <1>1 DEF GuardedUntilConsumed, Handles, Place
    <3>1. Cell(h)[1] = Place(h) /\ (Cell(h)[1])' = Place(h) /\ (Cell(h)[2])' = Cell(h)[2]
      BY <1>1 DEF Cell, Place
    <3>2. Awaited(Cell(h)) /\ (Place(h) \in Buffers => h[1] \notin consumed')
      BY <1>1, <2>7, <3>1 DEF Awaited
    <3>3. h \in ranges
      BY <3>2 DEF Memory, GuardedUntilConsumed
    <3>4. h \notin Both(call.a)
      <4> SUFFICES ASSUME h \in Both(call.a) PROVE FALSE
        OBVIOUS
      <4>1. h[1] = call.a
        BY DEF Both
      <4> QED BY <1>2, <2>2, <3>2, <4>1 DEF Place
    <3> QED BY <2>2, <3>3, <3>4 DEF Unguarded
  <2>9. Unspoiled'
    BY <1>1, <2>7 DEF Memory, Unspoiled, Handles, Place, Cell
  <2> QED BY <1>3, <2>4, <2>5, <2>6, <2>8, <2>9 DEF Memory
<1> QED BY <1>4, <1>5

LEMMA FailKeeps ==
    ASSUME GateInv, Fail
    PROVE  GateInv'
<1>1. Block(FALSE) /\ UNCHANGED <<setting, memory, consumed>>
  BY DEF Fail
<1> QED BY <1>1, BlockKeeps, FailType DEF GateInv

LEMMA InitGate == Init => GateInv
<1> SUFFICES ASSUME Init PROVE GateInv
  OBVIOUS
<1>1. Handles = {}
  BY DEF Init, Handles
<1>2. Memory
  BY <1>1 DEF Init, Memory, Bytes, GuardedUntilConsumed, Unspoiled, Cells
<1>3. Gating /\ HandedOnIsRight
  BY DEF Init, Gating, Admitted, Ran, Compared, InGate, HandedOnIsRight, Nothing
<1> QED BY <1>2, <1>3, InitType DEF GateInv

LEMMA GateStep == GateInv /\ [Next]_vars => GateInv'
<1> SUFFICES ASSUME GateInv, [Next]_vars PROVE GateInv'
  OBVIOUS
<1>1. ASSUME NEW p \in Places, Issue(p) PROVE GateInv'
  BY <1>1, IssueKeeps
<1>2. ASSUME NEW h \in Handles, Collect(h) PROVE GateInv'
  BY <1>2, CollectKeeps
<1>3. ASSUME NEW c \in Cells, NEW x \in Writers, Write(c, x) PROVE GateInv'
  BY <1>3, WriteKeeps
<1>4. ASSUME NEW c \in Cells, NEW x \in Writers, RefuseWrite(c, x) PROVE GateInv'
  BY <1>4, RefuseWriteKeeps
<1>5. ASSUME NEW a \in Operands, NEW w \in Operands,
             NEW aPaired \in BOOLEAN, NEW wPaired \in BOOLEAN, Enter(a, aPaired, w, wPaired)
      PROVE  GateInv'
  BY <1>5, EnterKeeps
<1>6. CASE Dispatch
  BY <1>6, DispatchKeeps
<1>7. CASE Compare
  BY <1>7, CompareKeeps
<1>8. CASE Conclude
  BY <1>8, ConcludeKeeps
<1>9. CASE HandOn
  BY <1>9, HandOnKeeps
<1>10. CASE Fail
  BY <1>10, FailKeeps
<1>11. CASE LateReads
  BY <1>11, LateReadsKeep
<1>12. CASE UNCHANGED vars
  <2>1. UNCHANGED <<setting, memory, pc, call, given, consumed, trouble>>
    BY <1>12 DEF vars
  <2>2. TypeOK'
    BY <2>1 DEF GateInv, TypeOK, memory
  <2>3. Gating' /\ HandedOnIsRight'
    BY <2>1 DEF GateInv, Gating, Admitted, Ran, Raced, Compared, InGate, AsIssued, Operated, Cell, Place,
                memory, PlanRefused, CheckOfMode, WeakerThanFloor, HandedOnIsRight
  <2> QED BY <2>1, <2>2, <2>3, MemoryStays DEF GateInv
<1> QED BY <1>1, <1>2, <1>3, <1>4, <1>5, <1>6, <1>7, <1>8, <1>9, <1>10, <1>11, <1>12 DEF Next, Gate

LEMMA GateHolds == Spec => []GateInv
BY InitGate, GateStep, PTL DEF Spec

-----------------------------------------------------------------------------
(* The invariant behind NoFalseRefusal. What Bytes says backwards: the gate     *)
(* and writeguard only hold against a call or a write what is so (Rewritten,    *)
(* Watched), and nothing they remember is of an issue to come (Known).          *)

Known ==
    /\ \A p \in Places : latest[p] # 0 => latest[p] \in 1..Len(issue) /\ issue[latest[p]].place = p
    /\ consumed \subseteq 1..Len(issue)
    /\ gone \subseteq Handles /\ rewritten \subseteq Handles /\ ranges \subseteq Handles

Rewritten == \A h \in rewritten : latest[Place(h)] = h[1] => content[Cell(h)] = 0

Watched ==
    /\ setting.integrity # "writes" => ranges = {}
    /\ \A h \in ranges :
           /\ h \notin gone /\ latest[Place(h)] = h[1]
           /\ Place(h) \in Buffers => h[1] \notin consumed

Reasons == Known /\ Rewritten /\ Watched
RefusalInv == GateInv /\ Reasons /\ NoFalseRefusal

LEMMA ReasonsStay ==
    ASSUME Reasons, UNCHANGED <<setting, memory, consumed>>
    PROVE  Reasons'
BY DEF Reasons, Known, Rewritten, Watched, Handles, Place, Cell, memory

(* A call the gate objects to deserved it.                                     *)
LEMMA ObjectionIsDue ==
    ASSUME GateInv, Reasons, NEW a \in Operands, NEW w \in Operands,
           NEW aPaired \in BOOLEAN, NEW wPaired \in BOOLEAN, Objected(a, aPaired, w, wPaired)
    PROVE  ~Deserves(a, aPaired, w, wPaired)
<1> SUFFICES ASSUME Deserves(a, aPaired, w, wPaired) PROVE FALSE
  OBVIOUS
<1>1. a \in Handles /\ w \in Handles
  BY DEF Deserves, Operands
<1>2. a[1] \in 1..Len(issue) /\ w[1] \in 1..Len(issue)
  BY <1>1, HandleType DEF GateInv
<1>3. \A n \in {a[1], w[1]} : issue[n].fault = "none" /\ Untouched(n)
  BY DEF Deserves
<1>4. \A h \in Both(a[1]) \cup Both(w[1]) : content[Cell(h)] = h[1]
  BY <1>3 DEF Untouched, Both
<1>5. PICK h \in Both(a[1]) \cup Both(w[1]) : Stale(h)
  BY <1>3 DEF Objected, Deserves
<1>6. h \in Handles /\ h[1] # 0
  BY <1>2, <1>5, BothType DEF GateInv, Both
<1>7. Cell(h) \in Cells /\ Cell(h)[1] = Place(h) /\ content[Cell(h)] = h[1]
  BY <1>4, <1>6, HandleType DEF GateInv, Cell
<1>8. content[Cell(h)] \in {0, latest[Place(h)]}
  BY <1>7 DEF GateInv, Memory, Bytes
<1>9. latest[Place(h)] = h[1]
  BY <1>6, <1>7, <1>8
<1>10. h \in rewritten
  BY <1>5, <1>9 DEF Stale
<1> QED BY <1>6, <1>7, <1>9, <1>10 DEF Reasons, Rewritten

LEMMA IssueKeepsReasons ==
    ASSUME RefusalInv, NEW p \in Places, Issue(p)
    PROVE  Reasons' /\ NoFalseRefusal'
<1> DEFINE n == Len(issue) + 1
<1> USE DEF RefusalInv
<1>1. /\ issue \in Seq(Issued) /\ Len(issue) \in Nat
      /\ latest \in [Places -> 0..MaxIssues] /\ content \in [Cells -> 0..MaxIssues]
  BY DEF GateInv, TypeOK, Issued
<1>2. Made(n, p) /\ UNCHANGED <<setting, gone, rewritten, consumed, given>>
  BY DEF Issue
<1>3. PICK fault \in Faults \cup {"none"} : issue' = Append(issue, [place |-> p, fault |-> fault])
  BY DEF Issue
<1>4. /\ Len(issue') = n /\ issue'[n].place = p
      /\ \A i \in 1..Len(issue) : issue'[i] = issue[i]
  BY <1>1, <1>3 DEF Issued
<1>5. ranges' \subseteq ranges \cup Both(n)
  BY DEF Issue, Registered, n
<1>6. setting.integrity = "writes" => ranges' = {h \in ranges : Place(h) # p} \cup Both(n)
  BY DEF Issue, Registered, n
<1>7. setting.integrity # "writes" => ranges' = ranges
  BY DEF Issue, Registered
<1>8. Handles \subseteq Handles' /\ Both(n) \subseteq Handles'
  BY <1>1, <1>4 DEF Handles, Both
<1>9. \A h \in Handles : h[1] # n /\ Place(h)' = Place(h) /\ Place(h) \in Places
  BY <1>1, <1>4, HandleType DEF GateInv, Place, n
<1>10. \A h \in Both(n) : h[1] = n /\ Place(h)' = p
  BY <1>4 DEF Both, Place
<1>11. n \notin consumed /\ n \notin 1..Len(issue)
  BY <1>1 DEF Reasons, Known
<1> HIDE DEF n
<1>12. Known'
  <2>1. ASSUME NEW q \in Places, latest'[q] # 0
        PROVE  latest'[q] \in 1..Len(issue') /\ issue'[latest'[q]].place = q
    <3>1. CASE q = p
      <4>1. latest'[q] = n
        BY <1>1, <1>2, <3>1 DEF Made
      <4>2. n \in 1..n
        BY <1>1 DEF n
      <4> QED BY <1>4, <3>1, <4>1, <4>2
    <3>2. CASE q # p
      <4>1. latest'[q] = latest[q]
        BY <1>1, <1>2, <3>2 DEF Made
      <4>2. latest[q] \in 1..Len(issue) /\ issue[latest[q]].place = q
        BY <2>1, <4>1 DEF Reasons, Known
      <4>3. latest[q] \in 1..n
        BY <1>1, <4>2 DEF n
      <4> QED BY <1>4, <4>1, <4>2, <4>3
    <3> QED BY <3>1, <3>2
  <2>2. consumed' \subseteq 1..Len(issue')
    BY <1>1, <1>2, <1>4 DEF Reasons, Known, n
  <2> QED BY <1>2, <1>5, <1>8, <2>1, <2>2 DEF Reasons, Known
<1>13. Rewritten'
  <2> SUFFICES ASSUME NEW h \in rewritten, latest'[Place(h)'] = h[1]
               PROVE  content'[(Cell(h))'] = 0
    BY <1>2 DEF Rewritten
  <2>1. h \in Handles /\ h[1] # n /\ Place(h)' = Place(h) /\ Place(h) \in Places
    BY <1>9 DEF Reasons, Known
  <2>2. Place(h) # p /\ latest[Place(h)] = h[1]
    BY <1>1, <1>2, <2>1 DEF Made
  <2>3. (Cell(h))' = Cell(h) /\ Cell(h) \in Cells /\ Cell(h)[1] # p
    BY <2>1, <2>2, HandleType DEF GateInv, Cell
  <2>4. content[Cell(h)] = 0
    BY <2>2 DEF Reasons, Rewritten
  <2> QED BY <1>1, <1>2, <2>3, <2>4 DEF Made
<1>14. Watched'
  <2> SUFFICES ASSUME NEW h \in ranges'
               PROVE  /\ h \notin gone /\ latest'[Place(h)'] = h[1]
                      /\ Place(h)' \in Buffers => h[1] \notin consumed
    BY <1>2, <1>7 DEF Watched, Reasons
  <2>1. CASE h \in Both(n)
    <3>1. h \notin gone
      BY <1>9, <1>10, <2>1 DEF Reasons, Known
    <3> QED BY <1>1, <1>2, <1>10, <1>11, <2>1, <3>1 DEF Made
  <2>2. CASE h \in ranges /\ h \notin Both(n)
    <3>1. h \in Handles /\ Place(h)' = Place(h) /\ Place(h) \in Places
      BY <1>9, <2>2 DEF Reasons, Known
    <3>2. /\ h \notin gone /\ latest[Place(h)] = h[1]
          /\ Place(h) \in Buffers => h[1] \notin consumed
      BY <2>2 DEF Reasons, Watched
    <3>3. Place(h) # p
      BY <1>6, <2>2 DEF Reasons, Watched
    <3> QED BY <1>1, <1>2, <3>1, <3>2, <3>3 DEF Made
  <2> QED BY <1>5, <2>1, <2>2
<1>15. NoFalseRefusal'
  BY <1>2 DEF NoFalseRefusal
<1> QED BY <1>12, <1>13, <1>14, <1>15 DEF Reasons

LEMMA CollectKeepsReasons ==
    ASSUME RefusalInv, NEW h \in Handles, Collect(h)
    PROVE  Reasons' /\ NoFalseRefusal'
<1>1. /\ gone' = gone \cup {h} /\ ranges' = ranges \ {h}
      /\ UNCHANGED <<setting, issue, latest, content, spoiler, rewritten, given, consumed>>
  BY DEF Collect, Released
<1> QED BY <1>1 DEF RefusalInv, Reasons, Known, Rewritten, Watched, Handles, Place, Cell, NoFalseRefusal

LEMMA WriteKeepsReasons ==
    ASSUME RefusalInv, NEW c \in Cells, NEW x \in Writers, Write(c, x)
    PROVE  Reasons' /\ NoFalseRefusal'
<1> USE DEF RefusalInv
<1>1. /\ content' = [content EXCEPT ![c] = 0] /\ rewritten' = Versions(c, x)
      /\ UNCHANGED <<setting, issue, latest, gone, ranges, given, consumed>>
      /\ latest[c[1]] # 0
  BY DEF Write, MayWrite
<1>2. content \in [Cells -> 0..MaxIssues] /\ c[1] \in Places /\ c[2] \in Parts /\ c = <<c[1], c[2]>>
  BY DEF GateInv, TypeOK, Cells
<1> DEFINE g == <<latest[c[1]], c[2]>>
<1>3. g \in Handles /\ Cell(g) = c
  BY <1>1, <1>2 DEF Reasons, Known, Handles, Cell, Place
<1>4. rewritten' \subseteq rewritten \cup {g}
  BY <1>1 DEF Versions
<1> HIDE DEF g
<1>5. Known'
  BY <1>1, <1>3, <1>4 DEF Reasons, Known, Handles
<1>6. Rewritten'
  <2> SUFFICES ASSUME NEW h \in rewritten', latest[Place(h)] = h[1]
               PROVE  content'[Cell(h)] = 0
    BY <1>1 DEF Rewritten, Place, Cell
  <2>1. CASE h = g
    BY <1>1, <1>2, <1>3, <2>1
  <2>2. CASE h \in rewritten
    <3>1. h \in Handles
      BY <2>2 DEF Reasons, Known
    <3>2. Cell(h) \in Cells
      BY <3>1, HandleType DEF GateInv
    <3>3. content[Cell(h)] = 0
      BY <2>2 DEF Reasons, Rewritten
    <3> QED BY <1>1, <1>2, <3>2, <3>3
  <2> QED BY <1>4, <2>1, <2>2
<1>7. Watched' /\ NoFalseRefusal'
  BY <1>1 DEF Reasons, Watched, Place, NoFalseRefusal
<1> QED BY <1>5, <1>6, <1>7 DEF Reasons

(* writeguard refuses a write to bytes that someone waits for.                  *)
LEMMA RefusalIsDue ==
    ASSUME RefusalInv, NEW c \in Cells, NEW x \in Writers, RefuseWrite(c, x)
    PROVE  Reasons' /\ NoFalseRefusal'
<1> USE DEF RefusalInv
<1>1. PICK h \in ranges : Cell(h) = c
  BY DEF RefuseWrite, Overseen, Guarded
<1>2. h \in Handles
  BY DEF Reasons, Known
<1>3. c[1] = Place(h) /\ c[2] = h[2] /\ h = <<h[1], h[2]>>
  BY <1>1, <1>2, HandleType DEF GateInv, Cell
<1>4. Awaited(c)
  BY <1>3 DEF Reasons, Watched, Awaited
<1>5. given'.outcome = "blocked" /\ given'.sound = FALSE
  BY <1>4 DEF RefuseWrite
<1>6. Reasons'
  BY ReasonsStay DEF RefuseWrite
<1> QED BY <1>5, <1>6 DEF NoFalseRefusal

LEMMA EnterKeepsReasons ==
    ASSUME RefusalInv, NEW a \in Operands, NEW w \in Operands,
           NEW aPaired \in BOOLEAN, NEW wPaired \in BOOLEAN, Enter(a, aPaired, w, wPaired)
    PROVE  Reasons' /\ NoFalseRefusal'
<1>1. Reasons'
  BY ReasonsStay DEF RefusalInv, Enter
<1>2. CASE Objected(a, aPaired, w, wPaired)
  <2>1. Block(Deserves(a, aPaired, w, wPaired)) /\ ~Deserves(a, aPaired, w, wPaired)
    BY <1>2, ObjectionIsDue DEF Enter, RefusalInv
  <2> QED BY <1>1, <2>1 DEF Block, NoFalseRefusal
<1>3. CASE ~Objected(a, aPaired, w, wPaired)
  BY <1>1, <1>3 DEF Enter, RefusalInv, NoFalseRefusal
<1> QED BY <1>2, <1>3

(* Inside the gate: only what failed the sums, the scales or the device check   *)
(* is refused.                                                                 *)
LEMMA GateKeepsReasons ==
    ASSUME RefusalInv, Gate \/ LateReads \/ Fail
    PROVE  Reasons' /\ NoFalseRefusal'
<1> USE DEF RefusalInv
<1>1. CASE Dispatch \/ LateReads \/ Compare
  BY <1>1, ReasonsStay DEF Dispatch, LateReads, Compare, NoFalseRefusal
<1>2. CASE Conclude
  <2>1. Reasons'
    BY <1>2, ReasonsStay DEF Conclude
  <2>2. CASE SumsDiffer
    <3>1. Block(AsIssued) /\ ~AsIssued
      BY <1>2, <2>2 DEF Conclude, SumsDiffer
    <3>2. ~given'.sound
      BY <3>1 DEF Block, AsIssued
    <3> QED BY <2>1, <3>2 DEF NoFalseRefusal
  <2>3. CASE ~SumsDiffer /\ ScalesBad
    <3>1. Block(~Faulty) /\ Faulty
      BY <1>2, <2>3 DEF Conclude, ScalesBad
    <3>2. ~given'.sound
      BY <3>1 DEF Block, Faulty
    <3> QED BY <2>1, <3>2 DEF NoFalseRefusal
  <2>4. CASE ~SumsDiffer /\ ~ScalesBad
    BY <1>2, <2>1, <2>4 DEF Conclude, Deliver, NoFalseRefusal
  <2> QED BY <2>2, <2>3, <2>4
<1>3. CASE HandOn
  <2>1. UNCHANGED <<setting, issue, latest, content, spoiler, rewritten, gone>>
    BY <1>3 DEF HandOn
  <2>2. CASE setting.integrity = "inkernel" /\ DeviceStops
    <3>1. Stop(call.clean /\ AsIssued) /\ UNCHANGED <<ranges, consumed>>
      BY <1>3, <2>2 DEF HandOn
    <3>2. ~(call.clean /\ AsIssued)
      BY <2>2 DEF DeviceStops
    <3>3. Reasons'
      BY <2>1, <3>1, ReasonsStay DEF memory
    <3> QED BY <3>1, <3>2, <3>3 DEF Stop, NoFalseRefusal
  <2>3. CASE ~(setting.integrity = "inkernel" /\ DeviceStops)
    <3>1. /\ given'.outcome = call.path
          /\ IF setting.integrity = "writes"
             THEN ranges' = Unguarded(call.a) /\ consumed' = consumed \cup {call.a}
             ELSE UNCHANGED <<ranges, consumed>>
      BY <1>3, <2>3 DEF HandOn, Deliver
    <3>2. call.path # "blocked" /\ call.a \in 1..Len(issue)
      BY <1>3 DEF HandOn, GateInv, TypeOK, Gating, Admitted, InGate
    <3>3. \A h \in ranges' : h \in ranges /\ (h[1] \in consumed' => h[1] \in consumed)
      BY <3>1 DEF Unguarded, Both, Reasons, Known, Handles
    <3>4. Known' /\ Rewritten'
      BY <2>1, <3>1, <3>2, <3>3 DEF Reasons, Known, Rewritten, Handles, Place, Cell
    <3>5. Watched'
      BY <2>1, <3>1, <3>3 DEF Reasons, Watched, Place
    <3> QED BY <3>1, <3>2, <3>4, <3>5 DEF Reasons, NoFalseRefusal
  <2> QED BY <2>2, <2>3
<1>4. CASE Fail
  BY <1>4, ReasonsStay DEF Fail, Block, NoFalseRefusal
<1> QED BY <1>1, <1>2, <1>3, <1>4 DEF Gate

LEMMA InitReasons == Init => Reasons /\ NoFalseRefusal
<1> SUFFICES ASSUME Init PROVE Reasons /\ NoFalseRefusal
  OBVIOUS
<1>1. Len(issue) = 0
  BY DEF Init
<1> QED BY <1>1 DEF Init, Reasons, Known, Rewritten, Watched, NoFalseRefusal, Nothing

LEMMA ReasonsStep == RefusalInv /\ [Next]_vars => Reasons' /\ NoFalseRefusal'
<1> SUFFICES ASSUME RefusalInv, [Next]_vars PROVE Reasons' /\ NoFalseRefusal'
  OBVIOUS
<1>1. ASSUME NEW p \in Places, Issue(p) PROVE Reasons' /\ NoFalseRefusal'
  BY <1>1, IssueKeepsReasons
<1>2. ASSUME NEW h \in Handles, Collect(h) PROVE Reasons' /\ NoFalseRefusal'
  BY <1>2, CollectKeepsReasons
<1>3. ASSUME NEW c \in Cells, NEW x \in Writers, Write(c, x) PROVE Reasons' /\ NoFalseRefusal'
  BY <1>3, WriteKeepsReasons
<1>4. ASSUME NEW c \in Cells, NEW x \in Writers, RefuseWrite(c, x) PROVE Reasons' /\ NoFalseRefusal'
  BY <1>4, RefusalIsDue
<1>5. ASSUME NEW a \in Operands, NEW w \in Operands,
             NEW aPaired \in BOOLEAN, NEW wPaired \in BOOLEAN, Enter(a, aPaired, w, wPaired)
      PROVE  Reasons' /\ NoFalseRefusal'
  BY <1>5, EnterKeepsReasons
<1>6. CASE Gate \/ LateReads \/ Fail
  BY <1>6, GateKeepsReasons
<1>7. CASE UNCHANGED vars
  BY <1>7, ReasonsStay DEF vars, RefusalInv, NoFalseRefusal
<1> QED BY <1>1, <1>2, <1>3, <1>4, <1>5, <1>6, <1>7 DEF Next

-----------------------------------------------------------------------------
(* Every variable of the eager calls keeps its type.                          *)
THEOREM TypeCorrect == Spec => []TypeOK
<1>1. GateInv => TypeOK
  BY DEF GateInv
<1> QED BY <1>1, GateHolds, PTL

(* What a gate hands on is the product of what was issued, or, in the          *)
(* structural experiments, excused by a write the mode says it cannot see       *)
(* (gate, _admit, _check, _static).                                            *)
THEOREM DeliveredIsRight == Spec => []HandedOnIsRight
<1>1. GateInv => HandedOnIsRight
  BY DEF GateInv
<1> QED BY <1>1, GateHolds, PTL

(* writeguard's watch over an issue lasts until nobody waits for it any more,   *)
(* whatever is collected, issued again and released (register, release).        *)
THEOREM WatchIsKept == Spec => []GuardedUntilConsumed
<1>1. GateInv => GuardedUntilConsumed
  BY DEF GateInv, Memory
<1> QED BY <1>1, GateHolds, PTL

(* No call whose operands are as their producers issued them and whose scales   *)
(* can be found is refused, and no write to bytes nobody waits for              *)
(* (gate, _static, refuse_write).                                               *)
THEOREM RefusedIsDue == Spec => []NoFalseRefusal
<1>1. Init => Reasons /\ NoFalseRefusal
  BY InitReasons
<1>2. GateInv /\ (Reasons /\ NoFalseRefusal) /\ [Next]_vars => (Reasons /\ NoFalseRefusal)'
  BY ReasonsStep DEF RefusalInv
<1>3. Reasons /\ NoFalseRefusal => NoFalseRefusal
  OBVIOUS
<1> QED BY <1>1, <1>2, <1>3, GateHolds, PTL DEF Spec

-----------------------------------------------------------------------------
(* The refinement of Handover, without its liveness.                           *)

LEMMA InitPromised == Init => Promise!Init
BY DEF Init, Promise!Init, Answered, Nothing

LEMMA OutsideTheGuarantee ==
    ASSUME setting.mode # "guarantee", setting' = setting
    PROVE  Answered' = Answered
BY DEF Answered

LEMMA EnterMoves ==
    ASSUME NEW a, NEW w, NEW aPaired, NEW wPaired, Enter(a, aPaired, w, wPaired),
           ~Objected(a, aPaired, w, wPaired)
    PROVE  pc = "idle" /\ pc' = "admitted"
BY Zenon DEF Enter

LEMMA StepPromised == GateInv /\ [Next]_vars => [Promise!Next]_Answered
<1> SUFFICES ASSUME GateInv, [Next]_vars PROVE Promise!Next \/ Answered' = Answered
  BY DEF Promise!Next
<1> USE DEF Promise!Next, Promise!Ask, Promise!Answer, Promise!TurnAway, Promise!Answers
<1>1. setting' = setting
  BY DEF Next, Issue, Collect, Write, RefuseWrite, Enter, Gate, Dispatch, LateReads, Compare, Conclude, HandOn,
         Fail, vars
<1>2. CASE setting.mode # "guarantee"
  BY <1>1, <1>2, OutsideTheGuarantee
<1>3. CASE setting.mode = "guarantee"
  <2>1. CASE UNCHANGED <<pc, given>>
    BY <1>1, <2>1 DEF Answered
  <2>2. ASSUME NEW c \in Cells, NEW x \in Writers, RefuseWrite(c, x)
        PROVE  Promise!Next \/ Answered' = Answered
    <3>1. pc = "idle" /\ pc' = "idle" /\ given'.outcome = "blocked"
      BY <2>2 DEF RefuseWrite, MayWrite, Overseen
    <3>2. Answered # "waiting" /\ Answered' = "refused"
      BY <1>1, <1>3, <3>1 DEF Answered
    <3> QED BY <3>2
  <2>3. ASSUME NEW a \in Operands, NEW w \in Operands,
               NEW aPaired \in BOOLEAN, NEW wPaired \in BOOLEAN, Enter(a, aPaired, w, wPaired)
        PROVE  Promise!Next \/ Answered' = Answered
    <3>1. pc = "idle" /\ (pc' = "admitted" \/ (pc' = "idle" /\ given'.outcome = "blocked"))
      <4>1. CASE Objected(a, aPaired, w, wPaired)
        <5>1. pc = "idle" /\ Block(Deserves(a, aPaired, w, wPaired))
          BY <2>3, <4>1 DEF Enter
        <5> QED BY <5>1 DEF Block
      <4>2. CASE ~Objected(a, aPaired, w, wPaired)
        BY <2>3, <4>2, EnterMoves
      <4> QED BY <4>1, <4>2
    <3>2. Answered # "waiting" /\ Answered' \in {"waiting", "refused"}
      BY <1>1, <1>3, <3>1 DEF Answered
    <3> QED BY <3>2
  <2>4. CASE Dispatch \/ Compare
    <3>1. pc \in {"admitted", "ran"} /\ pc' \in {"ran", "compared"}
      BY <2>4 DEF Dispatch, Compare
    <3> QED BY <1>1, <1>3, <3>1 DEF Answered
  <2>5. CASE Conclude
    <3>1. HandedOnIsRight' /\ pc = "compared"
      BY <2>5, ConcludeKeeps DEF GateInv, Conclude
    <3>2. /\ pc' = "idle"
          /\ \/ given'.outcome = "blocked"
             \/ given'.outcome \in {"normal", "repaired"} /\ given'.excused = FALSE
      BY <2>5 DEF Conclude, Block, Deliver
    <3>3. Answered = "waiting" /\ Answered' \in {"right", "refused"}
      BY <1>1, <1>3, <3>1, <3>2 DEF Answered, HandedOnIsRight
    <3> QED BY <3>3
  <2>6. ~HandOn
    BY <1>3 DEF HandOn, GateInv, Gating, Admitted, InGate, PlanRefused, CheckOfMode
  <2>7. CASE Fail
    <3>1. pc \in {"admitted", "ran"} /\ pc' = "idle" /\ given'.outcome = "blocked"
      BY <2>7 DEF Fail, Block
    <3>2. Answered = "waiting" /\ Answered' = "refused"
      BY <1>1, <1>3, <3>1 DEF Answered
    <3> QED BY <3>2
  <2>8. CASE \/ \E p \in Places : Issue(p)
             \/ \E h \in Handles : Collect(h)
             \/ \E c \in Cells, x \in Writers : Write(c, x)
             \/ LateReads \/ UNCHANGED vars
    BY <2>1, <2>8 DEF Issue, Collect, Write, LateReads, vars
  <2> QED BY <2>2, <2>3, <2>4, <2>5, <2>6, <2>7, <2>8 DEF Next, Gate
<1> QED BY <1>2, <1>3

(* Every step of the gate is one that Handover promises, or one it does not      *)
(* speak of: a call is answered with the right product or refused, and nothing   *)
(* else is ever handed to the consumer (gate).                                   *)
THEOREM StepsArePromised == Spec => Promise!Init /\ [][Promise!Next]_Answered
BY InitPromised, StepPromised, GateHolds, PTL DEF Spec

-----------------------------------------------------------------------------
(* Replays of a captured graph. *)
(* The invariant. *)
ReplayCalls ==
    [a : Nat, w : Nat, repaired : BOOLEAN, near : BOOLEAN, path : {"kernel", "reference"},
     viol : BOOLEAN, clean : BOOLEAN, blind : BOOLEAN]
Sites == [a : Nat, w : Nat, path : {"kernel", "reference"}]
Uses == [right : BOOLEAN, excused : BOOLEAN]
Device == {"queued", "admitted", "ran", "compared"}
AtWork == {"admitted", "ran", "compared"}

MemoryTyped ==
    /\ setting \in Settings
    /\ issue \in Seq(Issued)
    /\ latest \in [Places -> Nat]
    /\ content \in [Cells -> Nat]
    /\ spoiler \in [Cells -> Writers \cup {"none", "race"}]
ReplayTyped ==
    /\ pc \in {"idle", "stopped"} \cup Device \cup Waited
    /\ call \in ReplayCalls
    /\ sites \in Seq(Sites) /\ (graph = "captured" => sites # <<>>)
    /\ rows \in Seq({"unreached", "failed", "repaired", "good"})
    /\ Len(rows) = IF Flagged THEN Len(sites) ELSE 0
    /\ at \in Nat
    /\ used \in Seq(Uses)

(* A weight's bytes: what spoiled them shows in the version, or is a write the *)
(* setting does not claim to see; what is watched is what lives.              *)
KnownLatest ==
    \A p \in Places : latest[p] # 0 => latest[p] \in 1..Len(issue) /\ issue[latest[p]].place = p
WatchedWeights ==
    setting.integrity = "writes" =>
        \A p \in Weights, part \in Parts :
            latest[p] # 0 /\ <<latest[p], part>> \notin gone => <<latest[p], part>> \in ranges
WeightBytes ==
    \A p \in Weights, part \in Parts :
        LET c == <<p, part>> IN
        /\ content[c] \in {0, latest[p]}
        /\ content[c] = 0 /\ latest[p] # 0 => spoiler[c] # "none"
        /\ spoiler[c] \in {"here", "elsewhere"} => <<latest[p], part>> \in rewritten
        /\ setting.integrity = "writes" /\ latest[p] # 0 /\ <<latest[p], part>> \notin gone
           => spoiler[c] # "triton"
WeightsKept == KnownLatest /\ WatchedWeights /\ WeightBytes

(* The gates of the graph, and the weights they read while it runs.           *)
GraphWeight(i) == issue[sites[i].w].place
SitesSound ==
    \A i \in DOMAIN sites :
        /\ ~PlanRefused
        /\ sites[i].a \in 1..Len(issue) /\ sites[i].w \in 1..Len(issue)
        /\ issue[sites[i].a].place \in Buffers /\ GraphWeight(i) \in Weights
LookedAt ==
    pc \in Device =>
        \A i \in DOMAIN sites : \A part \in Parts :
            /\ latest[GraphWeight(i)] = sites[i].w
            /\ spoiler[<<GraphWeight(i), part>>] \notin {"here", "elsewhere"}
            /\ setting.integrity = "writes" => spoiler[<<GraphWeight(i), part>>] # "triton"

(* The gate the device is at.                                                 *)
AtSite ==
    /\ pc \in Device => at \in DOMAIN sites /\ Len(used) = at - 1
    /\ pc \in AtWork =>
           /\ call.a = Site.a /\ call.w = Site.w
           /\ setting.check = "static" => ~call.viol
    /\ pc = "finished" => Len(used) = Len(sites)
    /\ pc = "compared" => setting.check = "output"
MadeAgain ==
    pc \in AtWork =>
        \A part \in Parts :
            LET c == <<issue[call.a].place, part>> IN
            content[c] = call.a \/ (content[c] = 0 /\ spoiler[c] = "race")
ComparedInGraph ==
    pc = "compared" => (AsIssued => call.clean /\ call.viol = ~call.near)
GateKept == SitesSound /\ LookedAt /\ AtSite /\ MadeAgain /\ Ran /\ ComparedInGraph

(* What was handed on, and what the host can tell of it.                      *)
Sound(u) == u.right \/ u.excused
Running == pc \in Device \cup Waited
RowsTell ==
    Running /\ Flagged =>
        \A i \in DOMAIN rows : rows[i] \in {"good", "repaired"} => i \in DOMAIN used /\ Sound(used[i])
UnflaggedSound == ~Flagged => \A i \in DOMAIN used : Sound(used[i])
Verdicts ==
    /\ Running <=> outcome = "running"
    /\ RowsTell /\ UnflaggedSound
    /\ StopsInTime /\ CountedGatesRan /\ ReplayIsRight

ReplayInv == MemoryTyped /\ ReplayTyped /\ WeightsKept /\ GateKept /\ Verdicts

LEMMA CallType == NoCall \in ReplayCalls
BY DEF NoCall, ReplayCalls

LEMMA InitKept == InitReplay => ReplayInv
<1> SUFFICES ASSUME InitReplay PROVE ReplayInv
  OBVIOUS
<1> USE DEF InitReplay, Init
<1>1. MemoryTyped
  BY DEF MemoryTyped, Issued, Cells
<1>2. ReplayTyped
  BY CallType DEF ReplayTyped, Sites, Uses, Device, Waited
<1>3. WeightsKept
  BY DEF WeightsKept, KnownLatest, WatchedWeights, WeightBytes, Cells, Places, Parts
<1>4. GateKept
  BY DEF GateKept, SitesSound, LookedAt, AtSite, MadeAgain, Ran, ComparedInGraph, Device, AtWork
<1>5. Verdicts
  BY DEF Verdicts, Running, RowsTell, UnflaggedSound, StopsInTime, CountedGatesRan,
         ReplayIsRight, Device, Waited
<1> QED BY <1>1, <1>2, <1>3, <1>4, <1>5 DEF ReplayInv

-----------------------------------------------------------------------------
(* What a step leaves alone. *)

(* No byte of a weight, nor what is known of it, changes.                     *)
LEMMA WeightsStay ==
    ASSUME MemoryTyped, WeightsKept,
           UNCHANGED <<setting, issue, latest, rewritten, gone, ranges>>,
           \A c \in Cells : c[1] \in Weights => content'[c] = content[c] /\ spoiler'[c] = spoiler[c]
    PROVE  WeightsKept'
<1>1. KnownLatest' /\ WatchedWeights'
  BY DEF WeightsKept, KnownLatest, WatchedWeights
<1>2. \A p \in Weights, part \in Parts :
          content'[<<p, part>>] = content[<<p, part>>] /\ spoiler'[<<p, part>>] = spoiler[<<p, part>>]
  BY DEF Cells, Places
<1>3. WeightBytes'
  BY <1>2 DEF WeightsKept, WeightBytes
<1> QED BY <1>1, <1>3 DEF WeightsKept

(* Between two replays the device is nowhere.                                 *)
LEMMA IdleGate ==
    ASSUME pc' \notin Device, pc' # "finished", SitesSound'
    PROVE  GateKept'
BY DEF GateKept, LookedAt, AtSite, MadeAgain, Ran, ComparedInGraph, Device, AtWork

(* The host's book does not change.                                           *)
LEMMA VerdictsStay ==
    ASSUME Verdicts, UNCHANGED <<setting, rows, used, counted, outcome, unstopped>>, Running' = Running
    PROVE  Verdicts'
BY DEF Verdicts, RowsTell, UnflaggedSound, StopsInTime, CountedGatesRan, ReplayIsRight, Flagged, Sound

-----------------------------------------------------------------------------
(* The producers, collections and writes around the graph. *)

LEMMA IssueKeepsReplay ==
    ASSUME ReplayInv, NEW p \in Places, Issue(p), UNCHANGED <<book, replay>>
    PROVE  ReplayInv'
<1> DEFINE n == Len(issue) + 1
<1> USE DEF ReplayInv, book, replay
<1>1. /\ issue \in Seq(Issued) /\ Len(issue) \in Nat /\ n \in Nat /\ n # 0
      /\ latest \in [Places -> Nat] /\ content \in [Cells -> Nat]
      /\ spoiler \in [Cells -> Writers \cup {"none", "race"}]
  BY DEF MemoryTyped
<1>2. /\ Made(n, p) /\ pc = "idle"
      /\ UNCHANGED <<setting, gone, rewritten, consumed, pc, call, given>>
  BY DEF Issue
<1>3. PICK fault \in Faults \cup {"none"} : issue' = Append(issue, [place |-> p, fault |-> fault])
  BY DEF Issue
<1>4. /\ issue' \in Seq(Issued) /\ Len(issue') = n /\ issue'[n].place = p
      /\ \A i \in 1..Len(issue) : issue'[i] = issue[i]
  BY <1>1, <1>3 DEF Issued
<1>5. latest' = [latest EXCEPT ![p] = n]
  BY <1>2 DEF Made
<1>6. MemoryTyped'
  BY <1>1, <1>2, <1>4, <1>5 DEF MemoryTyped, Made
<1>7. ReplayTyped'
  BY <1>2 DEF ReplayTyped, Flagged
<1>8. ranges' = Registered(n, p)
  BY DEF Issue
<1> HIDE DEF n
<1>9. KnownLatest'
  <2> SUFFICES ASSUME NEW q \in Places, latest'[q] # 0
               PROVE  latest'[q] \in 1..Len(issue') /\ issue'[latest'[q]].place = q
    BY DEF KnownLatest
  <2>1. CASE q = p
    BY <1>1, <1>4, <1>5, <2>1
  <2>2. CASE q # p
    <3>1. latest'[q] = latest[q] /\ latest[q] # 0
      BY <1>1, <1>5, <2>2
    <3>2. latest[q] \in 1..Len(issue) /\ issue[latest[q]].place = q
      BY <3>1 DEF WeightsKept, KnownLatest
    <3>3. 1..Len(issue) \subseteq 1..n
      BY <1>1 DEF n
    <3> QED BY <1>4, <3>1, <3>2, <3>3
  <2> QED BY <2>1, <2>2
<1>10. WatchedWeights'
  <2> SUFFICES ASSUME setting.integrity = "writes", NEW q \in Weights, NEW part \in Parts,
                      latest'[q] # 0, <<latest'[q], part>> \notin gone
               PROVE  <<latest'[q], part>> \in ranges'
    BY <1>2 DEF WatchedWeights
  <2>1. ranges' = {h \in ranges : Place(h) # p} \cup Both(n)
    BY <1>8 DEF Registered
  <2>2. CASE q = p
    BY <1>1, <1>5, <2>1, <2>2 DEF Both
  <2>3. CASE q # p
    <3>1. latest'[q] = latest[q] /\ latest[q] # 0 /\ q \in Places
      BY <1>1, <1>5, <2>3 DEF Places
    <3>2. <<latest[q], part>> \in ranges /\ issue[latest[q]].place = q
      BY <3>1 DEF WeightsKept, KnownLatest, WatchedWeights
    <3>3. Place(<<latest[q], part>>) # p
      BY <2>3, <3>2 DEF Place
    <3> QED BY <2>1, <3>1, <3>2, <3>3
  <2> QED BY <2>2, <2>3
<1>11. WeightBytes'
  <2> SUFFICES ASSUME NEW q \in Weights, NEW part \in Parts
               PROVE  LET c == <<q, part>> IN
                      /\ content'[c] \in {0, latest'[q]}
                      /\ content'[c] = 0 /\ latest'[q] # 0 => spoiler'[c] # "none"
                      /\ spoiler'[c] \in {"here", "elsewhere"} => <<latest'[q], part>> \in rewritten
                      /\ setting.integrity = "writes" /\ latest'[q] # 0 /\ <<latest'[q], part>> \notin gone
                         => spoiler'[c] # "triton"
    BY <1>2 DEF WeightBytes
  <2> DEFINE c == <<q, part>>
  <2>1. c \in Cells /\ c[1] = q /\ q \in Places
    BY DEF Cells, Places
  <2> HIDE DEF c
  <2>2. CASE q = p
    <3>1. content'[c] = n /\ spoiler'[c] = "none" /\ latest'[q] = n
      BY <1>1, <1>2, <2>1, <2>2 DEF Made
    <3> QED BY <1>1, <3>1 DEF c, n
  <2>3. CASE q # p
    <3>1. content'[c] = content[c] /\ spoiler'[c] = spoiler[c] /\ latest'[q] = latest[q]
      BY <1>1, <1>2, <2>1, <2>3 DEF Made
    <3> QED BY <3>1 DEF c, WeightsKept, WeightBytes
  <2> QED BY <2>2, <2>3
<1>12. SitesSound'
  <2> SUFFICES ASSUME NEW i \in DOMAIN sites
               PROVE  (/\ ~PlanRefused
                       /\ sites[i].a \in 1..Len(issue) /\ sites[i].w \in 1..Len(issue)
                       /\ issue[sites[i].a].place \in Buffers /\ GraphWeight(i) \in Weights)'
    BY DEF SitesSound
  <2>1. /\ ~PlanRefused
        /\ sites[i].a \in 1..Len(issue) /\ sites[i].w \in 1..Len(issue)
        /\ issue[sites[i].a].place \in Buffers /\ GraphWeight(i) \in Weights
    BY DEF GateKept, SitesSound
  <2>2. 1..Len(issue) \subseteq 1..n
    BY <1>1 DEF n
  <2> QED BY <1>2, <1>4, <2>1, <2>2 DEF PlanRefused, CheckOfMode, WeakerThanFloor, GraphWeight
<1>13. GateKept'
  BY <1>2, <1>12, IdleGate DEF Device
<1>14. Verdicts'
  BY <1>2, VerdictsStay DEF Running
<1> QED BY <1>6, <1>7, <1>9, <1>10, <1>11, <1>13, <1>14 DEF WeightsKept

LEMMA CollectKeepsReplay ==
    ASSUME ReplayInv, NEW h \in Handles, Collect(h), UNCHANGED <<book, replay>>
    PROVE  ReplayInv'
<1> USE DEF ReplayInv, book, replay
<1>1. /\ gone' = gone \cup {h} /\ ranges' = ranges \ {h}
      /\ UNCHANGED <<setting, issue, latest, content, spoiler, rewritten, pc, call, given, consumed>>
  BY DEF Collect, Released
<1>2. MemoryTyped' /\ ReplayTyped'
  BY <1>1 DEF MemoryTyped, ReplayTyped, Flagged
<1>3. WeightsKept'
  BY <1>1 DEF WeightsKept, KnownLatest, WatchedWeights, WeightBytes
<1>4. SitesSound'
  BY <1>1 DEF GateKept, SitesSound, PlanRefused, CheckOfMode, WeakerThanFloor, GraphWeight
<1>5. LookedAt' /\ AtSite' /\ MadeAgain'
  BY <1>1 DEF GateKept, LookedAt, AtSite, MadeAgain, GraphWeight, Site
<1>6. Ran' /\ ComparedInGraph'
  BY <1>1 DEF GateKept, Ran, Raced, ComparedInGraph, AsIssued, Operated, Cell, Place
<1>7. Verdicts'
  BY <1>1, VerdictsStay DEF Running
<1> QED BY <1>2, <1>3, <1>4, <1>5, <1>6, <1>7 DEF GateKept

(* The handles of the gate the device is at: its activation and its weight.   *)
LEMMA OperatedCell ==
    ASSUME MemoryTyped, GateKept, pc \in AtWork, NEW h \in Operated
    PROVE  /\ Cell(h) \in Cells /\ Cell(h) = <<Place(h), h[2]>> /\ h[1] # 0 /\ h[2] \in Parts
           /\ \/ Place(h) \in Buffers /\ h[1] = call.a /\ Place(h) = issue[call.a].place
              \/ Place(h) \in Weights /\ h[1] = call.w /\ Place(h) = issue[call.w].place
<1>1. /\ at \in DOMAIN sites /\ call.a = sites[at].a /\ call.w = sites[at].w
  BY DEF GateKept, AtSite, Site, Device, AtWork
<1>2. /\ call.a \in 1..Len(issue) /\ call.w \in 1..Len(issue)
      /\ issue[call.a].place \in Buffers /\ issue[call.w].place \in Weights
  BY <1>1 DEF GateKept, SitesSound, GraphWeight
<1>3. PICK m \in {call.a, call.w}, part \in Parts : h = <<m, part>>
  BY DEF Operated, Both
<1>4. h[1] = m /\ h[2] = part /\ Place(h) = issue[m].place
  BY <1>3 DEF Place
<1>5. m # 0
  BY <1>2
<1> QED BY <1>2, <1>3, <1>4, <1>5 DEF Cell, Cells, Places

(* A write while the graph runs leaves "race" in the cell; before it, what     *)
(* writeguard would have seen never reaches a weight that still lives.        *)
LEMMA WriteKeepsReplay ==
    ASSUME ReplayInv, NEW c \in Cells, NEW x \in Writers, Write(c, x), UNCHANGED <<book, replay>>
    PROVE  ReplayInv'
<1> USE DEF ReplayInv, book, replay
<1> DEFINE left == IF pc = "idle" THEN x ELSE "race"
<1>1. /\ content' = [content EXCEPT ![c] = 0] /\ spoiler' = [spoiler EXCEPT ![c] = left]
      /\ rewritten' = Versions(c, x)
      /\ UNCHANGED <<setting, issue, latest, gone, ranges, pc, call, given, consumed>>
  BY DEF Write
<1>2. /\ content \in [Cells -> Nat]
      /\ spoiler \in [Cells -> Writers \cup {"none", "race"}]
  BY DEF MemoryTyped
<1>3. rewritten \subseteq rewritten'
  BY <1>1 DEF Versions
<1>4. /\ left # "none" /\ left \in Writers \cup {"race"}
      /\ left # "race" => pc = "idle" /\ x = left
  BY DEF Writers
<1> HIDE DEF left
<1>5. MemoryTyped' /\ ReplayTyped'
  BY <1>1, <1>4 DEF MemoryTyped, ReplayTyped, Flagged
<1>6. KnownLatest' /\ WatchedWeights'
  BY <1>1 DEF WeightsKept, KnownLatest, WatchedWeights
<1>7. WeightBytes'
  <2> SUFFICES ASSUME NEW p \in Weights, NEW part \in Parts
               PROVE  LET d == <<p, part>> IN
                      /\ content'[d] \in {0, latest[p]}
                      /\ content'[d] = 0 /\ latest[p] # 0 => spoiler'[d] # "none"
                      /\ spoiler'[d] \in {"here", "elsewhere"} => <<latest[p], part>> \in rewritten'
                      /\ setting.integrity = "writes" /\ latest[p] # 0 /\ <<latest[p], part>> \notin gone
                         => spoiler'[d] # "triton"
    BY <1>1 DEF WeightBytes
  <2> DEFINE d == <<p, part>>
  <2>1. d \in Cells /\ d[1] = p /\ d[2] = part /\ p \in Places
    BY DEF Cells, Places
  <2>2. CASE d # c
    <3>1. content'[d] = content[d] /\ spoiler'[d] = spoiler[d]
      BY <1>1, <1>2, <2>1, <2>2
    <3> QED BY <1>3, <3>1 DEF WeightsKept, WeightBytes
  <2>3. CASE d = c
    <3>1. content'[d] = 0 /\ spoiler'[d] = left
      BY <1>1, <1>2, <2>3
    <3>2. left \in {"here", "elsewhere"} => <<latest[p], part>> \in rewritten'
      BY <1>1, <1>4, <2>1, <2>3 DEF Versions
    <3>3. ASSUME setting.integrity = "writes", latest[p] # 0, <<latest[p], part>> \notin gone,
                 left = "triton"
          PROVE  FALSE
      <4>1. <<latest[p], part>> \in ranges /\ issue[latest[p]].place = p
        BY <2>1, <3>3 DEF WeightsKept, KnownLatest, WatchedWeights
      <4>2. Cell(<<latest[p], part>>) = c
        BY <2>3, <4>1 DEF Cell, Place
      <4>3. Guarded(c) /\ x = "triton"
        BY <1>4, <3>3, <4>1, <4>2 DEF Guarded
      <4> QED BY <4>3 DEF Write, Overseen
    <3> QED BY <1>4, <3>1, <3>2, <3>3
  <2> QED BY <2>2, <2>3
<1>8. SitesSound'
  BY <1>1 DEF GateKept, SitesSound, PlanRefused, CheckOfMode, WeakerThanFloor, GraphWeight
<1>9. LookedAt'
  <2> SUFFICES ASSUME pc \in Device, NEW i \in DOMAIN sites, NEW part \in Parts
               PROVE  LET d == <<GraphWeight(i), part>> IN
                      /\ latest[GraphWeight(i)] = sites[i].w
                      /\ spoiler'[d] \notin {"here", "elsewhere"}
                      /\ setting.integrity = "writes" => spoiler'[d] # "triton"
    BY <1>1 DEF LookedAt, GraphWeight
  <2> DEFINE d == <<GraphWeight(i), part>>
  <2>1. /\ latest[GraphWeight(i)] = sites[i].w /\ spoiler[d] \notin {"here", "elsewhere"}
        /\ setting.integrity = "writes" => spoiler[d] # "triton"
    BY DEF GateKept, LookedAt
  <2>2. d \in Cells
    BY DEF GateKept, SitesSound, Cells, Places
  <2> HIDE DEF d
  <2>3. left = "race"
    BY <1>4 DEF Device
  <2>4. spoiler'[d] \in {spoiler[d], "race"}
    BY <1>1, <1>2, <2>2, <2>3
  <2> QED BY <2>1, <2>4 DEF d
<1>10. AtSite'
  BY <1>1 DEF GateKept, AtSite, Site
<1>11. MadeAgain'
  <2> SUFFICES ASSUME pc \in AtWork, NEW part \in Parts
               PROVE  LET d == <<issue[call.a].place, part>> IN
                      content'[d] = call.a \/ (content'[d] = 0 /\ spoiler'[d] = "race")
    BY <1>1 DEF MadeAgain
  <2> DEFINE d == <<issue[call.a].place, part>>
  <2>1. content[d] = call.a \/ (content[d] = 0 /\ spoiler[d] = "race")
    BY DEF GateKept, MadeAgain
  <2>2. d \in Cells
    <3>1. at \in DOMAIN sites /\ call.a = sites[at].a
      BY DEF GateKept, AtSite, Site, Device, AtWork
    <3> QED BY <3>1 DEF GateKept, SitesSound, Cells, Places
  <2> HIDE DEF d
  <2>3. left = "race"
    BY <1>4 DEF AtWork
  <2>4. \/ content'[d] = content[d] /\ spoiler'[d] = spoiler[d]
        \/ content'[d] = 0 /\ spoiler'[d] = "race"
    BY <1>1, <1>2, <2>2, <2>3
  <2> QED BY <2>1, <2>4 DEF d
<1>12. pc \in AtWork => (AsIssued' => AsIssued)
  <2> SUFFICES ASSUME pc \in AtWork, AsIssued', NEW h \in Operated
               PROVE  content[Cell(h)] = h[1]
    BY DEF AsIssued
  <2>1. Cell(h) \in Cells /\ h[1] # 0
    BY OperatedCell
  <2>2. content'[Cell(h)] = h[1]
    BY <1>1 DEF AsIssued, Operated, Cell, Place
  <2> QED BY <1>1, <1>2, <2>1, <2>2
<1>13. ASSUME pc = "ran", NEW h \in Operated, Raced(h) PROVE Raced(h)'
  <2>1. Cell(h) \in Cells /\ Cell(h)' = Cell(h)
    BY <1>1, <1>13, OperatedCell DEF AtWork, Cell, Place
  <2>2. left = "race"
    BY <1>4, <1>13
  <2>3. \/ content'[Cell(h)] = content[Cell(h)] /\ spoiler'[Cell(h)] = spoiler[Cell(h)]
        \/ content'[Cell(h)] = 0 /\ spoiler'[Cell(h)] = "race"
    BY <1>1, <1>2, <2>1, <2>2
  <2> QED BY <1>13, <2>1, <2>3 DEF Raced
<1>14. Ran' /\ ComparedInGraph'
  <2>1. Ran'
    BY <1>1, <1>12, <1>13 DEF GateKept, Ran, AtWork, Operated
  <2> QED BY <1>1, <1>12, <2>1 DEF GateKept, ComparedInGraph, AtWork
<1>15. Verdicts'
  BY <1>1, VerdictsStay DEF Running
<1> QED BY <1>5, <1>6, <1>7, <1>8, <1>9, <1>10, <1>11, <1>14, <1>15 DEF WeightsKept, GateKept

LEMMA RefuseWriteKeepsReplay ==
    ASSUME ReplayInv, NEW c \in Cells, NEW x \in Writers, RefuseWrite(c, x), UNCHANGED <<book, replay>>
    PROVE  ReplayInv'
<1> USE DEF ReplayInv, book, replay, memory
<1>1. UNCHANGED <<setting, memory, pc, call, consumed>>
  BY DEF RefuseWrite
<1>2. MemoryTyped' /\ ReplayTyped'
  BY <1>1 DEF MemoryTyped, ReplayTyped, Flagged
<1>3. WeightsKept'
  BY <1>1, WeightsStay
<1>4. SitesSound'
  BY <1>1 DEF GateKept, SitesSound, PlanRefused, CheckOfMode, WeakerThanFloor, GraphWeight
<1>5. LookedAt' /\ AtSite' /\ MadeAgain'
  BY <1>1 DEF GateKept, LookedAt, AtSite, MadeAgain, GraphWeight, Site
<1>6. Ran' /\ ComparedInGraph'
  BY <1>1 DEF GateKept, Ran, Raced, ComparedInGraph, AsIssued, Operated, Cell, Place
<1>7. Verdicts'
  BY <1>1, VerdictsStay DEF Running
<1> QED BY <1>2, <1>3, <1>4, <1>5, <1>6, <1>7 DEF GateKept

-----------------------------------------------------------------------------
(* The capture. *)

LEMMA BeginCaptureKeeps ==
    ASSUME ReplayInv, NEW told \in BOOLEAN, BeginCapture(told) \/ EndCapture
    PROVE  ReplayInv'
<1> USE DEF ReplayInv, vars, memory, replay
<1>1. UNCHANGED <<setting, memory, pc, call, sites, rows, replay>> /\ pc = "idle"
  BY DEF BeginCapture, EndCapture
<1>2. MemoryTyped' /\ ReplayTyped'
  BY <1>1 DEF BeginCapture, EndCapture, MemoryTyped, ReplayTyped, Flagged
<1>3. WeightsKept'
  BY <1>1, WeightsStay
<1>4. SitesSound'
  BY <1>1 DEF GateKept, SitesSound, PlanRefused, CheckOfMode, WeakerThanFloor, GraphWeight
<1>5. GateKept'
  BY <1>1, <1>4, IdleGate DEF Device
<1>6. Verdicts'
  BY <1>1, VerdictsStay DEF Running
<1> QED BY <1>2, <1>3, <1>5, <1>6

(* The gate consumes an activation: no weight loses its watch.                *)
LEMMA CaptureGateKeeps ==
    ASSUME ReplayInv, NEW a \in Handles, NEW w \in Handles, NEW path \in {"kernel", "reference"},
           CaptureGate(a, w, path)
    PROVE  ReplayInv'
<1> USE DEF ReplayInv, replay
<1>1. /\ UNCHANGED <<setting, issue, latest, content, spoiler, rewritten, gone, pc, call, replay>>
      /\ pc = "idle"
  BY DEF CaptureGate
<1>2. MemoryTyped'
  BY <1>1 DEF MemoryTyped
<1>3. CASE UNCHANGED <<sites, rows, ranges>>
  <2>1. ReplayTyped'
    BY <1>1, <1>3 DEF CaptureGate, ReplayTyped, Flagged
  <2>2. WeightsKept'
    BY <1>1, <1>3, WeightsStay
  <2>3. SitesSound'
    BY <1>1, <1>3 DEF GateKept, SitesSound, PlanRefused, CheckOfMode, WeakerThanFloor, GraphWeight
  <2>4. GateKept'
    BY <1>1, <2>3, IdleGate DEF Device
  <2>5. Verdicts'
    BY <1>1, <1>3, VerdictsStay DEF Running
  <2> QED BY <1>2, <2>1, <2>2, <2>4, <2>5
<1>4. CASE ~UNCHANGED <<sites, rows, ranges>>
  <2> DEFINE site == [a |-> a[1], w |-> w[1], path |-> path]
  <2>1. /\ ~Objected(a, TRUE, w, TRUE)
        /\ sites' = Append(sites, site)
        /\ rows' = IF Flagged THEN Append(rows, "unreached") ELSE rows
        /\ IF setting.integrity = "writes" THEN ranges' = Unguarded(a[1]) ELSE UNCHANGED ranges
    BY <1>4 DEF CaptureGate
  <2>2. /\ a[1] \in 1..Len(issue) /\ w[1] \in 1..Len(issue)
        /\ issue \in Seq(Issued) /\ Len(issue) \in Nat
    BY DEF Handles, MemoryTyped
  <2>3. /\ ~PlanRefused /\ Role(a) = <<"activation", "value">> /\ Role(w) = <<"weight", "value">>
    BY <2>1 DEF Objected
  <2>4. issue[a[1]].place \in Buffers /\ issue[w[1]].place \in Weights
    <3>1. issue[a[1]] \in Issued /\ issue[w[1]] \in Issued
      BY <2>2
    <3> QED BY <2>3, <3>1 DEF Role, Place, Issued, Places
  <2>5. site \in Sites /\ sites \in Seq(Sites) /\ rows \in Seq({"unreached", "failed", "repaired", "good"})
    BY <2>2 DEF Sites, ReplayTyped
  <2> DEFINE k == Len(sites) + 1
  <2>6. /\ sites' \in Seq(Sites) /\ Len(sites') = k /\ sites'[k] = site
        /\ DOMAIN sites = 1..Len(sites) /\ DOMAIN sites' = 1..k /\ Len(sites) \in Nat
        /\ \A i \in 1..Len(sites) : sites'[i] = sites[i]
    <3> HIDE DEF site
    <3> QED BY <2>1, <2>5
  <2>7. /\ rows' \in Seq({"unreached", "failed", "repaired", "good"})
        /\ Len(rows') = IF Flagged THEN Len(sites') ELSE 0
    <3>1. CASE Flagged
      BY <2>1, <2>5, <2>6, <3>1 DEF ReplayTyped
    <3>2. CASE ~Flagged
      BY <2>1, <2>5, <3>2 DEF ReplayTyped
    <3> QED BY <3>1, <3>2
  <2>8. ReplayTyped'
    <3>1. sites' # <<>>
      BY <2>6
    <3> QED BY <1>1, <2>6, <2>7, <3>1 DEF ReplayTyped, Flagged
  <2>9. SitesSound'
    <3> SUFFICES ASSUME NEW i \in 1..k
                 PROVE  (/\ ~PlanRefused
                         /\ sites[i].a \in 1..Len(issue) /\ sites[i].w \in 1..Len(issue)
                         /\ issue[sites[i].a].place \in Buffers /\ GraphWeight(i) \in Weights)'
      BY <2>6 DEF SitesSound
    <3>1. CASE i = k
      BY <1>1, <2>2, <2>3, <2>4, <2>6, <3>1
         DEF PlanRefused, CheckOfMode, WeakerThanFloor, GraphWeight
    <3>2. CASE i # k
      <4>1. i \in DOMAIN sites /\ sites'[i] = sites[i]
        BY <2>6, <3>2
      <4> QED BY <1>1, <2>3, <4>1
              DEF GateKept, SitesSound, PlanRefused, CheckOfMode, WeakerThanFloor, GraphWeight
    <3> QED BY <3>1, <3>2
  <2>10. WeightsKept'
    <3>1. KnownLatest' /\ WeightBytes'
      BY <1>1 DEF WeightsKept, KnownLatest, WeightBytes
    <3>2. WatchedWeights'
      <4> SUFFICES ASSUME setting.integrity = "writes", NEW p \in Weights, NEW part \in Parts,
                          latest[p] # 0, <<latest[p], part>> \notin gone
                   PROVE  <<latest[p], part>> \in ranges'
        BY <1>1 DEF WatchedWeights
      <4>1. <<latest[p], part>> \in ranges /\ issue[latest[p]].place = p
        BY DEF WeightsKept, KnownLatest, WatchedWeights, Places
      <4>2. latest[p] # a[1]
        BY <2>4, <4>1, PlaceAssumption
      <4>3. <<latest[p], part>> \notin Both(a[1])
        BY <4>2 DEF Both
      <4> QED BY <2>1, <4>1, <4>3 DEF Unguarded
    <3> QED BY <3>1, <3>2 DEF WeightsKept
  <2>11. GateKept'
    BY <1>1, <2>9, IdleGate DEF Device
  <2>12. Verdicts'
    <3>1. ~Running /\ ~Running'
      BY <1>1 DEF Running, Device, Waited
    <3> QED BY <1>1, <3>1 DEF Verdicts, RowsTell, UnflaggedSound, StopsInTime, CountedGatesRan,
                              ReplayIsRight, Flagged, Sound
  <2> QED BY <1>2, <2>8, <2>10, <2>11, <2>12
<1> QED BY <1>3, <1>4

-----------------------------------------------------------------------------
(* The replay. *)

(* The host's look at the weights: what spoiled one since shows in a version,  *)
(* or the setting does not claim to see it.                                   *)
LEMMA BeforeReplayKeeps ==
    ASSUME ReplayInv, BeforeReplay
    PROVE  ReplayInv'
<1> USE DEF ReplayInv, memory
<1>1. /\ UNCHANGED <<setting, memory, call, graph, sites>> /\ pc = "idle"
      /\ used' = <<>> /\ counted' = {} /\ unstopped' = FALSE
  BY DEF BeforeReplay
<1>2. MemoryTyped'
  BY <1>1 DEF MemoryTyped
<1>3. WeightsKept'
  BY <1>1, WeightsStay
<1>4. SitesSound'
  BY <1>1 DEF GateKept, SitesSound, PlanRefused, CheckOfMode, WeakerThanFloor, GraphWeight
<1>5. used' \in Seq(Uses) /\ Len(used') = 0 /\ DOMAIN used' = {}
  BY <1>1
<1>6. UnflaggedSound' /\ StopsInTime' /\ CountedGatesRan' /\ ReplayIsRight'
  BY <1>1, <1>5 DEF UnflaggedSound, StopsInTime, CountedGatesRan, ReplayIsRight
<1>7. CASE WeightStale
  <2>1. outcome' = "refused" /\ UNCHANGED <<pc, at, rows>>
    BY <1>7 DEF BeforeReplay
  <2>2. ReplayTyped'
    BY <1>1, <1>5, <2>1 DEF ReplayTyped, Flagged
  <2>3. GateKept'
    BY <1>1, <1>4, <2>1, IdleGate DEF Device
  <2>4. Verdicts'
    BY <1>1, <1>6, <2>1 DEF Verdicts, Running, RowsTell, Device, Waited
  <2> QED BY <1>2, <1>3, <2>2, <2>3, <2>4
<1>8. CASE ~WeightStale
  <2>1. outcome' = "running" /\ pc' = "queued" /\ at' = 1 /\ rows' = Cleared
    BY <1>8 DEF BeforeReplay
  <2>2. /\ rows \in Seq({"unreached", "failed", "repaired", "good"})
        /\ sites \in Seq(Sites) /\ sites # <<>>
    BY DEF BeforeReplay, ReplayTyped
  <2>3. /\ rows' \in Seq({"unreached", "failed", "repaired", "good"}) /\ Len(rows') = Len(rows)
        /\ \A i \in DOMAIN rows' : rows'[i] = "unreached"
    BY <2>1, <2>2 DEF Cleared
  <2>4. ReplayTyped'
    BY <1>1, <1>5, <2>1, <2>3 DEF ReplayTyped, Flagged, Device
  <2>5. LookedAt'
    <3> SUFFICES ASSUME NEW i \in DOMAIN sites, NEW part \in Parts
                 PROVE  LET d == <<GraphWeight(i), part>> IN
                        /\ latest[GraphWeight(i)] = sites[i].w
                        /\ spoiler[d] \notin {"here", "elsewhere"}
                        /\ setting.integrity = "writes" => spoiler[d] # "triton"
      BY <1>1 DEF LookedAt, GraphWeight
    <3> DEFINE h == <<sites[i].w, part>>
    <3>1. h \in Both(sites[i].w) /\ h[1] = sites[i].w /\ Place(h) = GraphWeight(i)
      BY DEF Both, Place, GraphWeight
    <3>2. h \notin gone /\ latest[GraphWeight(i)] = sites[i].w /\ h \notin rewritten
      BY <1>8, <3>1 DEF WeightStale, Stale
    <3>3. GraphWeight(i) \in Weights /\ sites[i].w # 0
      BY <2>2 DEF GateKept, SitesSound
    <3> QED BY <3>2, <3>3 DEF WeightsKept, WeightBytes
  <2>6. AtSite'
    BY <1>1, <1>5, <2>1, <2>2 DEF AtSite, Device, AtWork
  <2>7. GateKept'
    BY <1>4, <2>1, <2>5, <2>6 DEF GateKept, MadeAgain, Ran, ComparedInGraph, AtWork
  <2>8. Verdicts'
    BY <1>6, <2>1, <2>3 DEF Verdicts, Running, RowsTell, Device, Waited
  <2> QED BY <1>2, <1>3, <2>4, <2>7, <2>8
<1> QED BY <1>7, <1>8

-----------------------------------------------------------------------------
(* The device. *)

(* The quantizer makes the activation again: no weight lies where it does.    *)
LEMMA RemakeKeeps ==
    ASSUME ReplayInv, Remake
    PROVE  ReplayInv'
<1> USE DEF ReplayInv, book, replay
<1> DEFINE place == issue[Site.a].place
<1>1. /\ pc = "queued" /\ pc' = "admitted"
      /\ content' = [c \in Cells |-> IF c[1] = place THEN Site.a ELSE content[c]]
      /\ spoiler' = [c \in Cells |-> IF c[1] = place THEN "none" ELSE spoiler[c]]
      /\ call' = [NoCall EXCEPT !.a = Site.a, !.w = Site.w]
      /\ UNCHANGED <<setting, issue, latest, rewritten, gone, ranges, book, replay>>
  BY DEF Remake
<1>2. at \in DOMAIN sites /\ Len(used) = at - 1
  BY <1>1 DEF GateKept, AtSite, Device
<1>3. Site \in Sites /\ Site.a \in 1..Len(issue) /\ place \in Buffers
  BY <1>2 DEF ReplayTyped, Site, GateKept, SitesSound
<1>4. /\ content \in [Cells -> Nat] /\ spoiler \in [Cells -> Writers \cup {"none", "race"}]
      /\ Site.a \in Nat /\ Site.w \in Nat
  BY <1>3 DEF MemoryTyped, Sites
<1>5. MemoryTyped'
  BY <1>1, <1>4 DEF MemoryTyped
<1>6. call' \in ReplayCalls /\ call'.a = Site.a /\ call'.w = Site.w /\ call'.viol = FALSE
  BY <1>1, <1>4 DEF NoCall, ReplayCalls
<1>7. ReplayTyped'
  BY <1>1, <1>6 DEF ReplayTyped, Flagged, Device
<1>8. \A c \in Cells : c[1] \in Weights => content'[c] = content[c] /\ spoiler'[c] = spoiler[c]
  <2> HIDE DEF place
  <2> QED BY <1>1, <1>3, PlaceAssumption
<1>9. WeightsKept'
  BY <1>1, <1>8, WeightsStay
<1>10. SitesSound'
  BY <1>1 DEF GateKept, SitesSound, PlanRefused, CheckOfMode, WeakerThanFloor, GraphWeight
<1>11. LookedAt'
  <2> SUFFICES ASSUME NEW i \in DOMAIN sites, NEW part \in Parts
               PROVE  LET d == <<GraphWeight(i), part>> IN
                      /\ latest[GraphWeight(i)] = sites[i].w
                      /\ spoiler'[d] \notin {"here", "elsewhere"}
                      /\ setting.integrity = "writes" => spoiler'[d] # "triton"
    BY <1>1 DEF LookedAt, GraphWeight
  <2> DEFINE d == <<GraphWeight(i), part>>
  <2>1. /\ latest[GraphWeight(i)] = sites[i].w /\ spoiler[d] \notin {"here", "elsewhere"}
        /\ setting.integrity = "writes" => spoiler[d] # "triton"
    BY <1>1 DEF GateKept, LookedAt, Device
  <2>2. d \in Cells /\ d[1] \in Weights
    BY DEF GateKept, SitesSound, Cells, Places
  <2>3. spoiler'[d] = spoiler[d]
    BY <1>8, <2>2
  <2> QED BY <2>1, <2>3
<1>12. AtSite'
  BY <1>1, <1>2, <1>6 DEF AtSite, Device, AtWork, Site
<1>13. MadeAgain'
  <2>1. \A part \in Parts : <<place, part>> \in Cells
    BY <1>3 DEF Cells, Places
  <2>2. \A part \in Parts : content'[<<place, part>>] = Site.a
    BY <1>1, <2>1
  <2> QED BY <1>1, <1>6, <2>2 DEF MadeAgain
<1>14. Ran' /\ ComparedInGraph'
  BY <1>1 DEF Ran, ComparedInGraph
<1>15. Verdicts'
  BY <1>1, VerdictsStay DEF Running, Device
<1> QED BY <1>5, <1>7, <1>9, <1>10, <1>11, <1>12, <1>13, <1>14, <1>15 DEF GateKept

(* A structural mode's gate that reads other bytes than the issued ones reads  *)
(* what one of the writes left there that the mode says it cannot see.        *)
LEMMA WrongInGraphIsBlind ==
    ASSUME MemoryTyped, WeightsKept, GateKept, pc = "admitted", setting.check = "static",
           setting.integrity # "inkernel", ~AsIssued
    PROVE  BlindNow
<1>1. PICK h \in Operated : content[Cell(h)] # h[1]
  BY DEF AsIssued
<1>2. /\ Cell(h) \in Cells /\ Cell(h) = <<Place(h), h[2]>> /\ h[1] # 0 /\ h[2] \in Parts
      /\ \/ Place(h) \in Buffers /\ h[1] = call.a /\ Place(h) = issue[call.a].place
         \/ Place(h) \in Weights /\ h[1] = call.w /\ Place(h) = issue[call.w].place
  BY OperatedCell DEF AtWork
<1>3. at \in DOMAIN sites /\ call.a = sites[at].a /\ call.w = sites[at].w
  BY DEF GateKept, AtSite, Site, Device, AtWork
<1>4. setting.integrity \in {"epoch", "writes"}
  BY <1>3, StaticIntegrity DEF GateKept, SitesSound, MemoryTyped
<1>5. CASE Place(h) \in Buffers
  <2>1. content[Cell(h)] = 0 /\ spoiler[Cell(h)] = "race" /\ Place(h) \notin Weights
    BY <1>1, <1>2, <1>5, PlaceAssumption DEF GateKept, MadeAgain, AtWork
  <2>2. "race" \in Blind(Place(h))
    BY <1>4, <2>1 DEF Blind
  <2> QED BY <2>1, <2>2 DEF BlindNow
<1>6. CASE Place(h) \in Weights
  <2>1. Place(h) = GraphWeight(at) /\ h[1] = sites[at].w
    BY <1>2, <1>3, <1>6, PlaceAssumption DEF GraphWeight
  <2>2. /\ latest[Place(h)] = h[1] /\ spoiler[Cell(h)] \notin {"here", "elsewhere"}
        /\ setting.integrity = "writes" => spoiler[Cell(h)] # "triton"
    BY <1>2, <1>3, <2>1 DEF GateKept, LookedAt, Device
  <2>3. content[Cell(h)] = 0 /\ spoiler[Cell(h)] # "none"
    BY <1>1, <1>2, <1>6, <2>2 DEF WeightsKept, WeightBytes
  <2>4. spoiler[Cell(h)] \in Writers \cup {"race"}
    BY <1>2, <2>3 DEF MemoryTyped
  <2>5. spoiler[Cell(h)] \in Blind(Place(h))
    BY <1>4, <1>6, <2>2, <2>4 DEF Blind, Writers
  <2> QED BY <2>3, <2>5 DEF BlindNow
<1> QED BY <1>2, <1>5, <1>6

(* The device works on a gate: the memory and the host's book stay.           *)
LEMMA WorkKeeps ==
    ASSUME ReplayInv, UNCHANGED <<setting, memory, book, replay>>,
           pc \in AtWork, pc' \in AtWork, call' \in ReplayCalls, call'.a = call.a, call'.w = call.w,
           setting.check = "static" => ~call'.viol,
           pc' = "compared" => setting.check = "output",
           Ran', ComparedInGraph'
    PROVE  ReplayInv'
<1> USE DEF ReplayInv, memory, book, replay
<1>1. MemoryTyped' /\ ReplayTyped'
  BY DEF MemoryTyped, ReplayTyped, Flagged, AtWork, Device
<1>2. WeightsKept'
  BY WeightsStay
<1>3. SitesSound'
  BY DEF GateKept, SitesSound, PlanRefused, CheckOfMode, WeakerThanFloor, GraphWeight
<1>4. LookedAt'
  BY DEF GateKept, LookedAt, GraphWeight, AtWork, Device
<1>5. AtSite'
  BY DEF GateKept, AtSite, Site, AtWork, Device
<1>6. MadeAgain'
  BY DEF GateKept, MadeAgain
<1>7. Verdicts'
  BY VerdictsStay DEF Running, AtWork, Device
<1> QED BY <1>1, <1>2, <1>3, <1>4, <1>5, <1>6, <1>7 DEF GateKept

LEMMA LaunchKeeps ==
    ASSUME ReplayInv, Launch
    PROVE  ReplayInv'
<1> USE DEF ReplayInv
<1>1. UNCHANGED <<setting, memory, book, replay>> /\ pc = "admitted" /\ pc' = "ran"
  BY DEF Launch, Dispatch
<1>2. PICK near \in BOOLEAN, path \in {"kernel", "reference"} :
         /\ setting.check = "static" => near = AsIssued
         /\ call' = [call EXCEPT !.near = near, !.path = path, !.clean = AsIssued, !.blind = BlindNow]
  BY DEF Launch, Dispatch
<1>3. call \in ReplayCalls /\ AsIssued \in BOOLEAN /\ BlindNow \in BOOLEAN
  BY DEF ReplayTyped, AsIssued, BlindNow
<1>4. call' \in ReplayCalls
  BY <1>2, <1>3 DEF ReplayCalls
<1>5. /\ call'.a = call.a /\ call'.w = call.w /\ call'.viol = call.viol
      /\ call'.near = near /\ call'.clean = AsIssued /\ call'.blind = BlindNow
  BY <1>2, <1>3 DEF ReplayCalls
<1>6. AsIssued' = AsIssued
  BY <1>1, <1>5 DEF AsIssued, Operated, Cell, Place, memory
<1>7. Ran'
  <2>1. CASE setting.check = "static"
    <3>1. call'.near = AsIssued /\ call'.clean = AsIssued
      BY <1>2, <1>5, <2>1
    <3>2. setting.integrity # "inkernel" => AsIssued \/ call'.blind
      BY <1>1, <1>5, <2>1, WrongInGraphIsBlind
    <3>3. AsIssued' => \A h \in Operated' : Raced(h)'
      BY DEF AsIssued, Raced
    <3> QED BY <1>1, <1>6, <3>1, <3>2, <3>3 DEF Ran
  <2> QED BY <1>1, <2>1 DEF Ran
<1>8. ComparedInGraph'
  BY <1>1 DEF ComparedInGraph
<1>9. setting.check = "static" => ~call'.viol
  BY <1>1, <1>5 DEF GateKept, AtSite, AtWork
<1> QED BY <1>1, <1>4, <1>5, <1>7, <1>8, <1>9, WorkKeeps DEF AtWork

LEMMA RaceKeeps ==
    ASSUME ReplayInv, Race
    PROVE  ReplayInv'
<1> USE DEF ReplayInv
<1>1. /\ UNCHANGED <<setting, memory, pc, book, replay>> /\ pc = "ran" /\ ~AsIssued
      /\ setting.check = "static" /\ call.near /\ call.clean
  BY DEF Race, LateReads
<1>2. PICK near \in BOOLEAN, clean \in BOOLEAN :
         call' = [call EXCEPT !.near = near, !.clean = clean, !.blind = BlindNow]
  BY DEF Race, LateReads
<1>3. call \in ReplayCalls /\ BlindNow \in BOOLEAN
  BY DEF ReplayTyped, BlindNow
<1>4. call' \in ReplayCalls
  BY <1>2, <1>3 DEF ReplayCalls
<1>5. call'.a = call.a /\ call'.w = call.w /\ call'.viol = call.viol /\ call'.blind = BlindNow
  BY <1>2, <1>3 DEF ReplayCalls
<1>6. AsIssued' = AsIssued /\ (\A h \in Operated' : Raced(h)')
  BY <1>1, <1>5 DEF AsIssued, Raced, Operated, Cell, Place, memory, GateKept, Ran
<1>7. setting \in Settings /\ ~PlanRefused
  BY <1>1 DEF GateKept, AtSite, SitesSound, MemoryTyped, Device
<1>8. BlindNow
  BY <1>1, <1>7, RaceIsBlind DEF GateKept
<1>9. Ran'
  BY <1>1, <1>5, <1>6, <1>8 DEF Ran
<1>10. ComparedInGraph'
  BY <1>1 DEF ComparedInGraph
<1>11. setting.check = "static" => ~call'.viol
  BY <1>1, <1>5 DEF GateKept, AtSite, AtWork
<1> QED BY <1>1, <1>4, <1>5, <1>9, <1>10, <1>11, WorkKeeps DEF AtWork

LEMMA LookKeeps ==
    ASSUME ReplayInv, Look
    PROVE  ReplayInv'
<1> USE DEF ReplayInv
<1>1. /\ UNCHANGED <<setting, memory, book, replay>> /\ pc = "ran" /\ pc' = "compared"
      /\ setting.check = "output"
  BY DEF Look, Compare
<1>2. PICK viol \in Violations : call' = [call EXCEPT !.viol = viol, !.clean = AsIssued]
  BY DEF Look, Compare
<1>3. call \in ReplayCalls /\ AsIssued \in BOOLEAN /\ viol \in BOOLEAN
  BY DEF ReplayTyped, AsIssued, Violations, ReplayCalls
<1>4. call' \in ReplayCalls
  BY <1>2, <1>3 DEF ReplayCalls
<1>5. /\ call'.a = call.a /\ call'.w = call.w /\ call'.viol = viol
      /\ call'.near = call.near /\ call'.clean = AsIssued
  BY <1>2, <1>3 DEF ReplayCalls
<1>6. AsIssued' = AsIssued
  BY <1>1, <1>5 DEF AsIssued, Operated, Cell, Place, memory
<1>7. AsIssued => viol = ~call.near
  BY <1>2 DEF Violations
<1>8. Ran' /\ ComparedInGraph'
  BY <1>1, <1>5, <1>6, <1>7 DEF Ran, ComparedInGraph
<1> QED BY <1>1, <1>4, <1>5, <1>8, WorkKeeps DEF AtWork

(* What a check that passes tells of an output: compared and with sums, that  *)
(* the bytes were the issued ones all along.                                  *)
LEMMA PassedIsSound ==
    ASSUME ReplayInv, pc = IF setting.check = "output" THEN "compared" ELSE "ran", ~CheckFailed
    PROVE  Sound(HandedOn)
<1> USE DEF ReplayInv
<1>1. at \in DOMAIN sites /\ call \in ReplayCalls /\ setting \in Settings
  BY DEF GateKept, AtSite, Device, ReplayTyped, MemoryTyped
<1>2. CASE setting.check = "output"
  <2>1. setting.integrity = "checksum"
    BY <1>1, <1>2 DEF GateKept, SitesSound, PlanRefused, CheckOfMode, WeakerThanFloor
  <2>2. AsIssued /\ ~Faulty
    BY <1>2, <2>1 DEF CheckFailed, SumsDiffer, ScalesBad
  <2>3. call.clean /\ call.viol = ~call.near
    BY <1>2, <2>2 DEF GateKept, ComparedInGraph
  <2>4. IF call.viol THEN call.clean ELSE call.near
    BY <1>1, <2>3 DEF ReplayCalls
  <2>5. HandedOn.right
    BY <2>2, <2>4 DEF HandedOn
  <2> QED BY <2>5 DEF Sound
<1>3. CASE setting.check # "output"
  <2>1. setting.check = "static" /\ pc = "ran"
    BY <1>1, <1>3, SettingAssumption
  <2>2. /\ AsIssued => call.near
        /\ call.near \/ call.blind \/ (setting.integrity = "inkernel" /\ ~call.clean)
        /\ ~call.viol
    BY <2>1 DEF GateKept, Ran, AtSite, AtWork
  <2>3. call.near \/ call.blind
    BY <1>3, <2>2 DEF CheckFailed, DeviceStops
  <2>4. HandedOn.right = (call.near /\ ~Faulty) /\ HandedOn.excused = (call.blind \/ Faulty)
    BY <2>1, <2>2 DEF HandedOn
  <2> QED BY <2>3, <2>4 DEF Sound
<1> QED BY <1>2, <1>3

(* The device writes the flags of its gate and goes on, or stops there.       *)
LEMMA VerifyKeeps ==
    ASSUME ReplayInv, Verify
    PROVE  ReplayInv'
<1> USE DEF ReplayInv, memory
<1>1. /\ UNCHANGED <<setting, memory, graph, sites, counted, outcome>>
      /\ pc = IF setting.check = "output" THEN "compared" ELSE "ran"
      /\ rows' = IF Flagged THEN [rows EXCEPT ![at] = Flag] ELSE rows
      /\ call' = NoCall
  BY DEF Verify
<1>2. pc \in {"ran", "compared"}
  BY <1>1
<1>3. /\ at \in DOMAIN sites /\ Len(used) = at - 1 /\ at \in Nat
      /\ sites \in Seq(Sites) /\ used \in Seq(Uses) /\ call \in ReplayCalls
      /\ rows \in Seq({"unreached", "failed", "repaired", "good"})
      /\ Len(rows) = IF Flagged THEN Len(sites) ELSE 0
      /\ outcome = "running"
  BY <1>2 DEF GateKept, AtSite, ReplayTyped, Verdicts, Running, Device
<1>4. at \in 1..Len(sites)
  BY <1>3
<1>5. Flag \in {"failed", "repaired", "good"} /\ (Flag # "failed" => ~CheckFailed)
  BY DEF Flag
<1>6. /\ rows' \in Seq({"unreached", "failed", "repaired", "good"}) /\ Len(rows') = Len(rows)
      /\ Flagged => DOMAIN rows' = 1..Len(sites) /\ rows'[at] = Flag
      /\ Flagged => \A i \in DOMAIN rows' : i # at => rows'[i] = rows[i]
  <2> HIDE DEF ReplayInv
  <2>1. CASE Flagged
    BY <1>1, <1>3, <1>4, <1>5, <2>1
  <2>2. CASE ~Flagged
    BY <1>1, <1>3, <2>2
  <2> QED BY <2>1, <2>2
<1>7. MemoryTyped'
  BY <1>1 DEF MemoryTyped
<1>8. WeightsKept'
  BY <1>1, WeightsStay
<1>9. SitesSound'
  BY <1>1 DEF GateKept, SitesSound, PlanRefused, CheckOfMode, WeakerThanFloor, GraphWeight
<1>10. Flagged' = Flagged
  BY <1>1 DEF Flagged
<1>11. CountedGatesRan /\ StopsInTime /\ RowsTell /\ UnflaggedSound
  BY DEF Verdicts
<1>12. (Flagged => \A i \in DOMAIN rows : rows[i] \in {"good", "repaired"} => i \in DOMAIN used /\ Sound(used[i]))
  BY <1>2, <1>11 DEF RowsTell, Running, Device
<1>13. CASE CheckFailed /\ pc' = "halted" /\ UNCHANGED <<at, used, unstopped>>
  <2>1. ReplayTyped'
    BY <1>1, <1>3, <1>6, <1>10, <1>13, CallType DEF ReplayTyped, Waited
  <2>2. GateKept'
    BY <1>9, <1>13, IdleGate DEF Device
  <2>3. Flag = "failed"
    BY <1>13 DEF Flag
  <2>4. Running' /\ RowsTell'
    <3>1. Running'
      BY <1>13 DEF Running, Waited
    <3>2. SUFFICES ASSUME Flagged, NEW i \in DOMAIN rows', rows'[i] \in {"good", "repaired"}
                   PROVE  i \in DOMAIN used /\ Sound(used[i])
      BY <1>10, <1>13, <3>1 DEF RowsTell, Sound
    <3>3. i # at /\ rows'[i] = rows[i] /\ i \in DOMAIN rows
      BY <1>3, <1>6, <2>3, <3>2
    <3> QED BY <1>12, <3>2, <3>3
  <2>5. UnflaggedSound' /\ StopsInTime' /\ CountedGatesRan' /\ ReplayIsRight'
    BY <1>1, <1>3, <1>10, <1>11, <1>13
       DEF UnflaggedSound, StopsInTime, CountedGatesRan, ReplayIsRight, Sound
  <2> QED BY <1>1, <1>3, <1>7, <1>8, <2>1, <2>2, <2>4, <2>5 DEF Verdicts
<1>14. CASE /\ unstopped' = (unstopped \/ CheckFailed)
            /\ used' = Append(used, HandedOn)
            /\ at' = at + 1 /\ pc' = IF at = Len(sites) THEN "finished" ELSE "queued"
  <2>1. HandedOn \in Uses
    <3>1. call.viol \in BOOLEAN /\ call.clean \in BOOLEAN /\ call.near \in BOOLEAN
      BY <1>3 DEF ReplayCalls
    <3>2. ((IF call.viol THEN call.clean ELSE call.near) /\ ~Faulty) \in BOOLEAN
      OBVIOUS
    <3>3. (setting.check = "static" /\ (call.blind \/ Faulty)) \in BOOLEAN
      OBVIOUS
    <3> QED BY <3>2, <3>3 DEF HandedOn, Uses
  <2> DEFINE handed == HandedOn
  <2>2. handed = HandedOn
    OBVIOUS
  <2> HIDE DEF handed
  <2>3. /\ used' \in Seq(Uses) /\ Len(used') = at /\ DOMAIN used' = 1..at /\ used'[at] = handed
        /\ \A i \in DOMAIN used : i \in DOMAIN used' /\ used'[i] = used[i]
        /\ \A i \in DOMAIN used' : i = at \/ i \in DOMAIN used
    BY <1>3, <1>14, <2>1, <2>2
  <2>4. ~CheckFailed => Sound(handed)
    BY <1>1, <2>2, PassedIsSound
  <2>5. at' \in Nat /\ pc' \in {"queued", "finished"}
    BY <1>3, <1>14
  <2>6. ReplayTyped'
    BY <1>1, <1>3, <1>6, <1>10, <2>3, <2>5, CallType DEF ReplayTyped, Waited, Device
  <2>7. LookedAt'
    BY <1>1, <1>2 DEF GateKept, LookedAt, GraphWeight, Device
  <2>8. AtSite'
    <3>1. pc' = "queued" => at' \in 1..Len(sites) /\ Len(used') = at' - 1
      BY <1>3, <1>4, <1>14, <2>3
    <3>2. pc' = "finished" => Len(used') = Len(sites)
      BY <1>14, <2>3
    <3>3. sites' = sites /\ DOMAIN sites = 1..Len(sites)
      BY <1>1, <1>3
    <3>4. pc' \in Device => at' \in DOMAIN sites' /\ Len(used') = at' - 1
      BY <2>5, <3>1, <3>3 DEF Device
    <3>5. pc' \notin AtWork /\ pc' # "compared"
      BY <2>5 DEF AtWork
    <3> QED BY <3>2, <3>3, <3>4, <3>5 DEF AtSite
  <2>9. GateKept'
    BY <1>9, <2>5, <2>7, <2>8 DEF GateKept, MadeAgain, Ran, ComparedInGraph, AtWork
  <2>10. Running'
    BY <2>5 DEF Running, Device, Waited
  <2>11. RowsTell'
    <3> SUFFICES ASSUME Flagged, NEW i \in DOMAIN rows', rows'[i] \in {"good", "repaired"}
                 PROVE  i \in DOMAIN used' /\ Sound(used'[i])
      BY <1>10 DEF RowsTell, Sound
    <3>1. CASE i = at
      BY <1>4, <1>5, <1>6, <2>3, <2>4, <3>1
    <3>2. CASE i # at
      <4>1. rows'[i] = rows[i] /\ i \in DOMAIN rows
        BY <1>3, <1>6, <3>2
      <4>2. i \in DOMAIN used /\ Sound(used[i])
        BY <1>12, <4>1
      <4> QED BY <2>3, <4>2
    <3> QED BY <3>1, <3>2
  <2>12. UnflaggedSound'
    <3> SUFFICES ASSUME ~Flagged, NEW i \in DOMAIN used'
                 PROVE  Sound(used'[i])
      BY <1>10 DEF UnflaggedSound, Sound
    <3>1. ~CheckFailed
      BY DEF CheckFailed, Flagged
    <3>2. CASE i = at
      BY <2>3, <2>4, <3>1, <3>2
    <3>3. CASE i \in DOMAIN used
      BY <1>11, <2>3, <3>3 DEF UnflaggedSound
    <3> QED BY <2>3, <3>2, <3>3
  <2>13. StopsInTime'
    <3> SUFFICES ASSUME Flagged, ~unstopped', NEW i \in DOMAIN used'
                 PROVE  Sound(used'[i])
      BY <1>10 DEF StopsInTime, Sound
    <3>1. ~CheckFailed /\ ~unstopped
      BY <1>14
    <3>2. CASE i = at
      BY <2>3, <2>4, <3>1, <3>2
    <3>3. CASE i \in DOMAIN used
      BY <1>11, <2>3, <3>1, <3>3 DEF StopsInTime, Sound
    <3> QED BY <2>3, <3>2, <3>3
  <2>14. CountedGatesRan'
    BY <1>1, <1>10, <1>11, <2>3 DEF CountedGatesRan
  <2>15. ReplayIsRight'
    BY <1>1, <1>3 DEF ReplayIsRight
  <2> QED BY <1>1, <1>3, <1>7, <1>8, <2>6, <2>9, <2>10, <2>11, <2>12, <2>13, <2>14, <2>15
          DEF Verdicts
<1> QED BY <1>13, <1>14 DEF Verify

LEMMA DeviceFaultKeeps ==
    ASSUME ReplayInv, DeviceFault
    PROVE  ReplayInv'
<1> USE DEF ReplayInv, memory, book, replay
<1>1. /\ UNCHANGED <<setting, memory, book, replay>>
      /\ pc \in Device /\ pc' = "halted" /\ call' = NoCall
  BY DEF DeviceFault, Device
<1>2. MemoryTyped' /\ ReplayTyped'
  BY <1>1, CallType DEF MemoryTyped, ReplayTyped, Flagged, Waited
<1>3. WeightsKept'
  BY <1>1, WeightsStay
<1>4. SitesSound'
  BY <1>1 DEF GateKept, SitesSound, PlanRefused, CheckOfMode, WeakerThanFloor, GraphWeight
<1>5. GateKept'
  BY <1>1, <1>4, IdleGate DEF Device
<1>6. Verdicts'
  BY <1>1, VerdictsStay DEF Running, Waited
<1> QED BY <1>2, <1>3, <1>5, <1>6

(* The host's verdict. A replay without flags returns what no gate could have  *)
(* refused; one with flags, when every row says a gate of this replay passed.  *)
LEMMA AfterReplayKeeps ==
    ASSUME ReplayInv, AfterReplay
    PROVE  ReplayInv'
<1> USE DEF ReplayInv, memory, book
<1>1. /\ UNCHANGED <<setting, memory, call, book, at, used, unstopped>>
      /\ pc \in Waited /\ pc' = IF pc = "halted" THEN "stopped" ELSE "idle"
      /\ counted' = IF Flagged THEN {i \in DOMAIN rows : rows[i] \in {"good", "repaired"}}
                    ELSE DOMAIN sites
  BY DEF AfterReplay
<1>2. pc' \in {"stopped", "idle"} /\ Flagged' = Flagged
  BY <1>1 DEF Flagged
<1>3. MemoryTyped' /\ ReplayTyped'
  BY <1>1, <1>2 DEF MemoryTyped, ReplayTyped, Flagged
<1>4. WeightsKept'
  BY <1>1, WeightsStay
<1>5. SitesSound'
  BY <1>1 DEF GateKept, SitesSound, PlanRefused, CheckOfMode, WeakerThanFloor, GraphWeight
<1>6. GateKept'
  BY <1>2, <1>5, IdleGate DEF Device
<1>7. outcome' \in {"refused", "raised", "returned"} /\ ~Running'
  BY <1>2 DEF AfterReplay, Running, Device, Waited
<1>8. RowsTell /\ UnflaggedSound /\ StopsInTime /\ Running
  BY <1>1 DEF Verdicts, Running
<1>9. UnflaggedSound' /\ StopsInTime' /\ RowsTell'
  BY <1>1, <1>2, <1>7, <1>8 DEF UnflaggedSound, StopsInTime, RowsTell, Sound
<1>10. CountedGatesRan'
  <2> SUFFICES ASSUME Flagged, NEW i \in counted'
               PROVE  i \in DOMAIN used /\ Sound(used[i])
    BY <1>1, <1>2 DEF CountedGatesRan, Sound
  <2> QED BY <1>1, <1>8 DEF RowsTell
<1>11. ReplayIsRight'
  <2> SUFFICES ASSUME outcome' = "returned", Flagged, NEW i \in DOMAIN used
               PROVE  Sound(used[i])
    BY <1>1, <1>8 DEF ReplayIsRight, UnflaggedSound, Sound
  <2>1. /\ pc = "finished"
        /\ \A j \in DOMAIN rows : rows[j] \notin {"failed", "unreached"}
    BY <1>1 DEF AfterReplay, Waited
  <2>2. /\ Len(used) = Len(sites) /\ Len(rows) = Len(sites)
        /\ used \in Seq(Uses) /\ rows \in Seq({"unreached", "failed", "repaired", "good"})
    BY <2>1 DEF GateKept, AtSite, ReplayTyped
  <2>3. i \in DOMAIN rows
    BY <2>2
  <2>4. rows[i] \in {"good", "repaired"}
    BY <2>1, <2>2, <2>3
  <2> QED BY <1>8, <2>3, <2>4 DEF RowsTell
<1>12. Verdicts'
  BY <1>7, <1>9, <1>10, <1>11 DEF Verdicts
<1> QED BY <1>3, <1>4, <1>6, <1>12

LEMMA ReplayStep == ReplayInv /\ [NextReplay]_gvars => ReplayInv'
<1> SUFFICES ASSUME ReplayInv, [NextReplay]_gvars PROVE ReplayInv'
  OBVIOUS
<1>1. CASE Around /\ UNCHANGED <<book, replay>>
  <2>1. \/ \E p \in Places : Issue(p)
        \/ \E h \in Handles : Collect(h)
        \/ \E c \in Cells, x \in Writers : Write(c, x)
        \/ \E c \in Cells, x \in Writers : RefuseWrite(c, x)
    BY <1>1 DEF Around, Places
  <2> QED BY <1>1, <2>1, IssueKeepsReplay, CollectKeepsReplay, WriteKeepsReplay, RefuseWriteKeepsReplay
<1>2. CASE EndCapture \/ \E told \in BOOLEAN : BeginCapture(told)
  BY <1>2, BeginCaptureKeeps
<1>3. CASE \E a, w \in Handles, path \in {"kernel", "reference"} : CaptureGate(a, w, path)
  BY <1>3, CaptureGateKeeps
<1>4. CASE BeforeReplay
  BY <1>4, BeforeReplayKeeps
<1>5. CASE Replay
  BY <1>5, RemakeKeeps, LaunchKeeps, LookKeeps, VerifyKeeps, AfterReplayKeeps DEF Replay, OnDevice
<1>6. CASE DeviceFault \/ Race
  BY <1>6, DeviceFaultKeeps, RaceKeeps
<1>7. CASE UNCHANGED gvars
  <2> USE DEF ReplayInv, gvars, vars, memory, book, replay
  <2>1. MemoryTyped' /\ ReplayTyped'
    BY <1>7 DEF MemoryTyped, ReplayTyped, Flagged
  <2>2. WeightsKept'
    BY <1>7, WeightsStay
  <2>3. SitesSound'
    BY <1>7 DEF GateKept, SitesSound, PlanRefused, CheckOfMode, WeakerThanFloor, GraphWeight
  <2>4. LookedAt' /\ AtSite' /\ MadeAgain'
    BY <1>7 DEF GateKept, LookedAt, AtSite, MadeAgain, GraphWeight, Site
  <2>5. Ran' /\ ComparedInGraph'
    BY <1>7 DEF GateKept, Ran, Raced, ComparedInGraph, AsIssued, Operated, Cell, Place
  <2>6. Verdicts'
    BY <1>7, VerdictsStay DEF Running
  <2> QED BY <2>1, <2>2, <2>3, <2>4, <2>5, <2>6 DEF GateKept
<1> QED BY <1>1, <1>2, <1>3, <1>4, <1>5, <1>6, <1>7 DEF NextReplay

LEMMA ReplayHolds == ReplaySpec => []ReplayInv
BY InitKept, ReplayStep, PTL DEF ReplaySpec

-----------------------------------------------------------------------------
(* A replay that returns to the program handed on only right outputs, or what  *)
(* the mode does not claim to see: a weight issued again, moved or written      *)
(* since the capture refuses the replay before it runs, a failed check after    *)
(* it (before_replay, after_replay).                                          *)
THEOREM ReplaysAreRight == ReplaySpec => []ReplayIsRight
<1>1. ReplayInv => ReplayIsRight
  BY DEF ReplayInv, Verdicts
<1> QED BY <1>1, ReplayHolds, PTL

(* Where the gates write flags, no operation of the graph reads a wrong output  *)
(* as long as the device's own assertion stops it (_captured, _static).        *)
THEOREM DeviceStopsInTime == ReplaySpec => []StopsInTime
<1>1. ReplayInv => StopsInTime
  BY DEF ReplayInv, Verdicts
<1> QED BY <1>1, ReplayHolds, PTL

(* The gates counted as delivered in a replay ran in this one, and rightly:     *)
(* the rows are cleared before it and written by no other replay.              *)
THEOREM CountedGatesHaveRun == ReplaySpec => []CountedGatesRan
<1>1. ReplayInv => CountedGatesRan
  BY DEF ReplayInv, Verdicts
<1> QED BY <1>1, ReplayHolds, PTL
=============================================================================
