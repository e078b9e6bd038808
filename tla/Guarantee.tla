----------------------------- MODULE Guarantee ------------------------------
(***************************************************************************)
(* The guarantee profile and its structural experiments (guarantee.py,      *)
(* writeguard.py, inkernel.py and the vLLM adapter that drives them), for   *)
(* eager calls. Two producers issue what they make: the activation          *)
(* quantizer, a value and its scale in a buffer that is used again; the     *)
(* weight processing, a weight and its scale. The consumer's gate admits a  *)
(* call, repairs the handles it was given, runs the kernel and hands its    *)
(* output on, the reference's, or nothing. Between any two steps something  *)
(* may write to the bytes: an operation of this thread or of another one, a *)
(* Triton launch, or code that neither PyTorch nor Triton sees.             *)
(*                                                                         *)
(* A handle is <<n, part>>: the value or the scale of the n-th issue. Bytes *)
(* are abstracted to who wrote them last; a written byte never comes back   *)
(* to what it was. `near` is whether the kernel's output lies within the    *)
(* tolerance of the product of what was issued.                             *)
(***************************************************************************)
EXTENDS Naturals, Sequences

CONSTANTS
    Buffers,    \* device memory the quantizer makes activations in
    Weights,    \* device memory of weights
    Settings,   \* what a process may be started with: mode and plan
    Faults,     \* what may be wrong with an issue: its declaration or its scales
    MaxIssues,  \* bound on the issues of a process
    MaxTrouble, \* bound on the writes nobody planned, the errors and the tensors collected
    Unissued    \* an operand no producer issued

Modes == {"guarantee", "structure", "structure_writes", "structure_inkernel"}
Parts == {"value", "scale"}
Places == Buffers \cup Weights
Cells == Places \X Parts
Writers == {"here", "elsewhere", "triton", "hidden"}
Serials == 1..MaxIssues

ASSUME PlaceAssumption == Buffers \cap Weights = {}
ASSUME SettingAssumption ==
    Settings \subseteq [mode : Modes, check : {"output", "static"},
                        integrity : {"checksum", "epoch", "writes", "inkernel"},
                        calibrated : BOOLEAN, hooked : BOOLEAN]
(* A structural mode runs under its own plan (_default_plan).               *)
StructureIntegrity ==
    [structure |-> "epoch", structure_writes |-> "writes", structure_inkernel |-> "inkernel"]
ASSUME StructureAssumption ==
    \A s \in Settings : s.mode # "guarantee" => s.integrity = StructureIntegrity[s.mode]
ASSUME FaultAssumption == Faults \subseteq {"declaration", "scales"}
ASSUME BoundAssumption ==
    MaxIssues \in Nat /\ MaxTrouble \in Nat
ASSUME UnissuedAssumption == Unissued \notin Serials \X Parts

VARIABLES
    setting,   \* ENTAIL and the plan the process runs under
    issue,     \* the issues so far: where, and what is wrong with it
    latest,    \* _EPOCHS: the last issue made in each place
    content,   \* the issue whose bytes a cell holds, 0 once something else wrote to it
    spoiler,   \* history: what wrote to it
    rewritten, \* handles whose tensor's version moved since its issue
    gone,      \* handles whose tensor was collected
    ranges,    \* writeguard: handles whose bytes may not be written
    pc,        \* where the consumer is in its gate, or stopped with its device
    call,      \* the operands of the call and what was found of them
    given,     \* what the last call was given
    consumed,  \* history, with writeguard: activations a gate handed an output on for
    trouble    \* unplanned writes, errors and collections so far

memory == <<issue, latest, content, spoiler, rewritten, gone, ranges>>
vars == <<setting, memory, pc, call, given, consumed, trouble>>

Handles == (1..Len(issue)) \X Parts
Place(h) == issue[h[1]].place
Cell(h) == <<Place(h), h[2]>>
Role(h) == <<IF Place(h) \in Buffers THEN "activation" ELSE "weight", h[2]>>
Both(n) == {<<n, part>> : part \in Parts}

NoCall == [a |-> 0, w |-> 0, repaired |-> FALSE, near |-> FALSE, path |-> "kernel",
           viol |-> FALSE, clean |-> FALSE, blind |-> FALSE]
Nothing == [outcome |-> "none", right |-> TRUE, excused |-> FALSE, sound |-> FALSE]

Init ==
    /\ setting \in Settings
    /\ issue = <<>>
    /\ latest = [p \in Places |-> 0]
    /\ content = [c \in Cells |-> 0] /\ spoiler = [c \in Cells |-> "none"]
    /\ rewritten = {} /\ gone = {} /\ ranges = {}
    /\ pc = "idle" /\ call = NoCall /\ given = Nothing /\ consumed = {}
    /\ trouble = 0
-----------------------------------------------------------------------------
(* The producers. An issue takes over the place: what was issued there      *)
(* before is another value's memory now, and its live range goes with it.   *)

Registered(n, place) ==
    IF setting.integrity = "writes"
    THEN {h \in ranges : Place(h) # place} \cup Both(n)
    ELSE ranges

Made(n, place) ==
    /\ latest' = [latest EXCEPT ![place] = n]
    /\ content' = [c \in Cells |-> IF c[1] = place THEN n ELSE content[c]]
    /\ spoiler' = [c \in Cells |-> IF c[1] = place THEN "none" ELSE spoiler[c]]

(* The quantizer's own write into bytes that are still guarded would be       *)
(* refused (RefuseWrite); a weight may be issued again where it lies.         *)
Guarded(cell) == \E h \in ranges : Cell(h) = cell

Mishap == trouble < MaxTrouble /\ trouble' = trouble + 1

Issue(place) ==
    LET n == Len(issue) + 1 IN
    /\ pc = "idle" /\ n <= MaxIssues
    /\ place \in Buffers => \A part \in Parts : ~Guarded(<<place, part>>)
    /\ \E fault \in Faults \cup {"none"} :
          /\ issue' = Append(issue, [place |-> place, fault |-> fault])
          /\ IF fault = "none" THEN UNCHANGED trouble ELSE Mishap
    /\ Made(n, place)
    /\ ranges' = Registered(n, place)
    /\ UNCHANGED <<setting, rewritten, gone, pc, call, given, consumed>>

(* A tensor is collected; writeguard's finalizer releases its range.        *)
BugReleaseByPlace(h) == {g \in ranges : Cell(g) # Cell(h)}
Released(h) == ranges \ {h}

Collect(h) ==
    /\ h \in Handles \ gone /\ Mishap
    /\ pc = "idle" \/ h[1] \notin {call.a, call.w}
    /\ gone' = gone \cup {h}
    /\ ranges' = Released(h)
    /\ UNCHANGED <<setting, issue, latest, content, spoiler, rewritten, pc, call, given, consumed>>
-----------------------------------------------------------------------------
(* Writes into issued bytes. The thread that issues is in the gate during a  *)
(* call; the others are not.                                                 *)

Overseen(cell, writer) == writer \in {"here", "triton"} /\ Guarded(cell)

(* A tensor that keeps a version counter (a weight) shows a PyTorch          *)
(* operation that wrote it.                                                  *)
Versions(cell, writer) ==
    IF cell[1] \in Weights /\ writer \in {"here", "elsewhere"}
    THEN rewritten \cup {<<latest[cell[1]], cell[2]>>}
    ELSE rewritten

MayWrite(cell, writer) ==
    /\ Mishap /\ latest[cell[1]] # 0
    /\ pc = "idle" \/ writer \in {"elsewhere", "hidden"}

Write(cell, writer) ==
    /\ MayWrite(cell, writer) /\ ~Overseen(cell, writer)
    /\ content' = [content EXCEPT ![cell] = 0]
    /\ spoiler' = [spoiler EXCEPT ![cell] = IF pc = "idle" THEN writer ELSE "race"]
    /\ rewritten' = Versions(cell, writer)
    /\ UNCHANGED <<setting, issue, latest, gone, ranges, pc, call, given, consumed>>

(* refuse_write: recorded and raised before the write runs. Whether someone  *)
(* was still to read the bytes is what it is judged by.                      *)
Awaited(cell) ==
    LET n == latest[cell[1]] IN
    <<n, cell[2]>> \notin gone /\ (cell[1] \in Buffers => n \notin consumed)

RefuseWrite(cell, writer) ==
    /\ MayWrite(cell, writer) /\ Overseen(cell, writer)
    /\ given' = [outcome |-> "blocked", right |-> TRUE, excused |-> FALSE,
                 sound |-> ~Awaited(cell)]
    /\ UNCHANGED <<setting, memory, pc, call, consumed>>
-----------------------------------------------------------------------------
(* Admission: what the gate asks before anything runs (gate, _admit).       *)

WeakerThanFloor == setting.integrity # "checksum" \/ ~setting.calibrated
CheckOfMode == IF setting.mode = "guarantee" THEN "output" ELSE "static"

BugAnyPlan == setting.check # CheckOfMode
PlanRefused ==
    \/ setting.check # CheckOfMode
    \/ setting.mode = "guarantee" /\ WeakerThanFloor

BugEpochOnly(h) == latest[Place(h)] # h[1]
Stale(h) == latest[Place(h)] # h[1] \/ h \in rewritten

(* The scale given with a value is the one issued with it, or another one or  *)
(* none; then the gate takes the paired one, if it still exists.              *)
Given(v, paired) == paired /\ v # Unissued => <<v[1], "scale">> \notin gone
HasScale(v, paired) == paired \/ <<v[1], "scale">> \notin gone

(* Whether a call with these operands is refused, in the order the code asks. *)
Objected(a, aPaired, w, wPaired) ==
    \/ PlanRefused
    \/ ~setting.hooked
    \/ Unissued \in {a, w}
    \/ Role(a) # <<"activation", "value">> \/ Role(w) # <<"weight", "value">>
    \/ ~HasScale(a, aPaired) \/ ~HasScale(w, wPaired)
    \/ \E n \in {a[1], w[1]} : issue[n].fault = "declaration"
    \/ \E h \in Both(a[1]) \cup Both(w[1]) : Stale(h)

(* What a call deserves: its operands issued, paired, sound and untouched.   *)
Untouched(n) == \A h \in Both(n) : content[Cell(h)] = n
Deserves(a, aPaired, w, wPaired) ==
    /\ ~PlanRefused /\ setting.hooked /\ Unissued \notin {a, w}
    /\ Role(a) = <<"activation", "value">> /\ Role(w) = <<"weight", "value">>
    /\ HasScale(a, aPaired) /\ HasScale(w, wPaired)
    /\ \A n \in {a[1], w[1]} : issue[n].fault = "none" /\ Untouched(n)

Block(sound) ==
    /\ given' = [outcome |-> "blocked", right |-> TRUE, excused |-> FALSE, sound |-> sound]
    /\ pc' = "idle" /\ call' = NoCall

(* A failed device assertion leaves the process without its device.           *)
Stop(sound) ==
    /\ given' = [outcome |-> "blocked", right |-> TRUE, excused |-> FALSE, sound |-> sound]
    /\ pc' = "stopped" /\ call' = NoCall

Operands == (Handles \ gone) \cup {Unissued}

Enter(a, aPaired, w, wPaired) ==
    /\ pc = "idle"
    /\ Given(a, aPaired) /\ Given(w, wPaired)
    /\ IF Objected(a, aPaired, w, wPaired)
       THEN Block(Deserves(a, aPaired, w, wPaired))
       ELSE /\ pc' = "admitted" /\ UNCHANGED given
            /\ call' = [NoCall EXCEPT !.a = a[1], !.w = w[1],
                                      !.repaired = ~aPaired \/ ~wPaired]
    /\ UNCHANGED <<setting, memory, consumed, trouble>>
-----------------------------------------------------------------------------
(* What an operation that reads the operands finds.                          *)

Operated == Both(call.a) \cup Both(call.w)
AsIssued == \A h \in Operated : content[Cell(h)] = h[1]

(* The writes a mode does not claim to notice: without sums only the version  *)
(* counter of a weight shows a write, and writeguard refuses what it sees of  *)
(* PyTorch and Triton until the activation is consumed. The sums made in the  *)
(* kernel are of a second load, and by some of its programs only: a write     *)
(* while it runs is theirs to miss.                                           *)
Blind(place) ==
    CASE setting.integrity = "checksum" -> {}
      [] setting.integrity = "inkernel" -> IF pc = "ran" THEN {"race"} ELSE {}
      [] setting.integrity = "epoch" /\ place \in Weights -> {"triton", "hidden", "race"}
      [] setting.integrity = "writes" /\ place \in Weights -> {"hidden", "race"}
      [] setting.integrity = "writes" /\ call.a \notin consumed -> {"elsewhere", "hidden", "race"}
      [] OTHER -> Writers \cup {"race"}
BlindNow == \E h \in Operated : content[Cell(h)] = 0 /\ spoiler[Cell(h)] \in Blind(Place(h))

Faulty == \E n \in {call.a, call.w} : issue[n].fault = "scales"

(* The kernel starts. With check "static" only a launch proven to compute the *)
(* contract does, and the reference otherwise (consumer_launch): what is      *)
(* computed is right when what is read is.                                    *)
Dispatch ==
    /\ pc = "admitted" /\ pc' = "ran"
    /\ \E near \in BOOLEAN, path \in {"kernel", "reference"} :
          /\ setting.check = "output" => path = "kernel"
          /\ setting.check = "static" => near = AsIssued
          /\ call' = [call EXCEPT !.near = near, !.path = path,
                                  !.clean = AsIssued, !.blind = BlindNow]
    /\ UNCHANGED <<setting, memory, given, consumed, trouble>>

(* What is written while the kernel runs reaches the loads of its dot, those  *)
(* of its sums, both or neither: only the first program of a row of A and of  *)
(* a column of B sums, and it loads a tile again for that.                    *)
LateReads ==
    /\ pc = "ran" /\ setting.check = "static"
    /\ ~AsIssued /\ call.near /\ call.clean
    /\ \E near, clean \in BOOLEAN :
          call' = [call EXCEPT !.near = near, !.clean = clean, !.blind = BlindNow]
    /\ UNCHANGED <<setting, memory, pc, given, consumed, trouble>>

(* _check, first part: the reference reads the operands and the kernel's      *)
(* output is compared with it; against other bytes than the issued ones the   *)
(* comparison says anything.                                                  *)
Violations == IF AsIssued THEN {~call.near} ELSE BOOLEAN

Compare ==
    /\ pc = "ran" /\ setting.check = "output"
    /\ pc' = "compared"
    /\ \E viol \in Violations : call' = [call EXCEPT !.viol = viol, !.clean = AsIssued]
    /\ UNCHANGED <<setting, memory, given, consumed, trouble>>

Deliver(outcome, right, excused) ==
    /\ given' = [outcome |-> outcome, right |-> right, excused |-> excused, sound |-> TRUE]
    /\ pc' = "idle" /\ call' = NoCall

(* _check, second part: the sums are taken last, of all four operands; then   *)
(* the gate refuses, or hands on the kernel's output or the reference's.      *)
SumsDiffer == setting.integrity = "checksum" /\ ~AsIssued

ScalesBad == Faulty

Conclude ==
    /\ pc = "compared"
    /\ IF SumsDiffer THEN Block(AsIssued)
       ELSE IF ScalesBad THEN Block(~Faulty)
       ELSE Deliver(IF call.viol \/ call.repaired THEN "repaired" ELSE "normal",
                    (IF call.viol THEN call.clean ELSE call.near) /\ ~Faulty, FALSE)
    /\ UNCHANGED <<setting, memory, consumed, trouble>>

(* _static, after the kernel: with integrity "inkernel" the sums it made, or  *)
(* those of what lies there now when the reference read it, are compared on    *)
(* the device, which stops before the next operation.                         *)
DeviceStops == IF call.path = "kernel" THEN ~call.clean ELSE ~AsIssued

BugReleasesValueOnly(n) == ranges \ {<<n, "value">>}
Unguarded(n) == ranges \ Both(n)

HandOn ==
    /\ pc = "ran" /\ setting.check = "static"
    /\ IF setting.integrity = "inkernel" /\ DeviceStops
       THEN Stop(call.clean /\ AsIssued) /\ UNCHANGED <<ranges, consumed>>
       ELSE /\ Deliver(call.path, call.near /\ ~Faulty, call.blind \/ Faulty)
            /\ IF setting.integrity = "writes"
               THEN ranges' = Unguarded(call.a) /\ consumed' = consumed \cup {call.a}
               ELSE UNCHANGED <<ranges, consumed>>
    /\ UNCHANGED <<setting, issue, latest, content, spoiler, rewritten, gone, trouble>>

(* The kernel raises, or the checker does: nothing is handed on.              *)
Fail ==
    /\ pc \in {"admitted", "ran"} /\ Mishap
    /\ Block(FALSE)
    /\ UNCHANGED <<setting, memory, consumed>>

Gate == Dispatch \/ Compare \/ Conclude \/ HandOn

Next ==
    \/ \E p \in Places : Issue(p)
    \/ \E h \in Handles : Collect(h)
    \/ \E c \in Cells, x \in Writers : Write(c, x)
    \/ \E c \in Cells, x \in Writers : RefuseWrite(c, x)
    \/ \E a, w \in Operands, aPaired, wPaired \in BOOLEAN : Enter(a, aPaired, w, wPaired)
    \/ Gate
    \/ LateReads
    \/ Fail

Spec == Init /\ [][Next]_vars
FairSpec == Spec /\ WF_vars(Gate)
-----------------------------------------------------------------------------
(* One type invariant. *)
TypeOK ==
    /\ setting \in Settings
    /\ issue \in Seq([place : Places, fault : Faults \cup {"none"}]) /\ Len(issue) <= MaxIssues
    /\ latest \in [Places -> 0..MaxIssues]
    /\ content \in [Cells -> 0..MaxIssues]
    /\ spoiler \in [Cells -> Writers \cup {"none", "race"}]
    /\ rewritten \subseteq Serials \X Parts
    /\ gone \subseteq Serials \X Parts /\ ranges \subseteq Serials \X Parts
    /\ pc \in {"idle", "admitted", "ran", "compared", "stopped"}
    /\ call \in [a : 0..MaxIssues, w : 0..MaxIssues, repaired : BOOLEAN, near : BOOLEAN,
                 path : {"kernel", "reference"}, viol : BOOLEAN, clean : BOOLEAN, blind : BOOLEAN]
    /\ given \in [outcome : {"none", "normal", "repaired", "kernel", "reference", "blocked"},
                  right : BOOLEAN, excused : BOOLEAN, sound : BOOLEAN]
    /\ consumed \subseteq Serials
    /\ trouble \in 0..MaxTrouble

(* What a gate hands to the next operation is the product of what the two     *)
(* producers issued, whatever wrote to the bytes, whichever handles the gate   *)
(* was given and whatever the kernel computed (gate, _admit, _check). The      *)
(* structural experiments except the writes they cannot see (Blind: writeguard, *)
(* "What it cannot see"; for "inkernel" a write while the kernel runs, not one  *)
(* before it) and do not look at the scales.                                   *)
HandedOnIsRight ==
    given.outcome \in {"normal", "repaired", "kernel", "reference"} => given.right \/ given.excused

(* Nothing is refused that did not deserve it: not a call whose operands are   *)
(* as their producers issued them and whose scales can be found, and not a     *)
(* write to bytes that no consumer waits for (refuse_write, release).          *)
NoFalseRefusal == given.outcome = "blocked" => ~given.sound

(* writeguard keeps watch over every issue that a consumer may still read: an  *)
(* activation until a gate handed its product on, a weight as long as it       *)
(* lives, and no finalizer of an earlier tensor ends the watch                 *)
(* (register, release).                                                        *)
GuardedUntilConsumed ==
    setting.integrity = "writes" =>
        \A h \in Handles \ gone :
            latest[Place(h)] = h[1] /\ Awaited(Cell(h)) => h \in ranges

(* Under ENTAIL=guarantee the gate keeps the promise of Handover.              *)
Answered ==
    IF setting.mode # "guarantee" THEN "none"
    ELSE IF pc \in {"admitted", "ran", "compared"} THEN "waiting"
    ELSE CASE given.outcome = "none" -> "none"
           [] given.outcome = "blocked" -> "refused"
           [] OTHER -> IF given.right THEN "right" ELSE "wrong"
Promise == INSTANCE Handover WITH answer <- Answered
KeepsPromise == Promise!Spec
=============================================================================
