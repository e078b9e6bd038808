-------------------------- MODULE GuaranteeReplay ---------------------------
(***************************************************************************)
(* The guarantee profile's gates inside a CUDA graph (guarantee.py,         *)
(* capture_begin to after_replay, and the replay hook of the vLLM adapter). *)
(* A capture records, for each gate, the quantizer that makes its           *)
(* activation again at every replay, the weight it reads and the checks; no  *)
(* Python runs in a replay. Before one the host looks at the weights; on    *)
(* the device each gate writes its flags to pinned host memory and stops    *)
(* the device when a check failed; after it the host reads the flags.       *)
(*                                                                         *)
(* The issues, the bytes, the writes and what a gate does on the device are *)
(* Guarantee's. One graph is captured, once.                                *)
(***************************************************************************)
EXTENDS Guarantee

CONSTANTS
    GraphGates,  \* GRAPH_GATES: gates whose flags have a pinned host copy
    MaxGates,    \* bound on the gates of the graph
    MaxReplays   \* bound on the replays

ASSUME GateAssumption == GraphGates \in Nat /\ MaxGates \in Nat /\ MaxReplays \in Nat

VARIABLES
    graph,      \* not begun, being captured (told to the profile or not), captured
    sites,      \* _GRAPHS: the gates of the graph
    since,      \* issues made before the capture
    rows,       \* _HOSTS: the pinned host copy of each gate's flags
    at,         \* the gate the device has reached
    used,       \* history: what the graph's next operations read, gate by gate
    counted,    \* gates recorded as delivered for the last replay
    outcome,    \* how the last replay ended
    unstopped,  \* history: a failed assertion did not stop the device
    replays     \* replays made

book == <<graph, sites, since, rows>>
replay == <<at, used, counted, outcome, unstopped, replays>>
gvars == <<vars, book, replay>>

InitReplay ==
    /\ Init
    /\ graph = "none" /\ sites = <<>> /\ since = 0 /\ rows = <<>>
    /\ at = 0 /\ used = <<>> /\ counted = {} /\ outcome = "none"
    /\ unstopped = FALSE /\ replays = 0

(* Whether the gates of this setting write flags: not those of a check        *)
(* "static" that trusts the host's look at the weights.                       *)
Flagged == setting.check = "output" \/ setting.integrity = "inkernel"
-----------------------------------------------------------------------------
(* Capture. The pinned copies are made when the capture begins; a capture the *)
(* profile was not told about has none.                                       *)
BeginCapture(told) ==
    /\ graph = "none" /\ pc = "idle"
    /\ graph' = IF told THEN "told" ELSE "untold"
    /\ since' = Len(issue)
    /\ UNCHANGED <<vars, sites, rows, replay>>

HostSlot == Len(rows) < GraphGates

(* _captured, and _static inside a capture: the gate that consumes an         *)
(* activation whose quantizer was captured before it. A refusal fails the     *)
(* capture.                                                                   *)
CaptureGate(a, w, path) ==
    /\ graph \in {"told", "untold"} /\ pc = "idle" /\ Len(sites) < MaxGates
    /\ a[1] > since /\ {a, <<a[1], "scale">>, <<w[1], "scale">>} \cap gone = {}
    /\ setting.check = "output" => path = "kernel"
    /\ IF Objected(a, TRUE, w, TRUE) \/ graph = "untold" \/ (Flagged /\ ~HostSlot)
       THEN graph' = "failed" /\ UNCHANGED <<sites, rows, ranges, consumed>>
       ELSE /\ sites' = Append(sites, [a |-> a[1], w |-> w[1], path |-> path])
            /\ rows' = IF Flagged THEN Append(rows, "unreached") ELSE rows
            /\ IF setting.integrity = "writes"
               THEN ranges' = Unguarded(a[1]) /\ consumed' = consumed \cup {a[1]}
               ELSE UNCHANGED <<ranges, consumed>>
            /\ UNCHANGED graph
    /\ UNCHANGED <<setting, issue, latest, content, spoiler, rewritten, gone, pc, call, given, trouble, since, replay>>

EndCapture ==
    /\ graph = "told" /\ sites # <<>> /\ pc = "idle"
    /\ graph' = "captured"
    /\ UNCHANGED <<vars, sites, rows, since, replay>>
-----------------------------------------------------------------------------
(* before_replay: the host refuses a graph that reads a weight collected,      *)
(* issued again or written since; else every row says "not reached".          *)
BugLooksAtNoWeight == FALSE
WeightStale == \E i \in DOMAIN sites : \E h \in Both(sites[i].w) : h \in gone \/ Stale(h)

BugRowsStay == rows
Cleared == [i \in DOMAIN rows |-> "unreached"]

BeforeReplay ==
    /\ graph = "captured" /\ pc = "idle" /\ replays < MaxReplays
    /\ replays' = replays + 1
    /\ used' = <<>> /\ counted' = {} /\ unstopped' = FALSE
    /\ IF WeightStale
       THEN outcome' = "refused" /\ UNCHANGED <<pc, at, rows>>
       ELSE outcome' = "running" /\ pc' = "queued" /\ at' = 1 /\ rows' = Cleared
    /\ UNCHANGED <<setting, memory, call, given, consumed, trouble, graph, sites, since>>

(* On the device: the quantizer makes the activation of this replay.          *)
Site == sites[at]
Remake ==
    LET place == issue[Site.a].place IN
    /\ pc = "queued" /\ pc' = "admitted"
    /\ content' = [c \in Cells |-> IF c[1] = place THEN Site.a ELSE content[c]]
    /\ spoiler' = [c \in Cells |-> IF c[1] = place THEN "none" ELSE spoiler[c]]
    /\ call' = [NoCall EXCEPT !.a = Site.a, !.w = Site.w]
    /\ UNCHANGED <<setting, issue, latest, rewritten, gone, ranges, given, consumed, trouble, book, replay>>

Launch == Dispatch /\ call'.path = Site.path /\ UNCHANGED <<book, replay>>
Look == Compare /\ UNCHANGED <<book, replay>>
Race == LateReads /\ UNCHANGED <<book, replay>>

BugSumsOnly ==
    IF setting.check = "output" THEN SumsDiffer
    ELSE setting.integrity = "inkernel" /\ DeviceStops
CheckFailed ==
    IF setting.check = "output" THEN SumsDiffer \/ ScalesBad
    ELSE setting.integrity = "inkernel" /\ DeviceStops

Flag == IF CheckFailed THEN "failed" ELSE IF call.viol THEN "repaired" ELSE "good"

HandedOn ==
    [right |-> (IF call.viol THEN call.clean ELSE call.near) /\ ~Faulty,
     excused |-> setting.check = "static" /\ (call.blind \/ Faulty)]

(* The flags go to the host, then the assertion; the output is read by the     *)
(* graph's next operation unless the device stopped.                          *)
Verify ==
    /\ pc = IF setting.check = "output" THEN "compared" ELSE "ran"
    /\ rows' = IF Flagged THEN [rows EXCEPT ![at] = Flag] ELSE rows
    /\ \/ /\ CheckFailed
          /\ pc' = "halted" /\ UNCHANGED <<at, used, unstopped>>
       \/ /\ unstopped' = (unstopped \/ CheckFailed)
          /\ used' = Append(used, HandedOn)
          /\ at' = at + 1 /\ pc' = IF at = Len(sites) THEN "finished" ELSE "queued"
    /\ call' = NoCall
    /\ UNCHANGED <<setting, memory, given, consumed, trouble, graph, sites, since, counted, outcome, replays>>

(* Another fault of the device.                                               *)
DeviceFault ==
    /\ pc \in {"queued", "admitted", "ran", "compared"} /\ Mishap
    /\ pc' = "halted" /\ call' = NoCall
    /\ UNCHANGED <<setting, memory, given, consumed, book, replay>>

(* after_replay: gates without flags are counted and nothing is waited for;    *)
(* the others are judged by their rows, whether or not the device stopped.    *)
Waited == {"halted", "finished"}

AfterReplay ==
    LET stopped == pc = "halted"
        failed == \E i \in DOMAIN rows : rows[i] = "failed"
        unwritten == ~stopped /\ \E i \in DOMAIN rows : rows[i] = "unreached"
    IN  /\ pc \in Waited
        /\ counted' = IF Flagged THEN {i \in DOMAIN rows : rows[i] \in {"good", "repaired"}}
                      ELSE DOMAIN sites
        /\ outcome' = IF failed \/ unwritten THEN "refused"
                      ELSE IF Flagged /\ stopped THEN "raised" ELSE "returned"
        /\ pc' = IF stopped THEN "stopped" ELSE "idle"
        /\ UNCHANGED <<setting, memory, call, given, consumed, trouble, book, at, used, unstopped, replays>>

OnDevice == Remake \/ Launch \/ Look \/ Verify
Replay == OnDevice \/ AfterReplay

(* What happens around it: weights are issued before the capture and may be    *)
(* issued again after it; the quantizers of the graph run while it is captured; *)
(* writes and collections before the capture are left to Guarantee.            *)
Around ==
    \/ graph \in {"none", "captured"} /\ \E p \in Weights : Issue(p)
    \/ graph \in {"told", "untold"} /\ \E p \in Buffers : Issue(p)
    \/ graph = "captured" /\ \E h \in Handles : Collect(h)
    \/ graph = "captured" /\ \E c \in Cells, x \in Writers : Write(c, x)
    \/ graph = "captured" /\ \E c \in Cells, x \in Writers : RefuseWrite(c, x)

NextReplay ==
    \/ Around /\ UNCHANGED <<book, replay>>
    \/ \E told \in BOOLEAN : BeginCapture(told)
    \/ \E a, w \in Handles, path \in {"kernel", "reference"} : CaptureGate(a, w, path)
    \/ EndCapture
    \/ BeforeReplay
    \/ Replay
    \/ Race
    \/ DeviceFault

ReplaySpec == InitReplay /\ [][NextReplay]_gvars
-----------------------------------------------------------------------------
(* A replay that returns to the program handed on only right outputs: a weight *)
(* issued again, moved or written between capture and replay, a write while the *)
(* graph runs and a failed assertion all refuse it (before_replay,              *)
(* after_replay); the structural modes except what they cannot see (Blind).     *)
ReplayIsRight ==
    outcome = "returned" => \A i \in DOMAIN used : used[i].right \/ used[i].excused

(* The device stops at the gate that failed, before the graph's next operation  *)
(* reads its output, unless the assertion itself fails (_captured, _static) or   *)
(* the sums made in the kernel missed a write while it ran.                     *)
StopsInTime ==
    Flagged /\ ~unstopped => \A i \in DOMAIN used : used[i].right \/ used[i].excused

(* A gate recorded as delivered in a replay ran in this replay and its output   *)
(* was right, also where another gate stopped the device or the device failed:  *)
(* flags of an earlier replay are not taken for this one's (before_replay); in-   *)
(* kernel sums except a write while the kernel runs and scales nobody looked at. *)
CountedGatesRan ==
    Flagged => \A i \in counted :
                  i \in DOMAIN used /\ (used[i].right \/ used[i].excused)
=============================================================================
