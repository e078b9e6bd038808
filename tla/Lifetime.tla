------------------------------ MODULE Lifetime ------------------------------
(***************************************************************************)
(* Memory nothing wrote (entail/lifetime.py) and the wrappers that open its *)
(* windows around an engine's loaders (adapters/loaders.py): while a model  *)
(* is loaded, what torch allocates without a value is marked; afterwards a  *)
(* parameter that still holds the mark is found, its module's first run     *)
(* reports it, and what still holds the mark is set to zero bits. While an  *)
(* engine assembles its model, a report is held until the assembly ends.    *)
(*                                                                         *)
(* A tensor is one allocation; how many of its elements are unwritten is    *)
(* abstracted to whether some are. A parameter is a new object over the     *)
(* allocated memory, so the object that was marked is no longer alive; a    *)
(* tensor that is no parameter (a buffer, an attribute) is that object.     *)
(***************************************************************************)
EXTENDS Naturals, FiniteSets

CONSTANTS
    Threads,   \* threads of the process that load and run models
    Models,    \* models, each loaded once, numbered as their loads begin
    Tensors,   \* allocations made while models are loaded, numbered as they are made
    AssemblyBound, \* assemblies each thread begins
    LateBound      \* parameters the engine writes after their model was loaded

NoModel == 0

ASSUME BoundAssumption == AssemblyBound \in Nat /\ LateBound \in Nat
ASSUME ThreadAssumption == IsFiniteSet(Threads)
ASSUME ModelAssumption == Models \subseteq Nat /\ NoModel \notin Models
ASSUME TensorAssumption == Tensors \subseteq Nat

VARIABLES
    depth,       \* _STATE["depth"]: windows open in the process
    assembling,  \* _STATE["assembling"]: assemblies open in the process
    marked,      \* _MARKED: the tensors the window marked (weak references)
    held_back,   \* _PENDING: reads held while an engine assembles its model
    hooks,       \* forward pre-hooks: the parameters to report at their module's first run
    pc,          \* where each thread is
    loading,     \* the model each thread loads
    marking,     \* the threads whose allocations are marked (the mode is entered)
    nested,      \* the threads inside a window of their own inside another
    assembles,   \* the threads inside an engine's assembly
    begun,       \* how many assemblies each thread has begun
    found,       \* the parameters each thread's loaded() found unwritten
    holding,     \* the read each thread has seen an open assembly for and is about to hold
    state,       \* of each model
    made_for,    \* tensor -> the model it was allocated for
    kind,        \* tensor -> how it is held
    content,     \* tensor -> what its memory holds
    reported,    \* history: the tensors reported as broken
    withdrawn,   \* history: the tensors whose read was withdrawn
    read,        \* history: the parameters read while nothing had written them
    mark_read,   \* history: the parameters read while they held the mark
    overlapped   \* history: a load was begun while another thread's went on

thread == <<pc, loading, marking, nested, assembles, begun, found, holding>>
memory == <<made_for, kind, content>>
history == <<reported, withdrawn, read, mark_read>>
vars == <<depth, assembling, marked, held_back, hooks, thread, state, memory, history,
          overlapped>>

Init ==
    /\ depth = 0 /\ assembling = 0
    /\ marked = {} /\ held_back = {} /\ hooks = {}
    /\ pc = [t \in Threads |-> "idle"]
    /\ loading = [t \in Threads |-> NoModel]
    /\ marking = {} /\ nested = {} /\ assembles = {}
    /\ found = [t \in Threads |-> {}]
    /\ holding = [t \in Threads |-> {}]
    /\ begun = [t \in Threads |-> 0]
    /\ state = [m \in Models |-> "unloaded"]
    /\ made_for = [x \in Tensors |-> NoModel]
    /\ kind = [x \in Tensors |-> "free"]
    /\ content = [x \in Tensors |-> "free"]
    /\ reported = {} /\ withdrawn = {} /\ read = {} /\ mark_read = {}
    /\ overlapped = FALSE
-----------------------------------------------------------------------------
Goto(t, where) == pc' = [pc EXCEPT ![t] = where]

(* The parameters model m holds. *)
Parameters(m) == {x \in Tensors : made_for[x] = m /\ kind[x] = "parameter"}

BugZeroesObjectsOnly(extra) ==
    [x \in Tensors |->
        IF content[x] = "mark" /\ x \in marked /\ kind[x] = "loose" THEN "zero" ELSE content[x]]

(* _restore: zero bits for what still holds the mark, of `extra` and of the *)
(* marked tensors whose object is alive.                                    *)
Zeroed(extra) ==
    [x \in Tensors |->
        IF content[x] = "mark" /\ (x \in extra \/ (x \in marked /\ kind[x] = "loose"))
        THEN "zero" ELSE content[x]]

(* load_window, entering: only the outermost window restores what an        *)
(* earlier one left and enters the mode, on this thread.                    *)
Enter(t, m) ==
    /\ pc[t] = "idle" /\ state[m] = "unloaded"
    /\ \A n \in Models : n < m => state[n] # "unloaded"
    /\ depth' = depth + 1
    /\ loading' = [loading EXCEPT ![t] = m]
    /\ state' = [state EXCEPT ![m] = "loading"]
    /\ overlapped' = (overlapped \/ \E u \in Threads \ {t} : pc[u] # "idle")
    /\ Goto(t, IF depth = 0 THEN "outermost" ELSE "inside")
    /\ UNCHANGED <<assembling, marked, held_back, hooks, marking, nested, assembles, begun,
                   found, holding, memory, history>>

Outermost(t) ==
    /\ pc[t] = "outermost"
    /\ content' = Zeroed({})
    /\ marked' = {}
    /\ marking' = marking \cup {t}
    /\ Goto(t, "inside")
    /\ UNCHANGED <<depth, assembling, held_back, hooks, loading, nested, assembles, begun,
                   found, holding, state, made_for, kind, history, overlapped>>

(* torch.empty inside the load: marked on the thread that entered the mode. *)
Allocate(t, x) ==
    /\ pc[t] = "inside" /\ kind[x] = "free"
    /\ \A y \in Tensors : y < x => kind[y] # "free"
    /\ kind' = [kind EXCEPT ![x] = "loose"]
    /\ made_for' = [made_for EXCEPT ![x] = loading[t]]
    /\ content' = [content EXCEPT ![x] = IF t \in marking THEN "mark" ELSE "raw"]
    /\ marked' = IF t \in marking THEN marked \cup {x} ELSE marked
    /\ UNCHANGED <<depth, assembling, held_back, hooks, thread, state, history, overlapped>>

MakeParameter(t, x) ==
    /\ pc[t] = "inside" /\ made_for[x] = loading[t] /\ kind[x] = "loose"
    /\ kind' = [kind EXCEPT ![x] = "parameter"]
    /\ UNCHANGED <<depth, assembling, marked, held_back, hooks, thread, state, made_for,
                   content, history, overlapped>>

(* The engine writes a tensor in its load, or a parameter later, when its    *)
(* model is loaded and what loaded() found is not looked at again (after a   *)
(* first read of it such a write would change nothing that is told here).    *)
Write(t, x) ==
    /\ content[x] \in {"raw", "mark", "zero"}
    /\ \/ /\ pc[t] = "inside" /\ made_for[x] = loading[t]
          /\ content' = [content EXCEPT ![x] = "written"]
       \/ /\ pc[t] = "idle" /\ kind[x] = "parameter" /\ state[made_for[x]] = "loaded"
          /\ x \notin read
          /\ Cardinality({y \in Tensors : content[y] = "late"}) < LateBound
          /\ content' = [content EXCEPT ![x] = "late"]
    /\ UNCHANGED <<depth, assembling, marked, held_back, hooks, thread, state, made_for,
                   kind, history, overlapped>>

(* A load_model that calls another: the inner window only counts, and the   *)
(* inner loaded() sees that it is not the outermost and returns.            *)
Nest(t) ==
    /\ pc[t] = "inside" /\ t \notin nested
    /\ nested' = nested \cup {t}
    /\ depth' = depth + 1
    /\ UNCHANGED <<assembling, marked, held_back, hooks, pc, loading, marking, assembles,
                   begun, found, holding, state, memory, history, overlapped>>

Unnest(t) ==
    /\ t \in nested
    /\ nested' = nested \ {t}
    /\ depth' = depth - 1
    /\ UNCHANGED <<assembling, marked, held_back, hooks, pc, loading, marking, assembles,
                   begun, found, holding, state, memory, history, overlapped>>

BugModeStays(t) ==
    /\ pc[t] = "inside" /\ t \notin nested
    /\ Goto(t, "leaving")
    /\ UNCHANGED <<depth, assembling, marked, held_back, hooks, loading, marking, nested,
                   assembles, begun, found, holding, state, memory, history, overlapped>>

(* The window closes: first the mode, then the depth; the load may raise,   *)
(* and then nothing is read.                                                *)
LeaveMode(t) ==
    /\ pc[t] = "inside" /\ t \notin nested
    /\ marking' = marking \ {t}
    /\ Goto(t, "leaving")
    /\ UNCHANGED <<depth, assembling, marked, held_back, hooks, loading, nested, assembles,
                   begun, found, holding, state, memory, history, overlapped>>

Close(t) ==
    /\ pc[t] = "leaving"
    /\ depth' = depth - 1
    /\ \/ Goto(t, "closed") /\ UNCHANGED <<state, loading>>
       \/ /\ Goto(t, "idle")
          /\ state' = [state EXCEPT ![loading[t]] = "failed"]
          /\ loading' = [loading EXCEPT ![t] = NoModel]
    /\ UNCHANGED <<assembling, marked, held_back, hooks, marking, nested, assembles, begun,
                   found, holding, memory, history, overlapped>>

Finished(t) ==
    /\ state' = [state EXCEPT ![loading[t]] = "loaded"]
    /\ loading' = [loading EXCEPT ![t] = NoModel]
    /\ Goto(t, "idle")

BugReadsObjects(m) == {x \in marked : made_for[x] = m /\ content[x] = "mark" /\ kind[x] = "loose"}
BugFindsEverything(m) == Parameters(m)
Unwritten(m) == {x \in Parameters(m) : content[x] = "mark"}

(* loaded, first part: with a window still open nothing is read. *)
Look(t) ==
    /\ pc[t] = "closed"
    /\ \/ /\ depth > 0
          /\ Finished(t)
          /\ UNCHANGED <<found, hooks>>
       \/ /\ depth = 0
          /\ found' = [found EXCEPT ![t] = Unwritten(loading[t])]
          /\ hooks' = hooks \cup Unwritten(loading[t])
          /\ Goto(t, "restoring")
          /\ UNCHANGED <<state, loading>>
    /\ UNCHANGED <<depth, assembling, marked, held_back, marking, nested, assembles, begun,
                   holding, memory, history, overlapped>>

Restore(t) ==
    /\ pc[t] = "restoring"
    /\ content' = Zeroed(found[t])
    /\ marked' = {}
    /\ found' = [found EXCEPT ![t] = {}]
    /\ Finished(t)
    /\ UNCHANGED <<depth, assembling, held_back, hooks, marking, nested, assembles, begun,
                   holding, made_for, kind, history, overlapped>>

(* A module runs: its pre-hook fires once, then its parameter is read. The   *)
(* hook looks without the lock whether an engine assembles: if none does it  *)
(* reports; if one does it holds the read, with the parameter its module has *)
(* now, in a step of its own under the lock (HoldBack).                      *)
Now(x) == IF kind[x] = "parameter" THEN "itself" ELSE "another"

Reads(x) ==
    /\ read' = IF kind[x] # "ousted" /\ content[x] \notin {"written", "late"}
             THEN read \cup {x} ELSE read
    /\ mark_read' = IF kind[x] # "ousted" /\ content[x] = "mark" THEN mark_read \cup {x}
                    ELSE mark_read

Run(t, x) ==
    /\ pc[t] = "idle" /\ kind[x] \in {"parameter", "ousted"} /\ state[made_for[x]] = "loaded"
    /\ hooks' = hooks \ {x}
    /\ \/ /\ x \in hooks /\ assembling > 0
          /\ holding' = [holding EXCEPT ![t] = {[tensor |-> x, saw |-> Now(x)]}]
          /\ Goto(t, "holding")
          /\ UNCHANGED <<reported, read, mark_read>>
       \/ /\ x \notin hooks \/ assembling = 0
          /\ reported' = reported \cup (hooks \cap {x})
          /\ Reads(x)
          /\ UNCHANGED <<holding, pc>>
    /\ UNCHANGED <<depth, assembling, marked, held_back, loading, marking, nested, assembles,
                   begun, found, state, memory, withdrawn, overlapped>>

HoldBack(t) ==
    /\ pc[t] = "holding"
    /\ held_back' = held_back \cup holding[t]
    /\ \E r \in holding[t] : Reads(r.tensor)
    /\ holding' = [holding EXCEPT ![t] = {}]
    /\ Goto(t, "idle")
    /\ UNCHANGED <<depth, assembling, marked, hooks, loading, marking, nested, assembles, begun,
                   found, state, memory, reported, withdrawn, overlapped>>

(* An engine wires another part in the place of a loaded one: the whole     *)
(* module (its hook goes with it) or the parameter of a module it keeps.    *)
Replace(t, x) ==
    /\ pc[t] = "idle" /\ t \in assembles
    /\ kind[x] = "parameter" /\ state[made_for[x]] = "loaded"
    /\ \/ kind' = [kind EXCEPT ![x] = "replaced"] /\ hooks' = hooks \ {x}
       \/ kind' = [kind EXCEPT ![x] = "ousted"] /\ UNCHANGED hooks
    /\ UNCHANGED <<depth, assembling, marked, held_back, thread, state, made_for, content,
                   history, overlapped>>

(* assembly: the outermost one's end settles the reads that were held. *)
BeginAssembly(t) ==
    /\ pc[t] = "idle" /\ t \notin assembles /\ begun[t] < AssemblyBound
    /\ begun' = [begun EXCEPT ![t] = @ + 1]
    /\ assembles' = assembles \cup {t}
    /\ assembling' = assembling + 1
    /\ UNCHANGED <<depth, marked, held_back, hooks, pc, loading, marking, nested, found,
                   holding, state, memory, history, overlapped>>

BugNeverLast == assembling = 0
LastAssembly == assembling = 1

EndAssembly(t) ==
    /\ pc[t] = "idle" /\ t \in assembles
    /\ assembles' = assembles \ {t}
    /\ assembling' = assembling - 1
    /\ Goto(t, IF LastAssembly THEN "settling" ELSE "idle")
    /\ UNCHANGED <<depth, marked, held_back, hooks, loading, marking, nested, begun, found,
                   holding, state, memory, history, overlapped>>

BugReportsReplaced(r) == TRUE
StillHeld(r) == r.saw = "another" \/ kind[r.tensor] = "parameter"

Settle(t) ==
    /\ pc[t] = "settling"
    /\ reported' = reported \cup {r.tensor : r \in {r \in held_back : StillHeld(r)}}
    /\ withdrawn' = withdrawn \cup {r.tensor : r \in {r \in held_back : ~StillHeld(r)}}
    /\ held_back' = {}
    /\ Goto(t, "idle")
    /\ UNCHANGED <<depth, assembling, marked, hooks, loading, marking, nested, assembles,
                   begun, found, holding, state, memory, read, mark_read, overlapped>>

Leaves(t) ==
    \/ Outermost(t) \/ Unnest(t) \/ LeaveMode(t) \/ Close(t) \/ Look(t) \/ Restore(t)
    \/ HoldBack(t) \/ EndAssembly(t) \/ Settle(t)

Next ==
    \E t \in Threads :
        \/ \E m \in Models : Enter(t, m)
        \/ \E x \in Tensors : \/ Allocate(t, x) \/ MakeParameter(t, x) \/ Write(t, x)
                              \/ Run(t, x) \/ Replace(t, x)
        \/ Outermost(t) \/ Nest(t) \/ Unnest(t) \/ LeaveMode(t) \/ Close(t) \/ Look(t)
        \/ Restore(t) \/ HoldBack(t) \/ BeginAssembly(t) \/ EndAssembly(t) \/ Settle(t)

Spec == Init /\ [][Next]_vars

(* A load and an assembly that were begun end: a load_model does not call    *)
(* others for ever.                                                         *)
FairSpec ==
    /\ Spec
    /\ \A t \in Threads : WF_vars(Leaves(t)) /\ SF_vars(LeaveMode(t))
-----------------------------------------------------------------------------
(* Properties *)

Inside(t) == pc[t] \in {"outermost", "inside", "leaving"}

(* "On the thread that opened it": the mode is entered on one thread at a   *)
(* time, and only while that thread's window is open; the counters that     *)
(* decide it count the windows and the assemblies that are open, also after *)
(* a load that raised.                                                      *)
OneThreadMarks ==
    /\ Cardinality(marking) <= 1
    /\ \A t \in marking : pc[t] = "inside"
    /\ depth = Cardinality({t \in Threads : Inside(t)}) + Cardinality(nested)
    /\ assembling = Cardinality(assembles)

(* No silent read: when loads do not overlap, a parameter that was read     *)
(* while nothing had written it is reported, or its report is held (or about *)
(* to be held) for the end of an assembly, or was withdrawn.                *)
ReadsReported ==
    ~overlapped =>
        read \subseteq reported \cup withdrawn \cup {r.tensor : r \in held_back}
                      \cup {x \in Tensors : \E t \in Threads : \E r \in holding[t] : r.tensor = x}

(* No false alarm: nothing had written what is reported while its model was  *)
(* loaded, as the report says, also when loads overlap; and its module then  *)
(* ran with it unwritten, but for two cases the hook does not look at: the   *)
(* engine wrote it after the load, or put it out of a module that it kept.   *)
ReportedWasRead ==
    \A x \in reported :
        /\ content[x] # "written"
        /\ x \in read \/ content[x] = "late" \/ kind[x] = "ousted"

(* "Reported if the model still holds the parameter": when its part was     *)
(* replaced, a trial read of it is not reported any more; the same one      *)
(* excepted.                                                                *)
ReportedIsHeld ==
    [][\A x \in reported' \ reported : kind[x] \in {"parameter", "ousted"}]_vars

(* "The mark changes no value the run computes", when loads do not overlap. *)
MarkHarmless == ~overlapped => mark_read = {}

(* An assembly is open, or the thread that ended the last one is to settle. *)
SettlerComes == assembling > 0 \/ \E t \in Threads : pc[t] = "settling"

(* A read that is held while an assembly is open, or before the last one is  *)
(* settled, is settled. (One that was seen before and held after that waits  *)
(* for the end of another assembly.)                                         *)
HeldIsSettled == (held_back # {} /\ SettlerComes) ~> (held_back = {})
=============================================================================
