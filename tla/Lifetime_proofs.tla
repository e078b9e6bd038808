---------------------------- MODULE Lifetime_proofs ----------------------------
(***************************************************************************)
(* What the load windows keep for any number of threads, models and tensors.*)
(*                                                                         *)
(* The counters first (Counted): they count the open windows and assemblies, *)
(* so that depth is zero exactly when no window is open, and one thread at   *)
(* most can be the one that marks. Then who loads what (Loads), what a hook  *)
(* and a held read stand for (Hooked, Held), and, while no two loads have     *)
(* overlapped, what the one load in progress and the loaded models hold       *)
(* (Alone): there every mark is found, and zeroed before a model runs.        *)
(***************************************************************************)

EXTENDS Lifetime, Integers, FiniteSetTheorems, TLAPS

Busy(t) == pc[t] \in {"outermost", "inside", "leaving", "closed", "restoring"}

TypeInv ==
    /\ depth \in Int /\ assembling \in Int
    /\ marked \subseteq Tensors
    /\ held_back \subseteq [tensor : Tensors, saw : {"itself", "another"}]
    /\ hooks \subseteq Tensors
    /\ holding \in [Threads -> SUBSET [tensor : Tensors, saw : {"itself", "another"}]]
    /\ pc \in [Threads -> {"idle", "outermost", "inside", "leaving", "closed", "restoring",
                           "holding", "settling"}]
    /\ loading \in [Threads -> Models \cup {NoModel}]
    /\ marking \subseteq Threads /\ nested \subseteq Threads /\ assembles \subseteq Threads
    /\ begun \in [Threads -> Nat]
    /\ found \in [Threads -> SUBSET Tensors]
    /\ state \in [Models -> {"unloaded", "loading", "loaded", "failed"}]
    /\ made_for \in [Tensors -> Models \cup {NoModel}]
    /\ kind \in [Tensors -> {"free", "loose", "parameter", "replaced", "ousted"}]
    /\ content \in [Tensors -> {"free", "raw", "mark", "written", "late", "zero"}]
    /\ reported \subseteq Tensors /\ withdrawn \subseteq Tensors
    /\ read \subseteq Tensors /\ mark_read \subseteq Tensors
    /\ overlapped \in BOOLEAN

Marker(t) == pc[t] = "outermost" \/ t \in marking
Counted ==
    /\ nested \subseteq {t \in Threads : pc[t] = "inside"}
    /\ marking \subseteq {t \in Threads : pc[t] = "inside"}
    /\ \A t, u \in Threads : Marker(t) /\ Marker(u) => t = u
    /\ depth = Cardinality({t \in Threads : Inside(t)}) + Cardinality(nested)
    /\ assembling = Cardinality(assembles)

(* Each model is loaded by one thread, and tensors are made for those begun.  *)
Loads ==
    /\ \A t \in Threads : IF Busy(t) THEN loading[t] \in Models /\ state[loading[t]] = "loading"
                          ELSE loading[t] = NoModel
    /\ \A t, u \in Threads : Busy(t) /\ Busy(u) /\ loading[t] = loading[u] => t = u
    /\ \A x \in Tensors : made_for[x] \in Models => state[made_for[x]] # "unloaded"
    /\ \A x \in Tensors : kind[x] # "free" => made_for[x] \in Models
    /\ \A x \in Tensors : kind[x] \in {"replaced", "ousted"} => state[made_for[x]] = "loaded"

Hooked ==
    \A x \in hooks :
        /\ made_for[x] \in Models
        /\ kind[x] \in {"parameter", "ousted"}
        /\ content[x] \in {"mark", "zero", "late"}
        /\ \A t \in Threads : Busy(t) /\ loading[t] = made_for[x] => pc[t] = "restoring"

(* A parameter of a loaded model that nothing had written when its load ended. *)
Lacking(x) ==
    /\ kind[x] \in {"parameter", "replaced", "ousted"}
    /\ made_for[x] \in Models /\ state[made_for[x]] = "loaded"
    /\ content[x] \in {"mark", "zero", "late"}
Told(x) == x \in read \/ content[x] = "late" \/ kind[x] = "ousted"

(* What a thread is about to hold, what is held and what was reported. *)
Holds ==
    /\ \A t \in Threads : pc[t] # "holding" => holding[t] = {}
    /\ \A t \in Threads : pc[t] = "holding" => \E x \in Tensors, saw \in {"itself", "another"} :
                                                   holding[t] = {[tensor |-> x, saw |-> saw]}
    /\ \A t \in Threads : \A r \in holding[t] :
          Lacking(r.tensor) /\ (r.saw = "another" => kind[r.tensor] = "ousted")
Held ==
    \A r \in held_back : /\ Lacking(r.tensor) /\ Told(r.tensor)
                         /\ r.saw = "another" => kind[r.tensor] = "ousted"
Reported == \A x \in reported : Lacking(x) /\ Told(x)

Covered ==
    reported \cup withdrawn \cup {r.tensor : r \in held_back}
        \cup {x \in Tensors : \E t \in Threads : \E r \in holding[t] : r.tensor = x}

Only == \A t, u \in Threads : Busy(t) /\ Busy(u) => t = u
Marks == \A t \in Threads : pc[t] = "inside" => t \in marking
Fresh ==
    \A t \in Threads : \A x \in Tensors :
       Busy(t) /\ made_for[x] = loading[t] =>
          pc[t] # "outermost" /\ content[x] \in {"mark", "written"}
FoundAll ==
    \A t \in Threads : \A x \in Tensors :
       pc[t] = "restoring" /\ kind[x] = "parameter" /\ made_for[x] = loading[t]
             /\ content[x] = "mark" =>
          x \in found[t] /\ x \in hooks
Ready ==
    \A x \in Tensors : state[made_for[x]] = "loaded" =>
       /\ kind[x] \in {"parameter", "replaced", "ousted"} => content[x] # "mark"
       /\ kind[x] = "parameter" =>
             \/ content[x] \in {"written", "late"}
             \/ content[x] = "zero" /\ (x \in hooks \/ x \in Covered)
Kept == read \subseteq Covered /\ mark_read = {}

Alone == ~overlapped => Only /\ Marks /\ Fresh /\ FoundAll /\ Ready /\ Kept


LEMMA InitInv == Init => TypeInv /\ Counted /\ Loads /\ Hooked /\ Holds /\ Held /\ Reported /\ Alone
<1> SUFFICES ASSUME Init PROVE TypeInv /\ Counted /\ Loads /\ Hooked /\ Holds /\ Held /\ Reported /\ Alone
  OBVIOUS
<1>1. TypeInv
  <2>1. /\ found \in [Threads -> SUBSET Tensors] /\ begun \in [Threads -> Nat]
        /\ holding \in [Threads -> SUBSET [tensor : Tensors, saw : {"itself", "another"}]]
    BY DEF Init
  <2>2. /\ made_for \in [Tensors -> Models \cup {NoModel}]
        /\ loading \in [Threads -> Models \cup {NoModel}]
    BY DEF Init
  <2>3. /\ pc \in [Threads -> {"idle", "outermost", "inside", "leaving", "closed", "restoring",
                                "holding", "settling"}]
        /\ state \in [Models -> {"unloaded", "loading", "loaded", "failed"}]
        /\ kind \in [Tensors -> {"free", "loose", "parameter", "replaced", "ousted"}]
        /\ content \in [Tensors -> {"free", "raw", "mark", "written", "late", "zero"}]
    BY DEF Init
  <2>4. /\ depth = 0 /\ assembling = 0 /\ overlapped = FALSE
        /\ marked = {} /\ held_back = {} /\ hooks = {}
        /\ marking = {} /\ nested = {} /\ assembles = {}
        /\ reported = {} /\ withdrawn = {} /\ read = {} /\ mark_read = {}
    BY DEF Init
  <2>5. depth \in Int /\ assembling \in Int
    BY <2>4
  <2>6. overlapped \in BOOLEAN
    BY <2>4, Zenon
  <2>7. /\ held_back \subseteq [tensor : Tensors, saw : {"itself", "another"}]
        /\ hooks \subseteq Tensors
        /\ marked \subseteq Tensors /\ marking \subseteq Threads /\ nested \subseteq Threads
        /\ assembles \subseteq Threads /\ reported \subseteq Tensors
        /\ withdrawn \subseteq Tensors /\ read \subseteq Tensors
        /\ mark_read \subseteq Tensors
    BY <2>4, Zenon
  <2> HIDE DEF Init
  <2> QED BY <2>1, <2>2, <2>3, <2>5, <2>6, <2>7, Zenon DEF TypeInv
<1>2. Counted
  <2>1. {t \in Threads : Inside(t)} = {}
    BY DEF Init, Inside
  <2> QED BY <2>1, FS_EmptySet DEF Init, Counted, Marker
<1>3. Loads /\ Hooked /\ Holds /\ Held /\ Reported
  BY ModelAssumption DEF Init, Loads, Hooked, Holds, Held, Reported, Busy
<1>4. Alone
  BY DEF Init, Alone, Only, Marks, Fresh, FoundAll, Ready, Kept, Busy
<1> QED BY <1>1, <1>2, <1>3, <1>4

LEMMA StepType == TypeInv /\ [Next]_vars => TypeInv'
<1> SUFFICES ASSUME TypeInv, [Next]_vars PROVE TypeInv'
  OBVIOUS
<1> USE DEF TypeInv, thread, memory, history, Goto
<1>1. ASSUME NEW t \in Threads, NEW m \in Models, Enter(t, m) PROVE TypeInv'
  BY <1>1 DEF Enter
<1>2. ASSUME NEW t \in Threads, NEW x \in Tensors, Run(t, x) PROVE TypeInv'
  <2>1. Now(x) \in {"itself", "another"}
    BY DEF Now
  <2> QED BY <1>2, <2>1 DEF Run, Reads
<1>3. ASSUME NEW t \in Threads, NEW x \in Tensors, Allocate(t, x) PROVE TypeInv'
  BY <1>3 DEF Allocate
<1>4. ASSUME NEW t \in Threads, NEW x \in Tensors, MakeParameter(t, x) PROVE TypeInv'
  BY <1>4 DEF MakeParameter
<1>5. ASSUME NEW t \in Threads, NEW x \in Tensors, Write(t, x) PROVE TypeInv'
  BY <1>5 DEF Write
<1>6. ASSUME NEW t \in Threads, NEW x \in Tensors, Replace(t, x) PROVE TypeInv'
  BY <1>6 DEF Replace
<1>7. ASSUME NEW t \in Threads, Outermost(t) PROVE TypeInv'
  BY <1>7 DEF Outermost, Zeroed
<1>8. ASSUME NEW t \in Threads, Nest(t) PROVE TypeInv'
  BY <1>8 DEF Nest
<1>9. ASSUME NEW t \in Threads, Unnest(t) PROVE TypeInv'
  BY <1>9 DEF Unnest
<1>10. ASSUME NEW t \in Threads, LeaveMode(t) PROVE TypeInv'
  BY <1>10 DEF LeaveMode
<1>11. ASSUME NEW t \in Threads, Close(t) PROVE TypeInv'
  BY <1>11 DEF Close
<1>12. ASSUME NEW t \in Threads, Look(t) PROVE TypeInv'
  <2>1. Unwritten(loading[t]) \subseteq Tensors
    BY DEF Unwritten, Parameters
  <2>2. CASE depth > 0 /\ Finished(t) /\ UNCHANGED <<found, hooks>>
    BY <1>12, <2>2 DEF Look, Finished
  <2>3. CASE /\ hooks' = hooks \cup Unwritten(loading[t])
             /\ found' = [found EXCEPT ![t] = Unwritten(loading[t])]
             /\ Goto(t, "restoring") /\ UNCHANGED <<state, loading>>
    BY <1>12, <2>1, <2>3 DEF Look
  <2> QED BY <1>12, <2>2, <2>3 DEF Look
<1>13. ASSUME NEW t \in Threads, Restore(t) PROVE TypeInv'
  BY <1>13 DEF Restore, Zeroed, Finished
<1>14. ASSUME NEW t \in Threads, BeginAssembly(t) PROVE TypeInv'
  BY <1>14 DEF BeginAssembly
<1>15. ASSUME NEW t \in Threads, EndAssembly(t) PROVE TypeInv'
  BY <1>15 DEF EndAssembly, LastAssembly
<1>16. ASSUME NEW t \in Threads, Settle(t) PROVE TypeInv'
  BY <1>16 DEF Settle
<1>17. ASSUME NEW t \in Threads, HoldBack(t) PROVE TypeInv'
  BY <1>17 DEF HoldBack, Reads
<1>18. CASE UNCHANGED vars
  BY <1>18 DEF vars
<1> HIDE DEF TypeInv
<1> QED BY <1>1, <1>2, <1>3, <1>4, <1>5, <1>6, <1>7, <1>8, <1>9, <1>10, <1>11, <1>12, <1>13, <1>14, <1>15, <1>16, <1>17, <1>18 DEF Next
-----------------------------------------------------------------------------
(* The counters *)

Windows == {t \in Threads : Inside(t)}

LEMMA FiniteCounts ==
    ASSUME TypeInv
    PROVE  /\ IsFiniteSet(Windows) /\ Cardinality(Windows) \in Nat
           /\ IsFiniteSet(nested) /\ Cardinality(nested) \in Nat
           /\ IsFiniteSet(assembles) /\ Cardinality(assembles) \in Nat
<1>1. Windows \in SUBSET Threads /\ nested \in SUBSET Threads /\ assembles \in SUBSET Threads
  BY DEF TypeInv, Windows
<1> QED BY <1>1, ThreadAssumption, FS_Subset, FS_CardinalityType

(* depth is zero only when no window is open. *)
LEMMA DepthZero ==
    ASSUME TypeInv, Counted
    PROVE  depth = 0 <=> Windows = {}
<1>1. depth = Cardinality(Windows) + Cardinality(nested)
  BY DEF Counted, Windows
<1>2. nested \subseteq Windows
  BY DEF Counted, Windows, Inside
<1>3. Windows = {} => nested = {}
  BY <1>2
<1> QED BY <1>1, <1>3, FiniteCounts, FS_EmptySet

(* A thread moves without opening or closing a window. *)
LEMMA SameWindows ==
    ASSUME TypeInv, NEW t \in Threads, NEW where,
           pc' = [pc EXCEPT ![t] = where],
           Inside(t) <=> where \in {"outermost", "inside", "leaving"}
    PROVE  Windows' = Windows
BY DEF TypeInv, Windows, Inside

LEMMA StepCounted == TypeInv /\ Counted /\ [Next]_vars => Counted'
<1> SUFFICES ASSUME TypeInv, Counted, [Next]_vars PROVE Counted'
  OBVIOUS
<1> USE DEF Goto
<1>0. depth = Cardinality(Windows) + Cardinality(nested)
  BY DEF Counted, Windows
<1>a. ASSUME depth' = Cardinality(Windows') + Cardinality(nested')
      PROVE  depth' = Cardinality({t \in Threads : Inside(t)'}) + Cardinality(nested')
  BY <1>a DEF Windows
<1>1. ASSUME NEW t \in Threads, NEW m \in Models, Enter(t, m) PROVE Counted'
  <2>1. /\ pc[t] = "idle" /\ depth' = depth + 1
        /\ pc' = [pc EXCEPT ![t] = IF depth = 0 THEN "outermost" ELSE "inside"]
        /\ UNCHANGED <<marking, nested, assembles, assembling>>
    BY <1>1 DEF Enter
  <2>2. Windows' = Windows \cup {t} /\ t \notin Windows
    BY <2>1 DEF TypeInv, Windows, Inside
  <2>3. depth' = Cardinality(Windows') + Cardinality(nested')
    <3>1. Cardinality(Windows') = Cardinality(Windows) + 1
      BY <2>2, FiniteCounts, FS_AddElement
    <3> QED BY <1>0, <2>1, <3>1, FiniteCounts
  <2>4. depth = 0 => \A u \in Threads : ~Marker(u)
    BY DepthZero DEF Counted, Marker, Windows, Inside
  <2> QED BY <1>a, <2>1, <2>3, <2>4 DEF TypeInv, Counted, Marker
<1>2. ASSUME NEW t \in Threads, Outermost(t) PROVE Counted'
  <2>1. /\ pc[t] = "outermost" /\ pc' = [pc EXCEPT ![t] = "inside"]
        /\ marking' = marking \cup {t}
        /\ UNCHANGED <<depth, nested, assembles, assembling>>
    BY <1>2 DEF Outermost
  <2>2. Windows' = Windows
    BY <2>1, SameWindows DEF Inside
  <2> QED BY <1>0, <1>a, <2>1, <2>2 DEF TypeInv, Counted, Marker
<1>3. ASSUME NEW t \in Threads, Nest(t) PROVE Counted'
  <2>1. /\ pc[t] = "inside" /\ t \notin nested /\ nested' = nested \cup {t}
        /\ depth' = depth + 1
        /\ UNCHANGED <<pc, marking, assembles, assembling>>
    BY <1>3 DEF Nest
  <2>2. Windows' = Windows
    BY <2>1 DEF Windows, Inside
  <2>3. depth' = Cardinality(Windows') + Cardinality(nested')
    <3>1. Cardinality(nested') = Cardinality(nested) + 1
      BY <2>1, FiniteCounts, FS_AddElement
    <3> QED BY <1>0, <2>1, <2>2, <3>1, FiniteCounts
  <2> QED BY <1>a, <2>1, <2>3 DEF Counted, Marker
<1>4. ASSUME NEW t \in Threads, Unnest(t) PROVE Counted'
  <2>1. /\ t \in nested /\ nested' = nested \ {t} /\ depth' = depth - 1
        /\ UNCHANGED <<pc, marking, assembles, assembling>>
    BY <1>4 DEF Unnest
  <2>2. Windows' = Windows
    BY <2>1 DEF Windows, Inside
  <2>3. depth' = Cardinality(Windows') + Cardinality(nested')
    <3>1. Cardinality(nested') = Cardinality(nested) - 1
      BY <2>1, FiniteCounts, FS_RemoveElement
    <3> QED BY <1>0, <2>1, <2>2, <3>1, FiniteCounts
  <2> QED BY <1>a, <2>1, <2>3 DEF Counted, Marker
<1>5. ASSUME NEW t \in Threads, LeaveMode(t) PROVE Counted'
  <2>1. /\ pc[t] = "inside" /\ t \notin nested /\ pc' = [pc EXCEPT ![t] = "leaving"]
        /\ marking' = marking \ {t}
        /\ UNCHANGED <<depth, nested, assembles, assembling>>
    BY <1>5 DEF LeaveMode
  <2>2. Windows' = Windows
    BY <2>1, SameWindows DEF Inside
  <2> QED BY <1>0, <1>a, <2>1, <2>2 DEF TypeInv, Counted, Marker
<1>6. ASSUME NEW t \in Threads, Close(t) PROVE Counted'
  <2>1. /\ pc[t] = "leaving" /\ depth' = depth - 1
        /\ UNCHANGED <<marking, nested, assembles, assembling>>
    BY <1>6 DEF Close
  <2>2. PICK where \in {"closed", "idle"} : pc' = [pc EXCEPT ![t] = where]
    BY <1>6 DEF Close
  <2>3. Windows' = Windows \ {t} /\ t \in Windows
    BY <2>1, <2>2 DEF TypeInv, Windows, Inside
  <2>4. depth' = Cardinality(Windows') + Cardinality(nested')
    <3>1. Cardinality(Windows') = Cardinality(Windows) - 1
      BY <2>3, FiniteCounts, FS_RemoveElement
    <3> QED BY <1>0, <2>1, <3>1, FiniteCounts
  <2> QED BY <1>a, <2>1, <2>2, <2>4 DEF TypeInv, Counted, Marker
<1>7. ASSUME NEW t \in Threads, Look(t) \/ Restore(t) \/ HoldBack(t) \/ Settle(t) PROVE Counted'
  <2>1. /\ pc[t] \in {"closed", "restoring", "holding", "settling"}
        /\ UNCHANGED <<depth, marking, nested, assembles, assembling>>
    BY <1>7 DEF Look, Restore, HoldBack, Settle
  <2>2. PICK where \in {"restoring", "idle"} : pc' = [pc EXCEPT ![t] = where]
    BY <1>7 DEF Look, Restore, HoldBack, Settle, Finished
  <2>3. Windows' = Windows
    BY <2>1, <2>2, SameWindows DEF Inside
  <2> QED BY <1>0, <1>a, <2>1, <2>2, <2>3 DEF TypeInv, Counted, Marker
<1>8. ASSUME NEW t \in Threads, BeginAssembly(t) PROVE Counted'
  <2>1. /\ t \notin assembles /\ assembles' = assembles \cup {t} /\ assembling' = assembling + 1
        /\ UNCHANGED <<depth, pc, marking, nested>>
    BY <1>8 DEF BeginAssembly
  <2>2. assembling' = Cardinality(assembles')
    BY <2>1, FiniteCounts, FS_AddElement DEF Counted
  <2> QED BY <2>1, <2>2 DEF Counted, Marker, Inside
<1>9. ASSUME NEW t \in Threads, EndAssembly(t) PROVE Counted'
  <2>1. /\ pc[t] = "idle" /\ t \in assembles /\ assembles' = assembles \ {t}
        /\ assembling' = assembling - 1
        /\ UNCHANGED <<depth, marking, nested>>
    BY <1>9 DEF EndAssembly
  <2>2. PICK where \in {"settling", "idle"} : pc' = [pc EXCEPT ![t] = where]
    BY <1>9 DEF EndAssembly
  <2>3. Windows' = Windows
    BY <2>1, <2>2, SameWindows DEF Inside
  <2>4. assembling' = Cardinality(assembles')
    BY <2>1, FiniteCounts, FS_RemoveElement DEF Counted
  <2> QED BY <1>0, <1>a, <2>1, <2>2, <2>3, <2>4 DEF TypeInv, Counted, Marker
<1>10. ASSUME UNCHANGED <<depth, pc, marking, nested, assembles, assembling>> PROVE Counted'
  BY <1>10 DEF Counted, Marker, Inside
<1>11. ASSUME NEW t \in Threads, NEW x \in Tensors,
              Allocate(t, x) \/ MakeParameter(t, x) \/ Write(t, x) \/ Replace(t, x)
       PROVE  Counted'
  BY <1>10, <1>11 DEF Allocate, MakeParameter, Write, Replace, thread
<1>12. ASSUME NEW t \in Threads, NEW x \in Tensors, Run(t, x) PROVE Counted'
  <2>1. pc[t] = "idle" /\ UNCHANGED <<depth, marking, nested, assembles, assembling>>
    BY <1>12 DEF Run
  <2>2. CASE pc' = pc
    BY <1>10, <2>1, <2>2
  <2>3. CASE pc' = [pc EXCEPT ![t] = "holding"]
    <3>1. Windows' = Windows
      BY <2>1, <2>3, SameWindows DEF Inside
    <3> QED BY <1>0, <1>a, <2>1, <2>3, <3>1 DEF TypeInv, Counted, Marker
  <2> QED BY <1>12, <2>2, <2>3 DEF Run
<1>13. CASE UNCHANGED vars
  BY <1>10, <1>13 DEF vars, thread
<1> QED BY <1>1, <1>2, <1>3, <1>4, <1>5, <1>6, <1>7, <1>8, <1>9, <1>11, <1>12, <1>13 DEF Next

(* The mode that marks is entered on one thread at a time, within its own      *)
(* window, and the counters count what is open, for any number of threads,     *)
(* also after a load that raised (load_window, assembly).                      *)
THEOREM CountersCount == Spec => []OneThreadMarks
<1>1. Init => TypeInv /\ Counted
  BY InitInv
<1>2. TypeInv /\ Counted /\ [Next]_vars => TypeInv' /\ Counted'
  BY StepType, StepCounted
<1>3. TypeInv /\ Counted => OneThreadMarks
  <2> SUFFICES ASSUME TypeInv, Counted PROVE Cardinality(marking) <= 1
    BY DEF Counted, OneThreadMarks
  <2>1. CASE marking = {}
    BY <2>1, FS_EmptySet
  <2>2. CASE marking # {}
    <3>1. PICK t : t \in marking
      BY <2>2
    <3>2. marking = {t}
      BY <3>1 DEF Counted, Marker, TypeInv
    <3> QED BY <3>2, FS_Singleton
  <2> QED BY <2>1, <2>2
<1> QED BY <1>1, <1>2, <1>3, PTL DEF Spec
-----------------------------------------------------------------------------
(* Who loads what *)

LEMMA StepLoads == TypeInv /\ Loads /\ [Next]_vars => Loads'
<1> SUFFICES ASSUME TypeInv, Loads, [Next]_vars PROVE Loads'
  OBVIOUS
<1> USE DEF TypeInv, Loads, Busy, Goto
<1>1. ASSUME NEW t \in Threads, NEW m \in Models, Enter(t, m) PROVE Loads'
  BY <1>1, ModelAssumption DEF Enter, memory
<1>2. ASSUME NEW t \in Threads, Outermost(t) \/ LeaveMode(t) PROVE Loads'
  BY <1>2 DEF Outermost, LeaveMode, memory
<1>3. ASSUME NEW t \in Threads, Close(t) PROVE Loads'
  <2>1. /\ pc[t] = "leaving" /\ made_for' = made_for /\ kind' = kind
        /\ \/ pc' = [pc EXCEPT ![t] = "closed"] /\ UNCHANGED <<state, loading>>
           \/ /\ pc' = [pc EXCEPT ![t] = "idle"] /\ loading' = [loading EXCEPT ![t] = NoModel]
              /\ state' = [state EXCEPT ![loading[t]] = "failed"]
    BY <1>3 DEF Close, memory
  <2>2. CASE pc' = [pc EXCEPT ![t] = "closed"] /\ UNCHANGED <<state, loading>>
    BY <2>1, <2>2
  <2>3. CASE /\ pc' = [pc EXCEPT ![t] = "idle"] /\ loading' = [loading EXCEPT ![t] = NoModel]
             /\ state' = [state EXCEPT ![loading[t]] = "failed"]
    <3>1. \A u \in Threads : u # t /\ Busy(u) => loading[u] # loading[t]
      BY <2>1
    <3>2. loading[t] \in Models /\ state[loading[t]] = "loading"
      BY <2>1
    <3>3. \A m \in Models : m # loading[t] => state'[m] = state[m]
      BY <2>3
    <3> QED BY <2>1, <2>3, <3>1, <3>2, <3>3, ModelAssumption
  <2> QED BY <2>1, <2>2, <2>3
<1>4. ASSUME NEW t \in Threads, Look(t) PROVE Loads'
  <2>1. /\ pc[t] = "closed" /\ made_for' = made_for /\ kind' = kind
        /\ \/ pc' = [pc EXCEPT ![t] = "restoring"] /\ UNCHANGED <<state, loading>>
           \/ /\ pc' = [pc EXCEPT ![t] = "idle"] /\ loading' = [loading EXCEPT ![t] = NoModel]
              /\ state' = [state EXCEPT ![loading[t]] = "loaded"]
    BY <1>4 DEF Look, Finished, memory
  <2>2. CASE pc' = [pc EXCEPT ![t] = "restoring"] /\ UNCHANGED <<state, loading>>
    BY <2>1, <2>2
  <2>3. CASE /\ pc' = [pc EXCEPT ![t] = "idle"] /\ loading' = [loading EXCEPT ![t] = NoModel]
             /\ state' = [state EXCEPT ![loading[t]] = "loaded"]
    <3>1. \A u \in Threads : u # t /\ Busy(u) => loading[u] # loading[t]
      BY <2>1
    <3>2. loading[t] \in Models /\ state[loading[t]] = "loading"
      BY <2>1
    <3>3. \A m \in Models : m # loading[t] => state'[m] = state[m]
      BY <2>3
    <3> QED BY <2>1, <2>3, <3>1, <3>2, <3>3, ModelAssumption
  <2> QED BY <2>1, <2>2, <2>3
<1>5. ASSUME NEW t \in Threads, Restore(t) PROVE Loads'
  BY <1>5, ModelAssumption DEF Restore, Finished
<1>6. ASSUME NEW t \in Threads, NEW x \in Tensors, Allocate(t, x) PROVE Loads'
  BY <1>6 DEF Allocate, thread
<1>7. ASSUME NEW t \in Threads, NEW x \in Tensors,
             MakeParameter(t, x) \/ Write(t, x) \/ Replace(t, x)
      PROVE  Loads'
  BY <1>7 DEF MakeParameter, Write, Replace, thread
<1>8. ASSUME NEW t \in Threads,
             HoldBack(t) \/ EndAssembly(t) \/ Settle(t) \/ \E x \in Tensors : Run(t, x)
      PROVE  Loads'
  BY <1>8 DEF HoldBack, EndAssembly, Settle, Run, memory
<1>9. ASSUME UNCHANGED <<pc, loading, state, made_for, kind>> PROVE Loads'
  BY <1>9
<1>10. ASSUME NEW t \in Threads, Nest(t) \/ Unnest(t) \/ BeginAssembly(t) PROVE Loads'
  BY <1>9, <1>10 DEF Nest, Unnest, BeginAssembly, thread, memory
<1>11. CASE UNCHANGED vars
  BY <1>9, <1>11 DEF vars, thread, memory
<1> QED BY <1>1, <1>2, <1>3, <1>4, <1>5, <1>6, <1>7, <1>8, <1>10, <1>11 DEF Next
-----------------------------------------------------------------------------
(* Hooks and held reads *)

LEMMA StepHooked == TypeInv /\ Loads /\ Hooked /\ [Next]_vars => Hooked'
<1> SUFFICES ASSUME TypeInv, Loads, Hooked, [Next]_vars PROVE Hooked'
  OBVIOUS
<1> USE DEF Goto
<1>h. \A x \in hooks : x \in Tensors /\ made_for[x] \in Models
  BY DEF TypeInv, Hooked
<1>1. ASSUME NEW t \in Threads, NEW m \in Models, Enter(t, m) PROVE Hooked'
  BY <1>1, <1>h DEF Enter, memory, TypeInv, Loads, Hooked, Busy
<1>2. ASSUME NEW t \in Threads, Outermost(t) PROVE Hooked'
  BY <1>2, <1>h DEF Outermost, Zeroed, TypeInv, Hooked, Busy
<1>3. ASSUME NEW t \in Threads, LeaveMode(t) \/ Close(t) PROVE Hooked'
  BY <1>3, <1>h, ModelAssumption DEF LeaveMode, Close, memory, TypeInv, Hooked, Busy
<1>4. ASSUME NEW t \in Threads, Look(t) PROVE Hooked'
  <2>1. pc[t] = "closed" /\ loading[t] \in Models /\ UNCHANGED <<made_for, kind, content>>
    BY <1>4 DEF Look, memory, Loads, Busy
  <2>2. CASE Finished(t) /\ hooks' = hooks
    BY <2>1, <2>2, <1>h, ModelAssumption DEF Finished, TypeInv, Hooked, Busy
  <2>3. CASE /\ hooks' = hooks \cup Unwritten(loading[t])
             /\ pc' = [pc EXCEPT ![t] = "restoring"] /\ loading' = loading
    <3>1. \A u \in Threads : Busy(u)' => Busy(u) /\ (u # t => pc'[u] = pc[u]) /\ (u = t => pc'[u] = "restoring")
      BY <2>1, <2>3 DEF TypeInv, Busy
    <3>2. \A u \in Threads : u # t /\ Busy(u) => loading[u] # loading[t]
      BY <2>1 DEF Loads, Busy
    <3>3. \A x \in Unwritten(loading[t]) :
             made_for[x] = loading[t] /\ kind[x] = "parameter" /\ content[x] = "mark"
      BY DEF Unwritten, Parameters
    <3> QED BY <2>1, <2>3, <3>1, <3>2, <3>3 DEF Hooked
  <2> QED BY <1>4, <2>2, <2>3 DEF Look
<1>5. ASSUME NEW t \in Threads, Restore(t) PROVE Hooked'
  BY <1>5, <1>h, ModelAssumption DEF Restore, Zeroed, Finished, TypeInv, Hooked, Busy
<1>6. ASSUME NEW t \in Threads, NEW x \in Tensors, Allocate(t, x) \/ MakeParameter(t, x)
      PROVE  Hooked'
  <2>1. x \notin hooks
    BY <1>6 DEF Allocate, MakeParameter, Hooked
  <2> QED BY <1>6, <1>h, <2>1 DEF Allocate, MakeParameter, thread, TypeInv, Hooked, Busy
<1>7. ASSUME NEW t \in Threads, NEW x \in Tensors, Write(t, x) PROVE Hooked'
  <2>1. x \in hooks => content' = [content EXCEPT ![x] = "late"]
    BY <1>7 DEF Write, Hooked, Busy
  <2>2. /\ \A y \in Tensors : y # x => content'[y] = content[y]
        /\ UNCHANGED <<pc, loading, hooks, made_for, kind>>
    BY <1>7 DEF Write, thread, TypeInv
  <2> QED BY <1>h, <2>1, <2>2 DEF TypeInv, Hooked, Busy
<1>8. ASSUME NEW t \in Threads, NEW x \in Tensors, Replace(t, x) PROVE Hooked'
  BY <1>8, <1>h DEF Replace, thread, TypeInv, Hooked, Busy
<1>9. ASSUME NEW t \in Threads, \/ HoldBack(t) \/ EndAssembly(t) \/ Settle(t)
                                \/ \E x \in Tensors : Run(t, x)
      PROVE  Hooked'
  BY <1>9, <1>h DEF HoldBack, EndAssembly, Settle, Run, memory, TypeInv, Hooked, Busy
<1>10. ASSUME UNCHANGED <<hooks, pc, loading, made_for, kind, content>> PROVE Hooked'
  BY <1>10 DEF Hooked, Busy
<1>11. ASSUME NEW t \in Threads, Nest(t) \/ Unnest(t) \/ BeginAssembly(t) PROVE Hooked'
  BY <1>10, <1>11 DEF Nest, Unnest, BeginAssembly, thread, memory
<1>12. CASE UNCHANGED vars
  BY <1>10, <1>12 DEF vars, thread, memory
<1> QED BY <1>1, <1>2, <1>3, <1>4, <1>5, <1>6, <1>7, <1>8, <1>9, <1>11, <1>12 DEF Next

(* What nothing had written when its load ended stays so, and what is told of it. *)
LEMMA LackingStays ==
    ASSUME TypeInv, Loads, [Next]_vars
    PROVE  \A x \in Tensors : Lacking(x) =>
              Lacking(x)' /\ (Told(x) => Told(x)') /\ (kind[x] = "ousted" => kind'[x] = "ousted")
<1> DEFINE Stays(x) == Lacking(x)' /\ (Told(x) => Told(x)')
                       /\ (kind[x] = "ousted" => kind'[x] = "ousted")
<1> SUFFICES ASSUME NEW x \in Tensors, Lacking(x) PROVE Stays(x)
  OBVIOUS
<1> USE DEF Lacking, Told, TypeInv
<1>1. \A t \in Threads : Busy(t) => loading[t] # made_for[x]
  BY DEF Loads
<1>2. ASSUME NEW t \in Threads, NEW m \in Models, Enter(t, m) PROVE Stays(x)
  BY <1>2 DEF Enter, memory, history
<1>3. ASSUME NEW t \in Threads, Outermost(t) PROVE Stays(x)
  BY <1>3 DEF Outermost, Zeroed, history
<1>4. ASSUME NEW t \in Threads, NEW y \in Tensors, Allocate(t, y) PROVE Stays(x)
  BY <1>4 DEF Allocate, history
<1>5. ASSUME NEW t \in Threads, NEW y \in Tensors, MakeParameter(t, y) PROVE Stays(x)
  BY <1>5 DEF MakeParameter, history
<1>6. ASSUME NEW t \in Threads, NEW y \in Tensors, Write(t, y) PROVE Stays(x)
  BY <1>1, <1>6 DEF Write, history, Busy
<1>7. ASSUME NEW t \in Threads, NEW y \in Tensors, Replace(t, y) PROVE Stays(x)
  BY <1>7 DEF Replace, history
<1>8. ASSUME NEW t \in Threads, NEW y \in Tensors, Run(t, y) PROVE Stays(x)
  BY <1>8 DEF Run, Reads, memory
<1>9. ASSUME NEW t \in Threads, HoldBack(t) PROVE Stays(x)
  BY <1>9 DEF HoldBack, Reads, memory
<1>10. ASSUME NEW t \in Threads, Close(t) PROVE Stays(x)
  BY <1>1, <1>10 DEF Close, Busy, memory, history
<1>11. ASSUME NEW t \in Threads, Look(t) PROVE Stays(x)
  BY <1>1, <1>11 DEF Look, Finished, Busy, memory, history
<1>12. ASSUME NEW t \in Threads, Restore(t) PROVE Stays(x)
  BY <1>1, <1>12 DEF Restore, Finished, Zeroed, Busy, history
<1>13. ASSUME UNCHANGED <<state, made_for, kind, content, read>> PROVE Stays(x)
  BY <1>13
<1>14. ASSUME NEW t \in Threads, \/ Nest(t) \/ Unnest(t) \/ LeaveMode(t) \/ BeginAssembly(t)
                                 \/ EndAssembly(t) \/ Settle(t)
       PROVE  Stays(x)
  BY <1>13, <1>14 DEF Nest, Unnest, LeaveMode, BeginAssembly, EndAssembly, Settle, memory, history
<1>15. CASE UNCHANGED vars
  BY <1>13, <1>15 DEF vars, memory, history
<1> HIDE DEF Stays, Lacking, Told, TypeInv
<1> QED BY <1>2, <1>3, <1>4, <1>5, <1>6, <1>7, <1>8, <1>9, <1>10, <1>11, <1>12, <1>14, <1>15 DEF Next

(* What a module's hook finds when it fires. *)
LEMMA Fired ==
    ASSUME TypeInv, Hooked, NEW t \in Threads, NEW x \in hooks, Run(t, x)
    PROVE  Lacking(x) /\ kind[x] \in {"parameter", "ousted"}
BY DEF TypeInv, Hooked, Run, Lacking

LEMMA HoldingType == TypeInv => \A t \in Threads : \A r \in holding[t] : r.tensor \in Tensors
<1> SUFFICES ASSUME TypeInv, NEW t \in Threads, NEW r \in holding[t] PROVE r.tensor \in Tensors
  OBVIOUS
<1>1. holding[t] \subseteq [tensor : Tensors, saw : {"itself", "another"}]
  BY DEF TypeInv
<1>2. r \in [tensor : Tensors, saw : {"itself", "another"}]
  BY <1>1
<1> QED BY <1>2

(* What a thread does with the read it is about to hold. *)
LEMMA StepHolds == TypeInv /\ Loads /\ Hooked /\ Holds /\ [Next]_vars => Holds'
<1> SUFFICES ASSUME TypeInv, Loads, Hooked, Holds, [Next]_vars PROVE Holds'
  OBVIOUS
<1> USE DEF Goto
<1>1. ASSUME NEW u \in Threads, NEW r \in holding[u]
      PROVE  Lacking(r.tensor)' /\ (r.saw = "another" => kind'[r.tensor] = "ousted")
  <2>1. PICK x \in Tensors : x = r.tensor
    BY HoldingType
  <2>2. Lacking(x) /\ (r.saw = "another" => kind[x] = "ousted")
    BY <2>1 DEF Holds
  <2>3. Lacking(x)' /\ (kind[x] = "ousted" => kind'[x] = "ousted")
    BY <2>2, LackingStays
  <2> QED BY <2>1, <2>2, <2>3
<1>2. ASSUME NEW t \in Threads, NEW x \in Tensors, Run(t, x) PROVE Holds'
  <2>1. CASE x \in hooks /\ assembling > 0
    <3> DEFINE r0 == [tensor |-> x, saw |-> Now(x)]
    <3>1. /\ pc' = [pc EXCEPT ![t] = "holding"] /\ holding' = [holding EXCEPT ![t] = {r0}]
          /\ kind' = kind
      BY <1>2, <2>1 DEF Run, memory
    <3>2. Lacking(x) /\ kind[x] \in {"parameter", "ousted"}
      BY <1>2, <2>1, Fired
    <3>3. Lacking(x)'
      BY <3>2, LackingStays
    <3>4. r0.tensor = x /\ (r0.saw = "another" => kind[x] = "ousted")
      BY <3>2 DEF Now
    <3> HIDE DEF r0
    <3>5. \E saw \in {"itself", "another"} : holding'[t] = {[tensor |-> x, saw |-> saw]}
      <4>1. Now(x) \in {"itself", "another"}
        BY DEF Now
      <4> QED BY <1>2, <2>1, <4>1 DEF Run, TypeInv
    <3>6. \A u \in Threads : u # t => holding'[u] = holding[u] /\ pc'[u] = pc[u]
      BY <3>1 DEF TypeInv
    <3>7. pc'[t] = "holding" /\ \A r \in holding'[t] : r = r0
      BY <3>1 DEF TypeInv
    <3> QED BY <1>1, <3>1, <3>3, <3>4, <3>5, <3>6, <3>7 DEF Holds
  <2>2. CASE ~(x \in hooks /\ assembling > 0)
    BY <1>1, <1>2, <2>2 DEF Run, Holds
  <2> QED BY <2>1, <2>2
<1>3. ASSUME NEW t \in Threads, HoldBack(t) PROVE Holds'
  BY <1>1, <1>3 DEF HoldBack, Holds, TypeInv
<1>4. ASSUME holding' = holding, \A u \in Threads : pc'[u] = "holding" <=> pc[u] = "holding"
      PROVE  Holds'
  BY <1>1, <1>4 DEF Holds
<1>5. ASSUME NEW t \in Threads,
             \/ \E m \in Models : Enter(t, m)
             \/ Outermost(t) \/ LeaveMode(t) \/ Close(t) \/ Look(t) \/ Restore(t)
             \/ EndAssembly(t) \/ Settle(t)
      PROVE  Holds'
  <2>1. holding' = holding /\ pc[t] # "holding"
    BY <1>5 DEF Enter, Outermost, LeaveMode, Close, Look, Restore, EndAssembly, Settle
  <2>2. \E where : pc' = [pc EXCEPT ![t] = where] /\ where # "holding"
    BY <1>5 DEF Enter, Outermost, LeaveMode, Close, Look, Restore, EndAssembly, Settle, Finished
  <2> QED BY <1>4, <2>1, <2>2 DEF TypeInv
<1>6. ASSUME NEW t \in Threads,
             \/ Nest(t) \/ Unnest(t) \/ BeginAssembly(t)
             \/ \E x \in Tensors : Allocate(t, x) \/ MakeParameter(t, x) \/ Write(t, x) \/ Replace(t, x)
      PROVE  Holds'
  BY <1>4, <1>6 DEF Nest, Unnest, BeginAssembly, Allocate, MakeParameter, Write, Replace, thread
<1>7. CASE UNCHANGED vars
  BY <1>4, <1>7 DEF vars, thread
<1> QED BY <1>2, <1>3, <1>5, <1>6, <1>7 DEF Next

LEMMA StepHeld == TypeInv /\ Loads /\ Holds /\ Held /\ [Next]_vars => Held'
<1> SUFFICES ASSUME TypeInv, Loads, Holds, Held, [Next]_vars PROVE Held'
  OBVIOUS
<1>1. ASSUME NEW r \in held_back
      PROVE  /\ Lacking(r.tensor)' /\ Told(r.tensor)'
             /\ r.saw = "another" => kind'[r.tensor] = "ousted"
  <2>1. r.tensor \in Tensors
    BY DEF TypeInv
  <2> QED BY <2>1, LackingStays DEF Held
<1>2. ASSUME NEW t \in Threads, HoldBack(t) PROVE Held'
  <2>1. /\ pc[t] = "holding" /\ held_back' = held_back \cup holding[t]
        /\ UNCHANGED <<kind, content>>
    BY <1>2 DEF HoldBack, memory
  <2>2. PICK r : holding[t] = {r}
    BY <2>1 DEF Holds
  <2>3. r.tensor \in Tensors /\ Lacking(r.tensor) /\ (r.saw = "another" => kind[r.tensor] = "ousted")
    <3>1. r \in holding[t]
      BY <2>2
    <3>2. \A q \in holding[t] :
             Lacking(q.tensor) /\ (q.saw = "another" => kind[q.tensor] = "ousted")
      BY DEF Holds
    <3>3. r.tensor \in Tensors
      BY <3>1, HoldingType
    <3> QED BY <3>1, <3>2, <3>3
  <2>4. Lacking(r.tensor)'
    BY <2>3, LackingStays
  <2>5. Reads(r.tensor)
    BY <1>2, <2>2 DEF HoldBack
  <2>6. Told(r.tensor)'
    BY <2>1, <2>3, <2>5 DEF Reads, Told, Lacking
  <2> QED BY <1>1, <2>1, <2>2, <2>3, <2>4, <2>6 DEF Held
<1>3. ASSUME held_back' \subseteq held_back PROVE Held'
  BY <1>1, <1>3 DEF Held
<1>4. ASSUME NEW t \in Threads,
             \/ \E m \in Models : Enter(t, m)
             \/ \E x \in Tensors : \/ Allocate(t, x) \/ MakeParameter(t, x) \/ Write(t, x)
                                   \/ Run(t, x) \/ Replace(t, x)
             \/ Outermost(t) \/ Nest(t) \/ Unnest(t) \/ LeaveMode(t)
             \/ Close(t) \/ Look(t) \/ Restore(t) \/ BeginAssembly(t) \/ EndAssembly(t) \/ Settle(t)
      PROVE  Held'
  BY <1>3, <1>4 DEF Enter, Allocate, MakeParameter, Write, Run, Replace, Outermost, Nest, Unnest,
                    LeaveMode, Close, Look, Restore, BeginAssembly, EndAssembly, Settle
<1>5. CASE UNCHANGED vars
  BY <1>3, <1>5 DEF vars
<1> QED BY <1>2, <1>4, <1>5 DEF Next

LEMMA StepReported ==
    TypeInv /\ Loads /\ Hooked /\ Held /\ Reported /\ [Next]_vars => Reported'
<1> SUFFICES ASSUME TypeInv, Loads, Hooked, Held, Reported, [Next]_vars PROVE Reported'
  OBVIOUS
<1>1. \A x \in reported : Lacking(x)' /\ Told(x)'
  BY LackingStays DEF TypeInv, Reported
<1>2. ASSUME NEW t \in Threads, NEW x \in Tensors, Run(t, x) PROVE Reported'
  <2>1. CASE x \in hooks /\ assembling > 0
    BY <1>1, <1>2, <2>1 DEF Run, Reported
  <2>2. CASE x \notin hooks
    BY <1>1, <1>2, <2>2 DEF Run, Reported
  <2>3. CASE x \in hooks /\ ~(assembling > 0)
    <3>1. Lacking(x) /\ Reads(x) /\ reported' = reported \cup {x} /\ UNCHANGED <<kind, content>>
      BY <1>2, <2>3, Fired DEF Run, memory
    <3>2. Lacking(x)'
      BY <3>1, LackingStays
    <3>3. Told(x)'
      BY <3>1 DEF Reads, Told, Lacking
    <3> QED BY <1>1, <3>1, <3>2, <3>3 DEF Reported
  <2> QED BY <2>1, <2>2, <2>3
<1>3. ASSUME NEW t \in Threads, Settle(t) PROVE Reported'
  <2>1. \A r \in held_back : r.tensor \in Tensors
    BY DEF TypeInv
  <2>2. \A r \in held_back : Lacking(r.tensor)' /\ Told(r.tensor)'
    BY <2>1, LackingStays DEF Held
  <2>3. reported' \subseteq reported \cup {r.tensor : r \in held_back}
    BY <1>3 DEF Settle
  <2> QED BY <1>1, <2>2, <2>3 DEF Reported
<1>4. ASSUME reported' = reported PROVE Reported'
  BY <1>1, <1>4 DEF Reported
<1>5. ASSUME NEW t \in Threads,
             \/ \E m \in Models : Enter(t, m)
             \/ \E x \in Tensors : Allocate(t, x) \/ MakeParameter(t, x) \/ Write(t, x) \/ Replace(t, x)
             \/ Outermost(t) \/ Nest(t) \/ Unnest(t) \/ LeaveMode(t) \/ Close(t) \/ Look(t)
             \/ Restore(t) \/ HoldBack(t) \/ BeginAssembly(t) \/ EndAssembly(t)
      PROVE  Reported'
  BY <1>4, <1>5 DEF Enter, Allocate, MakeParameter, Write, Replace, Outermost, Nest, Unnest,
                    LeaveMode, Close, Look, Restore, HoldBack, BeginAssembly, EndAssembly, history
<1>6. CASE UNCHANGED vars
  BY <1>4, <1>6 DEF vars, history
<1> QED BY <1>2, <1>3, <1>5, <1>6 DEF Next

SafeInv == TypeInv /\ Counted /\ Loads /\ Hooked /\ Holds /\ Held /\ Reported

LEMMA SafeInvariant == Spec => []SafeInv
<1>1. Init => SafeInv
  BY InitInv DEF SafeInv
<1>2. SafeInv /\ [Next]_vars => SafeInv'
  BY StepType, StepCounted, StepLoads, StepHooked, StepHolds, StepHeld, StepReported DEF SafeInv
<1> QED BY <1>1, <1>2, PTL DEF Spec

(* No report is false, for any number of threads and models, also when loads      *)
(* overlap: nothing had written what is reported while its model was loaded, and  *)
(* its module then ran with it so, unless the engine wrote it or put it out of    *)
(* the module in between (the hook, _settle).                                     *)
THEOREM ReportsAreTrue == Spec => []ReportedWasRead
<1>1. SafeInv => ReportedWasRead
  BY DEF SafeInv, Reported, Lacking, Told, ReportedWasRead
<1> QED BY <1>1, SafeInvariant, PTL

(* A trial read of a part the engine has replaced since is not reported when    *)
(* its assembly ends.                                                          *)
THEOREM ReportsAreHeld == Spec => ReportedIsHeld
<1> DEFINE A == \A x \in reported' \ reported : kind[x] \in {"parameter", "ousted"}
<1>1. SafeInv /\ [Next]_vars => [A]_vars
  <2> SUFFICES ASSUME SafeInv, [Next]_vars, vars' # vars PROVE A
    OBVIOUS
  <2> USE DEF SafeInv
  <2>1. ASSUME NEW t \in Threads, NEW x \in Tensors, Run(t, x) PROVE A
    BY <2>1 DEF Run
  <2>2. ASSUME NEW t \in Threads, Settle(t) PROVE A
    BY <2>2 DEF Settle, StillHeld, Held, TypeInv
  <2>3. ASSUME reported' = reported PROVE A
    BY <2>3
  <2>4. ASSUME NEW t \in Threads,
               \/ \E m \in Models : Enter(t, m)
               \/ \E x \in Tensors : Allocate(t, x) \/ MakeParameter(t, x) \/ Write(t, x) \/ Replace(t, x)
               \/ Outermost(t) \/ Nest(t) \/ Unnest(t) \/ LeaveMode(t) \/ Close(t) \/ Look(t)
               \/ Restore(t) \/ HoldBack(t) \/ BeginAssembly(t) \/ EndAssembly(t)
        PROVE  A
    BY <2>3, <2>4 DEF Enter, Allocate, MakeParameter, Write, Replace, Outermost, Nest, Unnest,
                      LeaveMode, Close, Look, Restore, HoldBack, BeginAssembly, EndAssembly, history
  <2> HIDE DEF A
  <2> QED BY <2>1, <2>2, <2>4 DEF Next
<1> QED BY <1>1, SafeInvariant, PTL DEF Spec, ReportedIsHeld
-----------------------------------------------------------------------------
(* One load at a time *)

AloneInv == TypeInv /\ Counted /\ Loads /\ Hooked /\ Holds /\ Alone

(* A load that is not overlapped opens the outermost window. *)
LEMMA EnterAlone ==
    ASSUME AloneInv, NEW t \in Threads, NEW m \in Models, Enter(t, m), ~overlapped'
    PROVE  Alone'
<1> USE DEF Goto
<1>1. /\ ~overlapped /\ pc[t] = "idle" /\ state[m] = "unloaded"
      /\ \A u \in Threads \ {t} : pc[u] = "idle"
      /\ UNCHANGED <<marking, found, hooks, made_for, kind, content, read, mark_read, reported,
                     withdrawn, held_back, holding>>
  BY DEF Enter, memory, history
<1>2. depth = 0
  BY <1>1, DepthZero DEF AloneInv, Windows, Inside
<1>3. /\ pc' = [pc EXCEPT ![t] = "outermost"] /\ loading' = [loading EXCEPT ![t] = m]
      /\ state' = [state EXCEPT ![m] = "loading"]
  BY <1>2 DEF Enter
<1>4. \A u \in Threads : u # t => ~Busy(u)'
  BY <1>1, <1>3 DEF AloneInv, TypeInv, Busy
<1>5. Only' /\ Marks'
  BY <1>1, <1>3, <1>4 DEF AloneInv, TypeInv, Only, Marks
<1>6. \A x \in Tensors : made_for[x] # m
  BY <1>1 DEF AloneInv, Loads
<1>7. Fresh' /\ FoundAll'
  BY <1>1, <1>3, <1>4, <1>6 DEF AloneInv, TypeInv, Fresh, FoundAll, Busy
<1>8. Ready' /\ Kept'
  BY <1>1, <1>3, <1>6 DEF AloneInv, TypeInv, Loads, Alone, Ready, Kept, Covered
<1> QED BY <1>5, <1>7, <1>8 DEF Alone

(* What opening the window zeroes is no loaded model's. *)
LEMMA OutermostAlone ==
    ASSUME AloneInv, NEW t \in Threads, Outermost(t), ~overlapped'
    PROVE  Alone'
<1> USE DEF Goto
<1>1. /\ ~overlapped /\ pc[t] = "outermost"
      /\ pc' = [pc EXCEPT ![t] = "inside"] /\ marking' = marking \cup {t}
      /\ content' = Zeroed({})
      /\ UNCHANGED <<loading, found, hooks, state, made_for, kind, read, mark_read, reported,
                     withdrawn, held_back, holding>>
  BY DEF Outermost, history
<1>2. Only /\ Marks /\ Fresh /\ FoundAll /\ Ready /\ Kept
  BY <1>1 DEF AloneInv, Alone
<1>3. Only' /\ Marks'
  BY <1>1, <1>2 DEF AloneInv, TypeInv, Only, Marks, Busy
<1>4. \A u \in Threads : Busy(u)' => u = t
  BY <1>1, <1>2 DEF AloneInv, TypeInv, Only, Busy
<1>5. Fresh' /\ FoundAll'
  BY <1>1, <1>2, <1>4 DEF AloneInv, TypeInv, Fresh, FoundAll, Busy
<1>6. \A x \in Tensors : content[x] # "mark" => content'[x] = content[x]
  BY <1>1 DEF Zeroed
<1>7. Ready' /\ Kept'
  BY <1>1, <1>2, <1>6 DEF Ready, Kept, Covered
<1> QED BY <1>3, <1>5, <1>7 DEF Alone

(* Inside the window the thread's own tensors move. *)
LEMMA InsideAlone ==
    ASSUME AloneInv, NEW t \in Threads, NEW x \in Tensors,
           Allocate(t, x) \/ MakeParameter(t, x) \/ (pc[t] = "inside" /\ Write(t, x)),
           ~overlapped'
    PROVE  Alone'
<1>1. /\ ~overlapped /\ pc[t] = "inside"
      /\ UNCHANGED <<pc, loading, marking, found, hooks, state, read, mark_read, reported,
                     withdrawn, held_back, holding>>
  BY DEF Allocate, MakeParameter, Write, thread, history
<1>2. Only /\ Marks /\ Fresh /\ FoundAll /\ Ready /\ Kept
  BY <1>1 DEF AloneInv, Alone
<1>3. Only' /\ Marks' /\ Kept'
  BY <1>1, <1>2 DEF Only, Marks, Kept, Covered, Busy
<1>4. /\ made_for'[x] = loading[t]
      /\ content'[x] \in {"mark", "written"}
      /\ \A y \in Tensors : y # x => /\ made_for'[y] = made_for[y] /\ kind'[y] = kind[y]
                                     /\ content'[y] = content[y]
  <2>1. CASE Allocate(t, x)
    BY <1>1, <1>2, <2>1 DEF Allocate, AloneInv, TypeInv, Marks
  <2>2. CASE MakeParameter(t, x)
    BY <1>1, <1>2, <2>2 DEF MakeParameter, AloneInv, TypeInv, Fresh, Busy
  <2>3. CASE Write(t, x)
    BY <1>1, <1>2, <2>3 DEF Write, AloneInv, TypeInv
  <2> QED BY <2>1, <2>2, <2>3
<1>5. \A u \in Threads : Busy(u) => u = t
  BY <1>1, <1>2 DEF Only, Busy
<1>6. Fresh'
  <2> SUFFICES ASSUME NEW y \in Tensors, made_for'[y] = loading[t]
               PROVE  content'[y] \in {"mark", "written"}
    BY <1>1, <1>5 DEF Fresh, Busy
  <2> QED BY <1>1, <1>2, <1>4 DEF Fresh, Busy
<1>7. FoundAll'
  BY <1>1, <1>5 DEF FoundAll, Busy
<1>8. Ready'
  <2>1. state[loading[t]] = "loading"
    BY <1>1 DEF AloneInv, Loads, Busy
  <2> QED BY <1>1, <1>2, <1>4, <2>1 DEF Ready, Covered
<1> QED BY <1>3, <1>6, <1>7, <1>8 DEF Alone

(* The window closes, or the load raises. *)
LEMMA LeaveAlone ==
    ASSUME AloneInv, NEW t \in Threads, LeaveMode(t) \/ Close(t), ~overlapped'
    PROVE  Alone'
<1> USE DEF Goto
<1>1. /\ ~overlapped /\ pc[t] \in {"inside", "leaving"}
      /\ UNCHANGED <<found, hooks, made_for, kind, content, read, mark_read, reported,
                     withdrawn, held_back, holding>>
  BY DEF LeaveMode, Close, memory, history
<1>2. Only /\ Marks /\ Fresh /\ FoundAll /\ Ready /\ Kept
  BY <1>1 DEF AloneInv, Alone
<1>3. /\ \A u \in Threads : u # t => pc'[u] = pc[u] /\ loading'[u] = loading[u]
                                     /\ (u \in marking <=> u \in marking')
      /\ pc'[t] \in {"leaving", "closed", "idle"}
      /\ pc'[t] # "idle" => loading'[t] = loading[t]
  BY <1>1 DEF LeaveMode, Close, AloneInv, TypeInv
<1>4. Only' /\ Marks'
  BY <1>1, <1>2, <1>3 DEF Only, Marks, Busy
<1>5. Fresh' /\ FoundAll'
  BY <1>1, <1>2, <1>3 DEF Fresh, FoundAll, Busy
<1>6. \A m \in Models : state'[m] = "loaded" => state[m] = "loaded"
  BY DEF LeaveMode, Close, AloneInv, TypeInv
<1>7. Ready' /\ Kept'
  BY <1>1, <1>2, <1>6 DEF Ready, Kept, Covered, AloneInv, Loads
<1> QED BY <1>4, <1>5, <1>7 DEF Alone

(* The only window is closed, so everything that still holds the mark is found. *)
LEMMA LookAlone ==
    ASSUME AloneInv, NEW t \in Threads, Look(t), ~overlapped'
    PROVE  Alone'
<1> USE DEF Goto
<1>1. /\ ~overlapped /\ pc[t] = "closed"
      /\ UNCHANGED <<marking, made_for, kind, content, read, mark_read, reported, withdrawn,
                     held_back, holding>>
  BY DEF Look, memory, history
<1>2. Only /\ Marks /\ Fresh /\ FoundAll /\ Ready /\ Kept
  BY <1>1 DEF AloneInv, Alone
<1>3. depth = 0
  <2>1. Windows = {}
    BY <1>1, <1>2 DEF Only, Windows, Inside, Busy
  <2> QED BY <2>1, DepthZero DEF AloneInv
<1>4. /\ found' = [found EXCEPT ![t] = Unwritten(loading[t])]
      /\ hooks' = hooks \cup Unwritten(loading[t])
      /\ pc' = [pc EXCEPT ![t] = "restoring"]
      /\ UNCHANGED <<state, loading>>
  BY <1>3 DEF Look
<1>5. \A u \in Threads : Busy(u)' => u = t
  BY <1>1, <1>2, <1>4 DEF Only, Busy, AloneInv, TypeInv
<1>6. Only' /\ Marks'
  BY <1>1, <1>2, <1>4, <1>5 DEF Only, Marks, AloneInv, TypeInv
<1>7. Fresh'
  BY <1>1, <1>2, <1>4, <1>5 DEF Fresh, Busy, AloneInv, TypeInv
<1>8. FoundAll'
  <2> SUFFICES ASSUME NEW x \in Tensors, kind[x] = "parameter", made_for[x] = loading[t],
                      content[x] = "mark"
               PROVE  x \in found'[t] /\ x \in hooks'
    BY <1>1, <1>4, <1>5 DEF FoundAll, Busy, AloneInv, TypeInv
  <2>1. x \in Unwritten(loading[t])
    BY DEF Unwritten, Parameters
  <2> QED BY <1>4, <2>1 DEF AloneInv, TypeInv
<1>9. Ready' /\ Kept'
  BY <1>1, <1>2, <1>4 DEF Ready, Kept, Covered
<1> QED BY <1>6, <1>7, <1>8, <1>9 DEF Alone

(* Every parameter that holds the mark is among those that are set to zero. *)
LEMMA RestoreAlone ==
    ASSUME AloneInv, NEW t \in Threads, Restore(t), ~overlapped'
    PROVE  Alone'
<1> USE DEF Goto
<1>1. /\ ~overlapped /\ pc[t] = "restoring" /\ content' = Zeroed(found[t])
      /\ state' = [state EXCEPT ![loading[t]] = "loaded"]
      /\ pc' = [pc EXCEPT ![t] = "idle"]
      /\ UNCHANGED <<marking, hooks, made_for, kind, read, mark_read, reported, withdrawn,
                     held_back, holding>>
  BY DEF Restore, Finished, history
<1>2. Only /\ Marks /\ Fresh /\ FoundAll /\ Ready /\ Kept
  BY <1>1 DEF AloneInv, Alone
<1>3. \A u \in Threads : ~Busy(u)'
  BY <1>1, <1>2 DEF Only, Busy, AloneInv, TypeInv
<1>4. Only' /\ Marks' /\ Fresh' /\ FoundAll'
  BY <1>3 DEF Only, Marks, Fresh, FoundAll, Busy
<1>5. Ready'
  <2> SUFFICES ASSUME NEW x \in Tensors, state'[made_for[x]] = "loaded",
                      kind[x] \in {"parameter", "replaced", "ousted"}
               PROVE  /\ content'[x] # "mark"
                      /\ kind[x] = "parameter" =>
                            \/ content'[x] \in {"written", "late"}
                            \/ content'[x] = "zero" /\ (x \in hooks \/ x \in Covered)
    BY <1>1 DEF Ready, Covered
  <2>1. content'[x] = IF content[x] = "mark"
                            /\ (x \in found[t] \/ (x \in marked /\ kind[x] = "loose"))
                      THEN "zero" ELSE content[x]
    BY <1>1 DEF Zeroed
  <2>2. CASE made_for[x] = loading[t] /\ kind[x] = "parameter"
    BY <1>1, <1>2, <2>1, <2>2 DEF Fresh, FoundAll, Busy
  <2>3. CASE made_for[x] # loading[t]
    <3>1. state[made_for[x]] = "loaded"
      BY <1>1, <2>3 DEF AloneInv, TypeInv, Loads
    <3> QED BY <1>2, <2>1, <3>1 DEF Ready
  <2>4. CASE made_for[x] = loading[t] /\ kind[x] # "parameter"
    BY <1>1, <2>4 DEF AloneInv, Loads, Busy
  <2> QED BY <2>2, <2>3, <2>4
<1>6. Kept'
  BY <1>1, <1>2 DEF Kept, Covered
<1> QED BY <1>4, <1>5, <1>6 DEF Alone

(* The engine writes a parameter of a loaded model. *)
LEMMA LateAlone ==
    ASSUME AloneInv, NEW t \in Threads, NEW x \in Tensors, pc[t] = "idle", Write(t, x),
           ~overlapped'
    PROVE  Alone'
<1>1. /\ ~overlapped /\ kind[x] = "parameter" /\ state[made_for[x]] = "loaded"
      /\ content'[x] = "late" /\ \A y \in Tensors : y # x => content'[y] = content[y]
      /\ UNCHANGED <<pc, loading, marking, found, hooks, state, made_for, kind, read, mark_read,
                     reported, withdrawn, held_back, holding>>
  BY DEF Write, thread, history, AloneInv, TypeInv
<1>2. Only /\ Marks /\ Fresh /\ FoundAll /\ Ready /\ Kept
  BY <1>1 DEF AloneInv, Alone
<1>3. Only' /\ Marks' /\ Kept'
  BY <1>1, <1>2 DEF Only, Marks, Kept, Covered, Busy
<1>4. \A u \in Threads : Busy(u) => made_for[x] # loading[u]
  BY <1>1 DEF AloneInv, Loads
<1>5. Fresh' /\ FoundAll'
  BY <1>1, <1>2, <1>4 DEF Fresh, FoundAll, Busy
<1>6. Ready'
  BY <1>1, <1>2 DEF Ready, Covered
<1> QED BY <1>3, <1>5, <1>6 DEF Alone

(* A module's hook reports the parameter or is about to hold it. *)
LEMMA RunAlone ==
    ASSUME AloneInv, NEW t \in Threads, NEW x \in Tensors, Run(t, x), ~overlapped'
    PROVE  Alone'
<1> USE DEF Goto
<1>1. /\ ~overlapped /\ state[made_for[x]] = "loaded" /\ kind[x] \in {"parameter", "ousted"}
      /\ pc[t] = "idle" /\ hooks' = hooks \ {x}
      /\ UNCHANGED <<loading, marking, found, state, made_for, kind, content, withdrawn, held_back>>
  BY DEF Run, memory
<1>2. Only /\ Marks /\ Fresh /\ FoundAll /\ Ready /\ Kept
  BY <1>1 DEF AloneInv, Alone
<1>3. /\ \A u \in Threads : pc'[u] = pc[u] \/ (u = t /\ pc'[u] = "holding")
      /\ reported \subseteq reported' /\ \A u \in Threads : holding[u] \subseteq holding'[u]
  BY <1>1 DEF Run, AloneInv, TypeInv, Holds
<1>4. Covered \subseteq Covered'
  BY <1>1, <1>3 DEF Covered
<1>5. x \in hooks => x \in Covered'
  <2>1. CASE x \in hooks /\ assembling > 0
    <3> DEFINE r0 == [tensor |-> x, saw |-> Now(x)]
    <3>1. r0 \in holding'[t]
      BY <2>1 DEF Run, AloneInv, TypeInv
    <3>2. r0.tensor = x
      OBVIOUS
    <3> HIDE DEF r0
    <3> QED BY <3>1, <3>2 DEF Covered
  <2>2. CASE x \in hooks /\ ~(assembling > 0)
    BY <2>2 DEF Run, Covered
  <2> QED BY <2>1, <2>2
<1>6. Only' /\ Marks' /\ Fresh'
  BY <1>1, <1>2, <1>3 DEF Only, Marks, Fresh, Busy
<1>7. FoundAll'
  <2>1. \A u \in Threads : pc[u] = "restoring" => loading[u] # made_for[x]
    BY <1>1 DEF AloneInv, Loads, Busy
  <2> QED BY <1>1, <1>2, <1>3, <2>1 DEF FoundAll
<1>8. Ready'
  BY <1>1, <1>2, <1>4, <1>5 DEF Ready
<1>9. Kept'
  <2>1. CASE read' = read /\ mark_read' = mark_read
    BY <1>2, <1>4, <2>1 DEF Kept
  <2>2. CASE Reads(x)
    <3>1. content[x] # "mark" /\ (kind[x] # "ousted" /\ content[x] \notin {"written", "late"}
                                    => x \in Covered')
      BY <1>1, <1>2, <1>4, <1>5 DEF Ready
    <3> QED BY <1>2, <1>4, <2>2, <3>1 DEF Reads, Kept
  <2> QED BY <2>1, <2>2 DEF Run
<1> QED BY <1>6, <1>7, <1>8, <1>9 DEF Alone

(* The read is held in the step in which its parameter is read. *)
LEMMA HoldAlone ==
    ASSUME AloneInv, NEW t \in Threads, HoldBack(t), ~overlapped'
    PROVE  Alone'
<1> USE DEF Goto
<1>1. /\ ~overlapped /\ pc[t] = "holding" /\ pc' = [pc EXCEPT ![t] = "idle"]
      /\ held_back' = held_back \cup holding[t] /\ holding' = [holding EXCEPT ![t] = {}]
      /\ UNCHANGED <<loading, marking, found, hooks, state, made_for, kind, content, withdrawn,
                     reported>>
  BY DEF HoldBack, memory
<1>2. Only /\ Marks /\ Fresh /\ FoundAll /\ Ready /\ Kept
  BY <1>1 DEF AloneInv, Alone
<1>3. PICK r : holding[t] = {r}
  BY <1>1 DEF AloneInv, Holds
<1>4. Reads(r.tensor) /\ r.tensor \in Tensors /\ Lacking(r.tensor)
  <2>1. r \in holding[t] /\ \A q \in holding[t] : q = r
    BY <1>3
  <2>2. \E q \in holding[t] : Reads(q.tensor)
    BY DEF HoldBack
  <2>3. \A q \in holding[t] : Lacking(q.tensor)
    BY DEF AloneInv, Holds
  <2>4. \A q \in holding[t] : q.tensor \in Tensors
    BY HoldingType DEF AloneInv
  <2>5. Reads(r.tensor)
    BY <2>1, <2>2
  <2> QED BY <2>1, <2>3, <2>4, <2>5
<1>5. Covered \subseteq Covered' /\ r.tensor \in Covered'
  <2> SUFFICES ASSUME NEW x \in Tensors, NEW u \in Threads, NEW q \in holding[u], q.tensor = x
               PROVE  x \in Covered'
    BY <1>1, <1>3, <1>4 DEF Covered
  <2>1. CASE u = t
    BY <1>1, <2>1 DEF Covered
  <2>2. CASE u # t
    <3>1. q \in holding'[u]
      BY <1>1, <2>2 DEF AloneInv, TypeInv
    <3> QED BY <3>1 DEF Covered
  <2> QED BY <2>1, <2>2
<1>6. Only' /\ Marks' /\ Fresh' /\ FoundAll'
  BY <1>1, <1>2 DEF Only, Marks, Fresh, FoundAll, Busy, AloneInv, TypeInv
<1>7. Ready'
  BY <1>1, <1>2, <1>5 DEF Ready
<1>8. Kept'
  <2>1. content[r.tensor] # "mark"
    BY <1>2, <1>4 DEF Lacking, Ready
  <2> QED BY <1>2, <1>4, <1>5, <2>1 DEF Reads, Kept
<1> QED BY <1>6, <1>7, <1>8 DEF Alone

(* A parameter that was replaced is no longer one; its hook may go with it. *)
LEMMA ReplaceAlone ==
    ASSUME AloneInv, NEW t \in Threads, NEW x \in Tensors, Replace(t, x), ~overlapped'
    PROVE  Alone'
<1>1. /\ ~overlapped /\ kind'[x] \in {"replaced", "ousted"}
      /\ \A y \in Tensors : y # x => kind'[y] = kind[y]
      /\ \A y \in hooks : y # x => y \in hooks'
      /\ UNCHANGED <<pc, loading, marking, found, state, made_for, content, read, mark_read,
                     reported, withdrawn, held_back, holding>>
  BY DEF Replace, thread, history, AloneInv, TypeInv
<1>2. Only /\ Marks /\ Fresh /\ FoundAll /\ Ready /\ Kept
  BY <1>1 DEF AloneInv, Alone
<1>3. Only' /\ Marks' /\ Fresh' /\ Kept'
  BY <1>1, <1>2 DEF Only, Marks, Fresh, Kept, Covered, Busy
<1>5. FoundAll'
  BY <1>1, <1>2 DEF FoundAll
<1>6. Ready'
  <2>1. kind[x] = "parameter" /\ state[made_for[x]] = "loaded"
    BY DEF Replace
  <2>2. \A y \in Tensors : y \in Covered => y \in Covered'
    BY <1>1 DEF Covered
  <2>3. \A y \in Tensors : y # x => kind'[y] = kind[y] /\ (y \in hooks => y \in hooks')
    BY <1>1
  <2> QED BY <1>1, <1>2, <2>1, <2>2, <2>3 DEF Ready
<1> QED BY <1>3, <1>5, <1>6 DEF Alone

(* What is settled stays covered. *)
LEMMA SettleAlone ==
    ASSUME AloneInv, NEW t \in Threads, EndAssembly(t) \/ Settle(t), ~overlapped'
    PROVE  Alone'
<1> USE DEF Goto
<1>1. /\ ~overlapped /\ pc[t] \in {"idle", "settling"}
      /\ pc'[t] \in {"idle", "settling"} /\ \A u \in Threads : u # t => pc'[u] = pc[u]
      /\ UNCHANGED <<loading, marking, found, hooks, state, made_for, kind, content, read,
                     mark_read>>
  BY DEF EndAssembly, Settle, memory, history, AloneInv, TypeInv
<1>2. Only /\ Marks /\ Fresh /\ FoundAll /\ Ready /\ Kept
  BY <1>1 DEF AloneInv, Alone
<1>3. Covered \subseteq Covered'
  BY DEF EndAssembly, Settle, history, Covered
<1>4. Only' /\ Marks' /\ Fresh' /\ FoundAll'
  BY <1>1, <1>2 DEF Only, Marks, Fresh, FoundAll, Busy
<1>5. Ready' /\ Kept'
  BY <1>1, <1>2, <1>3 DEF Ready, Kept
<1> QED BY <1>4, <1>5 DEF Alone

LEMMA StepAlone == AloneInv /\ [Next]_vars => Alone'
<1> SUFFICES ASSUME AloneInv, [Next]_vars, ~overlapped' PROVE Alone'
  BY DEF Alone
<1>1. ASSUME overlapped' = overlapped,
             UNCHANGED <<pc, loading, marking, found, hooks, state, made_for, kind, content,
                         read, mark_read, reported, withdrawn, held_back, holding>>
      PROVE  Alone'
  <2>1. Only /\ Marks /\ Fresh /\ FoundAll /\ Ready /\ Kept
    BY <1>1 DEF AloneInv, Alone
  <2> QED BY <1>1, <2>1 DEF Alone, Only, Marks, Fresh, FoundAll, Ready, Kept, Covered,
                             Busy
<1>2. ASSUME NEW t \in Threads, Nest(t) \/ Unnest(t) \/ BeginAssembly(t) PROVE Alone'
  BY <1>1, <1>2 DEF Nest, Unnest, BeginAssembly, memory, history
<1>3. CASE UNCHANGED vars
  BY <1>1, <1>3 DEF vars, thread, memory, history
<1>4. ASSUME NEW t \in Threads, NEW x \in Tensors, Write(t, x) PROVE Alone'
  BY <1>4, InsideAlone, LateAlone DEF Write
<1> QED BY <1>2, <1>3, <1>4, EnterAlone, OutermostAlone, InsideAlone, LeaveAlone, LookAlone,
           RestoreAlone, RunAlone, HoldAlone, ReplaceAlone, SettleAlone DEF Next

LEMMA AloneInvariant == Spec => []AloneInv
<1>1. Init => AloneInv
  BY InitInv DEF AloneInv
<1>2. AloneInv /\ [Next]_vars => AloneInv'
  BY StepType, StepCounted, StepLoads, StepHooked, StepHolds, StepAlone DEF AloneInv
<1> QED BY <1>1, <1>2, PTL DEF Spec

(* No read is silent while loads do not overlap, for any number of threads, models  *)
(* and tensors: a parameter that was read while nothing had written it is reported,  *)
(* held until the assembly ends, or was withdrawn (loaded, _report, _settle).        *)
THEOREM ReadsAreReported == Spec => []ReadsReported
<1>1. AloneInv => ReadsReported
  BY DEF AloneInv, Alone, Kept, Covered, ReadsReported
<1> QED BY <1>1, AloneInvariant, PTL

(* The mark is in no value a run computes while loads do not overlap: what still      *)
(* holds it is set to zero before the model runs (_restore).                         *)
THEOREM MarkIsHarmless == Spec => []MarkHarmless
<1>1. AloneInv => MarkHarmless
  BY DEF AloneInv, Alone, Kept, MarkHarmless
<1> QED BY <1>1, AloneInvariant, PTL

-----------------------------------------------------------------------------
(* Reads that are held *)

(* The step that settles what nobody else will settle leaves nothing held: what *)
(* HeldIsSettled promises with time, as far as it is a matter of safety.        *)
NothingLeftBehind == [][SettlerComes /\ ~SettlerComes' => held_back' = {}]_vars

(* No read that was held before the last assembly was settled is left behind, for *)
(* any number of threads that assemble at once (assembly, _settle); one that is   *)
(* appended after that is (_hook).                                                *)
THEOREM HeldReadsAreSettled == Spec => NothingLeftBehind
<1> DEFINE A == SettlerComes /\ ~SettlerComes' => held_back' = {}
<1>1. TypeInv /\ Counted /\ [Next]_vars => [A]_vars
  <2> SUFFICES ASSUME TypeInv, Counted, [Next]_vars, vars' # vars, SettlerComes, ~SettlerComes'
               PROVE  held_back' = {}
    OBVIOUS
  <2>1. assembling \in Int /\ pc \in [Threads -> {"idle", "outermost", "inside", "leaving", "closed",
                                                  "restoring", "holding", "settling"}]
    BY DEF TypeInv
  <2>2. ASSUME assembling' >= assembling,
               \A t \in Threads : pc[t] = "settling" => pc'[t] = "settling"
        PROVE  FALSE
    <3>1. assembling' \in Int
      BY StepType DEF TypeInv
    <3> QED BY <2>1, <2>2, <3>1 DEF SettlerComes
  <2>3. ASSUME NEW t \in Threads, EndAssembly(t) PROVE FALSE
    <3>1. /\ t \in assembles /\ assembling' = assembling - 1
          /\ pc[t] = "idle" /\ pc' = [pc EXCEPT ![t] = IF assembling = 1 THEN "settling" ELSE "idle"]
      BY <2>3 DEF EndAssembly, Goto, LastAssembly
    <3>2. assembling \in Nat /\ assembling # 0
      BY <3>1, FiniteCounts, FS_EmptySet DEF Counted
    <3>3. CASE assembling = 1
      BY <2>1, <3>1, <3>3 DEF SettlerComes
    <3>4. CASE assembling # 1
      BY <3>1, <3>2, <3>4 DEF SettlerComes
    <3> QED BY <3>3, <3>4
  <2>4. ASSUME NEW t \in Threads, Settle(t) PROVE held_back' = {}
    BY <2>4 DEF Settle
  <2>5. ASSUME NEW t \in Threads, BeginAssembly(t) PROVE FALSE
    BY <2>1, <2>2, <2>5 DEF BeginAssembly
  <2>6. ASSUME NEW t \in Threads, \/ \E m \in Models : Enter(t, m)
                                  \/ Outermost(t) \/ LeaveMode(t) \/ Close(t) \/ Look(t) \/ Restore(t)
                                  \/ HoldBack(t)
        PROVE  FALSE
    <3>1. assembling' = assembling /\ pc[t] # "settling"
      BY <2>6 DEF Enter, Outermost, LeaveMode, Close, Look, Restore, HoldBack
    <3>2. \E where : pc' = [pc EXCEPT ![t] = where]
      BY <2>6 DEF Enter, Outermost, LeaveMode, Close, Look, Restore, HoldBack, Goto, Finished
    <3> QED BY <2>1, <2>2, <3>1, <3>2
  <2>7. ASSUME NEW t \in Threads, NEW x \in Tensors, Run(t, x) PROVE FALSE
    <3>1. pc[t] = "idle" /\ assembling' = assembling
          /\ (pc' = pc \/ \E where : pc' = [pc EXCEPT ![t] = where])
      BY <2>7 DEF Run, Goto
    <3> QED BY <2>1, <2>2, <3>1
  <2>8. ASSUME NEW t \in Threads, \/ Nest(t) \/ Unnest(t)
                                  \/ \E x \in Tensors : \/ Allocate(t, x) \/ MakeParameter(t, x)
                                                        \/ Write(t, x) \/ Replace(t, x)
        PROVE  FALSE
    <3>1. UNCHANGED <<assembling, pc>>
      BY <2>8 DEF Nest, Unnest, Allocate, MakeParameter, Write, Replace, thread
    <3> QED BY <2>1, <2>2, <3>1
  <2> QED BY <2>3, <2>4, <2>5, <2>6, <2>7, <2>8 DEF Next
<1>2. Init => TypeInv /\ Counted
  BY InitInv
<1>3. TypeInv /\ Counted /\ [Next]_vars => TypeInv' /\ Counted'
  BY StepType, StepCounted
<1> QED BY <1>1, <1>2, <1>3, PTL DEF Spec, NothingLeftBehind
=============================================================================
