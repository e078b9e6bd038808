------------------------------ MODULE SafePath ------------------------------
(***************************************************************************)
(* The two safety modes (entail/safe_mode.py) with the engine adapters that *)
(* drive them (adapters/vllm_safe.py, adapters/vllm_paths.py): what a start *)
(* turns off, what the self-check of the engine's own paths found, and the  *)
(* per-configuration search kept in safe_paths.json and safe_last.json.     *)
(*                                                                         *)
(* The files are read and replaced whole (load_store, save_store): a save   *)
(* is atomic, the load and the save around it are two steps, and nothing    *)
(* locks them against another process that shares the log folder.           *)
(***************************************************************************)
EXTENDS Naturals, FiniteSets

CONSTANTS
    Procs,        \* Python processes that build engines, sharing one log folder
    Keys,         \* engine configurations (config_key)
    Features,     \* the optimizations of data/safe_mode.json for the engine
    Pairs,        \* the path pairs of path_contract.PAIRS
    CandidatesOf, \* the table's "candidates": pair -> features it points at
    Needs,        \* pair -> features without which it is not compared
    First,        \* nonempty set of features -> the first in the table's order
    Outside,      \* a cause of disagreement that is no optimization
    Faults,       \* the faults an engine may have: pair -> its causes
    Modes,        \* what ENTAIL_SAFE or safe_mode.json may say here
    Commands,     \* the features a user's command line may leave on
    Stops,        \* TRUE: the policy stops at a disagreement (ENTAIL_ON_BROKEN=stop)
    Budget,       \* disturbance -> how often it may happen
    NoCtx         \* no start was noted in this process (LAST has no entry)

Disturbances == {"mode", "user", "kill", "refuse", "fail", "disk"}

ASSUME KeysAssumption == Keys # {}
ASSUME FirstAssumption == \A S \in (SUBSET Features) \ {{}} : First[S] \in S
ASSUME TableAssumption == CandidatesOf \in [Pairs -> SUBSET Features]
ASSUME FaultAssumption == Faults \subseteq [Pairs -> SUBSET (Features \cup {Outside})]
ASSUME ModeAssumption == Modes \subseteq {"off", "auto", "all"}
ASSUME CommandAssumption == Commands \subseteq SUBSET Features
ASSUME PolicyAssumption == Stops \in BOOLEAN
ASSUME BudgetAssumption == Budget \in [Disturbances -> Nat]

VARIABLES
    fault,    \* what is wrong with each configuration's engine
    mode,     \* the safety mode setting
    user,     \* the optimizations each configuration's command line leaves on
    store,    \* safe_paths.json
    last_on,  \* safe_last.json: what disagreed at the last start with nothing off
    pc,       \* where each process is between two engine builds
    start,    \* the start in progress: what plan() read and answered
    on,       \* the optimizations the engine being built really runs with
    ctx,      \* safe_mode.LAST: what the process's last noted start turned off
    saw,      \* the pairs the self-check found disagreeing
    seen,     \* after_self_check's copy of safe_last.json
    book,     \* after_self_check's copy of safe_paths.json
    left,     \* disturbances still allowed
    said,     \* history: what was said of each configuration's cause
    reports   \* history: how often "outside" was reported as broken

files == <<store, last_on>>
local == <<start, on, saw, seen, book>>
world == <<fault, mode, user>>
history == <<said, reports>>
vars == <<fault, mode, user, store, last_on, pc, start, on, ctx, saw, seen, book,
          left, said, reports>>

Entry == [status : {"none", "searching", "found", "outside"},
          candidates : SUBSET Features, tried : SUBSET Features, off : SUBSET Features]
NoEntry == [status |-> "none", candidates |-> {}, tried |-> {}, off |-> {}]
Start == [key : Keys, enabled : SUBSET Features, off : SUBSET Features]
Context == [key : Keys, enabled : SUBSET Features, off : SUBSET Features,
            mode : {"off", "auto", "all"}]
ASSUME NoCtxAssumption == NoCtx \notin Context

ReportBound == 2                   \* reports are counted up to two
NoLast == [k \in Keys |-> {}]      \* no pair is known to have disagreed
NoStore == [k \in Keys |-> NoEntry]
NoStart == [key |-> CHOOSE k \in Keys : TRUE, enabled |-> {}, off |-> {}]
-----------------------------------------------------------------------------
(* The rules (safe_mode.py) *)

Untried(e) == e.candidates \ e.tried

(* Wrong variants, one bug each, that the properties must catch. *)
BugTurnsAllOff(e) ==
    CASE e.status = "found" -> e.off
      [] e.status = "searching" -> Untried(e)
      [] OTHER -> {}
(* plan: what a start turns off of the optimizations its command leaves on. *)
SearchTurnsOff(e) ==
    CASE e.status = "found" -> e.off
      [] e.status = "searching" /\ Untried(e) # {} -> {First[Untried(e)]}
      [] OTHER -> {}

Planned(m, e, enabled) ==
    CASE m = "off" -> {}
      [] m = "all" -> enabled
      [] OTHER -> enabled \cap SearchTurnsOff(e)

(* The pairs that disagree when configuration k runs with S: a pair is      *)
(* compared only when what it needs is on, and disagrees when a cause is.   *)
Shows(k, S) ==
    {x \in Pairs : Needs[x] \subseteq S /\ fault[k][x] \cap (S \cup {Outside}) # {}}

BugSuspectsAll(pairs, enabled) == UNION {CandidatesOf[x] : x \in pairs}

(* _candidates: what the disagreeing pairs point at and the start left on. *)
Suspects(pairs, enabled) == (UNION {CandidatesOf[x] : x \in pairs}) \cap enabled

(* A first disagreement: its candidates, or nothing to turn off. *)
NewEntry(cands) ==
    [status |-> IF cands = {} THEN "outside" ELSE "searching",
     candidates |-> cands, tried |-> {}, off |-> {}]

BugTriedNow(e, off) == off

(* The paths disagree again: what was off is tried, what was found is too. *)
Tried(e, off) == off \cup IF e.status = "found" THEN e.off ELSE e.tried

BugNeverGivesUp(e, off) ==
    [status |-> "searching", candidates |-> e.candidates, tried |-> Tried(e, off), off |-> {}]

Narrowed(e, off) ==
    [status |-> IF e.candidates \subseteq Tried(e, off) THEN "outside" ELSE "searching",
     candidates |-> e.candidates, tried |-> Tried(e, off), off |-> {}]

(* Whether after_self_check saves, and the configuration's entry after it. *)
Agrees(e, pairs, off) == pairs = {} /\ e.status = "searching" /\ off # {}

Saves(e, pairs, off) ==
    Agrees(e, pairs, off) \/ (pairs # {} /\ e.status # "outside")

BugBlamesNext(e, pairs, c) ==
    IF Agrees(e, pairs, c.off) THEN [e EXCEPT !.status = "found", !.off = {First[Untried(e)]}]
    ELSE IF e.status = "none" THEN NewEntry(Suspects(pairs, c.enabled))
    ELSE Narrowed(e, c.off)

NextEntry(e, pairs, c) ==
    IF Agrees(e, pairs, c.off) THEN [e EXCEPT !.status = "found", !.off = c.off]
    ELSE IF e.status = "none" THEN NewEntry(Suspects(pairs, c.enabled))
    ELSE Narrowed(e, c.off)

-----------------------------------------------------------------------------
Init ==
    /\ fault \in [Keys -> Faults]
    /\ mode \in Modes
    /\ user \in [Keys -> Commands]
    /\ store = NoStore
    /\ last_on = NoLast
    /\ pc = [p \in Procs |-> "idle"]
    /\ start = [p \in Procs |-> NoStart]
    /\ on = [p \in Procs |-> {}]
    /\ ctx = [p \in Procs |-> NoCtx]
    /\ saw = [p \in Procs |-> {}]
    /\ seen = [p \in Procs |-> NoLast]
    /\ book = [p \in Procs |-> NoStore]
    /\ left = Budget
    /\ said = {}
    /\ reports = [k \in Keys |-> 0]

Goto(p, where) == pc' = [pc EXCEPT ![p] = where]

(* The end of an engine build: the process keeps LAST, forgets the rest. *)
Finish(p) ==
    /\ Goto(p, "idle")
    /\ start' = [start EXCEPT ![p] = NoStart]
    /\ on' = [on EXCEPT ![p] = {}]
    /\ saw' = [saw EXCEPT ![p] = {}]
    /\ seen' = [seen EXCEPT ![p] = NoLast]
    /\ book' = [book EXCEPT ![p] = NoStore]

Disturb(kind) ==
    /\ left[kind] > 0
    /\ left' = [left EXCEPT ![kind] = @ - 1]

(* save_store: the file replaced whole; an OSError leaves it as it was. *)
Save(file, new) ==
    \/ file' = new /\ UNCHANGED left
    \/ UNCHANGED file /\ Disturb("disk")

(* create_engine_config, first half of _decide: plan() reads mode and store. *)
Plan(p, k) ==
    /\ pc[p] = "idle"
    /\ start' = [start EXCEPT ![p] =
         [key |-> k, enabled |-> user[k], off |-> Planned(mode, store[k], user[k])]]
    /\ Goto(p, "planned")
    /\ UNCHANGED <<world, files, on, ctx, saw, seen, book, left, history>>

(* _decide's second half: the options are turned, started() reads the mode  *)
(* again and notes the start.                                               *)
Started(p) ==
    /\ pc[p] = "planned"
    /\ on' = [on EXCEPT ![p] = start[p].enabled \ start[p].off]
    /\ ctx' = [ctx EXCEPT ![p] = [key |-> start[p].key, enabled |-> start[p].enabled,
                                  off |-> start[p].off, mode |-> mode]]
    /\ Goto(p, "up")
    /\ UNCHANGED <<world, files, start, saw, seen, book, left, history>>

(* An error inside _decide: load.safely records it and the engine starts,   *)
(* with some of the options turned and the start not noted.                 *)
DecideFails(p) ==
    /\ pc[p] = "planned"
    /\ Disturb("fail")
    /\ \E turned \in SUBSET start[p].off :
         on' = [on EXCEPT ![p] = start[p].enabled \ turned]
    /\ Goto(p, "up")
    /\ UNCHANGED <<world, files, start, ctx, saw, seen, book, history>>

(* The probes ran: under a stop policy a disagreement raises before         *)
(* after_self_check, and without a noted start that returns at once.        *)
SelfCheck(p) ==
    /\ pc[p] = "up"
    /\ LET pairs == Shows(start[p].key, on[p]) IN
       \/ /\ ctx[p] = NoCtx \/ (Stops /\ pairs # {})
          /\ Finish(p)
       \/ /\ ctx[p] # NoCtx /\ ~(Stops /\ pairs # {})
          /\ saw' = [saw EXCEPT ![p] = pairs]
          /\ seen' = [seen EXCEPT ![p] = last_on]
          /\ Goto(p, "checked")
          /\ UNCHANGED <<start, on, book>>
    /\ UNCHANGED <<world, files, ctx, left, history>>

(* The engine refused a probe: unknown, and the search does not move. *)
ProbesRefused(p) ==
    /\ pc[p] = "up"
    /\ Disturb("refuse")
    /\ Finish(p)
    /\ UNCHANGED <<world, files, ctx, history>>

(* after_self_check, first part: safe_last.json is written by a start that  *)
(* turned nothing off.                                                      *)
NoteLast(p) ==
    IF ctx[p].off = {}
    THEN Save(last_on, [seen[p] EXCEPT ![ctx[p].key] = saw[p]])
    ELSE UNCHANGED <<last_on, left>>

BugSaysInside(c, pairs, before) ==
    {[key |-> c.key, what |-> IF pairs # {} THEN "outside" ELSE "inside"]}

(* The explicit safe mode says which side of the optimizations the fault is. *)
ExplicitSays(c, pairs, before) ==
    IF pairs # {} THEN {[key |-> c.key, what |-> "outside"]}
    ELSE IF c.off # {} /\ before[c.key] # {} THEN {[key |-> c.key, what |-> "inside"]}
    ELSE {}

ExplicitVerdict(p) ==
    /\ pc[p] = "checked" /\ ctx[p].mode = "all"
    /\ NoteLast(p)
    /\ said' = said \cup ExplicitSays(ctx[p], saw[p], seen[p])
    /\ Finish(p)
    /\ UNCHANGED <<world, store, ctx, reports>>

ModeOff(p) ==
    /\ pc[p] = "checked" /\ ctx[p].mode = "off"
    /\ NoteLast(p)
    /\ Finish(p)
    /\ UNCHANGED <<world, store, ctx, history>>

NoteThenSearch(p) ==
    /\ pc[p] = "checked" /\ ctx[p].mode = "auto"
    /\ NoteLast(p)
    /\ Goto(p, "noted")
    /\ UNCHANGED <<world, store, local, ctx, history>>

LoadBook(p) ==
    /\ pc[p] = "noted"
    /\ book' = [book EXCEPT ![p] = store]
    /\ Goto(p, "loaded")
    /\ UNCHANGED <<world, files, start, on, ctx, saw, seen, left, history>>

BugReportsAgain(e, pairs, c) ==
    pairs # {} /\ NextEntry(e, pairs, c).status = "outside"

(* after_self_check, the rest: this configuration's entry moves on in the   *)
(* copy that was loaded, and the copy replaces the file.                    *)
InVain(e, pairs, c) ==
    e.status \in {"searching", "found"} /\ pairs # {} /\ NextEntry(e, pairs, c).status = "outside"

MoveOn(p) ==
    LET c == ctx[p]
        e == book[p][c.key]
    IN  /\ pc[p] = "loaded"
        /\ IF Saves(e, saw[p], c.off)
           THEN Save(store, [book[p] EXCEPT ![c.key] = NextEntry(e, saw[p], c)])
           ELSE UNCHANGED <<store, left>>
        /\ reports' = [reports EXCEPT ![c.key] =
                         IF InVain(e, saw[p], c) /\ @ < ReportBound THEN @ + 1 ELSE @]
        /\ Finish(p)
        /\ UNCHANGED <<world, last_on, ctx, said>>

-----------------------------------------------------------------------------
(* The environment: processes end or are killed, settings change. *)

Exit(p) ==
    /\ pc[p] = "idle" /\ ctx[p] # NoCtx
    /\ ctx' = [ctx EXCEPT ![p] = NoCtx]
    /\ UNCHANGED <<world, files, pc, local, left, history>>

Kill(p) ==
    /\ pc[p] # "idle"
    /\ Disturb("kill")
    /\ ctx' = [ctx EXCEPT ![p] = NoCtx]
    /\ Finish(p)
    /\ UNCHANGED <<world, files, history>>

ModeChanges ==
    /\ Disturb("mode")
    /\ mode' \in Modes \ {mode}
    /\ UNCHANGED <<fault, user, files, pc, local, ctx, history>>

UserChanges(k) ==
    /\ Disturb("user")
    /\ \E C \in Commands \ {user[k]} : user' = [user EXCEPT ![k] = C]
    /\ UNCHANGED <<fault, mode, files, pc, local, ctx, history>>

EngineSteps(p) ==
    \/ Started(p) \/ SelfCheck(p) \/ ExplicitVerdict(p) \/ ModeOff(p)
    \/ NoteThenSearch(p) \/ LoadBook(p) \/ MoveOn(p)

Next ==
    \/ \E p \in Procs : \E k \in Keys : Plan(p, k)
    \/ \E p \in Procs : \/ Started(p) \/ DecideFails(p) \/ SelfCheck(p) \/ ProbesRefused(p)
                        \/ ExplicitVerdict(p) \/ ModeOff(p) \/ NoteThenSearch(p)
                        \/ LoadBook(p) \/ MoveOn(p) \/ Exit(p) \/ Kill(p)
    \/ ModeChanges
    \/ \E k \in Keys : UserChanges(k)

Spec == Init /\ [][Next]_vars

(* A configuration's engine is started again and again, and a start that    *)
(* nothing disturbs runs to its end. Settings changes, kills, refusals and   *)
(* failures are the environment's and need not happen.                      *)
Fairness ==
    /\ \A p \in Procs : WF_vars(EngineSteps(p))
    /\ \A k \in Keys : SF_vars(\E p \in Procs : Plan(p, k))

FairSpec == Spec /\ Fairness
-----------------------------------------------------------------------------
(* Properties *)

Undisturbed(kinds) == \A kind \in kinds : left[kind] = Budget[kind]

(* Every variable keeps its type; a process inside after_self_check has a   *)
(* noted start, which the checks after it read without asking again.         *)
TypeOK ==
    /\ fault \in [Keys -> Faults]
    /\ mode \in Modes
    /\ user \in [Keys -> Commands]
    /\ store \in [Keys -> Entry]
    /\ last_on \in [Keys -> SUBSET Pairs]
    /\ pc \in [Procs -> {"idle", "planned", "up", "checked", "noted", "loaded"}]
    /\ start \in [Procs -> Start]
    /\ on \in [Procs -> SUBSET Features]
    /\ ctx \in [Procs -> Context \cup {NoCtx}]
    /\ saw \in [Procs -> SUBSET Pairs]
    /\ seen \in [Procs -> [Keys -> SUBSET Pairs]]
    /\ book \in [Procs -> [Keys -> Entry]]
    /\ left \in [Disturbances -> Nat]
    /\ said \subseteq [key : Keys, what : {"inside", "outside"}]
    /\ reports \in [Keys -> 0 .. ReportBound]
    /\ \A p \in Procs : pc[p] \in {"checked", "noted", "loaded"} => ctx[p] # NoCtx

(* What plan() relies on when it reads an entry some start wrote, whatever  *)
(* other processes, crashes and lost saves came between: a search still has *)
(* a candidate to turn off (left[0] exists), a verdict "found" names what   *)
(* to turn off, and "outside" is only said when no candidate is untried.    *)
WellFormed(e) ==
    /\ e.status = "searching" => Untried(e) # {} /\ e.off = {}
    /\ e.status = "found" => e.off # {}
    /\ e.status = "outside" => Untried(e) = {} /\ e.off = {}
    /\ e.status = "none" => e = NoEntry

StoreWellFormed == \A k \in Keys : WellFormed(store[k])

(* The selective safe path turns one optimization off at a start ("each     *)
(* next start turns the next one off"), as long as the mode setting does    *)
(* not change between plan()'s reading of it and started()'s.               *)
OneOffAtATime ==
    Undisturbed({"mode", "fail"}) =>
        \A p \in Procs : ctx[p] # NoCtx /\ ctx[p].mode = "auto" =>
            Cardinality(ctx[p].off) <= 1

(* "that one is the cause": a configuration found out runs without any      *)
(* disagreement when what was found is off, if its command line is fixed.   *)
FoundIsCause ==
    Undisturbed({"user", "fail"}) =>
        \A k \in Keys : store[k].status = "found" => Shows(k, user[k] \ store[k].off) = {}

(* The explicit safe mode's two sentences: the fault stays with every       *)
(* optimization off ("outside"), or went away with them ("inside").         *)
SaysAreTrue ==
    Undisturbed({"user", "mode", "fail"}) =>
        \A s \in said :
            IF s.what = "outside" THEN Shows(s.key, {}) # {}
            ELSE Shows(s.key, {}) = {} /\ Shows(s.key, user[s.key]) # {}

(* "they go back on, and that is reported once". *)
ReportedOnce ==
    Undisturbed({"disk"}) => \A k \in Keys : reports[k] <= 1

(* "each next start turns the next one off, until the paths agree ... or    *)
(* none is left": the search of a configuration that goes on being started  *)
(* ends, if its command line leaves every optimization on.                  *)
Settles ==
    \A k \in Keys :
        <>[](mode = "auto" /\ user[k] = Features) => <>[](store[k].status # "searching")

(* The same whatever the command line leaves on. *)
SearchEnds ==
    \A k \in Keys : <>[](mode = "auto") => <>[](store[k].status # "searching")

(* A fault that one suspected optimization causes ends with that one off.   *)
Findable(k) ==
    \E f \in Suspects(Shows(k, user[k]), user[k]) : Shows(k, user[k] \ {f}) = {}

CauseEndsOff ==
    \A k \in Keys :
        []Undisturbed({"user", "fail"}) /\ <>[](mode = "auto") /\ Findable(k)
            => <>[](store[k].status = "found")

(* The search implements what the docstring promises (CauseSearch), for     *)
(* processes that start one after the other.                                *)
Promise == INSTANCE CauseSearch WITH
    verdict <- [k \in Keys |-> store[k].status],
    candidates <- [k \in Keys |-> store[k].candidates],
    untried <- [k \in Keys |-> Untried(store[k])],
    blamed <- [k \in Keys |-> store[k].off]

KeepsPromise == Promise!Spec
=============================================================================
