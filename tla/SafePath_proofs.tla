-------------------------- MODULE SafePath_proofs --------------------------
(* What holds of the selective safe path for every set of processes,        *)
(* configurations, optimizations, faults, settings and disturbances.        *)
EXTENDS SafePath, FiniteSetTheorems, TLAPS

-----------------------------------------------------------------------------
(* The rules keep entries well typed and well formed. *)

LEMMA NoEntryFine == NoEntry \in Entry /\ WellFormed(NoEntry)
BY DEF NoEntry, Entry, WellFormed

LEMMA PlannedType ==
    ASSUME NEW m \in Modes, NEW e \in Entry, NEW S \in SUBSET Features
    PROVE  Planned(m, e, S) \in SUBSET S
BY DEF Planned

LEMMA SuspectsType ==
    ASSUME NEW pairs \in SUBSET Pairs, NEW S \in SUBSET Features
    PROVE  Suspects(pairs, S) \in SUBSET Features
BY DEF Suspects

LEMMA NewEntryFine ==
    ASSUME NEW C \in SUBSET Features
    PROVE  NewEntry(C) \in Entry /\ WellFormed(NewEntry(C))
BY DEF NewEntry, Entry, WellFormed, Untried

LEMMA NarrowedFine ==
    ASSUME NEW e \in Entry, NEW off \in SUBSET Features
    PROVE  Narrowed(e, off) \in Entry /\ WellFormed(Narrowed(e, off))
<1>1. Tried(e, off) \in SUBSET Features
  BY DEF Tried, Entry
<1>2. Narrowed(e, off) \in Entry
  BY <1>1 DEF Narrowed, Entry
<1>3. WellFormed(Narrowed(e, off))
  BY DEF Narrowed, WellFormed, Untried
<1> QED BY <1>2, <1>3

LEMMA FoundFine ==
    ASSUME NEW e \in Entry, NEW off \in SUBSET Features, off # {}
    PROVE  LET f == [e EXCEPT !.status = "found", !.off = off]
           IN  f \in Entry /\ WellFormed(f)
BY DEF Entry, WellFormed

(* after_self_check leaves a well-formed entry whatever the context says,   *)
(* even one that another start of the process noted.                        *)
LEMMA NextEntryFine ==
    ASSUME NEW e \in Entry, NEW pairs \in SUBSET Pairs, NEW c \in Context
    PROVE  NextEntry(e, pairs, c) \in Entry /\ WellFormed(NextEntry(e, pairs, c))
<1> USE DEF Context
<1>1. CASE Agrees(e, pairs, c.off)
  BY <1>1, FoundFine DEF NextEntry, Agrees
<1>2. CASE ~Agrees(e, pairs, c.off) /\ e.status = "none"
  BY <1>2, NewEntryFine, SuspectsType DEF NextEntry
<1>3. CASE ~Agrees(e, pairs, c.off) /\ e.status # "none"
  BY <1>3, NarrowedFine DEF NextEntry
<1> QED BY <1>1, <1>2, <1>3

LEMMA ShowsType ==
    ASSUME NEW k, NEW S
    PROVE  Shows(k, S) \in SUBSET Pairs
BY DEF Shows

-----------------------------------------------------------------------------
(* The initial state. *)

LEMMA NoStartType == NoStart \in Start
BY KeysAssumption DEF NoStart, Start

LEMMA InitTypeOK == Init => TypeOK
<1> SUFFICES ASSUME Init PROVE TypeOK
  OBVIOUS
<1>1. store \in [Keys -> Entry] /\ book \in [Procs -> [Keys -> Entry]]
  BY NoEntryFine DEF Init, NoStore
<1>2. start \in [Procs -> Start]
  BY NoStartType DEF Init
<1>3. left \in [Disturbances -> Nat]
  BY BudgetAssumption DEF Init
<1>4. reports \in [Keys -> 0 .. ReportBound]
  BY DEF Init, ReportBound
<1> QED BY <1>1, <1>2, <1>3, <1>4 DEF Init, TypeOK, NoLast

(* The steps that several actions share. *)

LEMMA FinishType ==
    ASSUME TypeOK, NEW p \in Procs, Finish(p)
    PROVE  /\ pc' \in [Procs -> {"idle", "planned", "up", "checked", "noted", "loaded"}]
           /\ start' \in [Procs -> Start]
           /\ on' \in [Procs -> SUBSET Features]
           /\ saw' \in [Procs -> SUBSET Pairs]
           /\ seen' \in [Procs -> [Keys -> SUBSET Pairs]]
           /\ book' \in [Procs -> [Keys -> Entry]]
           /\ pc'[p] = "idle"
           /\ \A q \in Procs \ {p} : pc'[q] = pc[q]
<1>1. NoStore \in [Keys -> Entry] /\ NoLast \in [Keys -> SUBSET Pairs]
  BY NoEntryFine DEF NoStore, NoLast
<1> QED BY <1>1, NoStartType DEF Finish, Goto, TypeOK

LEMMA DisturbType ==
    ASSUME TypeOK, NEW kind \in Disturbances, Disturb(kind)
    PROVE  left' \in [Disturbances -> Nat]
<1>1. left[kind] \in Nat /\ left[kind] > 0
  BY DEF Disturb, TypeOK
<1>2. left[kind] - 1 \in Nat
  BY <1>1
<1> QED BY <1>2 DEF Disturb, TypeOK

LEMMA SaveType ==
    ASSUME TypeOK, NEW p \in Procs, pc[p] = "checked", NoteLast(p)
    PROVE  last_on' \in [Keys -> SUBSET Pairs] /\ left' \in [Disturbances -> Nat]
<1>1. "disk" \in Disturbances
  BY DEF Disturbances
<1>2. ctx[p] \in Context
  BY DEF TypeOK
<1>3. [seen[p] EXCEPT ![ctx[p].key] = saw[p]] \in [Keys -> SUBSET Pairs]
  BY <1>2 DEF TypeOK, Context
<1>4. CASE ctx[p].off = {}
  <2>1. CASE last_on' = [seen[p] EXCEPT ![ctx[p].key] = saw[p]] /\ UNCHANGED left
    BY <2>1, <1>3 DEF TypeOK
  <2>2. CASE UNCHANGED last_on /\ Disturb("disk")
    BY <2>2, <1>1, DisturbType DEF TypeOK
  <2> QED BY <1>4, <2>1, <2>2 DEF NoteLast, Save
<1>5. CASE ctx[p].off # {}
  BY <1>5 DEF NoteLast, TypeOK
<1> QED BY <1>4, <1>5

-----------------------------------------------------------------------------
(* Every action keeps TypeOK. *)

LEMMA PlanType ==
    ASSUME TypeOK, NEW p \in Procs, NEW k \in Keys, Plan(p, k)
    PROVE  TypeOK'
<1>1. user[k] \in SUBSET Features
  BY CommandAssumption DEF TypeOK
<1>2. Planned(mode, store[k], user[k]) \in SUBSET Features
  BY <1>1, PlannedType DEF TypeOK
<1>3. start' \in [Procs -> Start]
  BY <1>1, <1>2 DEF Plan, TypeOK, Start
<1> QED BY <1>3 DEF Plan, Goto, TypeOK, world, files, history

LEMMA StartedType ==
    ASSUME TypeOK, NEW p \in Procs, Started(p)
    PROVE  TypeOK'
<1>1. start[p] \in Start
  BY DEF TypeOK
<1>2. [key |-> start[p].key, enabled |-> start[p].enabled,
       off |-> start[p].off, mode |-> mode] \in Context
  BY <1>1, ModeAssumption DEF TypeOK, Start, Context
<1>3. ctx' \in [Procs -> Context \cup {NoCtx}]
  BY <1>2 DEF Started, TypeOK
<1>4. on' \in [Procs -> SUBSET Features]
  BY <1>1 DEF Started, TypeOK, Start
<1>5. \A q \in Procs : pc'[q] \in {"checked", "noted", "loaded"} => ctx'[q] # NoCtx
  BY DEF Started, Goto, TypeOK
<1> QED BY <1>3, <1>4, <1>5 DEF Started, Goto, TypeOK, world, files, history

LEMMA DecideFailsType ==
    ASSUME TypeOK, NEW p \in Procs, DecideFails(p)
    PROVE  TypeOK'
<1>1. "fail" \in Disturbances
  BY DEF Disturbances
<1>2. left' \in [Disturbances -> Nat]
  BY <1>1, DisturbType DEF DecideFails
<1>3. on' \in [Procs -> SUBSET Features]
  BY DEF DecideFails, TypeOK, Start
<1> QED BY <1>2, <1>3 DEF DecideFails, Goto, TypeOK, world, files, history

LEMMA SelfCheckType ==
    ASSUME TypeOK, NEW p \in Procs, SelfCheck(p)
    PROVE  TypeOK'
<1> DEFINE pairs == Shows(start[p].key, on[p])
<1>1. CASE Finish(p)
  BY <1>1, FinishType DEF SelfCheck, TypeOK, world, files, history
<1>2. CASE /\ ctx[p] # NoCtx
           /\ saw' = [saw EXCEPT ![p] = pairs]
           /\ seen' = [seen EXCEPT ![p] = last_on]
           /\ Goto(p, "checked")
           /\ UNCHANGED <<start, on, book>>
  BY <1>2, ShowsType DEF SelfCheck, Goto, TypeOK, world, files, history
<1> QED BY <1>1, <1>2 DEF SelfCheck

LEMMA ProbesRefusedType ==
    ASSUME TypeOK, NEW p \in Procs, ProbesRefused(p)
    PROVE  TypeOK'
<1>1. "refuse" \in Disturbances
  BY DEF Disturbances
<1> QED BY <1>1, DisturbType, FinishType
        DEF ProbesRefused, TypeOK, world, files, history

LEMMA ExplicitVerdictType ==
    ASSUME TypeOK, NEW p \in Procs, ExplicitVerdict(p)
    PROVE  TypeOK'
<1>1. pc[p] = "checked" /\ NoteLast(p) /\ Finish(p)
  BY DEF ExplicitVerdict
<1>2. last_on' \in [Keys -> SUBSET Pairs] /\ left' \in [Disturbances -> Nat]
  BY <1>1, SaveType
<1>3. ctx[p].key \in Keys
  BY <1>1 DEF TypeOK, Context
<1>4. said' \subseteq [key : Keys, what : {"inside", "outside"}]
  BY <1>3 DEF ExplicitVerdict, ExplicitSays, TypeOK
<1> QED BY <1>1, <1>2, <1>4, FinishType DEF ExplicitVerdict, TypeOK, world

LEMMA ModeOffType ==
    ASSUME TypeOK, NEW p \in Procs, ModeOff(p)
    PROVE  TypeOK'
BY SaveType, FinishType DEF ModeOff, TypeOK, world, history

LEMMA NoteThenSearchType ==
    ASSUME TypeOK, NEW p \in Procs, NoteThenSearch(p)
    PROVE  TypeOK'
BY SaveType DEF NoteThenSearch, Goto, TypeOK, world, local, history

LEMMA LoadBookType ==
    ASSUME TypeOK, NEW p \in Procs, LoadBook(p)
    PROVE  TypeOK'
BY DEF LoadBook, Goto, TypeOK, world, files, history

LEMMA MoveOnType ==
    ASSUME TypeOK, NEW p \in Procs, MoveOn(p)
    PROVE  TypeOK'
<1> DEFINE c == ctx[p]
           e == book[p][c.key]
           new == [book[p] EXCEPT ![c.key] = NextEntry(e, saw[p], c)]
<1>1. pc[p] = "loaded" /\ Finish(p) /\ UNCHANGED <<world, last_on, ctx, said>>
  BY DEF MoveOn
<1>2. c \in Context /\ c.key \in Keys /\ e \in Entry
  BY <1>1 DEF TypeOK, Context
<1>3. new \in [Keys -> Entry]
  BY <1>2, NextEntryFine DEF TypeOK
<1>4. store' \in [Keys -> Entry] /\ left' \in [Disturbances -> Nat]
  <2>1. CASE Saves(e, saw[p], c.off)
    <3>1. Save(store, new)
      BY <2>1 DEF MoveOn
    <3>2. CASE store' = new /\ UNCHANGED left
      BY <3>2, <1>3 DEF TypeOK
    <3>3. CASE UNCHANGED store /\ Disturb("disk")
      BY <3>3, DisturbType DEF TypeOK, Disturbances
    <3> QED BY <3>1, <3>2, <3>3 DEF Save
  <2>2. CASE ~Saves(e, saw[p], c.off)
    BY <2>2 DEF MoveOn, TypeOK
  <2> QED BY <2>1, <2>2
<1>5. reports' \in [Keys -> 0 .. ReportBound]
  <2>1. reports[c.key] \in 0 .. ReportBound
    BY <1>2 DEF TypeOK
  <2>2. reports[c.key] < ReportBound => reports[c.key] + 1 \in 0 .. ReportBound
    BY <2>1 DEF ReportBound
  <2> QED BY <2>2 DEF MoveOn, TypeOK
<1> QED BY <1>1, <1>4, <1>5, FinishType DEF TypeOK, world

LEMMA ProcessEndsType ==
    ASSUME TypeOK, NEW p \in Procs, Exit(p) \/ Kill(p)
    PROVE  TypeOK'
<1>1. CASE Exit(p)
  BY <1>1 DEF Exit, TypeOK, world, files, local, history
<1>2. CASE Kill(p)
  BY <1>2, DisturbType, FinishType DEF Kill, Disturbances, TypeOK, world, files, history
<1> QED BY <1>1, <1>2

LEMMA SettingsChangeType ==
    ASSUME TypeOK, ModeChanges \/ \E k \in Keys : UserChanges(k)
    PROVE  TypeOK'
<1>1. CASE ModeChanges
  BY <1>1, DisturbType DEF ModeChanges, Disturbances, TypeOK, files, local, history
<1>2. CASE \E k \in Keys : UserChanges(k)
  BY <1>2, DisturbType DEF UserChanges, Disturbances, TypeOK, files, local, history
<1> QED BY <1>1, <1>2

LEMMA StepTypeOK == TypeOK /\ [Next]_vars => TypeOK'
<1> SUFFICES ASSUME TypeOK, [Next]_vars PROVE TypeOK'
  OBVIOUS
<1>1. CASE \E p \in Procs : \E k \in Keys : Plan(p, k)
  BY <1>1, PlanType
<1>2. ASSUME NEW p \in Procs,
             Started(p) \/ DecideFails(p) \/ SelfCheck(p) \/ ProbesRefused(p)
      PROVE  TypeOK'
  BY <1>2, StartedType, DecideFailsType, SelfCheckType, ProbesRefusedType
<1>3. ASSUME NEW p \in Procs,
             ExplicitVerdict(p) \/ ModeOff(p) \/ NoteThenSearch(p) \/ LoadBook(p) \/ MoveOn(p)
      PROVE  TypeOK'
  BY <1>3, ExplicitVerdictType, ModeOffType, NoteThenSearchType, LoadBookType, MoveOnType
<1>4. ASSUME NEW p \in Procs, Exit(p) \/ Kill(p)
      PROVE  TypeOK'
  BY <1>4, ProcessEndsType
<1>5. CASE ModeChanges \/ \E k \in Keys : UserChanges(k)
  BY <1>5, SettingsChangeType
<1>6. CASE UNCHANGED vars
  BY <1>6 DEF vars, TypeOK
<1> QED BY <1>1, <1>2, <1>3, <1>4, <1>5, <1>6 DEF Next

(* Every variable keeps its type in every run of the safety modes, and no   *)
(* process reaches the rules of after_self_check without a noted start.     *)
THEOREM TypeCorrect == Spec => []TypeOK
<1>1. Init => TypeOK
  BY InitTypeOK
<1>2. TypeOK /\ [Next]_vars => TypeOK'
  BY StepTypeOK
<1> QED BY <1>1, <1>2, PTL DEF Spec

-----------------------------------------------------------------------------
(* The entries stay well formed. The copies that processes work on have to  *)
(* be well formed too: a save replaces the whole file by such a copy, and   *)
(* may undo what another process wrote, but never leaves an ill one.        *)

BooksWellFormed == \A p \in Procs : \A k \in Keys : WellFormed(book[p][k])

EntriesInv == TypeOK /\ StoreWellFormed /\ BooksWellFormed

LEMMA InitEntries == Init => EntriesInv
BY InitTypeOK, NoEntryFine
   DEF Init, EntriesInv, StoreWellFormed, BooksWellFormed, NoStore

LEMMA FinishBooks ==
    ASSUME EntriesInv, NEW p \in Procs, Finish(p)
    PROVE  BooksWellFormed'
<1>1. \A k \in Keys : WellFormed(NoStore[k])
  BY NoEntryFine DEF NoStore
<1> SUFFICES ASSUME NEW q \in Procs, NEW k \in Keys PROVE WellFormed(book'[q][k])
  BY DEF BooksWellFormed, WellFormed, Untried
<1>2. CASE q = p
  BY <1>1, <1>2 DEF Finish, EntriesInv, TypeOK
<1>3. CASE q # p
  BY <1>3 DEF Finish, EntriesInv, TypeOK, BooksWellFormed
<1> QED BY <1>2, <1>3

LEMMA MoveOnEntries ==
    ASSUME EntriesInv, NEW p \in Procs, MoveOn(p)
    PROVE  StoreWellFormed'
<1> DEFINE c == ctx[p]
           e == book[p][c.key]
           new == [book[p] EXCEPT ![c.key] = NextEntry(e, saw[p], c)]
<1>1. c \in Context /\ c.key \in Keys /\ e \in Entry /\ saw[p] \in SUBSET Pairs
  BY DEF MoveOn, EntriesInv, TypeOK, Context
<1>2. \A k \in Keys : WellFormed(new[k])
  BY <1>1, NextEntryFine DEF EntriesInv, TypeOK, BooksWellFormed
<1>3. CASE store' = new
  BY <1>2, <1>3 DEF StoreWellFormed
<1>4. CASE UNCHANGED store
  BY <1>4 DEF StoreWellFormed, EntriesInv
<1> QED BY <1>3, <1>4 DEF MoveOn, Save

LEMMA StepEntries == EntriesInv /\ [Next]_vars => EntriesInv'
<1> SUFFICES ASSUME EntriesInv, [Next]_vars PROVE EntriesInv'
  OBVIOUS
<1>0. TypeOK'
  BY StepTypeOK DEF EntriesInv
<1>1. ASSUME NEW p \in Procs, MoveOn(p)
      PROVE  EntriesInv'
  BY <1>0, <1>1, MoveOnEntries, FinishBooks DEF MoveOn, EntriesInv
<1>2. ASSUME NEW p \in Procs, LoadBook(p)
      PROVE  EntriesInv'
  BY <1>0, <1>2 DEF LoadBook, EntriesInv, TypeOK, StoreWellFormed, BooksWellFormed, files
<1>3. ASSUME NEW p \in Procs, Finish(p), UNCHANGED store
      PROVE  EntriesInv'
  BY <1>0, <1>3, FinishBooks DEF EntriesInv, StoreWellFormed
<1>4. ASSUME UNCHANGED <<store, book>>
      PROVE  EntriesInv'
  BY <1>0, <1>4 DEF EntriesInv, StoreWellFormed, BooksWellFormed
<1>5. CASE \E p \in Procs : \E k \in Keys : Plan(p, k)
  BY <1>4, <1>5 DEF Plan, files
<1>6. CASE \E p \in Procs : \/ Started(p) \/ DecideFails(p) \/ NoteThenSearch(p) \/ Exit(p)
  BY <1>4, <1>6 DEF Started, DecideFails, NoteThenSearch, Exit, files, local
<1>7. ASSUME NEW p \in Procs, SelfCheck(p)
      PROVE  EntriesInv'
  BY <1>3, <1>4, <1>7 DEF SelfCheck, files
<1>8. CASE \E p \in Procs : \/ ProbesRefused(p) \/ ExplicitVerdict(p) \/ ModeOff(p) \/ Kill(p)
  BY <1>3, <1>8 DEF ProbesRefused, ExplicitVerdict, ModeOff, Kill, files
<1>9. CASE ModeChanges \/ (\E k \in Keys : UserChanges(k)) \/ UNCHANGED vars
  BY <1>4, <1>9 DEF ModeChanges, UserChanges, vars, files, local
<1> QED BY <1>1, <1>2, <1>5, <1>6, <1>7, <1>8, <1>9 DEF Next

(* What plan() reads is always a well-formed entry: a search with something *)
(* left to turn off, a cause that is named, or a verdict with nothing left, *)
(* for any number of processes, kills, lost saves and changes of settings.  *)
THEOREM EntriesWellFormed == Spec => []StoreWellFormed
<1>1. Init => EntriesInv
  BY InitEntries
<1>2. EntriesInv /\ [Next]_vars => EntriesInv'
  BY StepEntries
<1>3. EntriesInv => StoreWellFormed
  BY DEF EntriesInv
<1> QED BY <1>1, <1>2, <1>3, PTL DEF Spec

-----------------------------------------------------------------------------
(* One optimization at a time. The setting is read twice at a start, so the *)
(* invariant speaks of the runs in which it has not changed; everything     *)
(* that may become a start's "off" has at most one member: what a search or *)
(* a found cause turns off, and through it what a later start saves.        *)

AtMostOne(S) == \A f, g \in S : f = g

OneOff ==
    /\ \A k \in Keys : AtMostOne(store[k].off)
    /\ \A p \in Procs : \A k \in Keys : AtMostOne(book[p][k].off)
    /\ \A p \in Procs : pc[p] = "planned" /\ mode = "auto" => AtMostOne(start[p].off)
    /\ \A p \in Procs : ctx[p] # NoCtx /\ ctx[p].mode = "auto" => AtMostOne(ctx[p].off)

Steady == Undisturbed({"mode", "fail"})

Searching == \A p \in Procs : pc[p] \in {"noted", "loaded"} => ctx[p].mode = "auto"

OneOffInv ==
    /\ EntriesInv
    /\ Searching
    /\ \A kind \in Disturbances : left[kind] <= Budget[kind]
    /\ Steady => OneOff

LEMMA AtMostOneCard ==
    ASSUME NEW S, AtMostOne(S)
    PROVE  Cardinality(S) <= 1
<1>1. CASE S = {}
  BY <1>1, FS_EmptySet
<1>2. CASE S # {}
  <2>1. PICK f \in S : TRUE
    BY <1>2
  <2>2. S = {f}
    BY <2>1 DEF AtMostOne
  <2> QED BY <2>2, FS_Singleton
<1> QED BY <1>1, <1>2

(* What the selective path plans is one optimization, or none. *)
LEMMA PlannedOne ==
    ASSUME NEW e \in Entry, AtMostOne(e.off), NEW S
    PROVE  AtMostOne(Planned("auto", e, S))
BY DEF Planned, SearchTurnsOff, AtMostOne

LEMMA NextEntryOne ==
    ASSUME NEW e \in Entry, NEW pairs, NEW c \in Context, AtMostOne(c.off)
    PROVE  AtMostOne(NextEntry(e, pairs, c).off)
<1>1. CASE Agrees(e, pairs, c.off)
  BY <1>1 DEF NextEntry, AtMostOne, Entry
<1>2. CASE ~Agrees(e, pairs, c.off)
  BY <1>2 DEF NextEntry, NewEntry, Narrowed, AtMostOne
<1> QED BY <1>1, <1>2

(* Disturbances are only used up. *)
LEMMA DisturbLess ==
    ASSUME OneOffInv, NEW kind \in Disturbances, Disturb(kind)
    PROVE  /\ \A d \in Disturbances : left'[d] <= left[d] /\ left'[d] <= Budget[d]
           /\ left'[kind] # Budget[kind]
<1>1. left \in [Disturbances -> Nat] /\ Budget \in [Disturbances -> Nat]
  BY BudgetAssumption DEF OneOffInv, EntriesInv, TypeOK
<1> QED BY <1>1 DEF Disturb, OneOffInv

LEMMA StepLess ==
    ASSUME OneOffInv, [Next]_vars
    PROVE  \A d \in Disturbances : left'[d] <= left[d] /\ left'[d] <= Budget[d]
<1>1. CASE UNCHANGED left
  BY <1>1, BudgetAssumption DEF OneOffInv, EntriesInv, TypeOK
<1>2. CASE \E kind \in Disturbances : Disturb(kind)
  BY <1>2, DisturbLess
<1>3. UNCHANGED left \/ \E kind \in Disturbances : Disturb(kind)
  <2>1. \A kind \in {"mode", "user", "kill", "refuse", "fail", "disk"} : kind \in Disturbances
    BY DEF Disturbances
  <2>2. \A p \in Procs : NoteLast(p) => UNCHANGED left \/ Disturb("disk")
    BY DEF NoteLast, Save
  <2>3. \A p \in Procs : MoveOn(p) => UNCHANGED left \/ Disturb("disk")
    BY DEF MoveOn, Save
  <2>4. \A p \in Procs : ExplicitVerdict(p) \/ ModeOff(p) \/ NoteThenSearch(p)
                              => UNCHANGED left \/ Disturb("disk")
    BY <2>2 DEF ExplicitVerdict, ModeOff, NoteThenSearch
  <2>5. \A p \in Procs : Started(p) \/ SelfCheck(p) \/ LoadBook(p) \/ Exit(p)
                              => UNCHANGED left
    BY DEF Started, SelfCheck, LoadBook, Exit
  <2>6. \A p \in Procs : \A k \in Keys : Plan(p, k) => UNCHANGED left
    BY DEF Plan
  <2> QED BY <2>1, <2>3, <2>4, <2>5, <2>6
          DEF Next, DecideFails, ProbesRefused, Kill, ModeChanges, UserChanges, vars
<1> QED BY <1>1, <1>2, <1>3

LEMMA SteadyBack ==
    ASSUME OneOffInv, [Next]_vars, Steady'
    PROVE  Steady /\ left'["mode"] = left["mode"] /\ left'["fail"] = left["fail"]
<1>1. left \in [Disturbances -> Nat] /\ Budget \in [Disturbances -> Nat]
  BY BudgetAssumption DEF OneOffInv, EntriesInv, TypeOK
<1>2. /\ left'["mode"] <= left["mode"] /\ left["mode"] <= Budget["mode"]
      /\ left'["fail"] <= left["fail"] /\ left["fail"] <= Budget["fail"]
  BY StepLess DEF OneOffInv, Disturbances
<1>3. left'["mode"] = Budget["mode"] /\ left'["fail"] = Budget["fail"]
  BY DEF Steady, Undisturbed
<1> QED BY <1>1, <1>2, <1>3 DEF Steady, Undisturbed, Disturbances

(* A step that finishes a build and keeps the store and the contexts, or    *)
(* drops one, adds nothing to turn off.                                      *)
LEMMA FinishOneOff ==
    ASSUME OneOffInv, OneOff, NEW p \in Procs, Finish(p), UNCHANGED <<store, mode>>,
           ctx' \in {ctx, [ctx EXCEPT ![p] = NoCtx]}
    PROVE  OneOff'
<1>1. \A q \in Procs : pc'[q] = "planned" => q # p /\ pc[q] = "planned" /\ start'[q] = start[q]
  BY DEF Finish, Goto, OneOffInv, EntriesInv, TypeOK
<1>2. \A q \in Procs : ctx'[q] # NoCtx => ctx'[q] = ctx[q]
  BY DEF OneOffInv, EntriesInv, TypeOK
<1>3. ASSUME NEW q \in Procs, NEW k \in Keys
      PROVE  AtMostOne(book'[q][k].off)
  <2>1. CASE q = p
    BY <2>1 DEF Finish, NoStore, NoEntry, AtMostOne, OneOffInv, EntriesInv, TypeOK
  <2>2. CASE q # p
    BY <2>2 DEF Finish, OneOff, AtMostOne, OneOffInv, EntriesInv, TypeOK
  <2> QED BY <2>1, <2>2
<1> QED BY <1>1, <1>2, <1>3 DEF OneOff, AtMostOne

LEMMA PlanOneOff ==
    ASSUME OneOffInv, OneOff, NEW p \in Procs, NEW k \in Keys, Plan(p, k)
    PROVE  OneOff'
<1>1. store[k] \in Entry /\ AtMostOne(store[k].off)
  BY DEF OneOffInv, EntriesInv, TypeOK, OneOff
<1>2. mode = "auto" => AtMostOne(start'[p].off)
  BY <1>1, PlannedOne DEF Plan, OneOffInv, EntriesInv, TypeOK
<1>3. \A q \in Procs \ {p} : start'[q] = start[q] /\ pc'[q] = pc[q]
  BY DEF Plan, Goto, OneOffInv, EntriesInv, TypeOK
<1>4. UNCHANGED <<store, book, ctx, mode>>
  BY DEF Plan, files, world
<1> QED BY <1>2, <1>3, <1>4 DEF OneOff, AtMostOne

LEMMA StartedOneOff ==
    ASSUME OneOffInv, OneOff, NEW p \in Procs, Started(p)
    PROVE  OneOff'
<1>1. ctx'[p].mode = mode /\ ctx'[p].off = start[p].off
  BY DEF Started, OneOffInv, EntriesInv, TypeOK
<1>2. ctx'[p].mode = "auto" => AtMostOne(ctx'[p].off)
  BY <1>1 DEF Started, OneOff
<1>3. \A q \in Procs \ {p} : ctx'[q] = ctx[q] /\ pc'[q] = pc[q]
  BY DEF Started, Goto, OneOffInv, EntriesInv, TypeOK
<1>4. pc'[p] = "up"
  BY DEF Started, Goto, OneOffInv, EntriesInv, TypeOK
<1>5. UNCHANGED <<store, book, start, mode>>
  BY DEF Started, files, world
<1> QED BY <1>2, <1>3, <1>4, <1>5 DEF OneOff, AtMostOne

LEMMA LoadBookOneOff ==
    ASSUME OneOffInv, OneOff, NEW p \in Procs, LoadBook(p)
    PROVE  OneOff'
<1>1. \A q \in Procs : book'[q] = IF q = p THEN store ELSE book[q]
  BY DEF LoadBook, OneOffInv, EntriesInv, TypeOK
<1>2. \A q \in Procs : pc'[q] = "planned" => pc[q] = "planned"
  BY DEF LoadBook, Goto, OneOffInv, EntriesInv, TypeOK
<1>3. UNCHANGED <<store, start, ctx, mode>>
  BY DEF LoadBook, files, world
<1> QED BY <1>1, <1>2, <1>3 DEF OneOff, AtMostOne

LEMMA MoveOnOneOff ==
    ASSUME OneOffInv, OneOff, NEW p \in Procs, MoveOn(p)
    PROVE  OneOff'
<1> DEFINE c == ctx[p]
           e == book[p][c.key]
           new == [book[p] EXCEPT ![c.key] = NextEntry(e, saw[p], c)]
<1>1. c \in Context /\ c # NoCtx /\ c.mode = "auto"
  BY DEF MoveOn, OneOffInv, Searching, EntriesInv, TypeOK
<1>2. c.key \in Keys /\ e \in Entry /\ AtMostOne(c.off)
  <2>1. c.key \in Keys
    BY <1>1 DEF Context
  <2>2. e \in Entry
    BY <2>1 DEF OneOffInv, EntriesInv, TypeOK
  <2>3. AtMostOne(c.off)
    BY <1>1 DEF OneOff
  <2> QED BY <2>1, <2>2, <2>3
<1>3. AtMostOne(NextEntry(e, saw[p], c).off)
  BY <1>1, <1>2, NextEntryOne
<1>4. \A k \in Keys : AtMostOne(new[k].off)
  <2>1. \A k \in Keys : new[k] = IF k = c.key THEN NextEntry(e, saw[p], c) ELSE book[p][k]
    BY <1>2 DEF OneOffInv, EntriesInv, TypeOK
  <2>2. \A k \in Keys : AtMostOne(book[p][k].off)
    BY DEF OneOff
  <2> QED BY <1>3, <2>1, <2>2 DEF AtMostOne
<1>5. \A k \in Keys : AtMostOne(store'[k].off)
  <2>1. CASE store' = new
    BY <1>4, <2>1 DEF AtMostOne
  <2>2. CASE UNCHANGED store
    BY <2>2 DEF OneOff, AtMostOne
  <2> QED BY <2>1, <2>2 DEF MoveOn, Save
<1>6. Finish(p) /\ UNCHANGED <<ctx, mode>>
  BY DEF MoveOn, world
<1>7. \A q \in Procs : pc'[q] = "planned" => pc[q] = "planned" /\ start'[q] = start[q]
  BY <1>6 DEF Finish, Goto, OneOffInv, EntriesInv, TypeOK
<1>8. ASSUME NEW q \in Procs, NEW k \in Keys
      PROVE  AtMostOne(book'[q][k].off)
  <2>1. CASE q = p
    BY <1>6, <2>1 DEF Finish, NoStore, NoEntry, AtMostOne, OneOffInv, EntriesInv, TypeOK
  <2>2. CASE q # p
    BY <1>6, <2>2 DEF Finish, OneOff, AtMostOne, OneOffInv, EntriesInv, TypeOK
  <2> QED BY <2>1, <2>2
<1> QED BY <1>5, <1>6, <1>7, <1>8 DEF OneOff, AtMostOne

LEMMA OtherOneOff ==
    ASSUME OneOffInv, OneOff, UNCHANGED <<store, book, start, mode, ctx>>,
           \A q \in Procs : pc'[q] = "planned" => pc[q] = "planned"
    PROVE  OneOff'
BY DEF OneOff, AtMostOne

LEMMA StepOneOff ==
    ASSUME OneOffInv, [Next]_vars, Steady'
    PROVE  OneOff'
<1>1. OneOff
  BY SteadyBack DEF OneOffInv
<1>2. left'["mode"] = left["mode"] /\ left'["fail"] = left["fail"]
  BY SteadyBack
<1>3. ~Disturb("mode") /\ ~Disturb("fail")
  BY <1>2, DisturbLess, SteadyBack DEF Disturbances, Steady, Undisturbed
<1>4. CASE \E p \in Procs : \E k \in Keys : Plan(p, k)
  BY <1>1, <1>4, PlanOneOff
<1>5. ASSUME NEW p \in Procs, Started(p) \/ LoadBook(p) \/ MoveOn(p)
      PROVE  OneOff'
  BY <1>1, <1>5, StartedOneOff, LoadBookOneOff, MoveOnOneOff
<1>6. ASSUME NEW p \in Procs,
             ProbesRefused(p) \/ ExplicitVerdict(p) \/ ModeOff(p) \/ Kill(p)
      PROVE  OneOff'
  <2>1. Finish(p) /\ UNCHANGED <<store, mode>> /\ ctx' \in {ctx, [ctx EXCEPT ![p] = NoCtx]}
    BY <1>6 DEF ProbesRefused, ExplicitVerdict, ModeOff, Kill, files, world
  <2> QED BY <1>1, <2>1, FinishOneOff
<1>7. ASSUME NEW p \in Procs, SelfCheck(p)
      PROVE  OneOff'
  <2>1. CASE Finish(p)
    BY <1>1, <1>7, <2>1, FinishOneOff DEF SelfCheck, files, world
  <2>2. CASE Goto(p, "checked") /\ UNCHANGED <<start, on, book>>
    <3>1. \A q \in Procs : pc'[q] = "planned" => pc[q] = "planned"
      BY <2>2 DEF Goto, OneOffInv, EntriesInv, TypeOK
    <3> QED BY <1>1, <1>7, <2>2, <3>1, OtherOneOff DEF SelfCheck, files, world
  <2> QED BY <1>7, <2>1, <2>2 DEF SelfCheck
<1>8. ASSUME NEW p \in Procs, NoteThenSearch(p)
      PROVE  OneOff'
  <2>1. \A q \in Procs : pc'[q] = "planned" => pc[q] = "planned"
    BY <1>8 DEF NoteThenSearch, Goto, OneOffInv, EntriesInv, TypeOK
  <2> QED BY <1>1, <1>8, <2>1, OtherOneOff DEF NoteThenSearch, world, local
<1>9. ASSUME NEW p \in Procs, Exit(p)
      PROVE  OneOff'
  <2>1. \A q \in Procs : ctx'[q] # NoCtx => ctx'[q] = ctx[q]
    BY <1>9 DEF Exit, OneOffInv, EntriesInv, TypeOK
  <2> QED BY <1>1, <1>9, <2>1 DEF Exit, OneOff, AtMostOne, files, local, world
<1>10. CASE (\E k \in Keys : UserChanges(k)) \/ UNCHANGED vars
  BY <1>1, <1>10, OtherOneOff DEF UserChanges, files, local, vars
<1> QED BY <1>3, <1>4, <1>5, <1>6, <1>7, <1>8, <1>9, <1>10
        DEF Next, DecideFails, ModeChanges

LEMMA StepSearching ==
    ASSUME OneOffInv, [Next]_vars
    PROVE  Searching'
<1>1. ASSUME NEW q \in Procs, pc'[q] \in {"noted", "loaded"}
      PROVE  ctx'[q] = ctx[q] /\ ctx[q].mode = "auto"
  <2> USE DEF OneOffInv, Searching, EntriesInv, TypeOK, Goto
  <2>1. CASE \E p \in Procs : \E k \in Keys : Plan(p, k)
    BY <1>1, <2>1 DEF Plan
  <2>2. CASE \E p \in Procs : Started(p) \/ LoadBook(p) \/ NoteThenSearch(p)
    BY <1>1, <2>2 DEF Started, LoadBook, NoteThenSearch
  <2>3. ASSUME NEW p \in Procs, Finish(p), ctx' \in {ctx, [ctx EXCEPT ![p] = NoCtx]}
        PROVE  ctx'[q] = ctx[q] /\ ctx[q].mode = "auto"
    BY <1>1, <2>3 DEF Finish
  <2>4. CASE \E p \in Procs : \/ ProbesRefused(p) \/ ExplicitVerdict(p) \/ ModeOff(p)
                             \/ MoveOn(p) \/ Kill(p)
    BY <2>3, <2>4 DEF ProbesRefused, ExplicitVerdict, ModeOff, MoveOn, Kill
  <2>5. ASSUME NEW p \in Procs, SelfCheck(p)
        PROVE  ctx'[q] = ctx[q] /\ ctx[q].mode = "auto"
    BY <1>1, <2>3, <2>5 DEF SelfCheck
  <2>6. CASE \E p \in Procs : DecideFails(p) \/ Exit(p)
    BY <1>1, <2>6 DEF DecideFails, Exit
  <2>7. CASE ModeChanges \/ (\E k \in Keys : UserChanges(k)) \/ UNCHANGED vars
    BY <1>1, <2>7 DEF ModeChanges, UserChanges, vars
  <2> QED BY <2>1, <2>2, <2>4, <2>5, <2>6, <2>7 DEF Next
<1> QED BY <1>1 DEF Searching

LEMMA InitOneOff == Init => OneOffInv
<1> SUFFICES ASSUME Init PROVE OneOffInv
  OBVIOUS
<1>1. EntriesInv
  BY InitEntries
<1>2. \A kind \in Disturbances : left[kind] <= Budget[kind]
  BY BudgetAssumption DEF Init
<1>3. Searching /\ OneOff
  BY DEF Init, Searching, OneOff, AtMostOne, NoStart, NoStore, NoEntry
<1> QED BY <1>1, <1>2, <1>3 DEF OneOffInv

LEMMA StepOneOffInv == OneOffInv /\ [Next]_vars => OneOffInv'
<1> SUFFICES ASSUME OneOffInv, [Next]_vars PROVE OneOffInv'
  OBVIOUS
<1>1. EntriesInv'
  BY StepEntries DEF OneOffInv
<1>2. (\A kind \in Disturbances : left[kind] <= Budget[kind])'
  BY StepLess
<1>3. (Steady => OneOff)'
  BY StepOneOff
<1> QED BY <1>1, <1>2, <1>3, StepSearching DEF OneOffInv

(* However many processes share the store, and whatever is killed, lost or  *)
(* refused, the selective path turns at most one optimization off at a      *)
(* start, while the mode setting stays what it was.                         *)
THEOREM OneAtATime == Spec => []OneOffAtATime
<1>1. OneOffInv => OneOffAtATime
  <2> SUFFICES ASSUME OneOffInv, Steady,
                      NEW p \in Procs, ctx[p] # NoCtx, ctx[p].mode = "auto"
               PROVE  Cardinality(ctx[p].off) <= 1
    BY DEF OneOffAtATime, Steady
  <2>1. AtMostOne(ctx[p].off)
    BY DEF OneOffInv, OneOff
  <2> QED BY <2>1, AtMostOneCard
<1> QED BY <1>1, InitOneOff, StepOneOffInv, PTL DEF Spec

-----------------------------------------------------------------------------
(* What is found and said. While the command lines stay and no _decide fails, *)
(* a start is what plan() answered, down to the pairs its self-check saw; so   *)
(* what is saved and said of a configuration is what its engine shows, in      *)
(* every copy of the two files.                                               *)

Quiet == Undisturbed({"user", "fail"})

Disagreeing(k, off) == Shows(k, user[k] \ off)

CausesTrue(book_) ==
    \A k \in Keys : book_[k].status = "found" => Disagreeing(k, book_[k].off) = {}
LastTrue(last) == \A k \in Keys : last[k] \in {{}, Disagreeing(k, {})}

StartTrue(p) ==
    /\ pc[p] \in {"planned", "up"} => start[p].enabled = user[start[p].key]
    /\ pc[p] = "up" =>
          /\ ctx[p].key = start[p].key /\ ctx[p].off = start[p].off
          /\ on[p] = start[p].enabled \ start[p].off
    /\ pc[p] \in {"checked", "noted", "loaded"} => saw[p] = Disagreeing(ctx[p].key, ctx[p].off)

Verdicts ==
    /\ CausesTrue(store) /\ \A p \in Procs : CausesTrue(book[p])
    /\ LastTrue(last_on) /\ \A p \in Procs : LastTrue(seen[p])
    /\ \A p \in Procs : StartTrue(p)

VerdictInv == OneOffInv /\ (Quiet => Verdicts)

(* Budgets only shrink, so what is undisturbed after a step was so before it. *)
LEMMA UndisturbedBack ==
    ASSUME OneOffInv, [Next]_vars, NEW kind \in Disturbances, left'[kind] = Budget[kind]
    PROVE  left[kind] = Budget[kind] /\ ~Disturb(kind)
<1>1. left \in [Disturbances -> Nat] /\ Budget \in [Disturbances -> Nat]
  BY BudgetAssumption DEF OneOffInv, EntriesInv, TypeOK
<1>2. left'[kind] <= left[kind] /\ left[kind] <= Budget[kind]
  BY StepLess DEF OneOffInv
<1>3. left[kind] = Budget[kind]
  BY <1>1, <1>2
<1> QED BY <1>3, DisturbLess

LEMMA QuietBack ==
    ASSUME VerdictInv, [Next]_vars, Quiet'
    PROVE  Verdicts /\ ~Disturb("user") /\ ~Disturb("fail")
<1>1. left'["user"] = Budget["user"] /\ left'["fail"] = Budget["fail"]
  BY DEF Quiet, Undisturbed
<1>2. Quiet /\ ~Disturb("user") /\ ~Disturb("fail")
  BY <1>1, UndisturbedBack DEF VerdictInv, Quiet, Undisturbed, Disturbances
<1> QED BY <1>2 DEF VerdictInv

(* Nothing moves what a configuration shows. *)
LEMMA SameShows ==
    ASSUME UNCHANGED fault
    PROVE  \A k, S : Shows(k, S)' = Shows(k, S)
BY DEF Shows

LEMMA SameTruth ==
    ASSUME UNCHANGED <<fault, user>>
    PROVE  /\ \A k, off : Disagreeing(k, off)' = Disagreeing(k, off)
           /\ \A b : CausesTrue(b)' <=> CausesTrue(b)
           /\ \A b : LastTrue(b)' <=> LastTrue(b)
BY DEF Shows, Disagreeing, CausesTrue, LastTrue
(* What a save of the entry that moved on holds. *)
LEMMA NextEntryTrue ==
    ASSUME NEW k \in Keys, NEW e \in Entry, NEW c \in Context, NEW pairs,
           e.status = "found" => Disagreeing(k, e.off) = {}, pairs = Disagreeing(k, c.off)
    PROVE  LET n == NextEntry(e, pairs, c)
           IN  n.status = "found" => Disagreeing(k, n.off) = {}
<1>1. CASE Agrees(e, pairs, c.off)
  <2>1. NextEntry(e, pairs, c).off = c.off
    BY <1>1 DEF NextEntry, Entry
  <2> QED BY <1>1, <2>1 DEF Agrees
<1>2. CASE ~Agrees(e, pairs, c.off)
  BY <1>2 DEF NextEntry, NewEntry, Narrowed
<1> QED BY <1>1, <1>2

(* A build that ends keeps what is true of the files. *)
LEMMA FinishTrue ==
    ASSUME TypeOK, Verdicts, NEW p \in Procs, Finish(p), UNCHANGED <<fault, user>>,
           \A q \in Procs \ {p} : ctx'[q] = ctx[q],
           CausesTrue(store)', LastTrue(last_on)'
    PROVE  Verdicts'
<1>1. \A q \in Procs : book'[q] = (IF q = p THEN NoStore ELSE book[q])
                       /\ seen'[q] = (IF q = p THEN NoLast ELSE seen[q])
  BY DEF Finish, TypeOK
<1>2. ASSUME NEW q \in Procs PROVE CausesTrue(book[q])' /\ LastTrue(seen[q])'
  <2>1. CASE q = p
    BY <1>1, <2>1 DEF CausesTrue, LastTrue, NoStore, NoEntry, NoLast
  <2>2. CASE q # p
    BY <1>1, <2>2 DEF CausesTrue, LastTrue, Verdicts, Disagreeing, Shows
  <2> QED BY <2>1, <2>2
<1>3. ASSUME NEW q \in Procs PROVE StartTrue(q)'
  <2>1. CASE q = p
    BY <2>1 DEF StartTrue, Finish, Goto, TypeOK
  <2>2. CASE q # p
    <3>1. /\ pc'[q] = pc[q] /\ start'[q] = start[q] /\ ctx'[q] = ctx[q] /\ on'[q] = on[q]
          /\ saw'[q] = saw[q]
      BY <2>2 DEF Finish, Goto, TypeOK
    <3> QED BY <3>1 DEF StartTrue, Verdicts, Disagreeing, Shows
  <2> QED BY <2>1, <2>2
<1> QED BY <1>2, <1>3 DEF Verdicts

(* A step within a start that keeps the copies of the files. *)
LEMMA WithinTrue ==
    ASSUME TypeOK, Verdicts, NEW p \in Procs, UNCHANGED <<fault, user, store, book>>,
           \A q \in Procs \ {p} : /\ pc'[q] = pc[q] /\ start'[q] = start[q] /\ ctx'[q] = ctx[q]
                                  /\ on'[q] = on[q] /\ saw'[q] = saw[q] /\ seen'[q] = seen[q],
           seen'[p] \in {seen[p], last_on}, LastTrue(last_on)', StartTrue(p)'
    PROVE  Verdicts'
<1>1. CausesTrue(store)' /\ \A q \in Procs : CausesTrue(book[q])'
  BY DEF CausesTrue, Verdicts, Disagreeing, Shows
<1>2. \A q \in Procs : LastTrue(seen[q])'
  BY DEF LastTrue, Verdicts, Disagreeing, Shows
<1>3. ASSUME NEW q \in Procs \ {p} PROVE StartTrue(q)'
  <2>1. StartTrue(q)
    BY DEF Verdicts
  <2> QED BY <2>1 DEF StartTrue, Disagreeing, Shows
<1> QED BY <1>1, <1>2, <1>3 DEF Verdicts

LEMMA NoteLastTrue ==
    ASSUME TypeOK, Verdicts, NEW p \in Procs, pc[p] = "checked", NoteLast(p),
           UNCHANGED <<fault, user>>
    PROVE  LastTrue(last_on)'
<1>1. ctx[p].key \in Keys /\ saw[p] = Disagreeing(ctx[p].key, ctx[p].off)
  BY DEF TypeOK, Context, Verdicts, StartTrue
<1>2. CASE UNCHANGED last_on
  BY <1>2 DEF Verdicts, LastTrue, Disagreeing, Shows
<1>3. CASE ctx[p].off = {} /\ last_on' = [seen[p] EXCEPT ![ctx[p].key] = saw[p]]
  <2>1. \A k \in Keys : last_on'[k] = IF k = ctx[p].key THEN saw[p] ELSE seen[p][k]
    BY <1>3 DEF TypeOK
  <2>2. \A k \in Keys : last_on'[k] \in {{}, Disagreeing(k, {})}
    BY <1>1, <1>3, <2>1 DEF Verdicts, LastTrue
  <2> QED BY <2>2 DEF LastTrue, Disagreeing, Shows
<1> QED BY <1>2, <1>3 DEF NoteLast, Save

LEMMA MoveOnTrue ==
    ASSUME TypeOK, Verdicts, NEW p \in Procs, MoveOn(p)
    PROVE  Verdicts'
<1> DEFINE c == ctx[p]
           e == book[p][c.key]
           new == [book[p] EXCEPT ![c.key] = NextEntry(e, saw[p], c)]
<1>1. /\ c \in Context /\ c.key \in Keys /\ e \in Entry
      /\ saw[p] = Disagreeing(c.key, c.off)
  BY DEF MoveOn, TypeOK, Context, Verdicts, StartTrue
<1>2. e.status = "found" => Disagreeing(c.key, e.off) = {}
  BY <1>1 DEF Verdicts, CausesTrue
<1>3. LET n == NextEntry(e, saw[p], c) IN n.status = "found" => Disagreeing(c.key, n.off) = {}
  <2> HIDE DEF c, e
  <2> QED BY <1>1, <1>2, NextEntryTrue
<1>4. CausesTrue(new)
  <2>1. \A k \in Keys : new[k] = IF k = c.key THEN NextEntry(e, saw[p], c) ELSE book[p][k]
    BY <1>1 DEF TypeOK
  <2>2. CausesTrue(book[p])
    BY DEF Verdicts
  <2> HIDE DEF c, e, new
  <2> QED BY <1>3, <2>1, <2>2 DEF CausesTrue
<1>5. UNCHANGED <<fault, user, last_on, ctx>> /\ Finish(p)
  BY DEF MoveOn, world
<1>6. store' = new \/ store' = store
  BY DEF MoveOn, Save
<1>7. CausesTrue(store)'
  <2> HIDE DEF new
  <2> QED BY <1>4, <1>5, <1>6 DEF Verdicts, CausesTrue, Disagreeing, Shows
<1>8. LastTrue(last_on)'
  BY <1>5 DEF Verdicts, LastTrue, Disagreeing, Shows
<1> QED BY <1>5, <1>7, <1>8, FinishTrue

LEMMA StepVerdicts ==
    ASSUME VerdictInv, [Next]_vars, Quiet'
    PROVE  Verdicts'
<1>1. Verdicts /\ TypeOK /\ ~Disturb("user") /\ ~Disturb("fail")
  BY QuietBack DEF VerdictInv, OneOffInv, EntriesInv
<1> USE DEF Goto
<1>2. CASE UNCHANGED vars
  BY <1>1, <1>2 DEF vars, Verdicts, CausesTrue, LastTrue, StartTrue, Disagreeing, Shows
<1>3. ASSUME NEW p \in Procs, NEW k \in Keys, Plan(p, k) PROVE Verdicts'
  <2>1. pc'[p] = "planned" /\ start'[p].enabled = user[k] /\ start'[p].key = k
    BY <1>1, <1>3 DEF Plan, TypeOK
  <2>2. StartTrue(p)'
    BY <1>3, <2>1 DEF Plan, StartTrue, world
  <2>3. LastTrue(last_on)'
    BY <1>1, <1>3 DEF Plan, files, world, Verdicts, LastTrue, Disagreeing, Shows
  <2> QED BY <1>1, <1>3, <2>2, <2>3, WithinTrue DEF Plan, world, files, TypeOK
<1>4. ASSUME NEW p \in Procs, Started(p) PROVE Verdicts'
  <2>1. /\ pc'[p] = "up" /\ on'[p] = start[p].enabled \ start[p].off /\ start' = start
        /\ ctx'[p].key = start[p].key /\ ctx'[p].off = start[p].off
        /\ start[p].enabled = user[start[p].key]
    BY <1>1, <1>4 DEF Started, TypeOK, Verdicts, StartTrue
  <2>2. StartTrue(p)'
    BY <1>4, <2>1 DEF Started, StartTrue, world
  <2>3. LastTrue(last_on)'
    BY <1>1, <1>4 DEF Started, files, world, Verdicts, LastTrue, Disagreeing, Shows
  <2> QED BY <1>1, <1>4, <2>2, <2>3, WithinTrue DEF Started, world, files, TypeOK
<1>5. ASSUME NEW p \in Procs, Finish(p), UNCHANGED <<world, files>>,
             ctx' \in {ctx, [ctx EXCEPT ![p] = NoCtx]}
      PROVE  Verdicts'
  <2>1. CausesTrue(store)' /\ LastTrue(last_on)'
    BY <1>1, <1>5 DEF world, files, Verdicts, CausesTrue, LastTrue, Disagreeing, Shows
  <2> QED BY <1>1, <1>5, <2>1, FinishTrue DEF world, TypeOK
<1>6. ASSUME NEW p \in Procs, SelfCheck(p) PROVE Verdicts'
  <2>1. CASE Finish(p)
    BY <1>5, <1>6, <2>1 DEF SelfCheck
  <2>2. CASE /\ saw' = [saw EXCEPT ![p] = Shows(start[p].key, on[p])]
             /\ seen' = [seen EXCEPT ![p] = last_on]
             /\ pc' = [pc EXCEPT ![p] = "checked"]
             /\ UNCHANGED <<start, on, book>>
    <3>1. saw'[p] = Disagreeing(ctx[p].key, ctx[p].off) /\ pc'[p] = "checked"
      <4>1. pc[p] = "up" /\ StartTrue(p)
        BY <1>1, <1>6 DEF SelfCheck, Verdicts
      <4>2. on[p] = user[ctx[p].key] \ ctx[p].off /\ start[p].key = ctx[p].key
        BY <4>1 DEF StartTrue
      <4>3. saw'[p] = Shows(start[p].key, on[p]) /\ pc'[p] = "checked"
        BY <1>1, <2>2 DEF TypeOK
      <4> QED BY <4>2, <4>3 DEF Disagreeing
    <3>2. StartTrue(p)'
      BY <1>6, <3>1 DEF SelfCheck, StartTrue, Disagreeing, Shows, world
    <3>3. LastTrue(last_on)'
      BY <1>1, <1>6 DEF SelfCheck, files, world, Verdicts, LastTrue, Disagreeing, Shows
    <3> QED BY <1>1, <1>6, <2>2, <3>2, <3>3, WithinTrue DEF SelfCheck, world, files, TypeOK
  <2> QED BY <1>6, <2>1, <2>2 DEF SelfCheck
<1>7. ASSUME NEW p \in Procs, ExplicitVerdict(p) \/ ModeOff(p) PROVE Verdicts'
  <2>1. NoteLast(p) /\ pc[p] = "checked" /\ UNCHANGED <<world, store, ctx>> /\ Finish(p)
    BY <1>7 DEF ExplicitVerdict, ModeOff
  <2>2. LastTrue(last_on)'
    BY <1>1, <2>1, NoteLastTrue DEF world
  <2>3. CausesTrue(store)'
    BY <1>1, <2>1 DEF world, Verdicts, CausesTrue, Disagreeing, Shows
  <2> QED BY <1>1, <2>1, <2>2, <2>3, FinishTrue DEF world
<1>8. ASSUME NEW p \in Procs, NoteThenSearch(p) PROVE Verdicts'
  <2>1. /\ NoteLast(p) /\ pc[p] = "checked" /\ UNCHANGED <<world, store, ctx, local>>
        /\ pc' = [pc EXCEPT ![p] = "noted"]
    BY <1>8 DEF NoteThenSearch
  <2>2. LastTrue(last_on)'
    BY <1>1, <2>1, NoteLastTrue DEF world
  <2>3. StartTrue(p)'
    BY <1>1, <2>1 DEF world, local, TypeOK, Verdicts, StartTrue, Disagreeing, Shows
  <2> QED BY <1>1, <2>1, <2>2, <2>3, WithinTrue DEF world, local, TypeOK
<1>9. ASSUME NEW p \in Procs, LoadBook(p) PROVE Verdicts'
  <2>1. /\ pc[p] = "noted" /\ pc' = [pc EXCEPT ![p] = "loaded"]
        /\ book' = [book EXCEPT ![p] = store]
        /\ UNCHANGED <<world, files, start, on, ctx, saw, seen>>
    BY <1>9 DEF LoadBook
  <2>2. \A q \in Procs : CausesTrue(book[q])'
    BY <1>1, <2>1 DEF world, TypeOK, Verdicts, CausesTrue, Disagreeing, Shows
  <2>3. CausesTrue(store)' /\ LastTrue(last_on)' /\ \A q \in Procs : LastTrue(seen[q])'
    BY <1>1, <2>1 DEF world, files, Verdicts, CausesTrue, LastTrue, Disagreeing, Shows
  <2>4. ASSUME NEW q \in Procs PROVE StartTrue(q)'
    <3>1. StartTrue(q)
      BY <1>1 DEF Verdicts
    <3> QED BY <1>1, <2>1, <3>1 DEF world, TypeOK, StartTrue, Disagreeing, Shows
  <2> QED BY <2>2, <2>3, <2>4 DEF Verdicts
<1>10. ASSUME NEW p \in Procs, Exit(p) PROVE Verdicts'
  <2>1. /\ pc[p] = "idle" /\ UNCHANGED <<world, files, pc, local>>
        /\ \A q \in Procs \ {p} : ctx'[q] = ctx[q]
    BY <1>1, <1>10 DEF Exit, TypeOK
  <2>2. LastTrue(last_on)'
    BY <1>1, <2>1 DEF world, files, Verdicts, LastTrue, Disagreeing, Shows
  <2>3. StartTrue(p)'
    BY <2>1 DEF StartTrue
  <2> QED BY <1>1, <2>1, <2>2, <2>3, WithinTrue DEF world, files, local
<1>11. ASSUME NEW p \in Procs, ProbesRefused(p) \/ Kill(p) PROVE Verdicts'
  BY <1>5, <1>11 DEF ProbesRefused, Kill
<1>12. ASSUME NEW p \in Procs, MoveOn(p) PROVE Verdicts'
  BY <1>1, <1>12, MoveOnTrue
<1>13. CASE ModeChanges
  BY <1>1, <1>13 DEF ModeChanges, files, local, Verdicts, CausesTrue, LastTrue, StartTrue,
                     Disagreeing, Shows
<1> QED BY <1>1, <1>2, <1>3, <1>4, <1>6, <1>7, <1>8, <1>9, <1>10, <1>11, <1>12, <1>13
        DEF Next, DecideFails, UserChanges

LEMMA VerdictsStart == Init => VerdictInv
<1> SUFFICES ASSUME Init PROVE OneOffInv /\ Verdicts
  BY DEF VerdictInv
<1>1. OneOffInv
  BY InitOneOff
<1>2. CausesTrue(store) /\ LastTrue(last_on)
  BY DEF Init, NoStore, NoEntry, NoLast, CausesTrue, LastTrue
<1>3. ASSUME NEW p \in Procs PROVE CausesTrue(book[p]) /\ LastTrue(seen[p]) /\ StartTrue(p)
  BY DEF Init, NoStore, NoEntry, NoLast, CausesTrue, LastTrue, StartTrue
<1> QED BY <1>1, <1>2, <1>3 DEF Verdicts

LEMMA VerdictsHold == Spec => []VerdictInv
<1>1. Init => VerdictInv
  BY VerdictsStart
<1>2. VerdictInv /\ [Next]_vars => VerdictInv'
  BY StepOneOffInv, StepVerdicts DEF VerdictInv
<1> QED BY <1>1, <1>2, PTL DEF Spec

(* "That one is the cause": a configuration whose entry says found shows no     *)
(* disagreement with what the entry names off, whatever processes, kills, lost   *)
(* saves and mode changes came between, while its command line stays             *)
(* (after_self_check).                                                           *)
THEOREM FoundIsTrue == Spec => []FoundIsCause
<1>1. VerdictInv => FoundIsCause
  <2> SUFFICES ASSUME VerdictInv, Quiet PROVE \A k \in Keys : store[k].status = "found" =>
                                                 Shows(k, user[k] \ store[k].off) = {}
    BY DEF FoundIsCause, Quiet
  <2> QED BY DEF VerdictInv, Verdicts, CausesTrue, Disagreeing
<1> QED BY <1>1, VerdictsHold, PTL
-----------------------------------------------------------------------------
(* The explicit mode. While the mode stays too, a start noted under it turned *)
(* off all its command line leaves on, and what it saw is what is left.       *)

Plain == Undisturbed({"user", "mode", "fail"})

SayTrue(s) ==
    IF s.what = "outside" THEN Shows(s.key, {}) # {}
    ELSE Shows(s.key, {}) = {} /\ Shows(s.key, user[s.key]) # {}

Explicit ==
    /\ \A p \in Procs : ctx[p] # NoCtx => ctx[p].mode = mode
    /\ mode = "all" => \A p \in Procs :
          /\ pc[p] \in {"planned", "up"} => start[p].off = start[p].enabled
          /\ pc[p] = "checked" => user[ctx[p].key] \ ctx[p].off = {}
    /\ \A s \in said : SayTrue(s)

SaidInv == VerdictInv /\ (Plain => Explicit)

LEMMA PlainBack ==
    ASSUME SaidInv, [Next]_vars, Plain'
    PROVE  /\ Explicit /\ Verdicts /\ TypeOK
           /\ ~Disturb("user") /\ ~Disturb("mode") /\ ~Disturb("fail")
<1>1. left'["user"] = Budget["user"] /\ left'["mode"] = Budget["mode"]
      /\ left'["fail"] = Budget["fail"]
  BY DEF Plain, Undisturbed
<1>2. OneOffInv
  BY DEF SaidInv, VerdictInv
<1>3. /\ left["user"] = Budget["user"] /\ left["mode"] = Budget["mode"]
      /\ left["fail"] = Budget["fail"]
      /\ ~Disturb("user") /\ ~Disturb("mode") /\ ~Disturb("fail")
  BY <1>1, <1>2, UndisturbedBack DEF Disturbances
<1>4. Plain /\ Quiet
  BY <1>3 DEF Plain, Quiet, Undisturbed
<1> QED BY <1>3, <1>4 DEF SaidInv, VerdictInv, OneOffInv, EntriesInv

LEMMA StepExplicit ==
    ASSUME SaidInv, [Next]_vars, Plain'
    PROVE  Explicit'
<1>1. /\ Explicit /\ Verdicts /\ TypeOK
      /\ ~Disturb("user") /\ ~Disturb("mode") /\ ~Disturb("fail")
  BY PlainBack
<1>2. (\A p \in Procs : StartTrue(p)) /\ \A p \in Procs : ctx[p] \in Context \cup {NoCtx}
  BY <1>1 DEF Verdicts, TypeOK
<1>3. ASSUME UNCHANGED <<fault, user>>, \A s \in said' \ said : SayTrue(s)
      PROVE  \A s \in said' : SayTrue(s)'
  <2> SUFFICES ASSUME NEW s \in said' PROVE SayTrue(s)'
    OBVIOUS
  <2>1. SayTrue(s)
    BY <1>1, <1>3 DEF Explicit
  <2> QED BY <1>3, <2>1 DEF SayTrue, Shows
<1> USE DEF Goto
<1>4. ASSUME NEW p \in Procs, NEW k \in Keys, Plan(p, k) PROVE Explicit'
  <2>1. UNCHANGED <<fault, user, mode, said, ctx>>
    BY <1>4 DEF Plan, world, history
  <2>2. /\ pc'[p] = "planned" /\ (mode = "all" => start'[p].off = start'[p].enabled)
        /\ \A q \in Procs \ {p} : pc'[q] = pc[q] /\ start'[q] = start[q]
    BY <1>1, <1>4 DEF Plan, Planned, TypeOK
  <2> QED BY <1>1, <1>3, <2>1, <2>2 DEF Explicit
<1>5. ASSUME NEW p \in Procs, Started(p) PROVE Explicit'
  <2>1. UNCHANGED <<fault, user, mode, said, start>>
    BY <1>5 DEF Started, world, history
  <2>2. /\ pc[p] = "planned" /\ pc'[p] = "up" /\ ctx'[p].mode = mode
        /\ \A q \in Procs \ {p} : pc'[q] = pc[q] /\ ctx'[q] = ctx[q]
    BY <1>1, <1>5 DEF Started, TypeOK
  <2> QED BY <1>1, <1>3, <2>1, <2>2 DEF Explicit
<1>6. ASSUME NEW p \in Procs, Finish(p), UNCHANGED world,
             ctx' \in {ctx, [ctx EXCEPT ![p] = NoCtx]},
             \A s \in said' \ said : SayTrue(s)
      PROVE  Explicit'
  <2>1. /\ pc'[p] = "idle"
        /\ \A q \in Procs \ {p} : pc'[q] = pc[q] /\ start'[q] = start[q] /\ ctx'[q] = ctx[q]
        /\ \A q \in Procs : ctx'[q] # NoCtx => ctx'[q] = ctx[q]
    BY <1>1, <1>6 DEF Finish, TypeOK
  <2>2. \A s \in said' : SayTrue(s)'
    BY <1>3, <1>6 DEF world
  <2> QED BY <1>1, <1>6, <2>1, <2>2 DEF Explicit, world
<1>7. ASSUME NEW p \in Procs, SelfCheck(p) PROVE Explicit'
  <2>1. CASE Finish(p)
    BY <1>6, <1>7, <2>1 DEF SelfCheck, history
  <2>2. CASE pc' = [pc EXCEPT ![p] = "checked"] /\ start' = start
    <3>1. /\ pc[p] = "up" /\ pc'[p] = "checked" /\ UNCHANGED <<fault, user, mode, ctx, said, start>>
          /\ \A q \in Procs \ {p} : pc'[q] = pc[q]
      BY <1>1, <1>7, <2>2 DEF SelfCheck, world, history, TypeOK
    <3>2. mode = "all" => user[ctx[p].key] \ ctx[p].off = {}
      BY <1>1, <1>2, <3>1 DEF Explicit, StartTrue
    <3> QED BY <1>1, <1>3, <3>1, <3>2 DEF Explicit
  <2> QED BY <1>7, <2>1, <2>2 DEF SelfCheck
<1>8. ASSUME NEW p \in Procs, ExplicitVerdict(p) PROVE Explicit'
  <2> DEFINE c == ctx[p]
  <2>1. /\ pc[p] = "checked" /\ c.mode = "all" /\ c \in Context /\ c.key \in Keys
        /\ Finish(p) /\ UNCHANGED <<world, ctx>>
        /\ said' = said \cup ExplicitSays(c, saw[p], seen[p])
    BY <1>1, <1>8 DEF ExplicitVerdict, TypeOK, Context
  <2>2. mode = "all"
    BY <1>1, <2>1, NoCtxAssumption DEF Explicit
  <2>3. saw[p] = Shows(c.key, {})
    <3>1. user[c.key] \ c.off = {}
      BY <1>1, <2>1, <2>2 DEF Explicit
    <3>2. saw[p] = Shows(c.key, user[c.key] \ c.off)
      BY <1>2, <2>1 DEF StartTrue, Disagreeing
    <3> QED BY <3>1, <3>2
  <2>4. seen[p][c.key] \in {{}, Shows(c.key, user[c.key])}
    <3>1. user[c.key] \ {} = user[c.key]
      OBVIOUS
    <3>2. seen[p][c.key] \in {{}, Shows(c.key, user[c.key] \ {})}
      BY <1>1, <2>1 DEF Verdicts, LastTrue, Disagreeing
    <3> QED BY <3>1, <3>2
  <2>5. \A s \in ExplicitSays(c, saw[p], seen[p]) : SayTrue(s)
    <3> HIDE DEF c
    <3> QED BY <2>3, <2>4 DEF ExplicitSays, SayTrue
  <2> QED BY <1>6, <2>1, <2>5
<1>9. ASSUME NEW p \in Procs, ModeOff(p) \/ MoveOn(p) \/ ProbesRefused(p) \/ Kill(p) PROVE Explicit'
  BY <1>6, <1>9 DEF ModeOff, MoveOn, ProbesRefused, Kill, history
<1>10. ASSUME NEW p \in Procs, NoteThenSearch(p) \/ LoadBook(p) PROVE Explicit'
  <2>1. /\ UNCHANGED <<fault, user, mode, said, start, ctx>>
        /\ \A q \in Procs : pc'[q] = pc[q] \/ pc'[q] \in {"noted", "loaded"}
    BY <1>1, <1>10 DEF NoteThenSearch, LoadBook, world, local, history, TypeOK
  <2> QED BY <1>1, <1>3, <2>1 DEF Explicit
<1>11. ASSUME NEW p \in Procs, Exit(p) PROVE Explicit'
  <2>1. /\ UNCHANGED <<fault, user, mode, said, start, pc>> /\ pc[p] = "idle"
        /\ \A q \in Procs : ctx'[q] # NoCtx => ctx'[q] = ctx[q]
        /\ \A q \in Procs : pc[q] # "idle" => ctx'[q] = ctx[q]
    BY <1>1, <1>11 DEF Exit, world, local, history, TypeOK
  <2> QED BY <1>1, <1>3, <2>1 DEF Explicit
<1>12. CASE UNCHANGED vars
  BY <1>1, <1>12 DEF vars, Explicit, SayTrue, Shows
<1> QED BY <1>1, <1>4, <1>5, <1>7, <1>8, <1>9, <1>10, <1>11, <1>12
        DEF Next, DecideFails, ModeChanges, UserChanges

(* The explicit mode's two sentences are true of the engine, whatever races on    *)
(* safe_last.json, while the command line and the mode stay and no _decide fails   *)
(* (after_self_check).                                                            *)
THEOREM SaidIsTrue == Spec => []SaysAreTrue
<1>1. Init => Explicit
  BY DEF Init, Explicit
<1>2. VerdictInv /\ (Plain => Explicit) /\ [Next]_vars => (Plain => Explicit)'
  BY StepExplicit DEF SaidInv
<1>3. (Plain => Explicit) => SaysAreTrue
  BY DEF Explicit, SayTrue, SaysAreTrue, Plain
<1> QED BY <1>1, <1>2, <1>3, VerdictsHold, PTL DEF Spec
-----------------------------------------------------------------------------
(* A verdict that is reported is in the store when one process shares it with   *)
(* nobody and its save succeeds.                                               *)

ReportInv ==
    /\ TypeOK
    /\ Undisturbed({"disk"}) =>
          /\ \A p \in Procs : pc[p] = "loaded" => book[p] = store
          /\ \A k \in Keys : reports[k] <= 1 /\ (reports[k] = 1 => store[k].status = "outside")

LEMMA StepReport ==
    ASSUME \A p, q \in Procs : p = q
    PROVE  ReportInv /\ OneOffInv /\ [Next]_vars => ReportInv'
<1> SUFFICES ASSUME ReportInv, OneOffInv, [Next]_vars, Undisturbed({"disk"})'
             PROVE  /\ \A p \in Procs : pc'[p] = "loaded" => book'[p] = store'
                    /\ \A k \in Keys : reports'[k] <= 1
                                       /\ (reports'[k] = 1 => store'[k].status = "outside")
  <2>1. ReportInv => TypeOK
    BY DEF ReportInv
  <2> QED BY <2>1, StepTypeOK DEF ReportInv, Undisturbed
<1>1. /\ TypeOK /\ ~Disturb("disk")
      /\ \A p \in Procs : pc[p] = "loaded" => book[p] = store
      /\ \A k \in Keys : reports[k] <= 1 /\ (reports[k] = 1 => store[k].status = "outside")
  <2>1. left'["disk"] = Budget["disk"]
    BY DEF Undisturbed
  <2>2. left["disk"] = Budget["disk"] /\ ~Disturb("disk")
    BY <2>1, UndisturbedBack DEF Disturbances
  <2> QED BY <2>2 DEF ReportInv, Undisturbed
<1> USE DEF Goto
<1>2. ASSUME UNCHANGED <<store, reports>>,
             \A p \in Procs : pc'[p] = "loaded" => pc[p] = "loaded" /\ book'[p] = book[p]
      PROVE  /\ \A p \in Procs : pc'[p] = "loaded" => book'[p] = store'
             /\ \A k \in Keys : reports'[k] <= 1
                                /\ (reports'[k] = 1 => store'[k].status = "outside")
  BY <1>1, <1>2
<1>3. ASSUME NEW p \in Procs, Finish(p) PROVE \A q \in Procs : pc'[q] = "idle"
  BY <1>1, <1>3 DEF Finish, TypeOK
<1>4. ASSUME NEW p \in Procs, MoveOn(p)
      PROVE  \A k \in Keys : reports'[k] <= 1
                             /\ (reports'[k] = 1 => store'[k].status = "outside")
  <2> DEFINE c == ctx[p]
             e == book[p][c.key]
             n == NextEntry(e, saw[p], c)
             vain == InVain(e, saw[p], c)
  <2>1. /\ c \in Context /\ c.key \in Keys /\ book[p] = store /\ e \in Entry
        /\ reports \in [Keys -> 0 .. ReportBound] /\ store \in [Keys -> Entry]
    BY <1>1, <1>4 DEF MoveOn, TypeOK, Context
  <2>2. /\ \A k \in Keys \ {c.key} : reports'[k] = reports[k]
        /\ ~vain => reports'[c.key] = reports[c.key]
        /\ vain => reports'[c.key] = IF reports[c.key] < ReportBound THEN reports[c.key] + 1
                                     ELSE reports[c.key]
    <3>1. reports' = [reports EXCEPT ![c.key] =
                        IF vain /\ @ < ReportBound THEN @ + 1 ELSE @]
      BY <1>4 DEF MoveOn
    <3> HIDE DEF vain
    <3> QED BY <2>1, <3>1
  <2>3. store' = IF Saves(e, saw[p], c.off) THEN [store EXCEPT ![c.key] = n] ELSE store
    BY <1>1, <1>4, <2>1 DEF MoveOn, Save
  <2>4. /\ \A k \in Keys \ {c.key} : store'[k] = store[k]
        /\ store'[c.key] = IF Saves(e, saw[p], c.off) THEN n ELSE store[c.key]
    <3> HIDE DEF n, e, c
    <3> QED BY <2>1, <2>3
  <2>5. CASE vain
    <3>1. e.status # "outside" /\ n.status = "outside" /\ Saves(e, saw[p], c.off)
      BY <2>5 DEF InVain, Saves
    <3>2. reports[c.key] = 0
      <4>1. reports[c.key] \in 0 .. ReportBound /\ reports[c.key] <= 1 /\ reports[c.key] # 1
        BY <1>1, <2>1, <3>1
      <4> QED BY <4>1 DEF ReportBound
    <3>3. reports'[c.key] = 1 /\ store'[c.key].status = "outside"
      BY <2>2, <2>4, <2>5, <3>1, <3>2 DEF ReportBound
    <3> QED BY <1>1, <2>2, <2>4, <3>3
  <2>6. CASE ~vain
    <3>1. e.status = "outside" => store'[c.key] = store[c.key]
      BY <2>4 DEF Saves, Agrees
    <3> QED BY <1>1, <2>1, <2>2, <2>4, <2>6, <3>1
  <2> QED BY <2>5, <2>6
<1>5. ASSUME NEW p \in Procs, MoveOn(p)
      PROVE  \A q \in Procs : pc'[q] # "loaded"
  BY <1>3, <1>5 DEF MoveOn
<1>6. ASSUME NEW p \in Procs, LoadBook(p)
      PROVE  /\ \A q \in Procs : book'[q] = store'
             /\ UNCHANGED <<store, reports>>
  BY <1>1, <1>6 DEF LoadBook, files, history, TypeOK
<1>7. ASSUME NEW p \in Procs,
             \/ \E k \in Keys : Plan(p, k)
             \/ Started(p) \/ DecideFails(p) \/ NoteThenSearch(p) \/ Exit(p)
      PROVE  /\ UNCHANGED <<store, reports>>
             /\ \A q \in Procs : pc'[q] = "loaded" => pc[q] = "loaded" /\ book'[q] = book[q]
  BY <1>1, <1>7 DEF Plan, Started, DecideFails, NoteThenSearch, Exit, files, history, local, TypeOK
<1>8. ASSUME NEW p \in Procs,
             \/ ProbesRefused(p) \/ ExplicitVerdict(p) \/ ModeOff(p) \/ Kill(p)
             \/ SelfCheck(p) /\ Finish(p)
      PROVE  /\ UNCHANGED <<store, reports>>
             /\ \A q \in Procs : pc'[q] # "loaded"
  BY <1>3, <1>8 DEF ProbesRefused, ExplicitVerdict, ModeOff, Kill, SelfCheck, files, history
<1>9. ASSUME NEW p \in Procs, SelfCheck(p), ~Finish(p)
      PROVE  /\ UNCHANGED <<store, reports>>
             /\ \A q \in Procs : pc'[q] # "loaded"
  BY <1>1, <1>9 DEF SelfCheck, files, history, TypeOK
<1>10. CASE ModeChanges \/ (\E k \in Keys : UserChanges(k)) \/ UNCHANGED vars
  BY <1>1, <1>10 DEF ModeChanges, UserChanges, vars, files, local, history
<1> QED BY <1>1, <1>2, <1>4, <1>5, <1>6, <1>7, <1>8, <1>9, <1>10 DEF Next

(* "They go back on, and that is reported once": giving up is reported once for a *)
(* configuration, when one process at a time uses the store and no save is lost.   *)
THEOREM ReportedAtMostOnce ==
    ASSUME \A p, q \in Procs : p = q
    PROVE  Spec => []ReportedOnce
<1>1. Init => ReportInv
  BY InitTypeOK DEF Init, ReportInv
<1>2. Init => OneOffInv
  BY InitOneOff
<1>3. OneOffInv /\ [Next]_vars => OneOffInv'
  BY StepOneOffInv
<1>4. ReportInv /\ OneOffInv /\ [Next]_vars => ReportInv'
  BY StepReport
<1>5. ReportInv => ReportedOnce
  BY DEF ReportInv, ReportedOnce
<1> QED BY <1>1, <1>2, <1>3, <1>4, <1>5, PTL DEF Spec

-----------------------------------------------------------------------------
(* The search as CauseSearch has it. When one process uses the store, nothing  *)
(* changes an entry between the plan that reads it and the save that moves it  *)
(* on, so a start turned off what the entry names first, or nothing because    *)
(* the command line leaves it out; MoveOn is then a step of the promise.       *)

StartsAs(k, enabled, off) == off = enabled \cap SearchTurnsOff(store[k])

OneStart(p) ==
    /\ pc[p] \in {"planned", "up"} => StartsAs(start[p].key, start[p].enabled, start[p].off)
    /\ pc[p] = "up" => ctx[p].key = start[p].key /\ ctx[p].enabled = start[p].enabled
                       /\ ctx[p].off = start[p].off
    /\ pc[p] \in {"checked", "noted", "loaded"} =>
          StartsAs(ctx[p].key, ctx[p].enabled, ctx[p].off)
    /\ pc[p] = "loaded" => book[p] = store

PromiseInv == OneOffInv /\ mode = "auto" /\ \A p \in Procs : OneStart(p)

(* It is kept by every step when one process uses the store. *)
LEMMA StepPromiseInv ==
    ASSUME \A p, q \in Procs : p = q, Modes = {"auto"}, Budget["fail"] = 0
    PROVE  PromiseInv /\ [Next]_vars => PromiseInv'
<1> SUFFICES ASSUME PromiseInv, [Next]_vars PROVE PromiseInv'
  OBVIOUS
<1>1. TypeOK /\ mode = "auto" /\ OneOffInv' /\ \A p \in Procs : OneStart(p)
  BY StepOneOffInv DEF PromiseInv, OneOffInv, EntriesInv
<1>2. ~Disturb("fail")
  <2>1. left["fail"] \in Nat /\ left["fail"] <= 0
    BY DEF PromiseInv, OneOffInv, EntriesInv, TypeOK, Disturbances
  <2> QED BY <2>1 DEF Disturb
<1>3. ~ModeChanges
  BY <1>1 DEF ModeChanges
<1> USE DEF Goto
<1>4. ASSUME NEW p \in Procs, NEW k \in Keys, Plan(p, k) PROVE mode' = mode /\ OneStart(p)'
  <2>1. /\ pc'[p] = "planned" /\ start'[p].key = k /\ start'[p].enabled = user[k]
        /\ start'[p].off = user[k] \cap SearchTurnsOff(store[k])
        /\ UNCHANGED <<mode, store>>
    BY <1>1, <1>4 DEF Plan, Planned, world, files, TypeOK
  <2> QED BY <2>1 DEF OneStart, StartsAs
<1>5. ASSUME NEW p \in Procs, Started(p) PROVE mode' = mode /\ OneStart(p)'
  <2>1. /\ pc'[p] = "up" /\ start' = start /\ ctx'[p].key = start[p].key
        /\ ctx'[p].enabled = start[p].enabled /\ ctx'[p].off = start[p].off
        /\ UNCHANGED <<mode, store>> /\ pc[p] = "planned"
    BY <1>1, <1>5 DEF Started, world, files, TypeOK
  <2> QED BY <1>1, <2>1 DEF OneStart, StartsAs
<1>6. ASSUME NEW p \in Procs, Finish(p) PROVE OneStart(p)'
  BY <1>1, <1>6 DEF Finish, OneStart, TypeOK
<1>7. ASSUME NEW p \in Procs, SelfCheck(p) PROVE mode' = mode /\ OneStart(p)'
  <2>1. CASE Finish(p)
    BY <1>6, <1>7, <2>1 DEF SelfCheck, world
  <2>2. CASE pc' = [pc EXCEPT ![p] = "checked"] /\ start' = start
    <3>1. /\ pc[p] = "up" /\ pc'[p] = "checked" /\ UNCHANGED <<mode, ctx, store>>
      BY <1>1, <1>7, <2>2 DEF SelfCheck, world, files, TypeOK
    <3> QED BY <1>1, <3>1 DEF OneStart, StartsAs
  <2> QED BY <1>7, <2>1, <2>2 DEF SelfCheck
<1>8. ASSUME NEW p \in Procs, NoteThenSearch(p) PROVE mode' = mode /\ OneStart(p)'
  <2>1. pc[p] = "checked" /\ pc'[p] = "noted" /\ UNCHANGED <<mode, ctx, store>>
    BY <1>1, <1>8 DEF NoteThenSearch, world, TypeOK
  <2> QED BY <1>1, <2>1 DEF OneStart, StartsAs
<1>9. ASSUME NEW p \in Procs, LoadBook(p) PROVE mode' = mode /\ OneStart(p)'
  <2>1. pc[p] = "noted" /\ pc'[p] = "loaded" /\ UNCHANGED <<mode, ctx, store>> /\ book'[p] = store
    BY <1>1, <1>9 DEF LoadBook, world, files, TypeOK
  <2> QED BY <1>1, <2>1 DEF OneStart, StartsAs
<1>10. ASSUME NEW p \in Procs,
              ProbesRefused(p) \/ ExplicitVerdict(p) \/ ModeOff(p) \/ MoveOn(p) \/ Kill(p)
       PROVE  mode' = mode /\ OneStart(p)'
  BY <1>6, <1>10 DEF ProbesRefused, ExplicitVerdict, ModeOff, MoveOn, Kill, world
<1>11. ASSUME NEW p \in Procs, Exit(p) PROVE mode' = mode /\ OneStart(p)'
  BY <1>1, <1>11 DEF Exit, world, files, local, OneStart
<1>12. ASSUME NEW k \in Keys, UserChanges(k)
       PROVE  mode' = mode /\ \A p \in Procs : OneStart(p)'
  BY <1>1, <1>12 DEF UserChanges, files, local, OneStart, StartsAs
<1>13. CASE UNCHANGED vars
  BY <1>1, <1>13 DEF vars, PromiseInv, OneStart, StartsAs
<1> QED BY <1>1, <1>2, <1>3, <1>4, <1>5, <1>7, <1>8, <1>9, <1>10, <1>11, <1>12, <1>13
        DEF Next, DecideFails, PromiseInv

(* What the entry becomes, as the promise has it. *)
LEMMA EntryMoves ==
    ASSUME NEW e \in Entry, WellFormed(e), NEW pairs \in SUBSET Pairs, NEW c \in Context,
           c.off = c.enabled \cap SearchTurnsOff(e), Saves(e, pairs, c.off)
    PROVE  LET n == NextEntry(e, pairs, c)
               left_ == Untried(n)
               goes_on == n.off = {} /\ n.status = IF left_ = {} THEN "outside" ELSE "searching"
               same == n.candidates = e.candidates
           IN  \/ e.status = "none" /\ left_ = n.candidates /\ goes_on
               \/ e.status = "searching" /\ left_ = Untried(e) \ {First[Untried(e)]} /\ goes_on /\ same
               \/ /\ e.status = "searching" /\ n.status = "found"
                  /\ n.off = {First[Untried(e)]} /\ left_ = Untried(e) /\ same
               \/ e.status = "found" /\ left_ = e.candidates \ e.off /\ goes_on /\ same
               \/ n = e
<1> DEFINE n == NextEntry(e, pairs, c)
           first == First[Untried(e)]
<1>1. CASE Agrees(e, pairs, c.off)
  <2>1. /\ n.status = "found" /\ n.off = c.off /\ n.candidates = e.candidates /\ n.tried = e.tried
        /\ e.status = "searching"
    BY <1>1 DEF NextEntry, Agrees, Entry
  <2>2. c.off = {first}
    BY <1>1 DEF Agrees, SearchTurnsOff
  <2> QED BY <2>1, <2>2 DEF Untried
<1>2. CASE ~Agrees(e, pairs, c.off) /\ e.status = "none"
  <2>1. n = NewEntry(Suspects(pairs, c.enabled))
    BY <1>2 DEF NextEntry
  <2> QED BY <1>2, <2>1 DEF NewEntry, Untried
<1>3. CASE ~Agrees(e, pairs, c.off) /\ e.status = "searching"
  <2>1. n = Narrowed(e, c.off)
    BY <1>3 DEF NextEntry
  <2>2. n.candidates = e.candidates /\ n.tried = c.off \cup e.tried /\ n.off = {}
        /\ n.status = IF e.candidates \subseteq n.tried THEN "outside" ELSE "searching"
    BY <1>3, <2>1 DEF Narrowed, Tried
  <2>3. Untried(e) # {} /\ e.off = {}
    BY <1>3 DEF WellFormed
  <2>4. c.off \in {{}, {first}}
    BY <1>3, <2>3 DEF SearchTurnsOff
  <2>5. CASE c.off = {first}
    BY <1>3, <2>2, <2>5 DEF Untried
  <2>6. CASE c.off = {}
    <3>1. n.status = e.status /\ n.candidates = e.candidates /\ n.tried = e.tried /\ n.off = e.off
      BY <1>3, <2>2, <2>3, <2>6 DEF Untried
    <3>2. n = e
      BY <2>1, <3>1 DEF Narrowed, Entry
    <3> QED BY <3>2
  <2> QED BY <2>4, <2>5, <2>6
<1>4. CASE e.status = "found"
  <2>1. n = Narrowed(e, c.off)
    BY <1>4 DEF NextEntry, Agrees
  <2>2. n.candidates = e.candidates /\ n.tried = c.off \cup e.off /\ n.off = {}
        /\ n.status = IF e.candidates \subseteq n.tried THEN "outside" ELSE "searching"
    BY <1>4, <2>1 DEF Narrowed, Tried
  <2>3. c.off \subseteq e.off
    BY <1>4 DEF SearchTurnsOff
  <2> QED BY <1>4, <2>2, <2>3 DEF Untried
<1>5. e.status # "outside"
  BY DEF Saves, Agrees
<1> HIDE DEF n, first
<1> QED BY <1>1, <1>2, <1>3, <1>4, <1>5 DEF Entry, n, first

(* The promise's next state, for the entry that moved. *)
LEMMA PromiseMoves ==
    ASSUME NEW j \in Keys,
           Promise!Suspect(j) \/ Promise!RuleOut(j) \/ Promise!Confirm(j) \/ Promise!Reopen(j)
    PROVE  Promise!Next
  BY DEF Promise!Next

(* MoveOn leaves the store alone or is one of the promise's steps. *)
LEMMA MoveOnPromised ==
    ASSUME PromiseInv, NEW p \in Procs, MoveOn(p), NEW k \in Keys, ctx[p].key = k
    PROVE  [Promise!Next]_(Promise!vars)
<1> DEFINE c == ctx[p]
           e == store[k]
           n == NextEntry(e, saw[p], c)
<1>1. /\ c \in Context /\ k \in Keys /\ e \in Entry /\ WellFormed(e) /\ saw[p] \in SUBSET Pairs
      /\ c.off = c.enabled \cap SearchTurnsOff(e) /\ book[p] = store
      /\ store \in [Keys -> Entry]
  <2>1. c \in Context /\ k \in Keys
    BY DEF MoveOn, PromiseInv, OneOffInv, EntriesInv, TypeOK, Context
  <2>2. pc[p] = "loaded" /\ OneStart(p)
    BY DEF MoveOn, PromiseInv
  <2> QED BY <2>1, <2>2 DEF PromiseInv, OneOffInv, EntriesInv, StoreWellFormed, TypeOK, OneStart,
                             StartsAs
<1>2. CASE UNCHANGED store
  BY <1>2 DEF Promise!vars
<1>3. CASE store' = [store EXCEPT ![k] = n] /\ Saves(e, saw[p], c.off)
  <2>1. n \in Entry
    <3> HIDE DEF c, e
    <3> QED BY <1>1, NextEntryFine
  <2> DEFINE verdict(s) == [j \in Keys |-> s[j].status]
             candidates(s) == [j \in Keys |-> s[j].candidates]
             untried(s) == [j \in Keys |-> Untried(s[j])]
             blamed(s) == [j \in Keys |-> s[j].off]
             left_ == Untried(n)
             first == First[Untried(e)]
  <2>2. /\ verdict(store') = [verdict(store) EXCEPT ![k] = n.status]
        /\ candidates(store') = [candidates(store) EXCEPT ![k] = n.candidates]
        /\ untried(store') = [untried(store) EXCEPT ![k] = left_]
        /\ blamed(store') = [blamed(store) EXCEPT ![k] = n.off]
        /\ n.candidates = e.candidates => candidates(store') = candidates(store)
        /\ Untried(n) = Untried(e) => untried(store') = untried(store)
    <3> HIDE DEF c, e, n
    <3>1. \A j \in Keys : store'[j] = IF j = k THEN n ELSE store[j]
      BY <1>1, <1>3
    <3> QED BY <1>1, <3>1 DEF e
  <2>3. /\ verdict(store)[k] = e.status /\ candidates(store)[k] = e.candidates
        /\ untried(store)[k] = Untried(e) /\ blamed(store)[k] = e.off
    BY <1>1
  <2>4. \/ e.status = "none" /\ left_ = n.candidates /\ n.off = {}
              /\ n.status = IF left_ = {} THEN "outside" ELSE "searching"
        \/ e.status = "searching" /\ left_ = Untried(e) \ {first} /\ n.off = {}
              /\ n.status = (IF left_ = {} THEN "outside" ELSE "searching")
              /\ n.candidates = e.candidates
        \/ e.status = "searching" /\ n.status = "found" /\ n.off = {first}
              /\ left_ = Untried(e) /\ n.candidates = e.candidates
        \/ e.status = "found" /\ left_ = e.candidates \ e.off /\ n.off = {}
              /\ n.status = (IF left_ = {} THEN "outside" ELSE "searching")
              /\ n.candidates = e.candidates
        \/ n = e
    <3> HIDE DEF c, e
    <3> QED BY <1>1, <1>3, EntryMoves
  <2>5. n.candidates \in SUBSET Features
    BY <2>1 DEF Entry
  <2>6. CASE e.status = "none" /\ left_ = n.candidates /\ n.off = {}
             /\ n.status = IF left_ = {} THEN "outside" ELSE "searching"
    <3> HIDE DEF c, e, n, left_
    <3>1. Promise!Suspect(k)
      BY <2>2, <2>3, <2>5, <2>6 DEF Promise!Suspect, Promise!Continue
    <3>2. Promise!Next
      BY <1>1, <3>1, PromiseMoves
    <3> QED BY <3>2
  <2>7. CASE e.status = "searching" /\ left_ = Untried(e) \ {first} /\ n.off = {}
              /\ n.status = (IF left_ = {} THEN "outside" ELSE "searching")
              /\ n.candidates = e.candidates
    <3> HIDE DEF c, e, n, left_
    <3>1. Promise!RuleOut(k)
      BY <2>2, <2>3, <2>7 DEF Promise!RuleOut, Promise!Continue
    <3>2. Promise!Next
      BY <1>1, <3>1, PromiseMoves
    <3> QED BY <3>2
  <2>8. CASE e.status = "searching" /\ n.status = "found" /\ n.off = {first}
              /\ left_ = Untried(e) /\ n.candidates = e.candidates
    <3> HIDE DEF c, e, n
    <3>1. Promise!Confirm(k)
      BY <2>2, <2>3, <2>8 DEF Promise!Confirm
    <3>2. Promise!Next
      BY <1>1, <3>1, PromiseMoves
    <3> QED BY <3>2
  <2>9. CASE e.status = "found" /\ left_ = e.candidates \ e.off /\ n.off = {}
              /\ n.status = (IF left_ = {} THEN "outside" ELSE "searching")
              /\ n.candidates = e.candidates
    <3> HIDE DEF c, e, n, left_
    <3>1. Promise!Reopen(k)
      BY <2>2, <2>3, <2>9 DEF Promise!Reopen, Promise!Continue
    <3>2. Promise!Next
      BY <1>1, <3>1, PromiseMoves
    <3> QED BY <3>2
  <2>10. CASE n = e
    <3>1. store' = store
      <4> HIDE DEF n
      <4> QED BY <1>1, <1>3, <2>10
    <3> QED BY <1>2, <3>1
  <2> QED BY <2>4, <2>6, <2>7, <2>8, <2>9, <2>10
<1>4. UNCHANGED store \/ (store' = [store EXCEPT ![k] = n] /\ Saves(e, saw[p], c.off))
  BY <1>1 DEF MoveOn, Save
<1> QED BY <1>2, <1>3, <1>4

(* The search keeps what the docstring promises, for any table, command lines,     *)
(* kills, refusals and lost saves, when one process uses the store at a time under   *)
(* the selective mode (plan, started, after_self_check; CauseSearch).                *)
THEOREM SearchIsPromised ==
    ASSUME \A p, q \in Procs : p = q, Modes = {"auto"}, Budget["fail"] = 0
    PROVE  Spec => KeepsPromise
<1>1. Init => PromiseInv
  <2>1. Init => mode = "auto" /\ \A p \in Procs : OneStart(p)
    BY DEF Init, OneStart
  <2> QED BY <2>1, InitOneOff DEF PromiseInv
<1>2. Init => Promise!Init
  BY DEF Init, Promise!Init, NoStore, NoEntry, Untried
<1>3. PromiseInv /\ [Next]_vars => PromiseInv'
  BY StepPromiseInv
<1>4. PromiseInv /\ [Next]_vars => [Promise!Next]_(Promise!vars)
  <2> SUFFICES ASSUME PromiseInv, [Next]_vars PROVE [Promise!Next]_(Promise!vars)
    OBVIOUS
  <2>1. ASSUME UNCHANGED store PROVE [Promise!Next]_(Promise!vars)
    BY <2>1 DEF Promise!vars
  <2>2. ASSUME NEW p \in Procs, MoveOn(p) PROVE [Promise!Next]_(Promise!vars)
    <3>1. ctx[p].key \in Keys
      BY <2>2 DEF MoveOn, PromiseInv, OneOffInv, EntriesInv, TypeOK, Context
    <3> QED BY <2>2, <3>1, MoveOnPromised
  <2>3. ASSUME NEW p \in Procs,
               \/ \E k \in Keys : Plan(p, k)
               \/ Started(p) \/ DecideFails(p) \/ SelfCheck(p) \/ ProbesRefused(p)
               \/ ExplicitVerdict(p) \/ ModeOff(p) \/ NoteThenSearch(p) \/ LoadBook(p)
               \/ Exit(p) \/ Kill(p)
        PROVE  UNCHANGED store
    BY <2>3 DEF Plan, Started, DecideFails, SelfCheck, ProbesRefused, ExplicitVerdict, ModeOff,
                NoteThenSearch, LoadBook, Exit, Kill, files
  <2>4. CASE ModeChanges \/ (\E k \in Keys : UserChanges(k)) \/ UNCHANGED vars
    BY <2>1, <2>4 DEF ModeChanges, UserChanges, files, vars
  <2> QED BY <2>1, <2>2, <2>3, <2>4 DEF Next
<1> QED BY <1>1, <1>2, <1>3, <1>4, PTL DEF Spec, KeepsPromise, Promise!Spec

-----------------------------------------------------------------------------
(* The search goes forward. A save of another entry ends the search or takes   *)
(* the candidate that was off from those left, so there are no more of them     *)
(* than candidates and one: what Settles promises with time, as far as it is a   *)
(* matter of safety. While the command line stays, a verdict is not reopened:   *)
(* the start that would do it turns off what was found, and shows nothing then.  *)
Advances(k) ==
    LET e == store[k]
        n == store'[k]
    IN  /\ e.status \in {"none", "searching"} /\ n.status # "none"
        /\ e.status = "searching" =>
              /\ n.candidates = e.candidates
              /\ n.status = "found" \/ Untried(n) = Untried(e) \ {First[Untried(e)]}

Enabled_(p) ==
    pc[p] \in {"checked", "noted", "loaded"} => ctx[p].enabled = user[ctx[p].key]
ForwardInv == PromiseInv /\ VerdictInv /\ (Quiet => \A p \in Procs : Enabled_(p))

LEMMA StepEnabled ==
    ASSUME ForwardInv, [Next]_vars, Quiet', \A p, q \in Procs : p = q
    PROVE  \A p \in Procs : Enabled_(p)'
<1>1. Quiet /\ Verdicts /\ TypeOK /\ ~Disturb("user") /\ ~Disturb("fail")
  <2>1. left'["user"] = Budget["user"] /\ left'["fail"] = Budget["fail"]
    BY DEF Quiet, Undisturbed
  <2>2. Quiet
    BY <2>1, UndisturbedBack DEF ForwardInv, VerdictInv, Quiet, Undisturbed, Disturbances
  <2> QED BY <2>2, QuietBack DEF ForwardInv, VerdictInv, OneOffInv, EntriesInv
<1>2. \A p \in Procs : Enabled_(p) /\ StartTrue(p) /\ OneStart(p)
  BY <1>1 DEF ForwardInv, PromiseInv, Verdicts
<1> SUFFICES ASSUME NEW p \in Procs PROVE Enabled_(p)'
  OBVIOUS
<1> USE DEF Goto
<1>3. CASE Finish(p)
  BY <1>1, <1>3 DEF Finish, Enabled_, TypeOK
<1>4. CASE SelfCheck(p) /\ ~Finish(p)
  <2>1. pc[p] = "up" /\ UNCHANGED <<user, ctx>>
    BY <1>4 DEF SelfCheck, world
  <2>2. ctx[p].enabled = user[ctx[p].key]
    BY <1>2, <2>1 DEF StartTrue, OneStart
  <2> QED BY <2>1, <2>2 DEF Enabled_
<1>5. CASE NoteThenSearch(p) \/ LoadBook(p)
  <2>1. pc[p] \in {"checked", "noted"} /\ UNCHANGED <<user, ctx>>
    BY <1>5 DEF NoteThenSearch, LoadBook, world
  <2> QED BY <1>2, <2>1 DEF Enabled_
<1>6. CASE \/ \E k \in Keys : Plan(p, k)
           \/ Started(p)
  <2>1. pc'[p] \in {"planned", "up"}
    BY <1>1, <1>6 DEF Plan, Started, TypeOK
  <2> QED BY <2>1 DEF Enabled_
<1>7. CASE Exit(p)
  BY <1>7 DEF Exit, Enabled_
<1>8. CASE ModeChanges \/ UNCHANGED vars
  BY <1>2, <1>8 DEF ModeChanges, vars, files, local, Enabled_
<1>9. ProbesRefused(p) \/ ExplicitVerdict(p) \/ ModeOff(p) \/ MoveOn(p) \/ Kill(p) => Finish(p)
  BY DEF ProbesRefused, ExplicitVerdict, ModeOff, MoveOn, Kill
<1>10. ~DecideFails(p) /\ ~\E k \in Keys : UserChanges(k)
  BY <1>1 DEF DecideFails, UserChanges
<1> QED BY <1>3, <1>4, <1>5, <1>6, <1>7, <1>8, <1>9, <1>10 DEF Next

LEMMA MoveOnForward ==
    ASSUME ForwardInv, Quiet, NEW p \in Procs, MoveOn(p), NEW j \in Keys, store'[j] # store[j]
    PROVE  Advances(j)
<1> DEFINE c == ctx[p]
           k == c.key
           e == store[k]
           n == NextEntry(e, saw[p], c)
<1>1. /\ c \in Context /\ k \in Keys /\ e \in Entry /\ WellFormed(e) /\ saw[p] \in SUBSET Pairs
      /\ c.off = c.enabled \cap SearchTurnsOff(e) /\ book[p] = store
      /\ store \in [Keys -> Entry]
  <2>1. c \in Context /\ k \in Keys
    BY DEF MoveOn, ForwardInv, PromiseInv, OneOffInv, EntriesInv, TypeOK, Context
  <2>2. pc[p] = "loaded" /\ OneStart(p)
    BY DEF MoveOn, ForwardInv, PromiseInv
  <2> QED BY <2>1, <2>2 DEF ForwardInv, PromiseInv, OneOffInv, EntriesInv, StoreWellFormed, TypeOK,
                             OneStart, StartsAs
<1>2. saw[p] = Disagreeing(k, c.off) /\ c.enabled = user[k]
  BY DEF MoveOn, ForwardInv, VerdictInv, Verdicts, StartTrue, Enabled_
<1>3. store' = [store EXCEPT ![k] = n] /\ Saves(e, saw[p], c.off)
  <2>1. UNCHANGED store \/ (store' = [store EXCEPT ![k] = n] /\ Saves(e, saw[p], c.off))
    BY <1>1 DEF MoveOn, Save
  <2> QED BY <2>1
<1>4. j = k /\ store'[j] = n /\ n # e
  <2> HIDE DEF n, c
  <2> QED BY <1>1, <1>3
<1>5. e.status # "found"
  <2> SUFFICES ASSUME e.status = "found" PROVE FALSE
    OBVIOUS
  <2>1. Shows(k, user[k] \ e.off) = {}
    BY <1>1 DEF ForwardInv, VerdictInv, Verdicts, CausesTrue, Disagreeing
  <2>2. c.off = user[k] \cap e.off
    BY <1>1, <1>2 DEF SearchTurnsOff
  <2>3. user[k] \ c.off = user[k] \ e.off
    BY <2>2
  <2>4. saw[p] = {}
    BY <1>2, <2>1, <2>3 DEF Disagreeing
  <2> QED BY <1>3, <2>4 DEF Saves, Agrees
<1>6. \/ e.status = "none" /\ n.status \in {"outside", "searching"}
      \/ /\ e.status = "searching" /\ Untried(n) = Untried(e) \ {First[Untried(e)]}
         /\ n.status \in {"outside", "searching"} /\ n.candidates = e.candidates
      \/ e.status = "searching" /\ n.status = "found" /\ n.candidates = e.candidates
  <2> DEFINE left_ == Untried(n)
             goes_on == n.off = {} /\ n.status = IF left_ = {} THEN "outside" ELSE "searching"
             same == n.candidates = e.candidates
  <2>1. \/ e.status = "none" /\ left_ = n.candidates /\ goes_on
        \/ e.status = "searching" /\ left_ = Untried(e) \ {First[Untried(e)]} /\ goes_on /\ same
        \/ /\ e.status = "searching" /\ n.status = "found"
           /\ n.off = {First[Untried(e)]} /\ left_ = Untried(e) /\ same
        \/ e.status = "found" /\ left_ = e.candidates \ e.off /\ goes_on /\ same
        \/ n = e
    <3> HIDE DEF c, e
    <3> QED BY <1>1, <1>3, EntryMoves
  <2> HIDE DEF n, e
  <2> QED BY <1>4, <1>5, <2>1
<1> HIDE DEF n
<1> QED BY <1>4, <1>6 DEF Advances

(* The search only goes forward, for any table, faults, kills, refusals and lost    *)
(* saves, under the hypotheses of SearchIsPromised and while the command line stays  *)
(* (after_self_check): with two processes a save can put an earlier entry back.     *)
THEOREM SearchGoesForward ==
    ASSUME \A p, q \in Procs : p = q, Modes = {"auto"}, Budget["fail"] = 0
    PROVE  Spec => [][Quiet' => \A k \in Keys : store'[k] # store[k] => Advances(k)]_vars
<1> DEFINE Forward == Quiet' => \A k \in Keys : store'[k] # store[k] => Advances(k)
<1>1. Init => ForwardInv
  <2>1. Init => mode = "auto" /\ \A p \in Procs : OneStart(p) /\ Enabled_(p)
    BY DEF Init, OneStart, Enabled_
  <2>2. Init => VerdictInv
    BY VerdictsStart
  <2> QED BY <2>1, <2>2, InitOneOff DEF PromiseInv, ForwardInv
<1>2. ForwardInv /\ [Next]_vars => ForwardInv'
  <2> SUFFICES ASSUME ForwardInv, [Next]_vars PROVE ForwardInv'
    OBVIOUS
  <2>1. PromiseInv'
    BY StepPromiseInv DEF ForwardInv
  <2>2. VerdictInv'
    BY StepOneOffInv, StepVerdicts DEF ForwardInv, VerdictInv
  <2>3. Quiet' => \A p \in Procs : Enabled_(p)'
    BY StepEnabled
  <2> QED BY <2>1, <2>2, <2>3 DEF ForwardInv
<1>3. ForwardInv /\ [Next]_vars => [Forward]_vars
  <2> SUFFICES ASSUME ForwardInv, [Next]_vars, Quiet', NEW k \in Keys, store'[k] # store[k]
               PROVE  Advances(k)
    OBVIOUS
  <2>1. left'["user"] = Budget["user"] /\ left'["fail"] = Budget["fail"]
    BY DEF Quiet, Undisturbed
  <2>2. Quiet
    BY <2>1, UndisturbedBack DEF ForwardInv, VerdictInv, Quiet, Undisturbed, Disturbances
  <2>3. ASSUME NEW p \in Procs, MoveOn(p) PROVE Advances(k)
    BY <2>2, <2>3, MoveOnForward
  <2>4. ASSUME NEW p \in Procs,
               \/ \E j \in Keys : Plan(p, j)
               \/ Started(p) \/ DecideFails(p) \/ SelfCheck(p) \/ ProbesRefused(p)
               \/ ExplicitVerdict(p) \/ ModeOff(p) \/ NoteThenSearch(p) \/ LoadBook(p)
               \/ Exit(p) \/ Kill(p)
        PROVE  UNCHANGED store
    BY <2>4 DEF Plan, Started, DecideFails, SelfCheck, ProbesRefused, ExplicitVerdict, ModeOff,
                NoteThenSearch, LoadBook, Exit, Kill, files
  <2>5. CASE ModeChanges \/ (\E j \in Keys : UserChanges(j)) \/ UNCHANGED vars
    BY <2>5 DEF ModeChanges, UserChanges, files, vars
  <2> QED BY <2>3, <2>4, <2>5 DEF Next
<1> QED BY <1>1, <1>2, <1>3, PTL DEF Spec
====
