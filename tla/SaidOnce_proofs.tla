-------------------------- MODULE SaidOnce_proofs --------------------------
(* What holds of the lines the processes of a launch say, for any processes,  *)
(* lines, batches and disturbances.                                          *)
EXTENDS SaidOnce, SequenceTheorems, TLAPS

-----------------------------------------------------------------------------
(* Sequences of lines. *)
LEMMA FirstAndRest ==
    ASSUME NEW S, NEW s \in Seq(S), s # <<>>
    PROVE  /\ Head(s) \in S /\ Tail(s) \in Seq(S)
           /\ ToSet(s) = {Head(s)} \cup ToSet(Tail(s))
<1>1. /\ Head(s) \in S /\ Tail(s) \in Seq(S) /\ Len(Tail(s)) = Len(s) - 1
      /\ \A i \in 1 .. Len(Tail(s)) : Tail(s)[i] = s[i+1]
  BY HeadTailProperties
<1>2. Len(s) \in Nat /\ Len(s) # 0
  BY EmptySeq, LenProperties
<1>3a. Head(s) = s[1]
  BY <1>2
<1>3. DOMAIN s = 1..Len(s) /\ DOMAIN Tail(s) = 1..(Len(s) - 1)
  BY <1>1
<1>4. ASSUME NEW i \in DOMAIN s PROVE s[i] \in {Head(s)} \cup ToSet(Tail(s))
  <2>1. CASE i = 1 BY <2>1, <1>3a
  <2>2. CASE i # 1
    <3>1. i - 1 \in 1..(Len(s) - 1) BY <1>3, <1>2, <2>2
    <3>2. Tail(s)[i - 1] = s[i] BY <3>1, <1>1
    <3> QED BY <3>1, <3>2, <1>3 DEF ToSet
  <2> QED BY <2>1, <2>2
<1>5. ASSUME NEW i \in DOMAIN Tail(s) PROVE Tail(s)[i] \in ToSet(s)
  <2>1. i + 1 \in DOMAIN s /\ Tail(s)[i] = s[i + 1] BY <1>1, <1>3, <1>2
  <2> QED BY <2>1 DEF ToSet
<1>6. Head(s) \in ToSet(s) BY <1>2, <1>3, <1>3a DEF ToSet
<1>7. \A x \in ToSet(s) : x \in {Head(s)} \cup ToSet(Tail(s)) BY <1>4 DEF ToSet
<1>8. \A x \in ToSet(Tail(s)) : x \in ToSet(s) BY <1>5 DEF ToSet
<1> QED BY <1>1, <1>6, <1>7, <1>8

LEMMA MembersAreLines == ASSUME NEW S, NEW s \in Seq(S) PROVE ToSet(s) \subseteq S
<1>1. \A i \in DOMAIN s : s[i] \in S BY DOMAIN s = 1..Len(s)
<1> QED BY <1>1 DEF ToSet

LEMMA NothingInEmpty == ToSet(<<>>) = {}
BY DEF ToSet

LEMMA OneMore ==
    ASSUME NEW S, NEW s \in Seq(S), NEW x \in S
    PROVE  Append(s, x) \in Seq(S) /\ ToSet(Append(s, x)) \subseteq ToSet(s) \cup {x}
<1>1. /\ Append(s, x) \in Seq(S) /\ Len(Append(s, x)) = Len(s) + 1
      /\ \A i \in 1..Len(s) : Append(s, x)[i] = s[i]
      /\ Append(s, x)[Len(s) + 1] = x
  BY AppendProperties
<1>2. ASSUME NEW i \in 1..(Len(s) + 1) PROVE Append(s, x)[i] \in ToSet(s) \cup {x}
  <2>1. CASE i = Len(s) + 1 BY <2>1, <1>1
  <2>2. CASE i # Len(s) + 1
    <3>1. i \in 1..Len(s) BY <2>2, Len(s) \in Nat
    <3> QED BY <3>1, <1>1, DOMAIN s = 1..Len(s) DEF ToSet
  <2> QED BY <2>1, <2>2
<1>3. DOMAIN Append(s, x) = 1..(Len(s) + 1) BY <1>1
<1> QED BY <1>1, <1>2, <1>3 DEF ToSet

(* A write at the beginning leaves only lines that were there or are new.     *)
LEMMA OverwriteKeeps ==
    ASSUME NEW S, NEW s \in Seq(S), NEW x \in S, NEW y \in S
    PROVE  /\ Overwrite(s, <<x, y>>) \in Seq(S)
           /\ ToSet(Overwrite(s, <<x, y>>)) \subseteq ToSet(s) \cup {x, y}
<1> DEFINE new == <<x, y>>
           rest == SubSeq(s, 3, Len(s))
<1>1. new \in Seq(S) /\ Len(new) = 2 /\ new[1] = x /\ new[2] = y
  OBVIOUS
<1>2. Overwrite(s, <<x, y>>) = new \o rest
  BY <1>1 DEF Overwrite
<1>3. /\ rest \in Seq(S) /\ Len(rest) \in Nat
      /\ \A i \in 1..Len(rest) : rest[i] \in ToSet(s)
  <2>1. Len(s) \in Nat /\ \A i \in 3..Len(s) : s[i] \in S /\ s[i] \in ToSet(s)
    BY DOMAIN s = 1..Len(s) DEF ToSet
  <2>2. /\ rest \in Seq(S)
        /\ Len(rest) = IF 3 <= Len(s) THEN Len(s) - 3 + 1 ELSE 0
        /\ \A i \in 1 .. Len(s) - 3 + 1 : rest[i] = s[3 + i - 1]
    BY <2>1, SubSeqProperties
  <2> HIDE DEF rest
  <2>3. ASSUME NEW i \in 1..Len(rest) PROVE rest[i] \in ToSet(s)
    <3>1. i \in 1 .. Len(s) - 3 + 1 /\ 3 + i - 1 \in 3..Len(s) BY <2>1, <2>2
    <3> QED BY <3>1, <2>1, <2>2
  <2> QED BY <2>2, <2>3
<1> HIDE DEF rest, new
<1>4. /\ new \o rest \in Seq(S) /\ Len(new \o rest) = 2 + Len(rest)
      /\ \A i \in 1..(2 + Len(rest)) :
            (new \o rest)[i] = IF i <= 2 THEN new[i] ELSE rest[i - 2]
  <2>1. /\ new \o rest \in Seq(S) /\ Len(new \o rest) = Len(new) + Len(rest)
        /\ \A i \in 1 .. Len(new) + Len(rest) :
              (new \o rest)[i] = IF i <= Len(new) THEN new[i] ELSE rest[i - Len(new)]
    BY <1>1, <1>3, ConcatProperties
  <2> QED BY <2>1, <1>1
<1>5. ASSUME NEW i \in DOMAIN (new \o rest) PROVE (new \o rest)[i] \in ToSet(s) \cup {x, y}
  <2>0. i \in 1..(2 + Len(rest)) BY <1>4
  <2>1. CASE i <= 2
    <3>1. i = 1 \/ i = 2 BY <2>0, <2>1
    <3> QED BY <3>1, <2>0, <2>1, <1>4, <1>1
  <2>2. CASE ~(i <= 2)
    <3>1. i - 2 \in 1..Len(rest) BY <2>0, <2>2, <1>3
    <3> QED BY <3>1, <2>0, <2>2, <1>4, <1>3
  <2> QED BY <2>1, <2>2
<1> QED BY <1>2, <1>4, <1>5 DEF ToSet

-----------------------------------------------------------------------------
(* Types.                                                                   *)
Pcs == {"idle", "ask", "remember", "startover", "fill", "print", "log"} \cup Ended

LEMMA DisturbTyped ==
    ASSUME TypeOK, NEW kind \in Disturbances, Disturb(kind)
    PROVE  left' \in [Disturbances -> Nat]
BY DEF TypeOK, Disturb

LEMMA FailedTyped ==
    ASSUME TypeOK, NEW p \in Procs, NEW f \in Files,
           \/ UNCHANGED <<failed, left>>
           \/ Disturb("disk") /\ failed' = [failed EXCEPT ![p] = @ \cup {f}]
    PROVE  left' \in [Disturbances -> Nat] /\ failed' \in [Procs -> SUBSET Files]
<1>1. left' \in [Disturbances -> Nat]
  BY DisturbTyped DEF TypeOK, Disturbances
<1>2. failed \in [Procs -> SUBSET Files]
  BY DEF TypeOK
<1>3. failed[p] \cup {f} \in SUBSET Files
  BY <1>2
<1>4. failed' \in [Procs -> SUBSET Files]
  BY <1>2, <1>3
<1> QED BY <1>1, <1>4

LEMMA TypeStep == TypeOK /\ [Next]_vars => TypeOK'
<1> SUFFICES ASSUME TypeOK, [Next]_vars PROVE TypeOK'
  OBVIOUS
<1> USE RunAssumption, LineAssumption, BatchAssumption DEF TypeOK, Ended
<1>1. ASSUME NEW p \in Procs, NEW batch \in Batches, Enforce(p, batch) PROVE TypeOK'
  <2>1. batch.decisions \in Seq(Lines) /\ batch.owned \in BOOLEAN
    OBVIOUS
  <2>2. ToSet(batch.decisions) \subseteq Lines
    BY <2>1, MembersAreLines
  <2>3. (ToSet(batch.decisions) \cap Blocking # {}) \in BOOLEAN
    OBVIOUS
  <2>4. /\ known' \in [Procs -> SUBSET Lines] /\ done' \in [Procs -> SUBSET Lines]
        /\ towrite' \in [Procs -> Seq(Lines)] /\ tosay' \in [Procs -> Seq(Lines)]
        /\ calls' \in [Procs -> Nat]
    BY <1>1, <2>1, <2>2 DEF Enforce
  <2>5. stops' \in [Procs -> BOOLEAN] /\ pc' = [pc EXCEPT ![p] = "ask"]
    BY <1>1, <2>3 DEF Enforce, Goto
  <2>6. UNCHANGED <<said, kept, silenced, failed, left>>
    BY <1>1 DEF Enforce
  <2>7. \A q \in Procs \ {p} : tosay'[q] = tosay[q] /\ known'[q] = known[q] /\ pc'[q] = pc[q]
    BY <1>1, <2>5 DEF Enforce
  <2>8. pc'[p] = "ask" /\ pc' \in [Procs -> Pcs]
    BY <2>5 DEF Pcs
  <2> QED BY <2>4, <2>5, <2>6, <2>7, <2>8 DEF kept, Pcs, Line, NotSaid
<1>2. ASSUME NEW p \in Procs, Record(p) PROVE TypeOK'
  <2>1. Head(towrite[p]) \in Lines /\ Tail(towrite[p]) \in Seq(Lines)
    BY <1>2, FirstAndRest DEF Record
  <2>2. left' \in [Disturbances -> Nat] /\ failed' \in [Procs -> SUBSET Files]
    BY <1>2, FailedTyped DEF Record, Append_, Files
  <2>3. record' \subseteq Procs \X Lines
    BY <1>2, <2>1 DEF Record, Append_
  <2>4. towrite' \in [Procs -> Seq(Lines)]
    BY <1>2, <2>1 DEF Record
  <2>5. UNCHANGED <<said, log, console, silenced, done, known, pc, tosay, stops, calls>>
    BY <1>2 DEF Record
  <2> QED BY <2>2, <2>3, <2>4, <2>5 DEF Line, NotSaid
<1>3. ASSUME NEW p \in Procs, Skip(p) PROVE TypeOK'
  <2>1. Tail(tosay[p]) \in Seq(Lines)
    BY <1>3, FirstAndRest DEF Skip
  <2> QED BY <1>3, <2>1 DEF Skip, Line, NotSaid, kept
<1>4. ASSUME NEW p \in Procs, Ask(p) PROVE TypeOK'
  <2>1. Line(p) \in Lines
    BY <1>4, FirstAndRest DEF Ask, Line
  <2>2. UNCHANGED <<said, kept, failed, done, call, calls, left>>
    BY <1>4 DEF Ask
  <2>3. silenced' \subseteq Procs \X (Lines \ (Passes \cup Blocking))
    BY <1>4, <2>1 DEF Ask, NotSaid, SaidAnyway
  <2>4. \E where \in Pcs : pc' = [pc EXCEPT ![p] = where]
    BY <1>4 DEF Ask, Goto, Pcs
  <2>5. tosay[p] # <<>> /\ ~NotSaid(p)
    BY <1>4 DEF Ask
  <2> QED BY <2>2, <2>3, <2>4, <2>5 DEF kept, call, Pcs, Line, NotSaid
<1>5. ASSUME NEW p \in Procs, Remember(p) PROVE TypeOK'
  <2>1. Line(p) \in Lines
    BY <1>5, FirstAndRest DEF Remember, Line
  <2>2. said' \in Seq(Runs \cup Lines)
    <3>1. said' = Append(said, Line(p)) \/ said' = said
      BY <1>5 DEF Remember, Append_
    <3>2. Append(said, Line(p)) \in Seq(Runs \cup Lines)
      BY <2>1
    <3> QED BY <3>1, <3>2
  <2>3. left' \in [Disturbances -> Nat] /\ failed' \in [Procs -> SUBSET Files]
    BY <1>5, FailedTyped DEF Remember, Append_, Files
  <2>4. UNCHANGED <<kept, silenced, done, call, calls>> /\ pc' = [pc EXCEPT ![p] = "print"]
    BY <1>5 DEF Remember, Goto
  <2>5. pc[p] = "remember"
    BY <1>5 DEF Remember
  <2> QED BY <2>2, <2>3, <2>4, <2>5 DEF Line, NotSaid, kept, call
<1>6. ASSUME NEW p \in Procs, StartOver(p) PROVE TypeOK'
  <2>1. <<>> \in Seq(Runs \cup Lines)
    OBVIOUS
  <2>2. left' \in [Disturbances -> Nat]
    BY <1>6, DisturbTyped DEF StartOver, Disturbances
  <2>3. UNCHANGED <<kept, silenced, failed, done, call, calls>> /\ said' \in {<<>>, said}
    BY <1>6 DEF StartOver
  <2>4. pc[p] = "startover" /\ \E where \in {"fill", "print"} : pc' = [pc EXCEPT ![p] = where]
    BY <1>6 DEF StartOver, Goto
  <2> QED BY <2>1, <2>2, <2>3, <2>4 DEF Line, NotSaid, kept, call
<1>7. ASSUME NEW p \in Procs, Fill(p) PROVE TypeOK'
  <2>1. Line(p) \in Lines /\ Run[p] \in Runs
    BY <1>7, FirstAndRest DEF Fill, Line
  <2>2. said' \in Seq(Runs \cup Lines)
    <3>1. said' = Overwrite(said, <<Run[p], Line(p)>>) \/ said' = said
      BY <1>7 DEF Fill
    <3>2. Overwrite(said, <<Run[p], Line(p)>>) \in Seq(Runs \cup Lines)
      BY <2>1, OverwriteKeeps
    <3> QED BY <3>1, <3>2
  <2>3. left' \in [Disturbances -> Nat]
    BY <1>7, DisturbTyped DEF Fill, Disturbances
  <2>4. UNCHANGED <<kept, silenced, failed, done, call, calls>> /\ pc' = [pc EXCEPT ![p] = "print"]
    BY <1>7 DEF Fill, Goto
  <2>5. pc[p] = "fill"
    BY <1>7 DEF Fill
  <2> QED BY <2>2, <2>3, <2>4, <2>5 DEF Line, NotSaid, kept, call
<1>8. ASSUME NEW p \in Procs, Say(p) PROVE TypeOK'
  <2>1. Line(p) \in Lines \ Passes
    BY <1>8, FirstAndRest DEF Say, Line, NotSaid
  <2> QED BY <1>8, <2>1 DEF Say, Line, NotSaid, Goto, kept, call
<1>9. ASSUME NEW p \in Procs, Log(p) PROVE TypeOK'
  <2>1. Line(p) \in Lines /\ Tail(tosay[p]) \in Seq(Lines)
    BY <1>9, FirstAndRest DEF Log, Line
  <2>2. left' \in [Disturbances -> Nat] /\ failed' \in [Procs -> SUBSET Files]
    BY <1>9, FailedTyped DEF Log, Append_, Files
  <2>3. log' \subseteq Procs \X Lines
    BY <1>9, <2>1 DEF Log, Append_, Logged
  <2>4. tosay' \in [Procs -> Seq(Lines)] /\ pc' = [pc EXCEPT ![p] = "ask"]
    BY <1>9, <2>1 DEF Log, Goto
  <2>5. \A q \in Procs \ {p} : tosay'[q] = tosay[q]
    BY <1>9 DEF Log
  <2>6. UNCHANGED <<said, record, console, silenced, done, known, towrite, stops, calls>>
    BY <1>9 DEF Log
  <2> QED BY <2>2, <2>3, <2>4, <2>5, <2>6 DEF Line, NotSaid
<1>10. ASSUME NEW p \in Procs, Return(p) PROVE TypeOK'
  BY <1>10 DEF Return, Line, NotSaid, Goto, kept, call
<1>11. ASSUME NEW p \in Procs, Kill(p) PROVE TypeOK'
  BY <1>11 DEF Kill, Disturb, Disturbances, Line, NotSaid, Goto, kept, call
<1>12. CASE UNCHANGED vars
  BY <1>12 DEF vars, kept, call, Line, NotSaid
<1> QED BY <1>1, <1>2, <1>3, <1>4, <1>5, <1>6, <1>7, <1>8, <1>9, <1>10, <1>11, <1>12 DEF Next

LEMMA InitTyped == Init => TypeOK
<1> SUFFICES ASSUME Init PROVE TypeOK
  OBVIOUS
<1>1. <<>> \in Seq(Lines)
  OBVIOUS
<1> QED BY <1>1, LeftoverAssumption, BudgetAssumption DEF Init, TypeOK

(* Every variable keeps its type, and a process has a line while it asks for  *)
(* it, remembers it, prints it or logs it.                                   *)
THEOREM TypeCorrect == Spec => []TypeOK
<1> QED BY InitTyped, TypeStep, PTL DEF Spec

-----------------------------------------------------------------------------
(* A step of one process: what it leaves to the others, and what only grows.  *)
Step(p) == (\E batch \in Batches : Enforce(p, batch)) \/ Works(p) \/ Kill(p)

LEMMA NextIsStep == Next => \E p \in Procs : Step(p)
BY DEF Next, Step, Works

LEMMA OthersStay ==
    ASSUME TypeOK, NEW p \in Procs, Step(p), NEW q \in Procs, q # p
    PROVE  /\ pc'[q] = pc[q] /\ tosay'[q] = tosay[q] /\ towrite'[q] = towrite[q]
           /\ known'[q] = known[q] /\ done'[q] = done[q] /\ stops'[q] = stops[q]
<1> USE DEF TypeOK
<1>1. CASE \E batch \in Batches : Enforce(p, batch)
  BY <1>1 DEF Enforce, Goto
<1>2. CASE Record(p) BY <1>2 DEF Record
<1>3. CASE Skip(p) BY <1>3 DEF Skip
<1>4. CASE Ask(p)
  <2>1. UNCHANGED <<done, call>> /\ \E where : pc' = [pc EXCEPT ![p] = where]
    BY <1>4 DEF Ask, Goto
  <2> QED BY <2>1 DEF call
<1>5. CASE Remember(p) BY <1>5 DEF Remember, Goto, call
<1>6. CASE StartOver(p) BY <1>6 DEF StartOver, Goto, call
<1>7. CASE Fill(p) BY <1>7 DEF Fill, Goto, call
<1>8. CASE Say(p) BY <1>8 DEF Say, Goto, call
<1>9. CASE Log(p) BY <1>9 DEF Log, Goto
<1>10. CASE Return(p) BY <1>10 DEF Return, Goto, call
<1>11. CASE Kill(p) BY <1>11 DEF Kill, Goto, call
<1> QED BY <1>1, <1>2, <1>3, <1>4, <1>5, <1>6, <1>7, <1>8, <1>9, <1>10, <1>11 DEF Step, Works

LEMMA BooksGrow ==
    ASSUME TypeOK, NEW p \in Procs, Step(p)
    PROVE  /\ record \subseteq record' /\ log \subseteq log' /\ console \subseteq console'
           /\ \A q \in Procs : failed[q] \subseteq failed'[q]
<1> DEFINE More(f) == failed' = [failed EXCEPT ![p] = @ \cup {f}]
<1>1. \/ failed' = failed
      \/ More("record") \/ More("said") \/ More("log")
  BY DEF Step, Works, Enforce, Record, Skip, Ask, Remember, StartOver, Fill, Say, Log, Return, Kill, Append_
<1>2. \A q \in Procs : failed[q] \subseteq failed'[q]
  BY <1>1 DEF TypeOK
<1>3. record \subseteq record' /\ log \subseteq log' /\ console \subseteq console'
  BY DEF Step, Works, Enforce, Record, Skip, Ask, Remember, StartOver, Fill, Say, Log, Return, Kill, Append_, kept
<1> QED BY <1>2, <1>3

-----------------------------------------------------------------------------
(* Stops. A decision that stops is printed or still to be said, also when it  *)
(* was recorded for its owner in an earlier call.                            *)
Due(p, l) == <<p, l>> \in console \/ l \in ToSet(tosay[p]) \ known[p]

StopKept(p) ==
    /\ pc[p] \in {"idle", "stopped"} => tosay[p] = <<>>
    /\ pc[p] = "stopped" => stops[p]
    /\ pc[p] = "log" /\ Line(p) \in Blocking => <<p, Line(p)>> \in console
    /\ \A l \in done[p] \cap Blocking : Due(p, l)
    /\ stops[p] /\ pc[p] # "idle" => \E l \in Blocking : Due(p, l)
StopInv == TypeOK /\ \A p \in Procs : StopKept(p)

LEMMA StopOwnStep ==
    ASSUME StopInv, NEW p \in Procs, Step(p)
    PROVE  StopKept(p)'
<1>0. TypeOK /\ StopKept(p)
  BY DEF StopInv
<1> USE <1>0 DEF StopKept, Due, Line
<1>a. console \subseteq console'
  BY BooksGrow
<1>b. ASSUME NEW batch \in Batches, Enforce(p, batch) PROVE StopKept(p)'
  <2> DEFINE handed == ToSet(batch.decisions)
  <2>1. pc[p] = "idle" /\ tosay[p] = <<>> /\ pc'[p] = "ask"
    BY <1>b DEF Enforce, Goto, TypeOK
  <2>2. \A l \in done[p] \cap Blocking : <<p, l>> \in console
    BY <2>1, NothingInEmpty
  <2>3. tosay'[p] = batch.decisions /\ stops'[p] = (handed \cap Blocking # {}) /\ console' = console
    BY <1>b DEF Enforce, kept, TypeOK
  <2>4. known'[p] = IF batch.owned THEN done[p] ELSE {}
    BY <1>b DEF Enforce, TypeOK
  <2>5. done'[p] = IF batch.owned THEN done[p] \cup handed ELSE done[p]
    BY <1>b DEF Enforce, TypeOK
  <2> HIDE DEF handed
  <2>6. ASSUME NEW l \in Blocking, l \in handed \cup done[p] PROVE Due(p, l)'
    <3>1. CASE l \in done[p] BY <3>1, <2>2, <1>a
    <3>2. CASE l \notin done[p] BY <3>2, <2>6, <2>3, <2>4 DEF handed
    <3> QED BY <3>1, <3>2
  <2>7. \A l \in done'[p] \cap Blocking : Due(p, l)'
    BY <2>5, <2>6
  <2>8. stops'[p] => \E l \in Blocking : Due(p, l)'
    BY <2>3, <2>6
  <2> QED BY <2>1, <2>7, <2>8
<1>c. ASSUME tosay'[p] = tosay[p], known'[p] = known[p], NEW l, Due(p, l) PROVE Due(p, l)'
  BY <1>c, <1>a
<1>1. CASE Record(p)
  <2>1. /\ tosay'[p] = tosay[p] /\ known'[p] = known[p] /\ done'[p] = done[p]
        /\ stops'[p] = stops[p] /\ pc'[p] = pc[p]
    BY <1>1 DEF Record
  <2> QED BY <2>1, <1>c, <1>a
<1>2. CASE Skip(p)
  <2>1. /\ tosay[p] # <<>> /\ tosay'[p] = Tail(tosay[p]) /\ known'[p] = known[p] /\ done'[p] = done[p]
        /\ stops'[p] = stops[p] /\ pc'[p] = "ask" /\ pc[p] = "ask" /\ Line(p) \in Passes \cup known[p]
    BY <1>2 DEF Skip, NotSaid, TypeOK
  <2>2. ToSet(tosay[p]) = {Line(p)} \cup ToSet(Tail(tosay[p]))
    BY <2>1, FirstAndRest DEF TypeOK
  <2>3. ASSUME NEW l \in Blocking, Due(p, l) PROVE Due(p, l)'
    BY <2>1, <2>2, <2>3, <1>a, LineAssumption
  <2> QED BY <2>1, <2>3
<1>3. CASE Ask(p)
  <2>1. UNCHANGED <<done, call>> /\ pc[p] = "ask"
    BY <1>3 DEF Ask
  <2>2. pc'[p] \in {"print", "log", "remember", "startover"}
    BY <1>3 DEF Ask, Goto, TypeOK
  <2>3. pc'[p] = "log" => Line(p) \notin Blocking
    BY <1>3 DEF Ask, Goto, TypeOK, SaidAnyway
  <2> QED BY <2>1, <2>2, <2>3, <1>c DEF call
<1>4. CASE Remember(p) \/ StartOver(p) \/ Fill(p)
  <2>1. UNCHANGED <<done, call>> /\ pc[p] \in {"remember", "startover", "fill"} /\ pc'[p] \in {"fill", "print"}
    BY <1>4 DEF Remember, StartOver, Fill, Goto, TypeOK
  <2> QED BY <2>1, <1>c DEF call
<1>5. CASE Say(p)
  <2>1. /\ UNCHANGED <<done, call>> /\ pc[p] = "print" /\ pc'[p] = "log"
        /\ <<p, Line(p)>> \in console'
    BY <1>5 DEF Say, Goto, TypeOK
  <2> QED BY <2>1, <1>c DEF call
<1>6. CASE Log(p)
  <2>1. /\ pc[p] = "log" /\ pc'[p] = "ask" /\ tosay'[p] = Tail(tosay[p]) /\ known'[p] = known[p]
        /\ done'[p] = done[p] /\ stops'[p] = stops[p]
    BY <1>6 DEF Log, Goto, TypeOK
  <2>2. ToSet(tosay[p]) = {Line(p)} \cup ToSet(Tail(tosay[p]))
    BY <2>1, FirstAndRest DEF TypeOK
  <2>3. ASSUME NEW l \in Blocking, Due(p, l) PROVE Due(p, l)'
    BY <2>1, <2>2, <2>3, <1>a
  <2> QED BY <2>1, <2>3
<1>7. CASE Return(p)
  <2>1. /\ UNCHANGED <<done, call>> /\ tosay[p] = <<>> /\ pc[p] = "ask" /\ pc'[p] \in {"idle", "stopped"}
        /\ (pc'[p] = "stopped" => stops[p])
    BY <1>7 DEF Return, Goto, TypeOK
  <2> QED BY <2>1, <1>c DEF call
<1>8. CASE Kill(p)
  <2>1. UNCHANGED <<done, call>> /\ pc[p] # "idle" /\ pc'[p] = "dead"
    BY <1>8 DEF Kill, Goto, TypeOK
  <2> QED BY <2>1, <1>c DEF call
<1> QED BY <1>b, <1>1, <1>2, <1>3, <1>4, <1>5, <1>6, <1>7, <1>8 DEF Step, Works

LEMMA StopStep == StopInv /\ [Next]_vars => StopInv'
<1> SUFFICES ASSUME StopInv, [Next]_vars PROVE StopInv'
  OBVIOUS
<1>1. TypeOK'
  BY TypeStep DEF StopInv
<1>2. CASE Next
  <2> SUFFICES ASSUME NEW q \in Procs PROVE StopKept(q)'
    BY <1>1 DEF StopInv
  <2>1. PICK p \in Procs : Step(p)
    BY <1>2, NextIsStep
  <2>2. CASE q = p
    BY <2>2, <2>1, StopOwnStep
  <2>3. CASE q # p
    <3>1. /\ pc'[q] = pc[q] /\ tosay'[q] = tosay[q] /\ known'[q] = known[q]
          /\ done'[q] = done[q] /\ stops'[q] = stops[q] /\ console \subseteq console'
      BY <2>1, <2>3, OthersStay, BooksGrow DEF StopInv
    <3>2. StopKept(q)
      BY DEF StopInv
    <3> QED BY <3>1, <3>2 DEF StopKept, Due, Line
  <2> QED BY <2>2, <2>3
<1>3. CASE UNCHANGED vars
  BY <1>1, <1>3 DEF StopInv, StopKept, Due, Line, vars, kept, call
<1> QED BY <1>2, <1>3

(* A process that was stopped has printed a decision that stops, whoever      *)
(* printed or recorded it before, and however many processes and launches     *)
(* share the folder.                                                         *)
THEOREM StopsAreSaid == Spec => []StopIsSaid
<1>1. Init => StopInv
  BY InitTyped, NothingInEmpty DEF Init, StopInv, StopKept
<1>2. StopInv => StopIsSaid
  BY NothingInEmpty DEF StopInv, StopKept, Due, StopIsSaid, TypeOK
<1> QED BY <1>1, <1>2, StopStep, PTL DEF Spec

-----------------------------------------------------------------------------
(* The trace. What is to be said is recorded, or still to be; what is printed *)
(* or kept off the console is in the log, or about to be.                    *)
Recorded(p, l) == <<p, l>> \in record \/ "record" \in failed[p]
InLog(p, l) ==
    \/ <<p, l>> \in log \/ "log" \in failed[p]
    \/ pc[p] = "dead"
    \/ pc[p] = "log" /\ Line(p) = l

TraceOf(p) ==
    /\ pc[p] \notin {"ask", "dead"} => towrite[p] = <<>>
    /\ \A l \in ToSet(tosay[p]) \ known[p] : l \in ToSet(towrite[p]) \/ Recorded(p, l)
    /\ \A l : <<p, l>> \in console \cup silenced => Recorded(p, l) /\ InLog(p, l)
TraceInv == TypeOK /\ \A p \in Procs : TraceOf(p)

LEMMA TraceOwnStep ==
    ASSUME TraceInv, NEW p \in Procs, Step(p)
    PROVE  TraceOf(p)'
<1>0. TypeOK /\ TraceOf(p)
  BY DEF TraceInv
<1> USE <1>0 DEF TraceOf
<1>a. ASSUME NEW l, Recorded(p, l) PROVE Recorded(p, l)'
  BY <1>a, BooksGrow DEF Recorded
<1>b. ASSUME NEW l, <<p, l>> \in log \/ "log" \in failed[p]
      PROVE  <<p, l>> \in log' \/ "log" \in failed'[p]
  BY <1>b, BooksGrow
<1>c. ASSUME pc[p] \notin {"log", "dead"}, NEW l, InLog(p, l) PROVE InLog(p, l)'
  BY <1>b, <1>c DEF InLog
<1>d. ASSUME UNCHANGED <<tosay[p], towrite[p], known[p]>>
      PROVE  \A l \in ToSet(tosay'[p]) \ known'[p] : l \in ToSet(towrite'[p]) \/ Recorded(p, l)'
  BY <1>a, <1>d
<1>e. ASSUME NEW batch \in Batches, Enforce(p, batch) PROVE TraceOf(p)'
  <2>1. /\ pc[p] = "idle" /\ pc'[p] = "ask" /\ UNCHANGED <<console, silenced>>
        /\ tosay'[p] = batch.decisions /\ towrite'[p] = batch.decisions
    BY <1>e DEF Enforce, Goto, TypeOK, kept
  <2> QED BY <2>1, <1>a, <1>c
<1>1. CASE Record(p)
  <2>0. PICK first : first = Head(towrite[p])
    OBVIOUS
  <2>1. /\ pc[p] = "ask" /\ pc'[p] = "ask" /\ UNCHANGED <<console, silenced>>
        /\ tosay'[p] = tosay[p] /\ known'[p] = known[p]
        /\ towrite[p] # <<>> /\ towrite'[p] = Tail(towrite[p])
    BY <1>1 DEF Record, TypeOK
  <2>2. ToSet(towrite[p]) = {first} \cup ToSet(Tail(towrite[p]))
    BY <2>0, <2>1, FirstAndRest DEF TypeOK
  <2>3. ASSUME first \notin known[p] PROVE Recorded(p, first)'
    <3>1. \/ record' = record \cup {<<p, first>>}
          \/ failed' = [failed EXCEPT ![p] = @ \cup {"record"}]
          \/ "record" \in failed[p] /\ failed' = failed
      BY <1>1, <2>0, <2>3 DEF Record, Append_
    <3> QED BY <3>1 DEF Recorded, TypeOK
  <2>4. \A l \in ToSet(tosay'[p]) \ known'[p] : l \in ToSet(towrite'[p]) \/ Recorded(p, l)'
    BY <2>1, <2>2, <2>3, <1>a
  <2> QED BY <2>1, <2>4, <1>a, <1>c
<1>2. CASE Skip(p)
  <2>1. /\ pc[p] = "ask" /\ pc'[p] = "ask" /\ UNCHANGED <<console, silenced>>
        /\ tosay'[p] = Tail(tosay[p]) /\ tosay[p] # <<>> /\ known'[p] = known[p]
        /\ towrite'[p] = towrite[p]
    BY <1>2 DEF Skip, TypeOK, kept
  <2>2. ToSet(Tail(tosay[p])) \subseteq ToSet(tosay[p])
    BY <2>1, FirstAndRest DEF TypeOK
  <2> QED BY <2>1, <2>2, <1>a, <1>c
<1>3. CASE Ask(p)
  <2>0. PICK own : own = Line(p)
    OBVIOUS
  <2>1. /\ pc[p] = "ask" /\ towrite[p] = <<>> /\ tosay[p] # <<>> /\ ~NotSaid(p)
        /\ UNCHANGED <<console, call>>
    BY <1>3 DEF Ask, kept
  <2>2. own \in ToSet(tosay[p]) \ known[p]
    BY <2>0, <2>1, FirstAndRest DEF TypeOK, Line, NotSaid
  <2>3. Recorded(p, own)'
    BY <2>1, <2>2, <1>a, NothingInEmpty
  <2>4. Line(p)' = own
    BY <2>0, <2>1 DEF Line, call
  <2>5. silenced' = silenced \/ (pc'[p] = "log" /\ silenced' = silenced \cup {<<p, own>>})
    <3>1. \/ silenced' = silenced
          \/ pc' = [pc EXCEPT ![p] = "log"] /\ silenced' = silenced \cup {<<p, own>>}
      BY <1>3, <2>0 DEF Ask, Goto
    <3>2. p \in DOMAIN pc
      BY DEF TypeOK
    <3> QED BY <3>1, <3>2
  <2>6. ASSUME NEW l, <<p, l>> \in (console \cup silenced)' PROVE Recorded(p, l)' /\ InLog(p, l)'
    <3>1. CASE <<p, l>> \in console \cup silenced
      BY <3>1, <2>1, <1>a, <1>c
    <3>2. CASE <<p, l>> \notin console \cup silenced
      <4>1. l = own /\ pc'[p] = "log"
        BY <3>2, <2>5, <2>6, <2>1
      <4> QED BY <4>1, <2>3, <2>4 DEF InLog
    <3> QED BY <3>1, <3>2
  <2> QED BY <2>1, <2>6, <1>d DEF call
<1>4. CASE Remember(p) \/ StartOver(p) \/ Fill(p)
  <2>1. /\ UNCHANGED <<call, console, silenced>>
        /\ pc[p] \in {"remember", "startover", "fill"} /\ pc'[p] \in {"fill", "print"}
    BY <1>4 DEF Remember, StartOver, Fill, Goto, TypeOK, kept
  <2> QED BY <2>1, <1>a, <1>c, <1>d DEF call
<1>5. CASE Say(p)
  <2>0. PICK own : own = Line(p)
    OBVIOUS
  <2>1. /\ pc[p] = "print" /\ pc'[p] = "log" /\ UNCHANGED <<call, silenced>>
        /\ console' = console \cup {<<p, Line(p)>>}
    BY <1>5 DEF Say, Goto, TypeOK
  <2>2. own \in ToSet(tosay[p]) \ known[p]
    BY <2>0, <2>1, FirstAndRest DEF TypeOK, Line, NotSaid
  <2>3. Recorded(p, own)'
    BY <2>1, <2>2, <1>a, NothingInEmpty
  <2>4. Line(p)' = own
    BY <2>0, <2>1 DEF Line, call
  <2>5. InLog(p, own)'
    BY <2>1, <2>4 DEF InLog
  <2>6. ASSUME NEW l, <<p, l>> \in (console \cup silenced)' PROVE Recorded(p, l)' /\ InLog(p, l)'
    <3>1. CASE <<p, l>> \in console \cup silenced
      BY <3>1, <2>1, <1>a, <1>c
    <3>2. CASE <<p, l>> \notin console \cup silenced
      BY <3>2, <2>6, <2>0, <2>1, <2>3, <2>5
    <3> QED BY <3>1, <3>2
  <2> QED BY <2>1, <2>6, <1>d DEF call
<1>6. CASE Log(p)
  <2>1. /\ pc[p] = "log" /\ pc'[p] = "ask" /\ UNCHANGED <<console, silenced>>
        /\ tosay'[p] = Tail(tosay[p]) /\ tosay[p] # <<>> /\ known'[p] = known[p]
        /\ towrite'[p] = towrite[p]
    BY <1>6 DEF Log, Goto, TypeOK
  <2>2. ToSet(Tail(tosay[p])) \subseteq ToSet(tosay[p])
    BY <2>1, FirstAndRest DEF TypeOK
  <2>3. <<p, Line(p)>> \in log' \/ "log" \in failed'[p]
    BY <1>6 DEF Log, Logged, Append_, TypeOK
  <2>4. ASSUME NEW l, <<p, l>> \in console \cup silenced PROVE InLog(p, l)'
    <3>1. InLog(p, l)
      BY <2>4
    <3> QED BY <3>1, <2>1, <2>3, <1>b DEF InLog
  <2>5. \A l \in ToSet(tosay'[p]) \ known'[p] : l \in ToSet(towrite'[p]) \/ Recorded(p, l)'
    BY <2>1, <2>2, <1>a
  <2> QED BY <2>1, <2>4, <2>5, <1>a
<1>7. CASE Return(p)
  <2>1. /\ pc[p] = "ask" /\ towrite[p] = <<>> /\ UNCHANGED <<call, console, silenced>>
    BY <1>7 DEF Return, kept
  <2> QED BY <2>1, <1>a, <1>c, <1>d DEF call
<1>8. CASE Kill(p)
  <2>1. pc'[p] = "dead" /\ UNCHANGED <<call, console, silenced>>
    BY <1>8 DEF Kill, Goto, TypeOK, kept
  <2> QED BY <2>1, <1>a, <1>d DEF call, InLog
<1> QED BY <1>e, <1>1, <1>2, <1>3, <1>4, <1>5, <1>6, <1>7, <1>8 DEF Step, Works

LEMMA SilencedIsOwn ==
    ASSUME TypeOK, NEW p \in Procs, Step(p), NEW q \in Procs, q # p, NEW l,
           <<q, l>> \in (console \cup silenced)'
    PROVE  <<q, l>> \in console \cup silenced
<1>1. \/ UNCHANGED <<console, silenced>>
      \/ UNCHANGED console /\ silenced' = silenced \cup {<<p, Line(p)>>}
      \/ UNCHANGED silenced /\ console' = console \cup {<<p, Line(p)>>}
  BY DEF Step, Works, Enforce, Record, Skip, Ask, Remember, StartOver, Fill, Say, Log, Return, Kill, kept
<1> QED BY <1>1

LEMMA TraceStep == TraceInv /\ [Next]_vars => TraceInv'
<1> SUFFICES ASSUME TraceInv, [Next]_vars PROVE TraceInv'
  OBVIOUS
<1>1. TypeOK'
  BY TypeStep DEF TraceInv
<1>2. CASE Next
  <2> SUFFICES ASSUME NEW q \in Procs PROVE TraceOf(q)'
    BY <1>1 DEF TraceInv
  <2>1. PICK p \in Procs : Step(p)
    BY <1>2, NextIsStep
  <2>2. CASE q = p
    BY <2>2, <2>1, TraceOwnStep
  <2>3. CASE q # p
    <3>1. /\ pc'[q] = pc[q] /\ tosay'[q] = tosay[q] /\ towrite'[q] = towrite[q]
          /\ known'[q] = known[q]
      BY <2>1, <2>3, OthersStay DEF TraceInv
    <3>2. record \subseteq record' /\ log \subseteq log' /\ failed[q] \subseteq failed'[q]
      BY <2>1, BooksGrow DEF TraceInv
    <3>3. \A l : <<q, l>> \in (console \cup silenced)' => <<q, l>> \in console \cup silenced
      BY <2>1, <2>3, SilencedIsOwn DEF TraceInv
    <3>4. TraceOf(q)
      BY DEF TraceInv
    <3> QED BY <3>1, <3>2, <3>3, <3>4 DEF TraceOf, Recorded, InLog, Line
  <2> QED BY <2>2, <2>3
<1>3. CASE UNCHANGED vars
  BY <1>1, <1>3 DEF TraceInv, TraceOf, Recorded, InLog, Line, vars, kept, call
<1> QED BY <1>2, <1>3

(* What a process printed or kept off the console is in the record, and in    *)
(* the log once it is done with the line, unless that file failed.            *)
THEOREM TraceIsKept == Spec => []TraceKept
<1>1. Init => TraceInv
  <2>1. Init => TypeOK /\ console \cup silenced = {} /\ \A p \in Procs : tosay[p] = <<>> /\ towrite[p] = <<>>
    BY InitTyped DEF Init
  <2> QED BY <2>1, NothingInEmpty DEF TraceInv, TraceOf
<1>2. TraceInv => TraceKept
  <2> SUFFICES ASSUME TraceInv, NEW s \in console \cup silenced
               PROVE  /\ s \in record \/ "record" \in failed[s[1]]
                      /\ s \in log \/ "log" \in failed[s[1]] \/ pc[s[1]] = "log" \/ pc[s[1]] = "dead"
    BY DEF TraceKept
  <2>1. s[1] \in Procs /\ s = <<s[1], s[2]>>
    BY DEF TraceInv, TypeOK
  <2>2. TraceOf(s[1])
    BY <2>1 DEF TraceInv
  <2>3. Recorded(s[1], s[2]) /\ InLog(s[1], s[2])
    BY <2>1, <2>2 DEF TraceOf
  <2> QED BY <2>1, <2>3 DEF Recorded, InLog
<1> QED BY <1>1, <1>2, TraceStep, PTL DEF Spec

-----------------------------------------------------------------------------
(* Silence. Every line in said.txt under this launch's id was printed by one  *)
(* of its processes, or is about to be by the one that wrote it. Two launches *)
(* at once write under each other's ids, so there must be one.               *)
OneLaunch ==
    /\ \A p, q \in Procs : Run[p] = Run[q]
    /\ \A file \in Leftover : \A p \in Procs : ~IsOurs(file, Run[p])

SaidBy(q, l) == <<q, l>> \in console \/ (pc[q] = "print" /\ Line(q) = l)
SaidNow(l) == \E q \in Procs : SaidBy(q, l)

LinesSaid ==
    \/ said \in Leftover /\ \A p \in Procs : pc[p] \notin {"remember", "fill"}
    \/ \A x \in ToSet(said) : x \in Runs \/ SaidNow(x)
SilenceInv ==
    /\ TypeOK
    /\ left["kill"] <= Budget["kill"]
    /\ Undisturbed("kill") => LinesSaid /\ \A s \in silenced : SaidNow(s[2])

LEMMA KillsShow ==
    ASSUME SilenceInv, NEW p \in Procs, Step(p)
    PROVE  /\ left'["kill"] <= Budget["kill"]
           /\ Undisturbed("kill")' => Undisturbed("kill") /\ ~Kill(p)
<1> DEFINE Spent(kind) == left[kind] > 0 /\ left' = [left EXCEPT ![kind] = @ - 1]
<1>1. /\ left \in [Disturbances -> Nat] /\ left["kill"] <= Budget["kill"]
      /\ Budget \in [Disturbances -> Nat] /\ Disturbances = {"kill", "disk"}
  BY BudgetAssumption DEF SilenceInv, TypeOK, Disturbances
<1>2. ~Kill(p) => left' = left \/ Spent("disk")
  BY DEF Step, Works, Enforce, Record, Skip, Ask, Remember, StartOver, Fill, Say, Log, Return, Append_, Disturb
<1>3. Kill(p) => Spent("kill")
  BY DEF Kill, Disturb
<1> HIDE DEF Spent
<1>4. Spent("disk") => left'["kill"] = left["kill"]
  BY <1>1 DEF Spent
<1>5. Spent("kill") => left'["kill"] < Budget["kill"] /\ left'["kill"] \in Nat
  BY <1>1 DEF Spent
<1>6. ASSUME Kill(p) PROVE left'["kill"] < Budget["kill"] /\ left'["kill"] \in Nat
  BY <1>3, <1>5, <1>6
<1>7. ASSUME ~Kill(p) PROVE left'["kill"] = left["kill"]
  BY <1>2, <1>4, <1>7
<1>8. Kill(p) => left'["kill"] < Budget["kill"] /\ left'["kill"] \in Nat
  BY <1>6
<1>9. ~Kill(p) => left'["kill"] = left["kill"]
  BY <1>7
<1>10. left'["kill"] < Budget["kill"] /\ left'["kill"] \in Nat
       => left'["kill"] # Budget["kill"] /\ left'["kill"] <= Budget["kill"]
  BY <1>1
<1> QED BY <1>1, <1>8, <1>9, <1>10, Zenon DEF Undisturbed

LEMMA SaidStays ==
    ASSUME TypeOK, NEW p \in Procs, Step(p), ~Kill(p), NEW l, SaidNow(l)
    PROVE  SaidNow(l)'
<1>1. PICK q \in Procs : SaidBy(q, l)
  BY DEF SaidNow
<1>2. console \subseteq console'
  BY BooksGrow
<1>3. CASE q # p
  <2>1. pc'[q] = pc[q] /\ tosay'[q] = tosay[q]
    BY <1>3, OthersStay
  <2> QED BY <1>1, <1>2, <2>1 DEF SaidNow, SaidBy, Line
<1>4. CASE q = p /\ pc[p] = "print"
  <2>1. Say(p)
    BY <1>4 DEF Step, Works, Enforce, Record, Skip, Ask, Remember, StartOver, Fill, Log, Return
  <2>2. console' = console \cup {<<p, Line(p)>>}
    BY <2>1 DEF Say
  <2>3. <<p, l>> \in console'
    BY <1>1, <1>2, <1>4, <2>2 DEF SaidBy
  <2> QED BY <2>3 DEF SaidNow, SaidBy
<1>5. CASE q = p /\ pc[p] # "print"
  <2>1. <<p, l>> \in console'
    BY <1>1, <1>2, <1>5 DEF SaidBy
  <2> QED BY <2>1 DEF SaidNow, SaidBy
<1> QED BY <1>3, <1>4, <1>5

(* What an append or a write at the beginning leaves in said.txt.             *)
LEMMA FileKept ==
    ASSUME OneLaunch, SilenceInv, NEW p \in Procs, Step(p), ~Kill(p),
           Undisturbed("kill"), Undisturbed("kill")'
    PROVE  LinesSaid'
<1>1. TypeOK /\ LinesSaid
  BY DEF SilenceInv
<1>2. ASSUME NEW x, x \in Runs \/ SaidNow(x) PROVE x \in Runs \/ SaidNow(x)'
  BY <1>1, <1>2, SaidStays
<1>3. ASSUME \A x \in ToSet(said) : x \in Runs \/ SaidNow(x),
             \A x \in ToSet(said') : x \in ToSet(said) \/ x \in Runs \/ SaidNow(x)'
      PROVE  LinesSaid'
  <2>1. \A x \in ToSet(said') : x \in Runs \/ SaidNow(x)'
    BY <1>3, <1>2
  <2> QED BY <2>1 DEF LinesSaid
<1>4. ASSUME said' = said, pc'[p] \notin {"remember", "fill"} PROVE LinesSaid'
  <2>1. CASE \A x \in ToSet(said) : x \in Runs \/ SaidNow(x)
    BY <2>1, <1>3, <1>4
  <2>2. CASE said \in Leftover /\ \A q \in Procs : pc[q] \notin {"remember", "fill"}
    <3>1. \A q \in Procs : pc'[q] \notin {"remember", "fill"}
      BY <1>1, <1>4, <2>2, OthersStay
    <3> QED BY <3>1, <2>2, <1>4 DEF LinesSaid
  <2> QED BY <1>1, <2>1, <2>2 DEF LinesSaid
<1>5. CASE Ask(p)
  <2>1. said' = said /\ pc'[p] \in {"print", "log", "remember", "startover"}
    BY <1>1, <1>5 DEF Ask, Goto, TypeOK
  <2>2. CASE IsOurs(said, Run[p])
    <3>1. said \notin Leftover
      BY <2>2 DEF OneLaunch
    <3> QED BY <1>1, <1>3, <2>1, <3>1 DEF LinesSaid
  <2>3. CASE ~IsOurs(said, Run[p])
    <3>1. pc'[p] # "remember"
      BY <1>1, <1>5, <2>3 DEF Ask, Goto, TypeOK
    <3> QED BY <1>4, <2>1, <3>1
  <2> QED BY <2>2, <2>3
<1>6. ASSUME pc[p] \in {"remember", "fill"} PROVE \A x \in ToSet(said) : x \in Runs \/ SaidNow(x)
  BY <1>1, <1>6 DEF LinesSaid
<1>7. CASE Remember(p) \/ Fill(p)
  <2>0. PICK own : own = Line(p)
    OBVIOUS
  <2>1. /\ pc[p] \in {"remember", "fill"} /\ pc'[p] = "print" /\ tosay' = tosay
        /\ \/ said' \in {said, Append(said, own)}
           \/ said' = Overwrite(said, <<Run[p], own>>)
    BY <1>1, <1>7, <2>0 DEF Remember, Fill, Goto, TypeOK, Append_, call
  <2>2. own \in Runs \cup Lines /\ Run[p] \in Runs /\ said \in Seq(Runs \cup Lines)
    BY <1>1, <2>0, <2>1, FirstAndRest, RunAssumption DEF TypeOK, Line
  <2>3. ToSet(said') \subseteq ToSet(said) \cup {own, Run[p]}
    <3>1. ToSet(Append(said, own)) \subseteq ToSet(said) \cup {own}
      BY <2>2, OneMore
    <3>2. ToSet(Overwrite(said, <<Run[p], own>>)) \subseteq ToSet(said) \cup {own, Run[p]}
      BY <2>2, OverwriteKeeps
    <3>3. CASE said' \in {said, Append(said, own)}
      BY <3>1, <3>3
    <3>4. CASE said' = Overwrite(said, <<Run[p], own>>)
      BY <3>2, <3>4
    <3> QED BY <2>1, <3>3, <3>4
  <2>4. SaidNow(own)'
    BY <2>0, <2>1 DEF SaidNow, SaidBy, Line
  <2> QED BY <1>3, <1>6, <2>1, <2>2, <2>3, <2>4
<1>8. CASE StartOver(p)
  <2>1. said' = <<>> \/ (said' = said /\ pc'[p] = "print")
    <3>1. said' = <<>> \/ (said' = said /\ pc' = [pc EXCEPT ![p] = "print"])
      BY <1>8 DEF StartOver, Goto
    <3>2. p \in DOMAIN pc
      BY <1>1 DEF TypeOK
    <3> QED BY <3>1, <3>2
  <2>2. CASE said' = <<>>
    BY <2>2, NothingInEmpty DEF LinesSaid
  <2> QED BY <2>1, <2>2, <1>4
<1>9. CASE \/ \E batch \in Batches : Enforce(p, batch)
           \/ Record(p) \/ Skip(p) \/ Say(p) \/ Log(p) \/ Return(p)
  <2>1. said' = said /\ pc'[p] \notin {"remember", "fill"}
    BY <1>1, <1>9 DEF Enforce, Record, Skip, Say, Log, Return, Goto, TypeOK
  <2> QED BY <2>1, <1>4
<1> QED BY <1>5, <1>7, <1>8, <1>9 DEF Step, Works

LEMMA SilenceStep == OneLaunch /\ SilenceInv /\ [Next]_vars => SilenceInv'
<1> SUFFICES ASSUME OneLaunch, SilenceInv, [Next]_vars PROVE SilenceInv'
  OBVIOUS
<1>1. TypeOK /\ TypeOK'
  BY TypeStep DEF SilenceInv
<1>2. CASE Next
  <2>1. PICK p \in Procs : Step(p)
    BY <1>2, NextIsStep
  <2>2. left'["kill"] <= Budget["kill"]
    BY <2>1, KillsShow
  <2>3. ASSUME Undisturbed("kill")' PROVE LinesSaid' /\ \A s \in silenced' : SaidNow(s[2])'
    <3>1. Undisturbed("kill") /\ ~Kill(p)
      BY <2>1, <2>3, KillsShow
    <3>2. LinesSaid'
      BY <2>1, <2>3, <3>1, FileKept
    <3>3. ASSUME NEW s \in silenced PROVE SaidNow(s[2])'
      BY <1>1, <2>1, <3>1, SaidStays DEF SilenceInv
    <3>4. ASSUME NEW s \in silenced', s \notin silenced PROVE SaidNow(s[2])'
      <4>1. Ask(p) /\ s = <<p, Line(p)>> /\ Line(p) \in Remembered(said, Run[p])
        BY <2>1, <3>1, <3>4 DEF Step, Works, Enforce, Record, Skip, Ask, Remember, StartOver, Fill, Say, Log, Return
      <4>2. said # <<>> /\ Head(said) = Run[p] /\ Line(p) \in ToSet(Tail(said))
        BY <4>1 DEF Remembered
      <4>3. said \notin Leftover
        BY <4>2 DEF OneLaunch, IsOurs
      <4>4. Line(p) \in ToSet(said)
        BY <1>1, <4>2, FirstAndRest DEF TypeOK
      <4>5. Line(p) \in Lines
        BY <1>1, <4>1, FirstAndRest DEF Ask, Line, TypeOK
      <4>6. SaidNow(Line(p))
        BY <3>1, <4>3, <4>4, <4>5, RunAssumption DEF SilenceInv, LinesSaid
      <4>7. s[2] = Line(p)
        BY <4>1
      <4>8. SaidNow(s[2])
        BY <4>6, <4>7
      <4> QED BY <1>1, <2>1, <3>1, <4>8, SaidStays
    <3> QED BY <3>2, <3>3, <3>4
  <2> QED BY <1>1, <2>2, <2>3 DEF SilenceInv
<1>3. CASE UNCHANGED vars
  BY <1>1, <1>3 DEF SilenceInv, LinesSaid, SaidNow, SaidBy, Undisturbed, Line, vars, kept, call
<1> QED BY <1>2, <1>3

(* A line is kept off the console only when a process of the launch printed   *)
(* it or is about to, for any number of processes of one launch and whatever  *)
(* other launches left in the file; a kill may come in between.              *)
THEOREM SilencedIsSaid == ASSUME OneLaunch PROVE Spec => []SilencedWasSaid
<1>1. Init => SilenceInv
  <2>1. Init => /\ TypeOK /\ left = Budget /\ silenced = {}
                /\ said \in Leftover /\ \A p \in Procs : pc[p] = "idle"
    BY InitTyped DEF Init
  <2> QED BY <2>1, BudgetAssumption DEF SilenceInv, LinesSaid, TypeOK, Disturbances
<1>2. SilenceInv => SilencedWasSaid
  BY DEF OneLaunch, SilenceInv, SilencedWasSaid, SaidNow, SaidBy, Together, TypeOK
<1>3. OneLaunch /\ SilenceInv /\ [Next]_vars => SilenceInv'
  BY SilenceStep
<1> QED BY <1>1, <1>2, <1>3, PTL DEF Spec

-----------------------------------------------------------------------------
(* What was recorded. enforce leaves out of a call what the owner recorded in *)
(* an earlier one: that is no silence, for the earlier call said it.          *)
Told(p, l) == <<p, l>> \in console \cup silenced
Answered(p, l) == Told(p, l) \/ l \in ToSet(tosay[p]) \ known[p]

ToldOf(p) ==
    /\ pc[p] \in {"idle", "stopped"} => tosay[p] = <<>>
    /\ pc[p] = "log" => Told(p, Line(p))
    /\ \A l \in done[p] \ Passes : Answered(p, l)
ToldInv == TypeOK /\ \A p \in Procs : ToldOf(p)

LEMMA ToldStays ==
    ASSUME TypeOK, NEW p \in Procs, Step(p), NEW q, NEW l, Told(q, l)
    PROVE  Told(q, l)'
<1>1. silenced \subseteq silenced'
  BY DEF Step, Works, Enforce, Record, Skip, Ask, Remember, StartOver, Fill, Say, Log, Return, Kill
<1> QED BY <1>1, BooksGrow DEF Told

LEMMA ToldOwnStep ==
    ASSUME ToldInv, NEW p \in Procs, Step(p)
    PROVE  ToldOf(p)'
<1>0. TypeOK /\ ToldOf(p)
  BY DEF ToldInv
<1>a. \A l : Told(p, l) => Told(p, l)'
  BY <1>0, ToldStays
<1>b. ASSUME UNCHANGED <<done, call>> PROVE \A l \in done'[p] \ Passes : Answered(p, l)'
  BY <1>0, <1>a, <1>b DEF ToldOf, Answered, call
<1>c. ASSUME tosay[p] # <<>>, tosay'[p] = Tail(tosay[p]), known'[p] = known[p], done'[p] = done[p],
             Line(p) \in Passes \cup known[p] \/ Told(p, Line(p))
      PROVE  \A l \in done'[p] \ Passes : Answered(p, l)'
  <2>1. ToSet(tosay[p]) = {Line(p)} \cup ToSet(Tail(tosay[p]))
    BY <1>0, <1>c, FirstAndRest DEF TypeOK, Line
  <2> SUFFICES ASSUME NEW l \in done[p] \ Passes PROVE Answered(p, l)'
    BY <1>c
  <2>2. Answered(p, l)
    BY <1>0 DEF ToldOf
  <2>3. CASE Told(p, l)
    BY <2>3, <1>a DEF Answered
  <2>4. CASE l \in ToSet(tosay[p]) \ known[p]
    BY <1>a, <1>c, <2>1, <2>4 DEF Answered
  <2> QED BY <2>2, <2>3, <2>4 DEF Answered
<1>1. ASSUME NEW batch \in Batches, Enforce(p, batch) PROVE ToldOf(p)'
  <2> DEFINE handed == ToSet(batch.decisions)
  <2>1. pc[p] = "idle" /\ tosay[p] = <<>> /\ pc'[p] = "ask"
    BY <1>0, <1>1 DEF Enforce, Goto, TypeOK, ToldOf
  <2>2. \A l \in done[p] \ Passes : Told(p, l)'
    BY <1>0, <1>a, <2>1, NothingInEmpty DEF ToldOf, Answered
  <2>3. tosay'[p] = batch.decisions /\ known'[p] = IF batch.owned THEN done[p] ELSE {}
    BY <1>0, <1>1 DEF Enforce, TypeOK
  <2>4. done'[p] = IF batch.owned THEN done[p] \cup handed ELSE done[p]
    BY <1>0, <1>1 DEF Enforce, TypeOK
  <2> HIDE DEF handed
  <2>5. ASSUME NEW l \in done'[p] \ Passes PROVE Answered(p, l)'
    <3>1. CASE l \in done[p] BY <3>1, <2>2 DEF Answered
    <3>2. CASE l \notin done[p]
      <4>1. batch.owned /\ l \in handed BY <2>4, <2>5, <3>2
      <4> QED BY <4>1, <3>2, <2>3 DEF Answered, handed
    <3> QED BY <3>1, <3>2
  <2> QED BY <2>1, <2>5 DEF ToldOf
<1>2. CASE Record(p)
  <2>1. /\ tosay'[p] = tosay[p] /\ known'[p] = known[p] /\ done'[p] = done[p]
        /\ pc[p] = "ask" /\ pc'[p] = "ask"
    BY <1>2 DEF Record
  <2> QED BY <1>0, <1>a, <2>1 DEF ToldOf, Answered
<1>3. CASE Skip(p)
  <2>1. /\ tosay[p] # <<>> /\ tosay'[p] = Tail(tosay[p]) /\ known'[p] = known[p] /\ done'[p] = done[p]
        /\ pc[p] = "ask" /\ pc'[p] = "ask" /\ Line(p) \in Passes \cup known[p]
    BY <1>0, <1>3 DEF Skip, NotSaid, TypeOK
  <2> QED BY <2>1, <1>c DEF ToldOf
<1>4. CASE Ask(p)
  <2>1. UNCHANGED <<done, call>> /\ tosay' = tosay
    BY <1>4 DEF Ask, call
  <2>2. pc'[p] \in {"print", "log", "remember", "startover"}
    BY <1>0, <1>4 DEF Ask, Goto, TypeOK
  <2>3. pc'[p] = "log" => <<p, Line(p)>> \in silenced'
    BY <1>0, <1>4 DEF Ask, Goto, TypeOK
  <2>4. Line(p)' = Line(p)
    BY <2>1 DEF Line
  <2> QED BY <1>b, <2>1, <2>2, <2>3, <2>4 DEF ToldOf, Told
<1>5. CASE Remember(p) \/ StartOver(p) \/ Fill(p)
  <2>1. UNCHANGED <<done, call>> /\ pc'[p] \in {"fill", "print"}
    BY <1>0, <1>5 DEF Remember, StartOver, Fill, Goto, TypeOK
  <2> QED BY <1>b, <2>1 DEF ToldOf
<1>6. CASE Say(p)
  <2>1. UNCHANGED <<done, call>> /\ tosay' = tosay /\ pc'[p] = "log" /\ <<p, Line(p)>> \in console'
    BY <1>0, <1>6 DEF Say, Goto, TypeOK, call
  <2>2. Line(p)' = Line(p)
    BY <2>1 DEF Line
  <2> QED BY <1>b, <2>1, <2>2 DEF ToldOf, Told
<1>7. CASE Log(p)
  <2>1. /\ pc[p] = "log" /\ pc'[p] = "ask" /\ tosay'[p] = Tail(tosay[p]) /\ known'[p] = known[p]
        /\ done'[p] = done[p] /\ tosay[p] # <<>>
    BY <1>0, <1>7 DEF Log, Goto, TypeOK
  <2>2. Told(p, Line(p))
    BY <1>0, <2>1 DEF ToldOf
  <2> QED BY <2>1, <2>2, <1>c DEF ToldOf
<1>8. CASE Return(p)
  <2>1. UNCHANGED <<done, call>> /\ tosay' = tosay /\ tosay[p] = <<>> /\ pc'[p] \in {"idle", "stopped"}
    BY <1>0, <1>8 DEF Return, Goto, TypeOK, call
  <2> QED BY <1>b, <2>1 DEF ToldOf
<1>9. CASE Kill(p)
  <2>1. UNCHANGED <<done, call>> /\ pc'[p] = "dead"
    BY <1>0, <1>9 DEF Kill, Goto, TypeOK
  <2> QED BY <1>b, <2>1 DEF ToldOf
<1> QED BY <1>1, <1>2, <1>3, <1>4, <1>5, <1>6, <1>7, <1>8, <1>9 DEF Step, Works

LEMMA ToldStep == ToldInv /\ [Next]_vars => ToldInv'
<1> SUFFICES ASSUME ToldInv, [Next]_vars PROVE ToldInv'
  OBVIOUS
<1>1. TypeOK'
  BY TypeStep DEF ToldInv
<1>2. CASE Next
  <2> SUFFICES ASSUME NEW q \in Procs PROVE ToldOf(q)'
    BY <1>1 DEF ToldInv
  <2>1. PICK p \in Procs : Step(p)
    BY <1>2, NextIsStep
  <2>2. CASE q = p
    BY <2>2, <2>1, ToldOwnStep
  <2>3. CASE q # p
    <3>1. pc'[q] = pc[q] /\ tosay'[q] = tosay[q] /\ known'[q] = known[q] /\ done'[q] = done[q]
      BY <2>1, <2>3, OthersStay DEF ToldInv
    <3>2. \A l : Told(q, l) => Told(q, l)'
      BY <2>1, ToldStays DEF ToldInv
    <3>3. ToldOf(q)
      BY DEF ToldInv
    <3>4. Line(q)' = Line(q)
      BY <3>1 DEF Line
    <3> QED BY <3>1, <3>2, <3>3, <3>4 DEF ToldOf, Answered
  <2> QED BY <2>2, <2>3
<1>3. CASE UNCHANGED vars
  BY <1>1, <1>3 DEF ToldInv, ToldOf, Told, Answered, Line, vars, kept, call
<1> QED BY <1>2, <1>3

(* What enforce leaves out as known was said: once the call that recorded a   *)
(* line for its owner is over, a process of the launch has printed the line,  *)
(* or is about to, unless one was killed. What EveryLineSaid promises with    *)
(* time, as far as it is a matter of safety.                                  *)
RecordedWasSaid ==
    Undisturbed("kill") =>
        \A p \in Procs : pc[p] \in {"idle", "stopped"} =>
            \A l \in done[p] \ Passes : \E q \in Together(p) :
                \/ <<q, l>> \in console
                \/ pc[q] = "print" /\ Line(q) = l

(* A process never counts a line as known that no process of its launch said, *)
(* for any processes of one launch, lines and failing disks.                  *)
THEOREM RecordedIsSaid == ASSUME OneLaunch PROVE Spec => []RecordedWasSaid
<1>1. Init => ToldInv
  BY InitTyped DEF Init, ToldInv, ToldOf
<1>2. ToldInv /\ SilencedWasSaid => RecordedWasSaid
  <2> SUFFICES ASSUME ToldInv, SilencedWasSaid, Undisturbed("kill"),
                      NEW p \in Procs, pc[p] \in {"idle", "stopped"}, NEW l \in done[p] \ Passes
               PROVE  \E q \in Together(p) : <<q, l>> \in console \/ (pc[q] = "print" /\ Line(q) = l)
    BY DEF RecordedWasSaid
  <2>1. <<p, l>> \in console \/ <<p, l>> \in silenced
    BY NothingInEmpty DEF ToldInv, ToldOf, Answered, Told
  <2>2. CASE <<p, l>> \in console
    BY <2>2 DEF Together
  <2>3. CASE <<p, l>> \in silenced
    <3>1. <<p, l>>[1] = p /\ <<p, l>>[2] = l
      OBVIOUS
    <3>2. \E q \in Together(<<p, l>>[1]) : \/ <<q, <<p, l>>[2]>> \in console
                                           \/ pc[q] = "print" /\ Line(q) = <<p, l>>[2]
      BY <2>3 DEF SilencedWasSaid
    <3> QED BY <3>1, <3>2
  <2> QED BY <2>1, <2>2, <2>3
<1>3. Spec => []SilencedWasSaid
  BY SilencedIsSaid
<1>4. Spec => []ToldInv
  BY <1>1, ToldStep, PTL DEF Spec
<1> QED BY <1>2, <1>3, <1>4, PTL
=============================================================================
