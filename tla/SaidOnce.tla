------------------------------ MODULE SaidOnce ------------------------------
(***************************************************************************)
(* How the decisions of the processes of a launch become lines              *)
(* (load.enforce), and the memory in said.txt that keeps a line one of them *)
(* said from being said again (record.said_in_this_launch). The record, the *)
(* log and said.txt lie in one folder; a file is only ever appended to with *)
(* O_APPEND (record._append, _file), except that said.txt is started over   *)
(* by a process that does not find its own launch's id on the first line:   *)
(* it empties the file, then writes the id and its line at the beginning.   *)
(*                                                                         *)
(* ENTAIL_QUIET and ENTAIL_VERBOSE are unset. The ids of two launches are   *)
(* taken to be as long as each other, so that what is written at the        *)
(* beginning covers whole lines of what was there.                          *)
(***************************************************************************)
EXTENDS Naturals, Sequences, SequencesExt

CONSTANTS
    Procs,     \* processes that turned entail on, sharing one log folder
    Runs,      \* launches
    Run,       \* process -> its launch (ENTAIL_RUN_ID, inherited)
    Leftover,  \* what earlier launches may have left in said.txt
    Lines,     \* decisions, told apart by the line they print
    Passes,    \* the ones that pass: recorded, not said
    Blocking,  \* the ones that stop the run
    Batches,   \* what a boundary hands to enforce, with an owner or without
    CallBound, \* process -> how often it calls enforce
    Budget     \* disturbance -> how often it may happen

Disturbances == {"kill", "disk"}
Files == {"record", "said", "log"}

ASSUME RunAssumption == Run \in [Procs -> Runs] /\ Runs \cap Lines = {}
ASSUME LeftoverAssumption == Leftover \subseteq Seq(Runs \cup Lines)
ASSUME LineAssumption == Passes \subseteq Lines /\ Blocking \subseteq Lines \ Passes
ASSUME BatchAssumption == Batches \subseteq [decisions : Seq(Lines), owned : BOOLEAN]
ASSUME CallBoundAssumption == CallBound \in [Procs -> Nat]
ASSUME BudgetAssumption == Budget \in [Disturbances -> Nat]

VARIABLES
    said,      \* said.txt: a launch's id, then the lines said in it
    record,    \* what each process wrote to the record
    log,       \* what each process wrote to the log
    console,   \* what each process printed
    silenced,  \* history: the lines a process kept off the console
    failed,    \* record._WARNED: the files a process could not append to
    done,      \* load._ENFORCED: what a process recorded for an owner
    known,     \* what of the call was recorded for its owner before
    pc,        \* where a process is in enforce
    towrite,   \* decisions of the call still to be recorded
    tosay,     \* decisions of the call still to be said
    stops,     \* whether the call has a decision to stop
    calls,     \* calls made
    left       \* disturbances still allowed

kept == <<record, log, console>>
call == <<known, towrite, tosay, stops>>
vars == <<said, kept, silenced, failed, done, pc, call, calls, left>>

Init ==
    /\ said \in Leftover
    /\ record = {} /\ log = {} /\ console = {} /\ silenced = {}
    /\ failed = [p \in Procs |-> {}]
    /\ done = [p \in Procs |-> {}]
    /\ known = [p \in Procs |-> {}]
    /\ pc = [p \in Procs |-> "idle"]
    /\ towrite = [p \in Procs |-> <<>>]
    /\ tosay = [p \in Procs |-> <<>>]
    /\ stops = [p \in Procs |-> FALSE]
    /\ calls = [p \in Procs |-> 0]
    /\ left = Budget
-----------------------------------------------------------------------------
Line(p) == Head(tosay[p])
Ended == {"stopped", "dead"}
Goto(p, where) == pc' = [pc EXCEPT ![p] = where]

Disturb(kind) ==
    /\ left[kind] > 0
    /\ left' = [left EXCEPT ![kind] = @ - 1]

(* _append: after one failure a process does not open that file again. *)
Append_(p, f, appended, unchanged) ==
    \/ f \notin failed[p] /\ appended /\ UNCHANGED <<failed, left>>
    \/ /\ f \notin failed[p] /\ Disturb("disk") /\ unchanged
       /\ failed' = [failed EXCEPT ![p] = @ \cup {f}]
    \/ f \in failed[p] /\ unchanged /\ UNCHANGED <<failed, left>>

(* What the file holds when `new` is written at its beginning. *)
Overwrite(file, new) == new \o SubSeq(file, Len(new) + 1, Len(file))

(* The lines a launch finds in the file: none under another launch's id. *)
BugAnyLaunch(file, run) == ToSet(file)
Remembered(file, run) ==
    IF file # <<>> /\ Head(file) = run THEN ToSet(Tail(file)) ELSE {}

IsOurs(file, run) == file # <<>> /\ Head(file) = run

-----------------------------------------------------------------------------
(* enforce: what was recorded for the owner already is left out, the rest   *)
(* is recorded, then said line by line; a decision to stop stops the run    *)
(* also when it was left out.                                               *)
Enforce(p, batch) ==
    LET handed == ToSet(batch.decisions)
    IN  /\ pc[p] = "idle" /\ calls[p] < CallBound[p]
        /\ known' = [known EXCEPT ![p] = IF batch.owned THEN done[p] ELSE {}]
        /\ done' = [done EXCEPT ![p] = IF batch.owned THEN @ \cup handed ELSE @]
        /\ towrite' = [towrite EXCEPT ![p] = batch.decisions]
        /\ tosay' = [tosay EXCEPT ![p] = batch.decisions]
        /\ stops' = [stops EXCEPT ![p] = handed \cap Blocking # {}]
        /\ calls' = [calls EXCEPT ![p] = @ + 1]
        /\ Goto(p, "ask")
        /\ UNCHANGED <<said, kept, silenced, failed, left>>

Record(p) ==
    /\ pc[p] = "ask" /\ towrite[p] # <<>>
    /\ IF Head(towrite[p]) \in known[p]
       THEN UNCHANGED <<record, failed, left>>
       ELSE Append_(p, "record", record' = record \cup {<<p, Head(towrite[p])>>}, record' = record)
    /\ towrite' = [towrite EXCEPT ![p] = Tail(@)]
    /\ UNCHANGED <<said, log, console, silenced, done, known, pc, tosay, stops, calls>>

NotSaid(p) == Line(p) \in Passes \cup known[p]

Skip(p) ==
    /\ pc[p] = "ask" /\ towrite[p] = <<>> /\ tosay[p] # <<>> /\ NotSaid(p)
    /\ tosay' = [tosay EXCEPT ![p] = Tail(@)]
    /\ UNCHANGED <<said, kept, silenced, failed, done, known, pc, towrite, stops, calls, left>>

BugStopsAreAsked(p) == FALSE
SaidAnyway(p) == Line(p) \in Blocking

(* said_in_this_launch, first part: the file is read once, and what is done *)
(* with it follows from what was read.                                      *)
Ask(p) ==
    /\ pc[p] = "ask" /\ towrite[p] = <<>> /\ tosay[p] # <<>> /\ ~NotSaid(p)
    /\ IF SaidAnyway(p)
       THEN Goto(p, "print") /\ UNCHANGED silenced
       ELSE IF Line(p) \in Remembered(said, Run[p])
       THEN Goto(p, "log") /\ silenced' = silenced \cup {<<p, Line(p)>>}
       ELSE /\ Goto(p, IF IsOurs(said, Run[p]) THEN "remember" ELSE "startover")
            /\ UNCHANGED silenced
    /\ UNCHANGED <<said, kept, failed, done, call, calls, left>>

Remember(p) ==
    /\ pc[p] = "remember"
    /\ Append_(p, "said", said' = Append(said, Line(p)), said' = said)
    /\ Goto(p, "print")
    /\ UNCHANGED <<kept, silenced, done, call, calls>>

(* open(path, "w"): the file is empty from here until the text is written. *)
StartOver(p) ==
    /\ pc[p] = "startover"
    /\ \/ said' = <<>> /\ Goto(p, "fill") /\ UNCHANGED left
       \/ Disturb("disk") /\ Goto(p, "print") /\ UNCHANGED said
    /\ UNCHANGED <<kept, silenced, failed, done, call, calls>>

Fill(p) ==
    /\ pc[p] = "fill"
    /\ \/ said' = Overwrite(said, <<Run[p], Line(p)>>) /\ UNCHANGED left
       \/ Disturb("disk") /\ UNCHANGED said
    /\ Goto(p, "print")
    /\ UNCHANGED <<kept, silenced, failed, done, call, calls>>

Say(p) ==
    /\ pc[p] = "print"
    /\ console' = console \cup {<<p, Line(p)>>}
    /\ Goto(p, "log")
    /\ UNCHANGED <<said, record, log, silenced, failed, done, call, calls, left>>

BugLogsThePrinted(p) == {<<p, Line(p)>>} \cap console
Logged(p) == {<<p, Line(p)>>}

Log(p) ==
    /\ pc[p] = "log"
    /\ Append_(p, "log", log' = log \cup Logged(p), log' = log)
    /\ tosay' = [tosay EXCEPT ![p] = Tail(@)]
    /\ Goto(p, "ask")
    /\ UNCHANGED <<said, record, console, silenced, done, known, towrite, stops, calls>>

(* Every line is said: the call returns, or raises the decision to stop,    *)
(* which ends the process or, in a server, only the request.                *)
Return(p) ==
    /\ pc[p] = "ask" /\ towrite[p] = <<>> /\ tosay[p] = <<>>
    /\ \/ Goto(p, "idle")
       \/ stops[p] /\ Goto(p, "stopped")
    /\ UNCHANGED <<said, kept, silenced, failed, done, call, calls, left>>

Kill(p) ==
    /\ pc[p] \notin Ended \cup {"idle"}
    /\ Disturb("kill")
    /\ Goto(p, "dead")
    /\ UNCHANGED <<said, kept, silenced, failed, done, call, calls>>

Works(p) ==
    \/ Record(p) \/ Skip(p) \/ Ask(p) \/ Remember(p) \/ StartOver(p)
    \/ Fill(p) \/ Say(p) \/ Log(p) \/ Return(p)

Next ==
    \E p \in Procs :
        \/ \E batch \in Batches : Enforce(p, batch)
        \/ Record(p) \/ Skip(p) \/ Ask(p) \/ Remember(p) \/ StartOver(p)
        \/ Fill(p) \/ Say(p) \/ Log(p) \/ Return(p) \/ Kill(p)

Spec == Init /\ [][Next]_vars

(* A process inside enforce goes on until it returns. *)
FairSpec == Spec /\ \A p \in Procs : WF_vars(Works(p))
-----------------------------------------------------------------------------
(* Properties *)

Undisturbed(kind) == left[kind] = Budget[kind]
Together(p) == {q \in Procs : Run[q] = Run[p]}

(* Every variable keeps its type, and a process has a line while it asks    *)
(* for it, remembers it, prints it or logs it.                              *)
TypeOK ==
    /\ said \in Seq(Runs \cup Lines)
    /\ record \subseteq Procs \X Lines
    /\ log \subseteq Procs \X Lines
    /\ console \subseteq Procs \X (Lines \ Passes)
    /\ silenced \subseteq Procs \X (Lines \ (Passes \cup Blocking))
    /\ failed \in [Procs -> SUBSET Files]
    /\ done \in [Procs -> SUBSET Lines] /\ known \in [Procs -> SUBSET Lines]
    /\ pc \in [Procs -> {"idle", "ask", "remember", "startover", "fill", "print",
                         "log"} \cup Ended]
    /\ towrite \in [Procs -> Seq(Lines)]
    /\ tosay \in [Procs -> Seq(Lines)]
    /\ stops \in [Procs -> BOOLEAN]
    /\ calls \in [Procs -> Nat]
    /\ left \in [Disturbances -> Nat]
    /\ \A p \in Procs : pc[p] \in {"remember", "startover", "fill", "print", "log"} =>
           /\ tosay[p] # <<>>
           /\ ~NotSaid(p)

(* "Whether a process of this launch already said the line": a line is kept *)
(* off the console only when a process of the same launch printed it or is  *)
(* about to, whatever the processes of the launch do at the same time. A    *)
(* kill may come between a process's remembering a line and its print.      *)
SilencedWasSaid ==
    Undisturbed("kill") =>
        \A s \in silenced : \E q \in Together(s[1]) :
            \/ <<q, s[2]>> \in console
            \/ pc[q] = "print" /\ Line(q) = s[2]

(* A process that was stopped has printed a decision that stops, also when  *)
(* another process printed it, or its own owner recorded it, before.        *)
StopIsSaid ==
    \A p \in Procs : pc[p] = "stopped" => \E l \in Blocking : <<p, l>> \in console

(* "The record keeps every decision": what a process printed or kept off    *)
(* the console is in the record, and in the log once the line is done with, *)
(* unless that file could not be written.                                   *)
TraceKept ==
    \A s \in console \cup silenced :
        LET p == s[1]
            underway == pc[p] = "log" \/ pc[p] = "dead"
        IN  /\ s \in record \/ "record" \in failed[p]
            /\ s \in log \/ "log" \in failed[p] \/ underway

(* Every line handed over is printed by some process of the launch, unless  *)
(* a process was killed.                                                    *)
EveryLineSaid ==
    \A p \in Procs : \A l \in Lines \ Passes :
        (l \in ToSet(tosay[p]) /\ pc[p] \notin Ended) ~>
            ((\E q \in Together(p) : <<q, l>> \in console) \/ ~Undisturbed("kill"))
=============================================================================
