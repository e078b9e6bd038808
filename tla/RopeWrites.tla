----------------------------- MODULE RopeWrites -----------------------------
(***************************************************************************)
(* RoPE settings written under their old names on a config that is built    *)
(* (adapters/rope_alias.py), remembered as the user's declaration on the    *)
(* object and, by model folder, in the environment (load.declare_on), and   *)
(* compared when a model is loaded with the config (load.declared,          *)
(* load.rotary_held).                                                       *)
(*                                                                         *)
(* An engine copies its configs and sends them, pickled, to processes it     *)
(* started earlier or later; they are collected, and others are built at     *)
(* their address. A RoPE is its scaling and its base. One model folder, a   *)
(* flat rope_parameters, a rope_scaling without a base of its own (as the    *)
(* old spelling has it) and never None; nobody writes rope_parameters.       *)
(***************************************************************************)
EXTENDS Contracts

CONSTANTS
    Procs, First,  \* processes, and the one the user starts
    Addresses,     \* where configs may lie
    Home,          \* the process of an address
    Thetas,        \* bases
    InFile,        \* what config.json declares
    Settings,      \* policies
    MaxWrites,     \* bound on the writes
    MaxFaults      \* bound on the failures inside entail

Scalings == {"default", "linear"}
Ropes == [scaling : Scalings, theta : Thetas \cup {None}]

ASSUME FirstAssumption == First \in Procs /\ Home \in [Addresses -> Procs]
ASSUME RopeAssumption == None \notin Thetas \cup Scalings \cup Ropes /\ InFile \in [scaling : Scalings, theta : Thetas]
ASSUME SettingAssumption == Settings \subseteq Policies
ASSUME BoundAssumption == {MaxWrites, MaxFaults} \subseteq Nat
ASSUME PrecedenceAssumption ==
    /\ Precedence \in Seq(STRING)
    /\ \A kind \in {"file", "config"} : Rank(Fact("user", None)) < Rank(Fact(kind, None))

VARIABLES
    setting,  \* the policy, the same in every process of the launch
    running,  \* processes that run
    ended,    \* processes a decision stopped
    env,      \* ENTAIL_DECLARED: what each process reads for the folder
    user,     \* _USER: the declaration on the config at an address
    configs,  \* the config at each address
    writes,   \* writes so far
    faults    \* failures inside entail so far

vars == <<setting, running, ended, env, user, configs, writes, faults>>

(* A config: where it was read from, rope_parameters, and the attribute        *)
(* rope_theta. History: what the user meant it to be, the write that says so,  *)
(* whether a decision said that something was lost, and who declared the last   *)
(* write: none was made, this object, the one it is a copy of, or entail failed. *)
Nothing == [at |-> "none"]
Config(at) ==
    [at |-> at, rope |-> InFile, attr |-> None, meaning |-> InFile, write |-> 0, said |-> FALSE,
     by |-> "none"]
Unstated == [rope |-> None, write |-> 0]

Init ==
    /\ setting \in Settings
    /\ running = {First} /\ ended = {}
    /\ env = [p \in Procs |-> Unstated]
    /\ user = [a \in Addresses |-> Unstated]
    /\ configs = [a \in Addresses |-> Nothing]
    /\ writes = 0 /\ faults = 0

Held(a) == Home[a] \in running /\ configs[a] # Nothing
Free(a) == Home[a] \in running /\ configs[a] = Nothing
Put(a, c) == configs' = [configs EXCEPT ![a] = c]
-----------------------------------------------------------------------------
(* Configs come and go. A deep copy and a pickle carry the config's attributes *)
(* and share nothing with it (a shallow copy, which would share the dict the    *)
(* handle edits in place, is left out); the entry of _USER is the object's own, *)
(* and a collected object takes it along (ByObject: the weak reference's         *)
(* callback, and get compares the object).                                      *)
Build(a, at) ==
    /\ Free(a)
    /\ Put(a, Config(at))
    /\ UNCHANGED <<setting, running, ended, env, user, writes, faults>>

Send(a, b) ==
    /\ Held(a) /\ Free(b)
    /\ Put(b, [configs[a] EXCEPT !.by = IF @ = "own" THEN "copied" ELSE @])
    /\ UNCHANGED <<setting, running, ended, env, user, writes, faults>>

BugKeepsEntry(a) == user
Forgotten(a) == [user EXCEPT ![a] = Unstated]

Collect(a) ==
    /\ Held(a)
    /\ Put(a, Nothing)
    /\ user' = Forgotten(a)
    /\ UNCHANGED <<setting, running, ended, env, writes, faults>>

(* A child inherits the environment as it is when it starts.                    *)
Spawn(p, q) ==
    /\ p \in running /\ q \in Procs \ (running \cup ended)
    /\ running' = running \cup {q}
    /\ env' = [env EXCEPT ![q] = env[p]]
    /\ UNCHANGED <<setting, ended, user, configs, writes, faults>>
-----------------------------------------------------------------------------
(* A write of an old name. It is entail's where rope_parameters still has its   *)
(* base (applies), and no new declaration where the attribute holds the value   *)
(* already (read_choice).                                                       *)
Keys == {<<"rope_theta", t>> : t \in Thetas} \cup {<<"rope_scaling", s>> : s \in Scalings}

Applies(c) == c.rope.theta # None

BugAnyRestates(c, k) == k[1] = "rope_theta" /\ c.attr # None
Restates(c, k) == k[1] = "rope_theta" /\ c.attr = k[2]

(* What config.json would mean by it (_file_route), and what the model reads if *)
(* transformers performs it as it does (_engine_route).                         *)
BugDropsBase(c, k) ==
    IF k[1] = "rope_theta" THEN [c.rope EXCEPT !.theta = k[2]] ELSE [scaling |-> k[2], theta |-> None]
AsFile(c, k) ==
    IF k[1] = "rope_theta" THEN [c.rope EXCEPT !.theta = k[2]] ELSE [c.rope EXCEPT !.scaling = k[2]]
AsEngine(c, k) ==
    IF k[1] = "rope_theta" THEN c.rope ELSE [scaling |-> k[2], theta |-> None]

(* The user means the last base and the last scaling written.                   *)
Means(meaning, k) ==
    IF k[1] = "rope_theta" THEN [meaning EXCEPT !.theta = k[2]] ELSE [meaning EXCEPT !.scaling = k[2]]

WriteOf(c, k) == IF Means(c.meaning, k) = c.meaning THEN c.write ELSE writes + 1

Written(c, k, rope, said, by) ==
    [c EXCEPT !.rope = rope, !.attr = IF k[1] = "rope_theta" THEN k[2] ELSE @,
              !.meaning = Means(@, k), !.write = WriteOf(c, k), !.said = @ \/ said, !.by = by]

(* declare_on: what the write means, and (history) which one it is.              *)
DeclareOn(a, k) ==
    LET stated == [rope |-> AsFile(configs[a], k), write |-> WriteOf(configs[a], k)]
    IN  /\ user' = [user EXCEPT ![a] = stated]
        /\ env' = IF configs[a].at = "folder" THEN [env EXCEPT ![Home[a]] = stated] ELSE env

Unheard == UNCHANGED <<user, env>>

AWrite(a) ==
    /\ Held(a) /\ writes < MaxWrites
    /\ writes' = writes + 1
    /\ UNCHANGED setting

(* The write goes by entail.                                                     *)
Pass(a, k) ==
    LET c == configs[a] IN
    /\ AWrite(a)
    /\ ~Applies(c) \/ Restates(c, k)
    /\ Put(a, Written(c, k, AsEngine(c, k), FALSE, c.by))
    /\ Unheard /\ UNCHANGED <<running, ended, faults>>

(* rotary_write decides; the handle, or transformers, performs it; a decision    *)
(* that stops raises before anything is written, with the declaration made.      *)
Decided(a, k) ==
    LET c == configs[a]
        verdict == Verdict(<<Fact("user", AsFile(c, k))>>, AsEngine(c, k), setting, TRUE)
    IN  /\ AWrite(a) /\ Applies(c) /\ ~Restates(c, k)
        /\ DeclareOn(a, k)
        /\ IF Blocks(verdict)
           THEN running' = running \ {Home[a]} /\ ended' = ended \cup {Home[a]} /\ UNCHANGED configs
           ELSE /\ Put(a, Written(c, k, IF verdict = "resolved" THEN AsFile(c, k) ELSE AsEngine(c, k),
                                     verdict = "broken", "own"))
                /\ UNCHANGED <<running, ended>>
        /\ UNCHANGED faults

(* entail fails, before or after the declaration is made: that is said, and      *)
(* transformers performs the write (safely).                                     *)
Failed(a, k) ==
    LET c == configs[a] IN
    /\ AWrite(a) /\ Applies(c) /\ ~Restates(c, k) /\ faults < MaxFaults
    /\ faults' = faults + 1
    /\ Put(a, Written(c, k, AsEngine(c, k), TRUE, "failed"))
    /\ Unheard \/ DeclareOn(a, k)
    /\ UNCHANGED <<running, ended>>
-----------------------------------------------------------------------------
(* A model is loaded with the config: what the files, the object and the         *)
(* environment declare (declared) against the RoPE it holds (rotary_held).       *)
Stated(d) == IF d = Unstated THEN <<>> ELSE <<Fact("user", d.rope)>>

Declared(a) ==
    IF configs[a].at = "folder"
    THEN <<Fact("file", InFile)>> \o Stated(user[a]) \o Stated(env[Home[a]])
    ELSE <<Fact("config", configs[a].rope)>> \o Stated(user[a])

(* Whether the declaration of the config's last write can reach this load: it was *)
(* made on the object, or on a config of the folder, last of all, in this process  *)
(* or in its parent before it started.                                            *)
Told(a) ==
    LET c == configs[a] IN
    c.by # "failed" /\ (c.by = "own" \/ c.at = "code" \/ env[Home[a]].write = c.write)

LoadSays(a) == Verdict(Declared(a), configs[a].rope, setting, FALSE)

(* A load changes nothing unless its decision stops the process.                  *)
Load(a) ==
    /\ Held(a) /\ Blocks(LoadSays(a))
    /\ running' = running \ {Home[a]} /\ ended' = ended \cup {Home[a]}
    /\ UNCHANGED <<setting, env, user, configs, writes, faults>>

Next ==
    \/ \E p, q \in Procs : Spawn(p, q)
    \/ \E a \in Addresses :
          \/ \E at \in {"folder", "code"} : Build(a, at)
          \/ \E b \in Addresses : Send(a, b)
          \/ \E k \in Keys : Pass(a, k) \/ Decided(a, k) \/ Failed(a, k)
          \/ Collect(a)
          \/ Load(a)

Spec == Init /\ [][Next]_vars
-----------------------------------------------------------------------------
(* A model is not loaded in silence with another RoPE than its user meant: the   *)
(* load's decision says so, or the one at the write did, whatever was copied,     *)
(* sent or collected in between (rotary_write, rotary_held).                      *)
LossIsSaid ==
    \A a \in Addresses :
        Held(a) /\ LoadSays(a) = "pass" => configs[a].rope = configs[a].meaning \/ configs[a].said

(* A load that is called broken has another RoPE than its user meant, whatever     *)
(* objects lay at its address before and wherever its config was sent              *)
(* (ByObject.get, _declared_in_env). Excepted are a config at whose last write      *)
(* entail failed, and a copy of a folder's config after another config's write, or  *)
(* in a process started before the write (declare_on): Told.                        *)
NoFalseBreak ==
    \A a \in Addresses :
        Held(a) /\ Told(a) /\ LoadSays(a) \in {"broken", "refused"} =>
            configs[a].rope # configs[a].meaning

(* Under a policy that repairs, what was written under an old name is what the    *)
(* model reads, in every order of writes and on every copy (handles), unless       *)
(* entail itself failed and said so.                                               *)
LastWriteHolds ==
    setting.repairs =>
        \A a \in Addresses :
            Held(a) /\ ~configs[a].said => configs[a].rope = configs[a].meaning
=============================================================================
