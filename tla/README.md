# A verification development of entail

entail watches inference engines (vLLM, SGLang, transformers, image pipelines)
for losses of meaning: a declared fact the engine ignores, memory nothing wrote,
a cache that is a token short, a scale that belongs to another value, two
execution paths that disagree. Most of its code is Python that decides something
once. The part that is hard to get right is what happens over time and at
boundaries: decisions kept in files that several processes share, wrappers
around loaders that run on several threads, books kept across the updates of a
cache, meanings attached to memory that is written and issued again, a gate
whose operands may change under it, a search that goes on over many starts. These TLA+
modules model that part, TLC checks them on small instances, and TLAPS proves
most of what the runs check as invariants for every value of the constants.

Source lines are cited as `file.py:line`, relative to `src/entail/`.


## 1. The system: components, state, operations

**Selective safe path** (`safe_mode.py`, `adapters/vllm_safe.py`,
`sglang_safe.py`). State: `safe_paths.json` (per configuration: status,
candidates, tried, off), `safe_last.json` (what disagreed at the last start with
nothing off), `safe_mode.json` / `ENTAIL_SAFE`, and `LAST` in the process.
Operations: `plan`, `started`, `after_self_check`. It is called by the engine's
configuration builder and by the path self-check. Hard: the state lives in files
that nothing locks; the search spans many starts, each of which may die, be
refused or have another command line. Correct when what is said and turned off
is true, one optimization is off at a time, and the search ends.

**Path self-check** (`path_contract.py`, `adapters/*_paths.py`). Runs probes on
a fresh engine by two paths each and compares the tokens. State: none between
starts. It feeds the safe path. Correct when the verdict follows the threshold
(pure).

**Saying and recording decisions** (`record.py`, `load.enforce`). State: the
record, the log, `said.txt`, `_ENFORCED` per owner, `_WARNED`. Every other part
ends here. Hard: the processes of one launch, and other launches, append to the
same files; a decision that stops must not disappear because someone else said
it. Correct when a line is said at least once by the launch, a stopped process
said why, and the record keeps everything.

**Memory nothing wrote** (`lifetime.py`, `adapters/loaders.py`). State:
`_STATE` (windows and assemblies open), `_MARKED`, `_PENDING`, hooks on modules.
Operations: `load_window`, `loaded`, the pre-hook, `assembly`, `_settle`.
Hard: threads, nested windows, a load that raises, an engine that replaces parts
before the first run. Correct when reads of unwritten memory are reported, none
other is, and the mark changes no value.

**KV containers** (`kv_contract.py`, `adapters/cache_contract.py` and the vLLM
and SGLang cache adapters). State: per cache the last lengths, the round, device
flags. Operations: `grew` at every layer's update, `flush`, `check`, `request`.
Hard: rounds are recognised from layer numbers only; captured forwards go
unseen. Correct when a lost token breaks a rule and a healthy engine breaks none.

**Value epochs** (`epochs.py`). State: epochs per buffer, a record per live
value, conditions per artifact. Operations: `advance`, `live`, `carried`,
`bind`, `read`, `assume`, `reuse`. Hard: a value made at one epoch and read at
another. Correct when no stale read is silent and no fresh one is reported.

**Step tallies** (`tally.py`, `sites.py`). State: counts, owners and keys seen,
boundaries left alone. Shared by the two above. Correct when a break is recorded
once and an error in entail never breaks the engine.

**Guarantee profile** (`guarantee.py`, `writeguard.py`, `inkernel.py`,
`adapters/vllm_block_fp8_guarantee.py`). State: what was issued (`_ISSUED`,
`_EPOCHS`), the ranges under watch, captured graphs and the pinned copies of
their flags. Operations: issue, bind, gate, consume, capture, replay, release.
Hard: writes between issue, look and use; buffers issued again; replays of a
captured graph in which no Python runs. Correct when a consumer is handed the
product of what was issued or is refused.

**Kernel meanings** (`kernel_types.py`, `kernel_ir.py`). A type system over Triton IR:
from the kernel alone it decides whether a launch computes its output's meaning.
State: none between launches. Hard: masks, windows, groups and sums that look right on
most shapes. Correct when what is proven is right, and what is called a violation is
wrong.

**Launch check** (`kernel_check.py`). State: meanings on tensors (`_FACTS`),
registered byte ranges (`_EXTENT`, `_ALIASED`), versions, kept verdicts (`_VERDICTS`
and `types-cache.jsonl`). Operations: attach, collect, torch writes, launch.
Hard: storages over one memory, meanings that outlive the bytes they were given to,
verdicts kept by configuration. Correct when reads of changed bytes are
said, right launches are not called broken, and proven pairings are right.

**Contract decisions** (`contracts.py`, `policies.py`, `sources.py`, `caps.py`,
`facts.py`). Pure functions from facts, capabilities and policy to a decision.
Correct when a mismatch is repaired only under a rule that says so, and a
user's fact outranks the files.

**Load-time contracts and resolution** (`load.py`, readers and manifests,
`adapters/rope_alias.py`). State: the declarations `declare_on` keeps, by object
(`_USER`) and by folder (`ENTAIL_DECLARED`). Hard: objects that are copied, pickled, collected
and built at the same address; settings written one after the other. Correct
when a loaded model has the RoPE its user meant, or something was said.

**Custom nodes and DLC** (`nodes.py`, `dlc.py`). State: failed nodes, what was
left out. A developer's checks run on threads of their own. Correct when a node
that fails or hangs is left alone and said to be.

**Platform** (`platform/`). A local page over the record; writes
`safe_mode.json` (`SafePath`'s `ModeChanges`) and the nodes file, each put in place
whole. Correct when a write token works once; it is tested and replaced under one lock.

**Identity and cache keys** (`identity_contract.py`, `cache_key_contract.py`).
A store keyed by hashes must not hand out another identity's item.

**Start-up activation** (`hook.py`, `adapters/autoinstall`). The import watcher
that installs adapters. Correct when each is installed once, in any import order.

**Request, adapter, layout and image contracts; kernel launch and reference
checks; boundaries and signatures; core side table; diagnosis; front end;
command line; evaluation and release scripts.** One comparison per call with
little or no state that survives it.

They meet in these places. Every component hands its decisions to
`load.enforce`. The path self-check drives the safe path, and the platform's page writes the
mode it reads. The cache adapter calls the KV books, the epochs and the
tallies in one update. The guarantee's producers and gate share memory with
everything that writes to it, and `writeguard` is told of both. The launch check
asks the kernel rule for a verdict and keeps it. The load contracts compare with
`contracts.decide`.

`PROJECT.json` lists the source files of every component, which are modelled,
and why the others are not.


## 2. The modules

| module | what it is |
|---|---|
| `CauseSearch` | abstract: what the selective safe path promises |
| `SafePath` | the safe path with its files, processes, settings and failures |
| `SaidOnce` | `enforce`, the record, the log and `said.txt` between processes |
| `Lifetime` | load windows, marks, hooks and assemblies between threads |
| `CacheSteps` | the KV books and the epochs of one cache, step by step |
| `Handover` | abstract: what the guarantee profile promises one consumer |
| `Guarantee` | issue, write, gate, consume and release of eager calls |
| `GuaranteeReplay` | extends `Guarantee` by capture and replay of a graph |
| `KernelTypes` | the rule on a Triton kernel beside what the device computes |
| `LaunchCheck` | meanings attached to memory and the check of every launch |
| `Contracts` | pure: `pick`, `agree` and `decide` |
| `RopeWrites` | `Contracts` at work: RoPE settings written, carried and loaded |
| `MC...` | values for TLC |
| `..._proofs` | theorems: `SafePath`, `SaidOnce`, `Lifetime`, `CacheSteps`, `GuaranteeReplay` (those of `Guarantee` included), `KernelTypes`, `LaunchCheck`, `RopeWrites` |

Definitions named `Bug...` are wrong variants, one plausible mistake each. No
behaviour uses them; they show that a property can fail.

### CauseSearch and SafePath

`CauseSearch` has per configuration a verdict, its candidates, the ones still
untried, and the one blamed. Its actions are `Suspect`, `RuleOut`, `Confirm` and
`Reopen`: the docstring of `safe_mode.py` (lines 6-11) as a state machine.

`SafePath` is the code. `store` and `last_on` are the two JSON files, each
replaced whole by `Save`; `seen` and `book` are the copies a process loaded
before (`safe_mode.py:203`, `:219`), so that two processes can overwrite each other's
work exactly where the code lets them. A start goes through

    Plan -> Started (or DecideFails) -> SelfCheck (or ProbesRefused)
         -> ExplicitVerdict | ModeOff | NoteThenSearch -> LoadBook -> MoveOn

`Plan` reads the mode and the store; `Started` reads the mode again and writes
`ctx` (the code's `LAST`), which outlives the build in the process, so that a
later build whose `_decide` failed is judged with it, as in the code. `Kill`,
`Exit`, `ModeChanges` and `UserChanges` are the environment. What is wrong with
an engine is `fault`, a set of causes per path pair; `Shows` says which pairs
disagree for a set of optimizations that are on. Each cause alone makes its pair
disagree, and one outside cause stands for all that is no optimization.

Left out: the text of the lines, options that cannot be turned or are not found
(`missing`, `cannot_turn`), and the comparison of tokens inside a pair.

### SaidOnce

`Enforce` hands a batch over; `Record`, `Skip`, `Ask`, `Remember`,
`StartOver`, `Fill`, `Say`, `Log` and `Return` are the steps of
`load.enforce` (1089-1136) and `record.said_in_this_launch` (164-186), each one
file operation, interleaved freely between processes. `StartOver` and `Fill`
are two steps because `open(path, "w")` empties the file and the text arrives when it
is closed; `Overwrite` is what a write at the beginning leaves of what others
appended meanwhile. `Append_` follows `_append`: after one failure a process
never opens that file again. `known` is what the call finds recorded for its owner
(`_ENFORCED`): `Record` and `Skip` leave those decisions out, while a decision among them
that stops still stops the run.

Left out: `ENTAIL_QUIET` and `ENTAIL_VERBOSE` (taken to be unset), the record's
queries. Launch identifiers are taken to have equal length.

### Lifetime

A tensor is one allocation with an owner, a `kind` (free, loose object,
parameter, replaced, ousted) and a `content` (raw, mark, zero, written in its load, or
written `late`, when its model was loaded). Models and tensors are numbers, in the order
they are loaded and allocated. The window is
`Enter`, `Outermost`, `LeaveMode`, `Close`; `loaded` is `Look` and `Restore`,
two steps because other threads run in between; `Nest` and `Unnest` are a
`load_model` that calls another. `Run` is a module's forward: its hook fires once, looks
without the lock whether an assembly is open (`lifetime.py:389`) and reports, or goes on to
`HoldBack`, which appends to `_PENDING` under the lock (392-393); the last assembly may end and be
settled in between. `EndAssembly` and `Settle` settle what was held. `Allocate`,
`MakeParameter`, `Write` and `Replace` are the engine; it may also write a parameter of a
loaded model before its first run (`LateBound` of them). `Replace` takes a parameter out
with its module (replaced) or out of a module that stays (ousted).

Left out: how many elements are unwritten (whether some are is kept), and the
readers at kernel launches and in captured graphs, which belong to `kernel_check.py`.

### CacheSteps

One cache of transformers, dynamic (lengths are ints) or static (lengths are
device tensors written in place), under one policy. A forward is

    Begin -> HandOut -> BuildMask -> (Update -> Attend, or Skip) per layer -> End

or, for a mask the engine made for an earlier forward, `Reuse` in place of the
rest of the offer and the build. A forward that is over (`Over`: at its end, by
a refusal, or by `Interrupt`, an engine's error or an interrupt anywhere in it)
leaves its mask in `kept`, or not. `HandOut` is the wrapped `get_query_offset` (`epochs.live`), `BuildMask` the
wrapped `add_offsets_to_mask_function` (`bind`, `carried`), `Update` the
wrapped `Cache.update` (`grew` or `_defer`, then `advance`), `Attend` the
wrapped flex attention (`epochs.read`). `books` is the entry of `_BOOKS`:
`RoundTarget` is the recognition of a round (`kv_contract.py:252`), `LengthBreaks` and
`LayersBreak` are the rules, and `Grew` keeps their order: under a policy that
stops, a broken length raises before the books are written, the disagreement of
the layers after. A forward may be captured whole or in its layers; captured
steps and boundaries left alone after an error are `Unseen`, and mark the masks
whose counter they write (`Overlooked`). `Drop`, the short update and `Skip` are
an engine's faults; `Interrupt` is none, but it leaves the layers uneven, and the
next round says so (`kv_contract.py:252`): `NoFalseBreak` allows that report only
where they are (`Halfway`, `halted`, `Disagree`). `held`, `lost`, `blurred`,
`jumped`, `halted` say what is true, to compare with what is reported. `Asked`
are the layers a mask is made from: transformers asks the first of each kind.

Left out: the numbers the tallies count, `request` and `check` (comparisons
without memory), `assume` and `reuse`, debug mode (which also stops where entail
could not check), and layers that hold more than they were given.

### Handover, Guarantee and GuaranteeReplay

`Handover` is the promise to one consumer: whoever asks is answered with the
right product or refused, and no call stays without an answer.

`Guarantee` is the code for eager calls of one consumer. A handle is the value
or the scale of the n-th issue; a cell of memory knows which issue's bytes it
holds and, as history, what wrote over them: an operation of this thread, of
another, a Triton launch, or code that neither sees. `Issue` is the
quantizer and the weight processing, `Collect` the finalizers, `Write` and `RefuseWrite`
anything at all at any time, through `writeguard` where the mode uses it. The gate is

    Enter -> Dispatch -> Compare -> Conclude             (check "output": guarantee)
    Enter -> Dispatch -> (LateReads ->) HandOn           (check "static": the structural modes)

one step each because another thread may write in between: `Enter` asks what the gate
asks before anything runs (`Objected`), refuses or admits, and takes the paired scale where
another one or none was given; `Dispatch` starts the kernel on what the bytes are then, and
`LateReads` are the loads of its programs after something wrote the operands meanwhile: the loads of the
dot and those of the in-kernel sums are different ones, and only the first program of a row of A and of
a column of B sums (`inkernel.py:78-94`), so that each may see the write or not;
`Compare` runs the reference on what they are then; `Conclude` takes the sums last and hands on the kernel's
output, the reference's, or nothing; `HandOn` does without a comparison and stops the
device where the in-kernel sums differ. `Fail` is an error of the kernel or of the
checker. `given` records what the last call got, for the properties.

`GuaranteeReplay` extends it: a capture records per gate the quantizer, the
weight and the checks (`CaptureGate`); `BeforeReplay` looks at the weights on
the host; on the device `Remake`, `Launch`, `Look` and `Verify` run gate by gate,
write flags to pinned rows and stop the device; `AfterReplay` reads the flags. It uses the
actions of `Guarantee` for issues, writes and the kernel.

Abstractions: bytes are who wrote them last (a written byte never returns to what
it was); `near` is whether the kernel's output lies within tolerance of the product
of what was issued. A structural mode runs under its own default plan
(`StructureAssumption`). Left out: how a kernel is proven or launched, the layout of
the in-kernel sums, several graphs, the calibration's numbers, the report.

### KernelTypes

A kernel is built one IR operation at a time. Every action does two things: what
the device computes, on data in which no two elements are alike, and what
the checker derives (`coords`, `valid`, `zeroed`, `sums`, `applied`), in the
order of its checks; `Decide` takes the first rule that fails. `LoadTile`,
`MulTile`, `MulRow`, `MulAcc`, `Double`, `Reduce`, `Dot`, `Accumulate` and
`Store` are the operations, `Launch` the final verdict with the coverage of the
output. A choice a right kernel would not make (another scale, another window, a
mask that cuts a row) costs one of `MaxOdd`; after a verdict of unproven nothing more is built.

`overlooked` is a history variable: a sum over lanes a mask left out that do not hold
zero (`SumsMasked`), or an addition of values with different masks, was computed. The
code looks at neither (see the oddities below), and `ProvenIsRight` then still claims the
bounds and the single store of every element, but no meaning.

Over the lanes of a tile a coordinate that never changes is carried and not summed. A tile of one lane
(`OneLane`) therefore gives a row that keeps its k and has no sum, as in the code.

Left out: what data decides (S, Sym, alternatives, data_depth), loops and
branches, other operations.

### LaunchCheck

Storages are byte ranges of which each overlaps at most one other
(`PairAssumption`). The checker knows a storage by the byte it starts at: storages of one start
(`Own`) are one to it. The second is not registered and neither is marked as overlapping; a launch's
write to one moves the versions of both; the bytes stay registered until the last meaning there goes.
`Issue`, `LoadPair` and `LoadPlain` attach meanings (`Attach`:
versions start anew; `Register`: overlaps are found out), `MakeConstant` turns one that is there into a
constant's, `Collect` and `TorchWrite` are the engine, `Launch` is the wrapped launch: verdict decided or taken from
the kept ones, lifetime check (`Unfit`), versions moved before the kernel runs,
the policy's refusal, then the write and the output's new meaning. `mem` says what every byte
really holds. Kernels are "dequant" (o = x * y), "fill" (writes without
reading) and "blind" (writes the checker does not see).

Abstractions: one tensor fills each storage, and storages of one extent have tensors of one
layout, whose entry the later takes over: they are one storage (`LayoutAssumption`); a value and its scale do not overlap;
serials and issues are counted by one counter; of the rule's verdicts only the
pairing of a value with its scale; verdicts of earlier processes are the kept ones. Left out:
views, scopes, pointer tables, Marlin weights, the compiled graph.

### Contracts and RopeWrites

`Contracts` has facts with their kind of source, `Pick` (best by rank, fields
combined when nothing conflicts), `Agrees` and `Verdict`, the order of `decide`
under a policy. `RopeWrites` uses it: configs at addresses are built, deeply copied or
sent to a child (`Send`), collected (`Collect`, with `_USER`'s weak reference) and
replaced by others at the same address (`Build`). A write of an old name goes by entail
(`Pass`), is decided and repaired, broken or refused (`Decided`), or fails inside entail (`Failed`);
`DeclareOn` keeps the declaration on the object and in the environment. `Spawn` starts a child with a copy of the
environment; `Load` is the comparison when a model is loaded. `meaning` is the
history: what its user meant.

Left out: observations, facts only inferred or defaulted, unread choices, the user's
explicit choices, debug mode, per-layer RoPEs, direct writes to rope_parameters, shallow copies,
the other load contracts and the readers.


## 3. What is checked

Every run finishes in under three minutes with `-workers 2`.

    cd tla
    tlc -workers 2 -config SafePathSolo.cfg    MCSafePath
    tlc -workers 2 -config SafePathCrowd.cfg   MCSafePath
    tlc -workers 2 -config SaidOnce.cfg        MCSaidOnce
    tlc -workers 2 -config Lifetime.cfg        MCLifetime
    tlc -workers 2 -config CacheSteps.cfg      MCCacheSteps
    tlc -workers 2 -config Guarantee.cfg       MCGuarantee
    tlc -workers 2 -config GuaranteeReplay.cfg MCGuaranteeReplay
    tlc -workers 2 -config KernelTypes.cfg     MCKernelTypes
    tlc -workers 2 -config RopeWrites.cfg      MCRopeWrites
    tlc -workers 2 -config LaunchCheck.cfg     MCLaunchCheck
    for m in SafePath SaidOnce Lifetime CacheSteps GuaranteeReplay KernelTypes LaunchCheck RopeWrites; do
        tlapm ${m}_proofs.tla
    done

| run | distinct states | what it shows |
|---|---|---|
| `SafePathSolo` | 136 938 | one process after another: the code implements `CauseSearch` (`KeepsPromise`); the search ends if the command line keeps everything on (`Settles`); a single suspected cause ends off for good (`CauseEndsOff`); giving up is reported once (`ReportedOnce`) |
| `SafePathCrowd` | 1 501 180 | two processes race on the store in all modes: entries stay well formed, one optimization off at a time, what is found is the cause, what the explicit mode says is true |
| `SaidOnce` | 79 129 | two processes of one launch: a line kept off a console was printed by another of the launch or is about to be; a stopped process said why; record and log are complete; every line gets said |
| `Lifetime` | 767 040 | two threads: one thread at most marks; no silent read while loads do not overlap, nothing reported that its load wrote, nothing that the engine replaced, the mark reaches no computation, what is held before the last assembly is settled gets settled |
| `CacheSteps` | 8 248 064 | a lost token is noticed at the next update the books see, a disagreement at the end of its round; a healthy engine breaks no rule but the one a forward that ended halfway makes true; no stale read is silent, of this forward's mask or a kept one; breaks are recorded once |
| `Guarantee` | 569 000 | a write, an error or a collected tensor at any step: what is handed on is right, nothing sound is refused, the watch over an issue lasts until it is consumed, and the gate implements `Handover`, its liveness included |
| `GuaranteeReplay` | 222 000 | a captured graph replayed around a write, a reload, a collection or a device fault: what a replay returns is right, the device stops before the next operation reads a wrong output, only gates that ran are counted |
| `KernelTypes` | 337 274 | every kernel of up to ten operations with one odd choice, under every mask and with masked lanes filled or not: what is proven leaves no tensor, stores each element once and computes the output's meaning unless something was overlooked; what is called a violation does not |
| `RopeWrites` | 362 890 | two configs in a parent, one in a child: no model is loaded in silence with another RoPE than meant, none is called broken that has the one meant, and a policy that repairs keeps the last write |
| `LaunchCheck` | 439 153 | values of which two lie over one memory and two start at one byte, weights and scales, launches in any order: overlaps are known, spoiled reads are said, decided pairings are right, no alarm is false |

Two further runs end in a counterexample. Each is a disagreement between
the code and what its own text says:

| run | property | what happens |
|---|---|---|
| `SafePathStuck` (`MCSafePath`) | `SearchEnds` | the next candidate is no longer on in the command line: every start turns nothing off and the search stands still (`safe_mode.py:122` against lines 9-10) |
| `LaunchCheckPairs` (`MCLaunchCheck`) | `KeptPairsAreOwn` | the verdict kept from a right launch proves one of the same shapes in which a value is multiplied by another value's scale: the key keeps of a pair only that there is one (`kernel_check.py:128` against lines 11-13 and the comment at 904) |

### Oddities seen while modelling, without a run

They are what the code does; the properties except them, or they lie in a part
that is left out.

* Safe path. Two candidates that each cause the disagreement end in "outside them",
  since one is off at a time. A cause the user drops while another
  candidate is off gets that one blamed.
* Saying. Two launches in one folder share `said.txt`; lines of one may end under the
  other's identifier.
* Lifetime. A parameter put in place of one that was read as unwritten, in a module the
  engine keeps, is reported in its stead (`lifetime.py:396`). A parameter the engine writes after
  `loaded()` and before its module runs is reported all the same. A hook that saw an open assembly
  and appends its read after the last one was settled leaves it in `_PENDING` until another assembly
  ends (`lifetime.py:389-393`): in a process that assembles once, that read is never said.
* Epochs and KV. A read counts its rule as passed after it counted it as broken (`epochs.py:148`).
  `reuse` forgets an artifact's conditions after `remake`, those that `remake` assumed
  included (`epochs.py:215`). A layer that holds more than it was given counts as
  broken without a rule (`kv_contract.py:232`, since `kv_needed` only asks for enough).
* RoPE. Another config of the same folder in the same process takes over what was
  declared on the first (`ENTAIL_DECLARED`). A base equal to the attribute is taken for a
  restatement. Under a policy that refuses, after a scaling dropped the base,
  later writes of the base go by without a word. A child started before the
  declaration decides without it. A repaired write of the base edits the dict in place
  (`rope_alias.py:192-193`, "so anything already holding the dict sees the change"): a shallow copy of
  the config then reads the new base too, whatever its own user meant. `RopeWrites` copies deeply.
* Guarantee. The in-kernel check says that the kernel itself checks, "at the moment it reads them",
  that its operands are the issued bytes (`inkernel.py:1-2`). It loads them a second time for that, in
  one program per row of A and column of B: a write while the kernel runs can spoil the output of the
  other programs and leave the sums equal. Without `Blind`'s entry for it TLC refutes `HandedOnIsRight`.
* Kernel rule. `_reduce` (`kernel_types.py:1404`) never asks what a masked load left in
  its lanes, and a sum of products with different row masks takes the union of the masks
  (line 1300): without `overlooked`, TLC refutes `ProvenIsRight` in both ways, and the
  proof needs no other exception. A tile wider than the axis
  leaves a tail whose coordinates wrap (lines 1008-1023), which can make a false violation.
  A sum over one lane is no sum to `_reduce` (lines 1425-1426): with `T = 1` TLC refutes
  `NoFalseViolation`, the store of a right kernel being called "not summed over" hidden.
* Launch check. A refused write counts as a write (`_note_writes` comes before
  the refusal). A third storage over the same bytes is missed (neighbours only).
  "unwritten" stays after a kernel fills the parameter. A meaning stays on memory
  that is rewritten without a new one. A copy of a quantized value carries the old pair, so that its
  right scale is called wrong. A kept verdict attaches the first launch's pending serials.
  Two live storages that start at one byte are not reported as sharing memory, as
  `_register_extent` returns at a known start (line 191): a value read after a launch wrote the other is said
  nothing of, a constant is said to be changed. `set_life` on a tensor written since its meaning was attached
  (line 242) makes the constant of what the memory holds by then, under the old names and serials.

### What the properties except, and why

A property that speaks of undisturbed runs names the disturbances it excepts,
and each exception is a thing the code cannot see or does not claim.
`OneOffAtATime` excepts a mode change between the two readings of the mode and a failing
`_decide`. `FoundIsCause` excepts a changed command line (above), `ReportedOnce` a lost save.
`SilencedWasSaid` and `EveryLineSaid` except a process killed between
remembering a line and printing it. `ReadsReported` and `MarkHarmless` except
loads that overlap on two threads: then the first load's `loaded` finds a window
open and returns; `ReportedWasRead` excepts the ousted parameter above and, for the second half of
its claim (that it ran unwritten), one written after its load; that nothing wrote it during the load
has no exception. `ReadsReported` counts a held read as told, `HeldIsSettled` only promises an end
to what is held while an assembly is open or about to be settled.
`LossNoticed` excepts a layer that grew unseen (captured, or
its last look was refused) and one a window caps. `NoSilentStale` excepts
a read that is captured or whose boundary was said to be left alone, and a mask that was made, or
whose counter was written, where entail did not look: once `Cache.update` is left alone no epoch
advances any more, and the reads of a mask pass as fresh.
`RecordedOnce` excepts a static cache's `kv_needed`, which `flush` records without naming a cache.
`HandedOnIsRight` excepts, in the structural modes only, the writes their integrity says it
cannot see (`Blind`) and faulty scales, which they do not look at; for `inkernel` that is a write
while the kernel runs, not one before it. The guarantee mode has no exception: it takes its sums
after the last read. `ReplayIsRight`, `StopsInTime` and `CountedGatesRan` except the same.
`RopeWrites`' `NoFalseBreak` excepts a config at whose last write entail failed, and a
copy of a folder's config after another one's write or in a child started before (`Told`);
`LastWriteHolds` needs a policy that repairs. `SpoiledIsSaid` and `OwnScaleProven`
except writes the checker does not follow ("hidden": inference tensors, unknown kernels, a
producer's own fill over another value, any write before `set_life` made a constant of what was there)
and, for values that are no constants, a write that begins at their own first byte, through their storage or
another of that start, without a new meaning ("own"); `NoFalseAlarm` excepts the same and a
policy that stops.

### Bounds, and why they are enough

* **SafePath.** One configuration: entries never mix in the code except
  through whole-file saves, which carry the others unchanged. One process in
  `SafePathSolo` with the full table (four optimizations, three pairs), two
  in `SafePathCrowd` with two optimizations and one pair, where a race needs
  no more. Faults: any single cause showing in any set of pairs, or any set
  of causes of one pair. `Budget` allows each disturbance once; starts are not
  bounded. `ReportBound` counts reports to two.
* **SaidOnce.** Two processes; one calls `enforce` twice; lines of each kind
  (said once, pass, stop); with or without an owner; a file left by another
  launch or none; one kill, one failing write.
* **Lifetime.** Two threads, two models, two tensors, one assembly per thread
  (`AssemblyBound`); a window inside a window; one late write (`LateBound`).
* **CacheSteps.** Three layers, the middle one windowed, so that a round has a
  first, a skipped and a last layer; lengths to three, which is three forwards
  and passes the window of two; two faults (`FaultBound`), since the
  interesting cases are a fault after a fault; one kept mask (`KeptBound`), as masks
  are judged one by one; masks made from the counter of a full or a windowed layer (`Asked`).
* **Guarantee.** One buffer and one weight; three issues (`MaxIssues`), so that a
  buffer is issued again while an older handle is about; two of writes nobody planned, errors
  and collections (`MaxTrouble`); both faults of an issue; five settings, one per mode and one
  the gate must refuse.
* **GuaranteeReplay.** One graph, captured once, of two gates, so that one runs before
  and one after a gate that fails; two replays, so that flags of an earlier one are
  there; four issues; one disturbance.
* **KernelTypes.** Two programs of two rows, three lanes over four elements of
  hidden in groups of two: a tile that ends inside a group, one that ends past
  the axis, and a row another program shares. Data are distinct primes, so that two
  different sums are never equal. Ten operations are
  two tiles, each loaded, multiplied, summed and accumulated, one of them multiplied once more, and a store; one odd choice, since
  each is judged by itself. Masked lanes hold 0 or 1. A tile of one lane is not an instance of the run: every
  kernel that sums over one is called a violation (the oddities above).
* **RopeWrites.** A parent and a child, two addresses in the parent and one in the
  child, two bases, two writes, one failure; every policy that records conflicts, and one that
  stops at them.
* **LaunchCheck.** Four values, of which two overlap in the middle and two start at one byte, and one scale
  that every issue fills again; four stamps (two issues, or one and two meanings), two steps, one kept
  configuration, both policies. A claim about what the next launch would read takes no step.

Symmetry is used for processes in `SafePathCrowd` and for the parent's addresses in
`RopeWrites`, neither of which has liveness. Deadlock is checked for `SafePath`, which
never stops; the other systems end.

### Fairness

`SafePath`: weak fairness of each process's steps inside a start (an engine that
is starting goes on) and strong fairness of some process planning each
configuration (a configuration people use is started again and again; strong, as
processes are busy in between). Kills, refusals, failures and settings changes are
not fair. `SaidOnce`: weak fairness of a process inside `enforce`, which has no
lock to wait for. `Lifetime`: weak fairness of the steps that close windows and
assemblies and of the append, strong fairness of leaving a window, which nested loads may disable
again and again. `Guarantee`: weak fairness of the gate's own steps: a call that was
admitted runs on in its thread; that it is asked for is not assumed. The others claim no liveness.


## 4. What is proved

Every theorem holds for every value of the constants that meets the assumptions
named in the component's module (sets of processes, layers, tensors or storages
of any size, any table, any bound), unless it names one more. TLC evaluates the
assumptions in every run. A proof module extends its component's module; the
invariant of the proof is written out in it, with what each part is for.

`SafePath_proofs`:

* `TypeCorrect`: `Spec => []TypeOK`. Its last conjunct (a process inside
  `after_self_check` has a noted start) is what the steps after `SelfCheck`
  rely on when they read `LAST`.
* `EntriesWellFormed` (`StoreWellFormed`). The store alone is not
  inductive: a process may write back an old copy. `EntriesInv` adds that every
  copy a process holds (`book`) is well formed, too. One lemma shows that
  `NextEntry` keeps an entry well formed whatever was seen and turned off; then any
  interleaving of loads and saves moves well-formed entries around.
* `OneAtATime` (`OneOffAtATime`). `OneOffInv` adds to `EntriesInv`:
  `Searching` (a process inside a search noted the mode auto), budgets only
  shrink, and, while neither the mode has changed nor a `_decide` has failed
  (`Steady`), `OneOff`: at most one optimization is off in every entry of the
  store, in every copy of it, in a start planned under auto and in a start noted
  under auto. The entries are needed because a start with a verdict turns off
  what the entry says, and the start because a verdict writes what it had turned
  off; without the budgets' part a step could undo that something was disturbed.
* `FoundIsTrue` (`FoundIsCause`) and `SaidIsTrue` (`SaysAreTrue`). `VerdictInv`
  adds that every entry and copy says the truth (`CausesTrue`), that `safe_last.json` and its copies
  hold what the configuration shows with nothing off (`LastTrue`), and that a start has off what
  it says (`StartTrue`); `Explicit` follows what is compared into what is said.
* `ReportedAtMostOnce` (`ReportedOnce`) and `SearchIsPromised` (`KeepsPromise`), for one
  process at a time: then nothing changes an entry between the plan that reads it and the
  save that moves it on (`OneStart`), so that `MoveOn` is a step of `CauseSearch`
  and no other action touches the store. `SearchIsPromised` also assumes the selective mode and no failing
  adapter; with two processes, or another mode in between, the code does not
  implement the promise.
* `SearchGoesForward`, under the same assumptions and while the command line stays:
  a save of another entry ends the search or takes the candidate that was off from those left
  (`Advances`), so there are at most one more of them than candidates, and a verdict is not reopened.
  `ForwardInv` joins the invariants of the two results above: the entry cannot have changed since the plan
  (`OneStart`), and what was found shows nothing with it off (`CausesTrue`). With two
  processes a save can put an earlier entry back, which TLC shows at once.

`SaidOnce_proofs`:

* `TypeCorrect`: `Spec => []TypeOK`; a process that remembers, prints or logs a
  line has one, and it is not one to leave out.
* `StopsAreSaid` (`StopIsSaid`): a decision that stops and is in the call is still to
  be said, is being printed, or was printed by this process (`Due`).
* `TraceIsKept` (`TraceKept`): what is still to be said or was said is in the record or
  its file failed, once the call has recorded it (`Recorded`); what was said is in
  the log or being logged (`InLog`).
* `SilencedIsSaid` (`SilencedWasSaid`): while nobody was killed, every line of
  `said.txt` was printed or its process is between remembering and printing it (`LinesSaid`).
  It assumes `OneLaunch`: all processes are of one launch and no earlier file
  carries its id. Two launches at once empty the file under each other, and what
  remains may hold the lines of one under the id of the other.
* `RecordedIsSaid`, with `OneLaunch` again: what `enforce` leaves out of a call because its owner
  recorded it before was printed, or is about to be, by a process of the launch. A recorded line that
  is not a pass was printed, kept off the console, or is still to be said by the same call (`Answered`);
  `SilencedIsSaid` does the rest.

`Lifetime_proofs`:

* `CountersCount` (`OneThreadMarks`): `Counted` says that the counters are the numbers of
  open windows and assemblies, also after a load that raised.
* `ReportsAreTrue` (`ReportedWasRead`) and `ReportsAreHeld` (`ReportedIsHeld`), also when
  loads overlap: `Hooked`, `Holds`, `Held` and `Reported` say where a tensor found unwritten may be
  (under a hook, about to be held, held, reported) and `Lacking` that nothing wrote it in its load;
  `LackingStays` is the lemma that no step of any thread changes that, `Told` what its report then means.
* `ReadsAreReported` (`ReadsReported`) and `MarkIsHarmless` (`MarkHarmless`), while no loads
  overlap: `Alone` says that one thread at most is in a load (`Only`), marks while it
  is (`Marks`), that every raw or marked tensor of a load is found by its end (`Fresh`, `FoundAll`), and
  that a model that can run has hooks on all of them and no mark (`Ready`, `Kept`).
* `HeldReadsAreSettled` (`NothingLeftBehind`): with `Counted`, the counter of assemblies comes back
  to zero only at the end that goes on to settle, so the step after which nobody settles any more
  leaves nothing held. What is appended later is not covered, and in the code is left.

`CacheSteps_proofs`:

* `TypeCorrect`: `TypeInv` adds to `TypeOK` that the layers a forward
  has not come to have room for its tokens (`Begin` asks for it once), without
  which an update could pass `MaxLen`.
* `LossIsNoticed` (`LossNoticed`). `BooksRemember` says that a layer
  that never grew unseen holds what its books say, or less if it lost something
  since: the books are the only memory of a loss between two updates.
* `HealthyIsQuiet` (`NoFalseBreak`). `Healthy` says that, unless a forward ended
  between two of them, all layers without a window are level once those still to come are
  counted with their tokens (`Levelled`); that no layer holds less than its books say; and that
  a round that goes on knows the layers it has come past (`Rounds`). `Quiet` is the claim made
  stronger: only `kv_layers` is ever broken, and only while the layers disagree. The recognition of rounds from layer numbers alone rests on this.
* `OddIsFound` (`OddLayerFound`). `TargetHeld` adds that the layer
  that holds the target is at or before the last one updated, which an update
  that keeps the target cannot be.
* `JumpsAreKept`: what a deferred comparison found stays in the flags until `flush`.
* `StaleIsSaid` (`NoSilentStale`), `RoundsAreCompared` (`RoundsAgree`) and `BreaksAreRecordedOnce`
  (`RecordedOnce`), each by an invariant of its own: `StaleInv` says of the forward's mask and of every kept one
  (`Known`) that while its counter's epoch is the one it was made at, and every write was seen, the
  layer holds what it held then; `RoundInv` relates the
  layers checked so far to the round's target; `RecordedInv` relates the tally's memory to what was recorded.

`GuaranteeReplay_proofs`, first part, on `Guarantee`:

* `TypeCorrect`, `DeliveredIsRight` (`HandedOnIsRight`) and `WatchIsKept`
  (`GuardedUntilConsumed`) share one invariant: `Bytes` (a cell holds the last issue's
  bytes or is spoiled), `Unspoiled` (what spoiled it is a write the setting cannot see, or shows in
  the version), and what the gate knows at each of its steps: `Admitted`, `Ran`, `Compared`. `Ran` says
  that what changed after the kernel began on the issued bytes was written by a race (`Raced`).
* `RefusedIsDue` (`NoFalseRefusal`) needs the converse: a version moved only by a write
  (`Rewritten`), only issued and awaited bytes are watched (`Watched`).
* `StepsArePromised`: initial states and steps of the gate are those of `Handover`. The
  fairness part of `KeepsPromise` stays with TLC.

Second part, on `GuaranteeReplay`: `ReplaysAreRight` (`ReplayIsRight`), `DeviceStopsInTime` (`StopsInTime`) and
`CountedGatesHaveRun` (`CountedGatesRan`) share one invariant, since the host's look at the
weights comes long before the device reads them. `WeightBytes` says what may have
spoiled a weight without a version showing it, and `Watched` why a Triton launch is not among
it under `writes`; `LookedAt` carries that from `BeforeReplay` to the end of the
replay, in which only a race can write; `MadeAgain` says the same of the activation since the
quantizer ran; `Ran` and `Compared` what a gate found; `RowsTell` that a
row saying "good" or "repaired" is of a gate of this replay that handed on
what it may, from which the host's verdict follows.

`LaunchCheck_proofs`: `OverlapsAreKnown`, `SpoiledIsAlwaysSaid`, `OwnScaleIsProven`,
`NoAlarmIsFalse`, `TypeCorrect`. `Grounded` ties meanings to registered bytes and
stamps; with `PairAssumption`, a write reaches exactly the storages the code looks at and those that start
where it does (`OwnIs`, `ApartIsAlone`), so that memory
differs from its meaning only where a version moved or an excuse was noted; `Shaped` says
that a value and a scale with matching serials are of one issue (`OneIssue`); `MovedIsChanged` and
`SeenIsMeant` are the converse, for the alarms.

`RopeWrites_proofs`:

* `LossIsAlwaysSaid` (`LossIsSaid`) and `LastWriteAlwaysHolds` (`LastWriteHolds`). `Right` is
  stronger than both: until something is said of a config, it
  holds the RoPE meant, and its attribute is unset or the base meant; without the second part a
  restatement could be another base than the one meant.
* `BreaksAreReal` (`NoFalseBreak`): a config that would be called broken does not hold what
  its user meant. What is compared is a declaration (on the object, in the environment, or
  none), and the config it came from may be collected or in another process. `Traced` numbers the
  writes and says what equal numbers mean: configs of one write mean one thing, and if
  the base was lost at it, it was lost for each of them (`Alike`); a declaration of a
  write says what its configs hold, if they hold what they mean (`Tells`, `OnObject`); the
  scaling held is always the one meant, only the base can be lost (`Shaped`). The
  theorem rests on two assumptions: `None` is no base or scaling (`RopeAssumption`), and a
  user's word ranks before the file's and the config's (`PrecedenceAssumption`, which is
  `DEFAULT_PRECEDENCE`, `sources.py:28`).

`KernelTypes_proofs`, first `ProofsAreSound` (`ProvenIsRight`), for any programs, tile sizes, groups, masks,
fills and data, and kernels of any length. `IInv` is the inductive invariant:

* While no check has failed, nothing outside a tensor was touched (`Tame`), and every value
  is right if nothing was overlooked (`Right`). A tile is right (`TileRight`) when an
  element that was read is `A` at the coordinates the checker has for it, times its own scale and
  `B` as often as they were applied. A row is right (`RowRight`) when there is one weight per k, the same for
  every row, such that its element is the weighted sum over all of hidden
  (`Weighed`): zero where its ranges do not reach, a power of `B[k]` where
  one range alone does. Weights and not terms, because ranges may overlap in a
  row that is not yet complete, and only `Covers` at the store rules that out.
* From the first store on the accumulator is complete and what is stored is its row
  (`Complete`, `Emptied`), an element is written as often as stores have it
  (`CountedOnce`), and a proven kernel has each element in one store (`Tiled`).
* With one lane there is another invariant (`OneLaneFails`): no row has a sum, no dot passes, and so the
  verdict does not stay open over a store.
* The proof has a lemma on values for every operation (`TimesTile`, `TimesRow`, `PlusRow`, `ReducedRow`,
  `DottedRow`, and `Load...` for what is loaded), which is where the
  checks are used, and one on the invariant for every action. Sums and powers are recursive
  functions. That they exist and what they satisfy is proved here, too
  (`RecursionExists`, `SumSteps`, `PowerSteps`, `SumAdd`, `SumShift`, ...): the library's
  induction needs an operator as parameter, but a property of numbers can be given as a
  set, and a set of numbers has a least element (`LeastNat`, `Induct`).

Then `RightChoicesAreNotBlamed` (`NoFalseViolation`): a kernel made of choices that are not odd is called a
violation only when it does not compute what was declared. It assumes

* `Straight`: no odd choice is left (`MaxOdd = 0`), a tile has more lanes than one, is no wider than the
  axis and divides the group. With one lane the statement is false, of the code as of the model. A kernel may still be wrong: summands may be left out or taken twice, the scale may be of
  another group, missing, or on some summands only.
* `Unlike`: the data tell the weights of a sum. `B` is larger than the number of operations a kernel may
  have, and sums over hidden with different weights are different.
  `TellingIsUnlike` proves that such data exist (`Telling`: tiles of two lanes, four k in two groups, three rows
  that read one k each, and `B = MaxOps + 3`), so that the assumption is not empty.

`NInv` is its inductive invariant, on top of `IInv`:

* A kernel without an odd choice is plain: its tiles, rows and sums hold what the coordinates the checker
  has for them say (`PlainTile`, `PlainRow`, `PlainSum`).
* The accumulator's weights are right until it is multiplied by a scale not its own
  (`Good`) and never right again (`Bad`): scales only multiply, and the powers of `B` are 1
  modulo `B - 1`, so a tally of at most `MaxOps` summands that is a power of `B` is one summand
  (`PowerRest`, `OnePower`).
* A verdict of violation is only carried on, or raised at the store of an output that is not the
  meaning; equal outputs have equal weights there (`Told`), so a `Good` row is the meaning
  (`GoodMeant`) and a `Bad` one is not (`BadNotMeant`).

Model-checked only:

* liveness (`Settles`, `CauseEndsOff`, `EveryLineSaid`, `HeldIsSettled`, the fairness of
  `Handover`), which is out of the prover's reach; of the first, third and fourth the safety half is
  proved (`SearchGoesForward`, `RecordedIsSaid`, `HeldReadsAreSettled`);
* `NoFalseViolation` of `KernelTypes` for kernels with an odd choice; for the others it is
  `RightChoicesAreNotBlamed`. With odd choices it is no theorem for all constants: a kernel
  that reads the wrong element is rightly called a violation, and on data in which that element happens to
  equal the right one it computes the meaning all the same; and a tile wider than the axis, or of
  one lane, can be called a violation although it is right (the oddities above). TLC checks such kernels on
  primes, on which no two different sums of products are equal.


## 5. Not modelled

* **Comparisons without memory**: the request, adapter, layout, tile and vocabulary
  contracts, `path_contract.verdict`, `kv_contract.request` and `check`, and the readers of
  manifests and configs. One call, one decision; the unit tests reach what they can do.
* **Numeric kernels**: `kernel_reference_contract`, `definitions`, the tolerance of the
  guarantee's comparison, probes.
* **Most of Triton IR and of FX graphs** (`kernel_ir`, `graph_types`): `KernelTypes` models the rule
  on the operations that carry coordinates, masks and sums of a launch; loops, branches,
  pointer tables and data-dependent coordinates are a program as large as the checker.
* **Activation** (`hook.py`, `autoinstall`), boundaries and signatures, identity and cache keys:
  little state, set once; import orders and cache keys are the next candidates.
* **Diagnosis, front end, command line, evaluation, scripts and the page itself**: offline
  or presentation.
* Inside the modelled parts: what each module's section above lists as left out.
