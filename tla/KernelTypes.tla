---------------------------- MODULE KernelTypes -----------------------------
(***************************************************************************)
(* The one rule on any Triton kernel (kernel_types.py): from the kernel's   *)
(* IR alone, without data, check_launch decides whether a launch computes   *)
(* its output's meaning. Here a kernel is built one IR operation at a time  *)
(* and each operation does two things: what the device computes, on data in *)
(* which no two elements are alike, and what the checker derives of it.     *)
(*                                                                         *)
(* The meaning is that of a quantized matrix times a vector:                *)
(*     C[token] = sum over hidden of A[token, hidden] As[token, hidden / G] *)
(*                                   B[hidden]                             *)
(* A is issued with its scale As; Xs is the scale of another value. A value *)
(* of the kernel is a tile (rows by k, k moving along its lanes) or a row   *)
(* of sums over k, and derives from A, so that its `serials` are A's. What  *)
(* the launch decides is modelled (coordinates, masks, ranges), what data   *)
(* decides is not (S, Sym, alternatives, data_depth).                       *)
(***************************************************************************)
EXTENDS Integers, Sequences, FiniteSets, FiniteSetsExt

CONSTANTS
    P, R, T,    \* programs of the launch, rows and k lanes of a tile
    K, G,       \* length of hidden, and how many of it one scale stands for
    A, As, B,   \* the tensors' elements
    Xs,         \* elements of a scale issued with another value
    Fills,      \* what a masked load may leave in its masked lanes
    TileMasks,  \* how a tile's load may be masked
    MaxOps,     \* bound on the operations of a kernel
    MaxFactors, \* bound on the factors one value is multiplied by
    MaxOdd      \* bound on the choices that a right kernel would not make

Programs == 1..P
M == P * R
Tokens == 0..M - 1
Hidden == 0..K - 1
Groups == 0..(K - 1) \div G

ASSUME SizeAssumption == {P, R, T, K, G} \subseteq Nat \ {0}
ASSUME DataAssumption ==
    A \in [Tokens \X Hidden -> Int] /\ As \in [Tokens \X Groups -> Int]
    /\ Xs \in [Tokens \X Groups -> Int] /\ B \in [Hidden -> Int]
ASSUME MaskAssumption ==
    Fills \subseteq Int /\ 0 \in Fills /\ TileMasks \subseteq {"none", "inside", "rest", "one row"}
ASSUME BoundAssumption == {MaxOps, MaxFactors, MaxOdd} \subseteq Nat

VARIABLES
    rowAt,    \* the first row of each program
    tile,     \* the tile being computed
    row,      \* a row being computed
    acc,      \* the accumulator
    stores,   \* the checker: the rows stored so far, per store and program
    verdict,  \* the checker: open, or the first rule that failed
    out,      \* the device: the output
    written,  \* the device: how often each element was stored
    wild,     \* the device: something outside a tensor was read or written
    launched, \* the kernel is complete, and its verdict final
    ops, odd, \* operations and odd choices so far
    overlooked \* history: something was done that the checker does not look at

vars == <<rowAt, tile, row, acc, stores, verdict, out, written, wild, launched, ops, odd, overlooked>>

TileLanes == Programs \X (0..R - 1) \X (0..T - 1)
RowLanes == Programs \X (0..R - 1) \X {0}
Lanes(form) == IF form = "tile" THEN TileLanes ELSE RowLanes

(* A value (V). Its coordinates are kept for every lane, also for those a mask *)
(* leaves out; `zeroed` is masked_zero; `got` is what the device has.          *)
Nothing == [form |-> "none"]
Zero == [form |-> "zero"]
-----------------------------------------------------------------------------
(* Loads (_load, _coords_of). A load reads one tensor along a window: rows     *)
(* from the program's first (or the next) one, k from `from` on along the      *)
(* lanes of a tile, or `from` alone; a scale's coordinate is k's group. Where  *)
(* the lanes alone are more than the axis has, the address is taken apart      *)
(* element by element, and one past the end of a row is in the next row.       *)

Grain(arg) == IF arg \in {"As", "Xs"} THEN G ELSE 1
AxesOf(arg) == IF arg = "B" THEN {"hidden"} ELSE {"token", "hidden"}
Size(arg, axis) ==
    IF axis = "token" THEN M ELSE IF arg \in {"As", "Xs"} THEN Cardinality(Groups) ELSE K

RowOf(l, lane) == rowAt[lane[1]] + lane[2] + (IF l.rows = "next" THEN 1 ELSE 0)
KAt(l, lane) == (l.from + (IF l.along THEN lane[3] ELSE 0)) \div Grain(l.arg)
Wide(arg) == arg = "A" /\ T > K

At(l, axis, lane) ==
    IF axis = "token" THEN RowOf(l, lane) + (IF Wide(l.arg) THEN KAt(l, lane) \div K ELSE 0)
    ELSE IF Wide(l.arg) THEN KAt(l, lane) % K ELSE KAt(l, lane)
Inside(l, lane) == \A axis \in AxesOf(l.arg) : At(l, axis, lane) < Size(l.arg, axis)

(* The mask is the kernel's own: "inside" keeps the rows and k there are,      *)
(* "rest" of these the k that whole tiles leave, "one row" the first row.      *)
Fits(l, lane) ==
    KAt(l, lane) < Size(l.arg, "hidden") /\ ("token" \in AxesOf(l.arg) => RowOf(l, lane) < M)
Kept(l, lane) ==
    \/ l.mask = "none"
    \/ /\ Fits(l, lane)
       /\ l.mask = "rest" => KAt(l, lane) >= T * ((K - 1) \div T)
       /\ l.mask = "one row" => lane[2] = 0

Element(l, lane) ==
    LET t == At(l, "token", lane)
        k == At(l, "hidden", lane)
    IN  CASE l.arg = "A" -> A[<<t, k>>] [] l.arg = "As" -> As[<<t, k>>] [] l.arg = "Xs" -> Xs[<<t, k>>]
          [] l.arg = "B" -> B[k]

Load(l, form) ==
    LET valid == {n \in Lanes(form) : Kept(l, n)}
    IN  [form |-> form,
         coords |-> [axis \in AxesOf(l.arg) |->
                        [at |-> [n \in Lanes(form) |-> At(l, axis, n)],
                         group |-> IF axis = "hidden" THEN Grain(l.arg) ELSE 1]],
         valid |-> valid, sums |-> <<>>, factors |-> 0, applied |-> 0, extras |-> FALSE,
         zeroed |-> l.mask = "none" \/ l.fill = 0,
         got |-> [n \in Lanes(form) |->
                     IF n \notin valid THEN l.fill ELSE IF Inside(l, n) THEN Element(l, n) ELSE 0]]

(* _coords_of: every lane that is read addresses an element of the tensor.    *)
OutOfBounds(l, form) == \E n \in Lanes(form) : Kept(l, n) /\ ~Inside(l, n)
-----------------------------------------------------------------------------
(* Pairing (_eq, _pair_checked). The groups of a scale and of a value meet at *)
(* the coarser one; a coordinate meets a sum where every summed coordinate    *)
(* maps to it.                                                                *)

BugIgnoresGroups(c, d, n) == c.at[n] # d.at[n]
Disagree(c, d, n) ==
    LET g == IF c.group > d.group THEN c.group ELSE d.group
    IN  (c.at[n] * c.group) \div g # (d.at[n] * d.group) \div g

IsSum(y) == y.form = "row" /\ "hidden" \notin DOMAIN y.coords
MeetsSum(x, y) == "hidden" \in DOMAIN x.coords /\ IsSum(y)

BugOneGroupOfMany(c, r, p) == FALSE
Spans(c, r, p) == r[p].lo \div c.group # (r[p].lo + r[p].count - 1) \div c.group

BesideSum(x, y, both) ==
    LET c == x.coords["hidden"] IN
    \E i \in DOMAIN y.sums : \E p \in Programs :
        LET r == y.sums[i] IN
        /\ r[p].count > 0
        /\ Spans(c, r, p) \/ \E n \in both : n[1] = p /\ c.at[n] # r[p].lo \div c.group

Mispaired(x, y) ==
    LET both == x.valid \cap y.valid IN
    \/ \E axis \in DOMAIN x.coords \cap DOMAIN y.coords :
          \E n \in both : Disagree(x.coords[axis], y.coords[axis], n)
    \/ MeetsSum(x, y) /\ BesideSum(x, y, both)
    \/ MeetsSum(y, x) /\ BesideSum(y, x, both)

Paired(x, y) ==
    LET summed == IF MeetsSum(x, y) \/ MeetsSum(y, x) THEN {"hidden"} ELSE {}
    IN  [axis \in (DOMAIN x.coords \cup DOMAIN y.coords) \ summed |->
            IF axis \notin DOMAIN y.coords THEN x.coords[axis]
            ELSE IF axis \notin DOMAIN x.coords THEN y.coords[axis]
            ELSE IF x.coords[axis].group <= y.coords[axis].group THEN x.coords[axis] ELSE y.coords[axis]]

(* _binary. A factor is loaded: y of the argument l.arg; only A's own scale   *)
(* may be applied.                                                            *)
Times(x, y, arg) ==
    [x EXCEPT !.coords = Paired(x, y), !.valid = x.valid \cap y.valid,
              !.applied = @ + IF arg = "As" THEN 1 ELSE 0, !.factors = @ + 1,
              !.zeroed = x.zeroed /\ y.zeroed,
              !.got = [n \in DOMAIN @ |-> @[n] * y.got[n]]]
NotItsScale(arg) == arg = "Xs"

Plus(x, y) ==
    [x EXCEPT !.coords = Paired(x, y), !.valid = x.valid \cup y.valid, !.sums = x.sums \o y.sums,
              !.extras = x.extras \/ y.extras,
              !.factors = IF y.factors > @ THEN y.factors ELSE @,
              !.zeroed = x.zeroed /\ y.zeroed,
              !.got = [n \in DOMAIN @ |-> @[n] + y.got[n]]]
-----------------------------------------------------------------------------
(* Sums: one axis becomes a range per program (_reduce, _dot, _ranges).       *)

SumTo(f, n) == LET s[i \in 0..n] == IF i = 0 THEN 0 ELSE s[i - 1] + f[i - 1] IN s[n]
InRow(n) == <<n[1], n[2], 0>>
AtK(x) == x.coords["hidden"].at
RangeOf(at, lanes) ==
    IF lanes = {} THEN [lo |-> 0, count |-> 0]
    ELSE [lo |-> Min({at[n] : n \in lanes}), count |-> Cardinality(lanes)]

(* What one program sums over is a range: no k is read twice, and none between is left out. *)
ReadsTwice(at, lanes) == \E n, m \in lanes : n # m /\ at[n] = at[m]
Gaps(at, lanes) ==
    LET r == RangeOf(at, lanes) IN {at[n] : n \in lanes} # r.lo..r.lo + r.count - 1

KOf(x, p, i) == {j \in 0..T - 1 : <<p, i, j>> \in x.valid}

(* A coordinate that is the same on every lane is carried, and nothing is summed *)
(* over it: so is k where a tile has one lane (where hidden has one element the  *)
(* row changes along further lanes, and that is decided first).                  *)
OneLane == T = 1
Carried == IF OneLane THEN {"token", "hidden"} ELSE {"token"}
RowCoords(x) == [axis \in Carried |-> [x.coords[axis] EXCEPT !.at = [n \in Lanes("row") |-> @[n]]]]

(* _reduce: the rows of one program are masked alike along k. Coordinates are  *)
(* compared over every lane, the masked ones too: a row that changes along the *)
(* lanes is taken for another sum, which one program's single row would count  *)
(* twice (with one lane it is the store that finds no row: unproven already).  *)
RowChanges(x) == \E n \in DOMAIN x.got : x.coords["token"].at[n] # x.coords["token"].at[InRow(n)]
CountsRowTwice(x) == RowChanges(x) /\ R = 1 /\ \E p \in Programs : Cardinality(KOf(x, p, 0)) > 1
RaggedMask(x) == ~OneLane /\ \E p \in Programs : \E i, j \in 0..R - 1 : KOf(x, p, i) # KOf(x, p, j)

(* Not looked at: that the lanes a mask leaves out hold zero, which the sum on  *)
(* the device is over too.                                                     *)
SumsMasked(x) == \E n \in DOMAIN x.got : n \notin x.valid /\ x.got[n] # 0

Read(x, p) == {<<p, 0, j>> : j \in KOf(x, p, 0)}

Reduced(x) ==
    [x EXCEPT !.form = "row", !.coords = RowCoords(x), !.valid = {InRow(n) : n \in @},
              !.sums = IF OneLane THEN @ ELSE <<[p \in Programs |-> RangeOf(AtK(x), Read(x, p))]>>,
              !.zeroed = TRUE,
              !.got = [n \in Lanes("row") |-> SumTo([j \in 0..T - 1 |-> x.got[<<n[1], n[2], j>>]], T)]]

(* _dot: both operands are read at the same k, masked alike along k with      *)
(* zeros, and each carries its other axis into the product.                   *)
RowsOf(x, p) == {i \in 0..R - 1 : KOf(x, p, i) # {}}
KRead(x, p) == UNION {KOf(x, p, i) : i \in 0..R - 1}
NotATile(x) == \E p \in Programs : \E i \in RowsOf(x, p) : KOf(x, p, i) # KRead(x, p)

MasksDiffer(x, y) ==
    \E p \in Programs :
        RowsOf(x, p) # {} /\ KRead(y, p) # {} /\ KRead(x, p) # KRead(y, p)

(* k is carried, and nothing contracted, where a row reads one k; of rows taken  *)
(* apart element by element what is read decides, and of a single such row its    *)
(* token is contracted, too.                                                     *)
Moves(at, x) == \E n, m \in x.valid : InRow(n) = InRow(m) /\ at[n] # at[m]
RowContracted == Wide("A") /\ R = 1
NothingContracted(x) ==
    OneLane \/ (Wide("A") /\ R > 1 /\ (~Moves(AtK(x), x) \/ Moves(x.coords["token"].at, x)))

DotUnproven(x, y) ==
    ~x.zeroed \/ ~y.zeroed \/ NotATile(x) \/ MasksDiffer(x, y) \/ NothingContracted(x)

DotDisagrees(x, y) ==
    \E p \in Programs : \E j \in KRead(x, p) \cap KRead(y, p) :
        Disagree(x.coords["hidden"], y.coords["hidden"], <<p, 0, j>>)

Live(x, y, p) == IF RowsOf(x, p) = {} THEN {} ELSE {<<p, 0, j>> : j \in KRead(x, p) \cap KRead(y, p)}

Dotted(x, y) ==
    [x EXCEPT !.form = "row", !.coords = RowCoords(x),
              !.valid = {n \in Lanes("row") : n[2] \in RowsOf(x, n[1]) /\ KRead(y, n[1]) # {}},
              !.sums = <<[p \in Programs |-> RangeOf(AtK(x), Live(x, y, p))]>>,
              !.zeroed = TRUE,
              !.got = [n \in Lanes("row") |->
                          SumTo([j \in 0..T - 1 |-> x.got[<<n[1], n[2], j>>] * y.got[<<n[1], n[2], j>>]], T)]]
-----------------------------------------------------------------------------
(* The kernel, one operation after another. The first check that fails is the *)
(* verdict; the device goes on.                                               *)

Check(breaks, says) == [breaks |-> breaks, says |-> says]
Decide(checks) ==
    LET broken == {i \in DOMAIN checks : checks[i].breaks}
    IN  verdict' = IF verdict # "open" \/ broken = {} THEN verdict ELSE checks[Min(broken)].says

(* A kernel nothing is claimed of, or whose violation is plain, is not built on. *)
Settled == verdict = "unproven" \/ (verdict = "violation" /\ wild)

Step(oddities) ==
    /\ ~launched /\ ~Settled /\ ops < MaxOps /\ odd + oddities <= MaxOdd
    /\ ops' = ops + 1 /\ odd' = odd + oddities

(* What a load may be, and how many of its choices a right kernel would not make. *)
Windows(arg) ==
    [arg : {arg}, rows : IF arg = "B" THEN {"own"} ELSE {"own", "next"}, from : Hidden, along : {TRUE},
     mask : IF arg = "B" THEN TileMasks \ {"one row"} ELSE TileMasks, fill : Fills]
ScaleReads(along) ==
    [arg : {"As", "Xs"}, rows : {"own", "next"}, from : IF along THEN Hidden ELSE {G * g : g \in Groups},
     along : {along}, mask : {"inside"}, fill : {0}]

One(p) == IF p THEN 1 ELSE 0
Oddities(l) ==
    One(l.rows = "next") + One(l.mask # "inside") + One(l.fill # 0) + One(l.arg = "Xs")
    + One(l.arg \in {"A", "B"} /\ IF l.mask = "rest" THEN l.from # K - T ELSE l.from % T # 0)

Reads(l, form) == wild' = (wild \/ OutOfBounds(l, form))
InBounds(l, form) == Check(OutOfBounds(l, form), "violation")

LoadTile(l) ==
    /\ tile = Nothing /\ stores = <<>> /\ Step(Oddities(l))
    /\ tile' = Load(l, "tile")
    /\ Reads(l, "tile") /\ Decide(<<InBounds(l, "tile")>>)
    /\ UNCHANGED <<rowAt, row, acc, stores, out, written, launched, overlooked>>

FactorChecks(x, l) ==
    <<InBounds(l, x.form), Check(Mispaired(x, Load(l, x.form)), "violation"),
      Check(NotItsScale(l.arg), "violation")>>

(* Another place along hidden than the value's own, and a second scale.        *)
Elsewhere(k, l) == One(IF l.along THEN l.from # k ELSE l.from \div G # k \div G)
TileK == AtK(tile)[<<1, 0, 0>>]
RowK == IF OneLane THEN AtK(row)[<<1, 0, 0>>] ELSE row.sums[1][1].lo
Again(x, l) == One(l.arg # "B" /\ x.applied > 0)

MulTile(l) ==
    /\ tile # Nothing /\ tile.factors < MaxFactors
    /\ Step(Oddities(l) + Elsewhere(TileK, l) + Again(tile, l))
    /\ tile' = Times(tile, Load(l, "tile"), l.arg)
    /\ Reads(l, "tile") /\ Decide(FactorChecks(tile, l))
    /\ UNCHANGED <<rowAt, row, acc, stores, out, written, launched, overlooked>>

MulRow(l) ==
    /\ row # Nothing /\ row.factors < MaxFactors
    /\ Step(Oddities(l) + Elsewhere(RowK, l) + Again(row, l))
    /\ row' = Times(row, Load(l, "row"), l.arg)
    /\ Reads(l, "row") /\ Decide(FactorChecks(row, l))
    /\ UNCHANGED <<rowAt, tile, acc, stores, out, written, launched, overlooked>>

MulAcc(l) ==
    /\ acc # Zero /\ stores = <<>> /\ acc.factors < MaxFactors /\ Step(Oddities(l) + Again(acc, l))
    /\ acc' = Times(acc, Load(l, "row"), l.arg)
    /\ Reads(l, "row") /\ Decide(FactorChecks(acc, l))
    /\ UNCHANGED <<rowAt, tile, row, stores, out, written, launched, overlooked>>

(* A constant factor is noted among the extras.                              *)
Double ==
    /\ row # Nothing /\ Step(1)
    /\ row' = [row EXCEPT !.extras = TRUE, !.got = [n \in DOMAIN @ |-> 2 * @[n]]]
    /\ UNCHANGED <<rowAt, tile, acc, stores, verdict, out, written, wild, launched, overlooked>>

Reduce ==
    /\ tile # Nothing /\ row = Nothing /\ Step(0)
    /\ row' = Reduced(tile) /\ tile' = Nothing
    /\ overlooked' = (overlooked \/ SumsMasked(tile))
    /\ Decide(<<Check(CountsRowTwice(tile), "violation"), Check(RowChanges(tile) \/ RaggedMask(tile), "unproven"),
                Check(\E p \in Programs : ReadsTwice(AtK(tile), Read(tile, p)), "violation"),
                Check(\E p \in Programs : Gaps(AtK(tile), Read(tile, p)), "unproven")>>)
    /\ UNCHANGED <<rowAt, acc, stores, out, written, wild, launched>>

Dot(l) ==
    LET y == Load(l, "tile") IN
    /\ tile # Nothing /\ row = Nothing /\ Step(Oddities(l) + Elsewhere(TileK, l))
    /\ row' = Dotted(tile, y) /\ tile' = Nothing
    /\ Reads(l, "tile")
    /\ Decide(<<InBounds(l, "tile"), Check(DotUnproven(tile, y), "unproven"),
                Check(DotDisagrees(tile, y), "violation"),
                Check(\E p \in Programs : ReadsTwice(AtK(tile), Live(tile, y, p)), "violation"),
                Check(RowContracted \/ \E p \in Programs : Gaps(AtK(tile), Live(tile, y, p)), "unproven")>>)
    /\ UNCHANGED <<rowAt, acc, stores, out, written, launched, overlooked>>

(* Not looked at either: that both addends hold the same rows; a row of one of  *)
(* them passes for a row of both.                                               *)
Accumulate ==
    /\ row # Nothing /\ Step(0)
    /\ acc' = IF acc = Zero THEN row ELSE Plus(acc, row)
    /\ row' = Nothing
    /\ overlooked' = (overlooked \/ (acc # Zero /\ acc.valid # row.valid))
    /\ Decide(IF acc = Zero THEN <<>>
              ELSE <<Check(Mispaired(acc, row), "violation"), Check(acc.applied # row.applied, "unproven")>>)
    /\ UNCHANGED <<rowAt, tile, stores, out, written, wild, launched>>
-----------------------------------------------------------------------------
(* Stores (_store_typed, _covers, _footprint) and the whole launch (_tiling). *)
(* Every value reaches the output: nothing is computed after the first store.  *)

Covers(ranges, p) ==
    \A k \in Hidden :
        Cardinality({i \in DOMAIN ranges :
            ranges[i][p].lo <= k /\ k < ranges[i][p].lo + ranges[i][p].count}) = 1

StoreLanes(s) == {n \in Lanes("row") : s.mask = "one row" => n[2] = 0}
TargetOf(s, n) == rowAt[n[1]] + n[2] + (IF s.rows = "next" THEN 1 ELSE 0)

StoreChecks(s) ==
    <<Check(\E n \in StoreLanes(s) : TargetOf(s, n) \notin Tokens, "violation"),
      Check(~(StoreLanes(s) \subseteq acc.valid), "violation"),
      Check(\E n \in StoreLanes(s) : TargetOf(s, n) # acc.coords["token"].at[n], "violation"),
      Check(\E p \in Programs : ~Covers(acc.sums, p), "violation"),
      Check(acc.extras, "violation"),
      Check(acc.applied # 1, "violation")>>

Store(s) ==
    /\ acc # Zero /\ tile = Nothing /\ row = Nothing
    /\ Step(One(s.rows # "own") + One(s.mask # "all") + One(stores # <<>>))
    /\ Decide(StoreChecks(s))
    /\ stores' = Append(stores, [p \in Programs |-> {TargetOf(s, n) : n \in {m \in StoreLanes(s) : m[1] = p}}])
    /\ LET by(t) == {n \in StoreLanes(s) : TargetOf(s, n) = t}
       IN  /\ out' = [t \in Tokens |-> IF by(t) = {} THEN out[t] ELSE acc.got[CHOOSE n \in by(t) : TRUE]]
           /\ written' = [t \in Tokens |-> written[t] + Cardinality(by(t))]
    /\ wild' = (wild \/ \E n \in StoreLanes(s) : TargetOf(s, n) \notin Tokens)
    /\ UNCHANGED <<rowAt, tile, row, acc, launched, overlooked>>

StoresOf(t) == {x \in (DOMAIN stores) \X Programs : t \in stores[x[1]][x[2]]}

Launch ==
    /\ ~launched /\ stores # <<>>
    /\ launched' = TRUE
    /\ verdict' = IF verdict # "open" THEN verdict
                  ELSE IF \E t \in Tokens : StoresOf(t) = {} THEN "violation"
                  ELSE IF \E t \in Tokens : Cardinality(StoresOf(t)) > 1 THEN "unproven"
                  ELSE "proven"
    /\ UNCHANGED <<rowAt, tile, row, acc, stores, out, written, wild, ops, odd, overlooked>>
-----------------------------------------------------------------------------
Init ==
    /\ \E first \in {[p \in Programs |-> R * (p - 1)], [p \in Programs |-> 0]} :
          rowAt = first /\ odd = One(first[P] # R * (P - 1)) /\ odd <= MaxOdd
    /\ tile = Nothing /\ row = Nothing /\ acc = Zero
    /\ stores = <<>> /\ verdict = "open" /\ launched = FALSE
    /\ out = [t \in Tokens |-> 0] /\ written = [t \in Tokens |-> 0] /\ wild = FALSE
    /\ ops = 0 /\ overlooked = FALSE

Next ==
    \/ \E l \in Windows("A") : LoadTile(l)
    \/ \E l \in Windows("B") \cup ScaleReads(TRUE) \cup ScaleReads(FALSE) : MulTile(l)
    \/ \E l \in ScaleReads(FALSE) : MulRow(l)
    \/ \E l \in ScaleReads(FALSE) : MulAcc(l)
    \/ Double
    \/ Reduce
    \/ \E l \in Windows("B") : Dot(l)
    \/ Accumulate
    \/ \E s \in [rows : {"own", "next"}, mask : {"all", "one row"}] : Store(s)
    \/ Launch

Spec == Init /\ [][Next]_vars
-----------------------------------------------------------------------------
(* What an output may be: for every token the sum over all of hidden of A with *)
(* its own scale once, each term as often times its own B as the kernel has it *)
(* (the meanings give C's axes and what it sums, not the factors of a term).   *)
Power(b, n) == LET p[i \in Nat] == IF i = 0 THEN 1 ELSE b * p[i - 1] IN p[n]
Term(t, k, n) == A[<<t, k>>] * As[<<t, k \div G>>] * Power(B[k], n)
Meant ==
    \E times \in [Hidden -> 0..MaxFactors] :
        \A t \in Tokens : out[t] = SumTo([k \in Hidden |-> Term(t, k, times[k])], K)

(* A launch that is proven stores every element of its output once, touches    *)
(* nothing else, and computes the output's meaning, whatever the data, unless  *)
(* its kernel did what the checker does not look at (kernel_types, "Verdicts"; *)
(* _tiling).                                                                   *)
ProvenIsRight ==
    verdict = "proven" => ~wild /\ (\A t \in Tokens : written[t] = 1) /\ (Meant \/ overlooked)

(* A launch that computes its output's meaning, touching nothing else, is not  *)
(* called a violation. This is of tiles of more lanes than one: a sum over one  *)
(* lane is not taken for a sum (_reduce), and its store is blamed for that.     *)
NoFalseViolation == launched /\ verdict = "violation" => wild \/ ~Meant
=============================================================================
