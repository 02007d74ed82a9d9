-------------------------------- MODULE Kernels --------------------------------
(***************************************************************************)
(* The sequential computations of src/performance, of                      *)
(* src/build_tooling/03_ubsan.cpp, of the pools, arenas and windows of     *)
(* src/libraries and of the order book of src/testing, as functions of     *)
(* what they are fed, beside the definition each should agree with.  A     *)
(* behaviour feeds one kernel, chosen in Init, one input after the other;  *)
(* the properties hold of every prefix.  An int has Width bits and its     *)
(* overflow is undefined: any int may be the result.  A size_t has SizeBits*)
(* bits and wraps.  Prices and quantities are small integers, for which    *)
(* double is exact, and a quotient is kept as a pair: rounding is left out.*)
(***************************************************************************)
EXTENDS Integers, FiniteSets, SequencesExt

CONSTANTS
    Width,      \* bits of an int
    MaxLen,     \* length of the arrays
    MaxStream,  \* samples, and requests to an allocator
    Threshold,  \* of the branch demo
    BufSize,    \* BUF_SIZE of the ring of samples, a power of two
    Window,     \* capacity of the circular_buffer
    Capacity,   \* of the arena, in bytes
    SizeBits    \* bits of a size_t

VARIABLES kernel, input

vars == <<kernel, input>>

MinInt == -(2 ^ (Width - 1))
MaxInt == 2 ^ (Width - 1) - 1
Int_ == MinInt .. MaxInt
Wrap(x) == ((x - MinInt) % (2 ^ Width)) + MinInt

\* What an addition, subtraction or negation of ints may give.
Arith(x) == IF x \in Int_ THEN {x} ELSE Int_

Sum(s) == FoldLeft(LAMBDA a, v : a + v, 0, s)
Map(s, Op(_)) == [k \in DOMAIN s |-> Op(s[k])]
Sorted(s) == SortSeq(s, LAMBDA a, b : a < b)
Permutations_(n) == {p \in [1 .. n -> 1 .. n] : \A j, k \in 1 .. n : p[j] = p[k] => j = k}

-------------------------------------------------------------------------------
(* performance/01: traversals of an array, and the VWAP of two layouts.    *)

sum_sequential(data) == FoldLeft(LAMBDA a, v : a + v, 0, data)
visited_by_stride(n, stride) == {i \in 0 .. n - 1 : i % stride = 0}
sum_random(data, idx) == FoldLeft(LAMBDA a, i : a + data[i], 0, idx)

\* The pair <<num, den>>, <<0, 1>> if there is no volume.
Quotient(num, den) == IF den > 0 THEN <<num, den>> ELSE <<0, 1>>

vwap_aos(quotes) ==
    LET t == FoldLeft(LAMBDA a, q : <<a[1] + q.bid * q.size, a[2] + q.size>>, <<0, 0>>, quotes)
    IN  Quotient(t[1], t[2])

\* for (i ...) { num += price[i] * qty[i]; den += qty[i]; }
Weigh(price, qty) ==
    LET t == FoldLeft(LAMBDA a, k : <<a[1] + price[k] * qty[k], a[2] + qty[k]>>, <<0, 0>>,
                      [k \in DOMAIN price |-> k])
    IN  Quotient(t[1], t[2])
vwap_soa(book) == Weigh(book.bid, book.size)
FillSoA(quotes) == [bid |-> Map(quotes, LAMBDA q : q.bid), size |-> Map(quotes, LAMBDA q : q.size)]

\* performance/04, 09 and 10 have the same loop over two arrays.
vwap(price, qty) == Weigh(price, qty)

(* performance/02: the layout of a struct.  A member is <<size, align>>.   *)
AlignUp(n, a) == ((n + a - 1) \div a) * a

\* Offsets in order of declaration, and then the size.
Layout(members) ==
    LET place(o, m) == Append(Front(o), AlignUp(Last(o), m[2])) \o <<AlignUp(Last(o), m[2]) + m[1]>>
        ends == FoldLeft(place, <<0>>, members)
    IN  Append(Front(ends), AlignUp(Last(ends), Max({members[k][2] : k \in DOMAIN members})))

char == <<1, 1>>
int == <<4, 4>>
double == <<8, 8>>
PaddedBad == <<char, int, char, double>>
PaddedGood == <<double, int, char, char>>
OrderBad == <<char, double, char, int, <<8, 1>>>>
OrderGood == <<double, <<8, 1>>, int, char, char>>
CoreAccumulator == <<<<8, 64>>, double>>
PriceBuffer == <<<<32, 32>>>>
WireQuote == <<<<4, 1>>, <<2, 1>>, <<8, 1>>, <<8, 1>>, <<4, 1>>, <<4, 1>>>>
Shared == <<double, double>>
Padded == <<<<8, 64>>, <<8, 64>>>>

\* What the static_asserts and the printed lines say of their sizes.
SizeOf(s) ==
    CASE s = PaddedBad -> 24 [] s = PaddedGood -> 16 [] s = OrderBad -> 32 [] s = OrderGood -> 24
      [] s = CoreAccumulator -> 64 [] s = PriceBuffer -> 32 [] s = WireQuote -> 30
      [] s = Shared -> 16 [] s = Padded -> 128
Structs == {PaddedBad, PaddedGood, OrderBad, OrderGood, CoreAccumulator, PriceBuffer, WireQuote,
            Shared, Padded}

(* performance/03: branches.                                               *)
sum_above(data) == FoldLeft(LAMBDA a, v : IF v > Threshold THEN a + v ELSE a, 0, data)
sum_above_sorted(data) == sum_above(Sorted(data))

\* static_cast<int>(rng()) - 1000: the conversion wraps, the subtraction may overflow.
generate(r) == Arith(Wrap(r) - 3)

abs_branch(v) == Arith(IF v < 0 THEN -v ELSE v)

\* v >> 31 is all ones for a negative v, and v ^ -1 is -v - 1.
SignMask(v) == IF v < 0 THEN -1 ELSE 0
Xor(v, mask) == IF mask = -1 THEN -v - 1 ELSE v

\* Defect: the carry is added with the wrong sign.
abs_branchless_Adds(v) == Arith(Xor(v, SignMask(v)) + SignMask(v))

abs_branchless(v) == Arith(Xor(v, SignMask(v)) - SignMask(v))

clamp_bl(v, lo, hi) == IF v < lo THEN lo ELSE IF hi < v THEN hi ELSE v

validate_order(o) ==
    CASE o.price <= 0 -> "PriceOob"
      [] o.price > 0 /\ o.qty <= 0 -> "SizeZero"
      [] o.price > 0 /\ o.qty > 0 /\ o.id <= 0 -> "DuplicateId"
      [] OTHER -> "None"

\* The check of performance/10.
accepts(price, qty) == price > 0 /\ qty > 0

update(book, side, level) == [book EXCEPT ![side] = level]

(* performance/04: loops over memory.  a, b and out are offsets.           *)
AddLoop(mem, a, b, out, n) ==
    FoldLeft(LAMBDA m, i : [m EXCEPT ![out + i] = m[a + i] + m[b + i]], mem, [i \in 1 .. n |-> i])
add_no_restrict(mem, a, b, out, n) == AddLoop(mem, a, b, out, n)

\* The vectorised loop reads its operands before it stores.
add_restrict(mem, a, b, out, n) ==
    [k \in DOMAIN mem |-> IF k \in (out + 1) .. (out + n) THEN mem[a + k - out] + mem[b + k - out] ELSE mem[k]]

\* std::assume_aligned<32>: four doubles at a time, those that are left one by one.
Vector == 4
add_aligned(mem, a, b, out, n) ==
    LET whole == n \div Vector
        at(i) == Vector * (i - 1)
        m == FoldLeft(LAMBDA m, i : add_restrict(m, a + at(i), b + at(i), out + at(i), Vector),
                      mem, [i \in 1 .. whole |-> i])
        k == Vector * whole
    IN  AddLoop(m, a + k, b + k, out + k, n - k)

running_pnl(deltas) == FoldLeft(LAMBDA a, v : a + v, 0, deltas)

\* out[0] = in[0] first: n is at least 1.
prefix_sum(in) ==
    FoldLeft(LAMBDA out, v : Append(out, Last(out) + v), <<in[1]>>, Tail(in))

(* performance/05.                                                         *)
fast_sign(x) == (IF x > 0 THEN 1 ELSE 0) - (IF x < 0 THEN 1 ELSE 0)
accumulate_signs(data) == FoldLeft(LAMBDA a, v : a + fast_sign(v), 0, data)
demo_inline(n) == accumulate_signs([i \in 1 .. n |-> i - 1 - n \div 2])

\* In units of 0.00001.
tick_size(venue) == IF venue >= 0 /\ venue < 4 THEN <<1000, 100, 10, 1>>[venue + 1] ELSE 1000
validate(bid, ask, qty) == ~(bid <= 0) /\ ~(ask <= bid) /\ ~(qty <= 0)
is_error(code) == code # 0
order_sign(s) == CASE s = "Buy" -> 1 [] s = "Sell" -> -1
Twice_calc_mid(bid, ask) == bid + ask

(* performance/06 and 09: the index of a percentile, from 0.               *)
pct_chrono(p, n) == Min({(p * n) \div 100, n - 1})
pct_bench(p, reps) == Min({(p * reps) \div 100, reps - 1})
pct_histogram(p, n) == (p * n) \div 100
overhead_p99(n) == (n * 99) \div 100

\* ewma = alpha * data[i] + (1 - alpha) * ewma with alpha = 1/2, times 2^(n-1).
compute_ewma(data) ==
    FoldLeft(LAMBDA e, v : <<e[1] + e[2] * v, 2 * e[2]>>, <<data[1], 1>>, Tail(data))
sum_array(data) == FoldLeft(LAMBDA as, v : UNION {Arith(a + v) : a \in as}, {0}, data)

(* build_tooling/03: the safe forms.                                       *)

\* __builtin_add_overflow: did it overflow, and the wrapped sum.
add_overflow(a, b) == <<a + b \notin Int_, Wrap(a + b)>>
safe_shift(flags, n) == IF n < Width THEN <<(flags * 2 ^ n) % 2 ^ Width>> ELSE <<>>
maybe_find_price(found) == IF found THEN <<100>> ELSE <<>>
checked_index(arr, idx) == IF idx >= 0 /\ idx < Len(arr) THEN <<arr[idx + 1]>> ELSE <<>>

\* memcpy of a value to buf + at and back.
memcpy_to(buf, at, bytes) == [k \in DOMAIN buf |-> IF k - at \in DOMAIN bytes THEN bytes[k - at] ELSE buf[k]]
memcpy_from(buf, at, n) == SubSeq(buf, at + 1, at + n)

(* performance/06 and 10, boost/09: windows of samples.                    *)

\* ring[write_pos++ & (BUF_SIZE - 1)] = ns
Slot(write_pos) == write_pos % BufSize
ring(samples) ==
    FoldLeft(LAMBDA a, k : [a EXCEPT ![Slot(k - 1) + 1] = samples[k]],
             [k \in 1 .. BufSize |-> 0], [k \in DOMAIN samples |-> k])

\* A full circular_buffer overwrites its oldest element.
push(buf, v) == IF Len(buf) = Window THEN Append(Tail(buf), v) ELSE Append(buf, v)
buf_(samples) == FoldLeft(push, <<>>, samples)
mean(buf) == IF buf = <<>> THEN <<0, 1>> ELSE <<Sum(buf), Len(buf)>>

pct(p, s) == Sorted(s)[pct_chrono(p, Len(s)) + 1]

\* The chain of comparisons that picks the histogram's bucket.
BucketOf(v) ==
    IF v < 100 THEN 0 ELSE IF v < 1000 THEN 1 ELSE IF v < 10000 THEN 2 ELSE IF v < 100000 THEN 3 ELSE 4
buckets(samples) ==
    FoldLeft(LAMBDA a, v : [a EXCEPT ![BucketOf(v)] = @ + 1], [b \in 0 .. 4 |-> 0], samples)

(* performance/07: the arena.  Its buffer is aligned for every type.       *)

\* Defect: the first byte of a block is not rounded up.
Aligned_Not(used, align) == used

Aligned(used, align) == AlignUp(used, align)

\* A block is <<offset, size, align>>; blocks are those since the last reset.
Fresh == [used |-> 0, blocks |-> <<>>, refused |-> 0]
alloc(a, bytes, align) ==
    LET aligned == Aligned(a.used, align)
    IN  IF (aligned + bytes) % 2 ^ SizeBits > Capacity
        THEN [a EXCEPT !.refused = @ + 1]
        ELSE [a EXCEPT !.used = (aligned + bytes) % 2 ^ SizeBits, !.blocks = Append(@, <<aligned, bytes, align>>)]
reset(a) == [a EXCEPT !.used = 0, !.blocks = <<>>]

\* make<PriceUpdate>, with an int64, a double and an int.
PriceUpdate == <<double, double, int>>
make(a, T) == alloc(a, Last(Layout(T)), Max({T[k][2] : k \in DOMAIN T}))
Request(a, r) ==
    CASE r[1] = "reset" -> reset(a)
      [] r[1] = "update" -> make(a, PriceUpdate)
      [] r[1] = "alloc" -> alloc(a, r[2], r[3])

\* The events of demo_arena; the arena of demo_comparison has room for 16 objects more
\* than it makes, here for one.
demo_arena(events, objs) ==
    FoldLeft(LAMBDA a, e : FoldLeft(LAMBDA b, k : make(b, PriceUpdate), reset(a), [k \in 1 .. objs |-> k]),
             Fresh, [e \in 1 .. events |-> e])
arena2_capacity(n) == (n + 1) * Last(Layout(PriceUpdate))

\* The allocations of a vector that reserves and then grows, in elements; those of
\* demo_monotonic, which reserves 128 and adds 100, are counted by eights.
Grown(reserved, n) ==
    FoldLeft(LAMBDA caps, k : IF k <= Last(caps) THEN caps ELSE Append(caps, 2 * Last(caps)),
             <<reserved>>, [k \in 1 .. n |-> k])
demo_monotonic == Grown(16, 13)
folly_vector == Grown(16, 10)

\* folly::SysArena rounds every size up to that of a pointer.
sys_allocate(a, bytes) == LET b == alloc(a, bytes, 8) IN [b EXCEPT !.used = AlignUp(@, 8)]
SysArena_values == FoldLeft(sys_allocate, Fresh, <<4, 8, 12>>)
SysArena_request == FoldLeft(sys_allocate, Fresh, <<Last(Layout(<<int, <<8, 1>>>>)), Last(Layout(<<double, <<16, 1>>>>))>>)

(* Pools: a free list, and chunks cut when it is empty.                    *)
NewPool == [free |-> <<>>, cut |-> 0, live |-> <<>>, gone |-> <<>>]

malloc(p) ==
    IF p.free # <<>>
    THEN [p EXCEPT !.live = Append(@, Head(p.free)), !.free = Tail(@)]
    ELSE [p EXCEPT !.live = Append(@, p.cut + 1), !.cut = @ + 1]

\* The k-th live chunk goes back.
free(p, k) == [p EXCEPT !.free = <<p.live[k]>> \o @, !.live = RemoveAt(@, k), !.gone = Append(@, p.live[k])]
Malloc == 0
PoolOp(p, op) == IF op = Malloc THEN malloc(p) ELSE IF op <= Len(p.live) THEN free(p, op) ELSE p
Pool(ops) == FoldLeft(PoolOp, NewPool, ops)

Times(op, n) == [k \in 1 .. n |-> op]
raw_pool == Pool(<<Malloc, Malloc, 1, 1>>)
demo_pool(n) == Pool(Times(Malloc, n) \o Times(1, n) \o Times(Malloc, n) \o Times(1, n))

\* destroy(a), and ~object_pool, which destroys what is left.
object_pool == LET p == Pool(<<Malloc, Malloc, 1>>) IN [p EXCEPT !.live = <<>>, !.gone = @ \o p.live]
fast_pool_list(n) == Pool(Times(Malloc, n))

(* testing/02: the order book, a map from price to the orders resting      *)
(* there, oldest first.  seq numbers the orders accepted.                  *)
levels_ == [p \in {} |-> <<>>]

\* A quantity that is not positive throws before the map is touched.
add(levels, o, seq) ==
    IF o.qty <= 0 THEN levels
    ELSE [p \in DOMAIN levels \cup {o.price} |->
             IF p # o.price THEN levels[p]
             ELSE Append(IF p \in DOMAIN levels THEN levels[p] ELSE <<>>, [id |-> o.id, seq |-> seq])]

\* The first order of that id, in the order of the prices; its level stays.
cancel(levels, id) ==
    LET found(p) == {k \in DOMAIN levels[p] : levels[p][k].id = id}
        hits == {p \in DOMAIN levels : found(p) # {}}
    IN  IF hits = {} THEN levels ELSE [levels EXCEPT ![Min(hits)] = RemoveAt(@, Min(found(Min(hits))))]

best_bid(levels) == Max(DOMAIN levels)
depth(levels) == MapThenSumSet(LAMBDA p : Len(levels[p]), DOMAIN levels)

\* What is fed is an order, or the id to cancel with price 0; accepted counts.
BookOp(b, o) ==
    IF o.price = 0
    THEN LET l == cancel(b.levels, o.id) IN [b EXCEPT !.levels = l, !.gone = @ + (IF l = b.levels THEN 0 ELSE 1)]
    ELSE [b EXCEPT !.levels = add(@, o, b.accepted), !.accepted = @ + (IF o.qty > 0 THEN 1 ELSE 0)]
OrderBook(ops) == FoldLeft(BookOp, [levels |-> levels_, accepted |-> 0, gone |-> 0], ops)

-------------------------------------------------------------------------------

Names == {"traverse", "vwap", "layout", "threshold", "abs", "clamp", "order", "book", "add",
          "prefix", "signs", "quote", "percentile", "ewma", "sum", "overflow", "access",
          "samples", "arena", "demos", "pool", "orders"}

Values(name) ==
    CASE name = "traverse" -> {1, 2, 5}
      [] name = "vwap" -> [bid : {1, 4}, size : {0, 1, 3}]
      [] name = "layout" -> Structs
      [] name = "threshold" -> {Threshold - 1, Threshold, Threshold + 1}
      [] name = "abs" -> 0 .. 2 ^ Width - 1
      [] name = "clamp" -> {t \in (-2 .. 2) \X (-1 .. 1) \X (-1 .. 1) : t[2] <= t[3]}
      [] name = "order" -> [price : -1 .. 1, qty : -1 .. 1, id : -1 .. 1]
      [] name = "book" -> {0, 1} \X {7, 8}
      [] name = "add" -> (0 .. 3) \X (0 .. 3) \X (0 .. 3) \X (1 .. 3)
      [] name \in {"prefix", "signs", "ewma"} -> {-2, 0, 3}
      [] name = "quote" -> (-1 .. 4) \X (-1 .. 2) \X (-1 .. 2) \X (-1 .. 1)
      [] name = "percentile" -> {50, 95, 99, 100} \X (1 .. 12)
      [] name = "sum" -> {MinInt, -1, MaxInt}
      [] name = "overflow" -> Int_ \X Int_
      [] name = "access" -> (-1 .. 6) \X (0 .. 8)
      [] name = "samples" -> {99, 100, 1000, 100000}
      [] name = "arena" -> {<<"reset", 0, 1>>, <<"update", 0, 1>>, <<"alloc", 1, 1>>, <<"alloc", 6, 2>>, <<"alloc", 16, 16>>,
                           <<"alloc", 2 ^ SizeBits - 8, 1>>}
      [] name = "demos" -> 1 .. 6
      [] name = "pool" -> {Malloc, 1, 2}
      [] name = "orders" -> [id : {1, 2}, price : {0}, qty : {0}] \cup [id : {1, 2}, price : {5, 6}, qty : {0, 3}]

\* Kernels of one argument, and of an array or a stream.
Length(name) ==
    CASE name \in {"traverse", "vwap", "threshold", "book", "prefix", "signs", "ewma", "sum", "orders"} -> MaxLen
      [] name \in {"samples", "arena", "pool"} -> MaxStream
      [] OTHER -> 1

Init == kernel \in Names /\ input = <<>>

Feed(v) ==
    /\ Len(input) < Length(kernel)
    /\ input' = Append(input, v)
    /\ UNCHANGED kernel

Next == \E v \in Values(kernel) : Feed(v)

Spec == Init /\ [][Next]_vars

-------------------------------------------------------------------------------
(* What each should be.                                                    *)

Prices(q) == {q[k].bid : k \in {j \in DOMAIN q : q[j].size > 0}}

\* Any shuffle visits every element once.
TraverseRight(d) ==
    /\ \A p \in Permutations_(Len(d)) : sum_random(d, p) = sum_sequential(d)
    /\ Len(d) % 2 = 0 => Cardinality(visited_by_stride(Len(d), 2)) = Len(d) \div 2

\* The layouts agree on the weighted mean, which is between the prices that have a volume.
VwapRight(q) ==
    LET b == FillSoA(q)
        v == vwap_aos(q)
        volume == MapThenSumSet(LAMBDA k : q[k].size, DOMAIN q)
    IN  /\ vwap_soa(b) = v /\ vwap(b.bid, b.size) = v
        /\ volume > 0 => v = <<MapThenSumSet(LAMBDA k : q[k].bid * q[k].size, DOMAIN q), volume>>
        /\ Prices(q) # {} => v[1] >= Min(Prices(q)) * v[2] /\ v[1] <= Max(Prices(q)) * v[2]

\* Members are aligned, in order and apart, and the size is the one asserted; in
\* Padded, and not in Shared, they are in different cache lines.  (Ten bytes of
\* PaddedBad are padding, where its comment has "7 wasted".)
LayoutRight(s) ==
    LET o == Layout(s)
        n == Len(s)
    IN  /\ \A k \in 1 .. n : o[k] % s[k][2] = 0 /\ o[k] + s[k][1] <= o[k + 1]
        /\ o[n + 1] = SizeOf(s)
        /\ s \in {Shared, Padded} => ((o[1] \div 64 = o[2] \div 64) <=> s = Shared)

ThresholdRight(d) ==
    /\ sum_above(d) = sum_above_sorted(d)
    /\ sum_above(d) = (Threshold + 1) * Cardinality({k \in DOMAIN d : d[k] = Threshold + 1})

\* "abs via std::abs -- same result", for every int but the smallest, of which
\* neither is defined.
AbsRight(r) ==
    \A v \in generate(r) \ {MinInt} : abs_branch(v) = {Max({v, -v})} /\ abs_branchless(v) = {Max({v, -v})}

OrderRight(o) ==
    /\ (validate_order(o) = "None") <=> (o.price > 0 /\ o.qty > 0 /\ o.id > 0)
    /\ validate_order(o) \in {"None", "DuplicateId"} <=> accepts(o.price, o.qty)

BookRight(us) ==
    LET book == FoldLeft(LAMBDA b, u : update(b, u[1], u[2]), [s \in {0, 1} |-> 5], us)
    IN  \A s \in {0, 1} :
          LET mine == {k \in DOMAIN us : us[k][1] = s}
          IN  book[s] = IF mine = {} THEN 5 ELSE us[Max(mine)][2]

\* The compiler's alias check: the loops agree unless the output begins inside an
\* operand it has still to read; aligned operands need no such check.
AddRight(a, b, out, n) ==
    LET mem == [k \in 1 .. 18 |-> k * k]
        clear(x) == out <= x \/ out >= x + n
        far(x) == Vector * x
    IN  /\ clear(a) /\ clear(b) => add_no_restrict(mem, a, b, out, n) = add_restrict(mem, a, b, out, n)
        /\ add_aligned(mem, far(a), far(b), far(out), 2 * n) = add_no_restrict(mem, far(a), far(b), far(out), 2 * n)

PrefixRight(d) ==
    /\ \A k \in DOMAIN d : prefix_sum(d)[k] = Sum(SubSeq(d, 1, k))
    /\ running_pnl(d) = Last(prefix_sum(d))

\* Of the numbers from -N/2 on, one more is negative than positive.
SignsRight(d) ==
    /\ accumulate_signs(d) = Cardinality({k \in DOMAIN d : d[k] > 0}) - Cardinality({k \in DOMAIN d : d[k] < 0})
    /\ demo_inline(2 * Len(d)) = -1

QuoteRight(venue, bid, ask, qty) ==
    /\ tick_size(venue) \in {1000, 100, 10, 1}
    /\ validate(bid, ask, qty) => 2 * bid < Twice_calc_mid(bid, ask) /\ Twice_calc_mid(bid, ask) < 2 * ask
    /\ order_sign("Buy") = -order_sign("Sell")
    /\ is_error(venue) <=> fast_sign(venue) # 0

\* No percentile below 100 reads past the end; the clamped ones none at all.
PercentileRight(p, n) ==
    /\ pct_chrono(p, n) \in 0 .. n - 1 /\ pct_bench(p, n) = pct_chrono(p, n)
    /\ p < 100 => pct_histogram(p, n) = pct_chrono(p, n)
    /\ overhead_p99(n) = pct_chrono(99, n)

EwmaRight(d) ==
    LET e == compute_ewma(d)
    IN  Min(Range(d)) * e[2] <= e[1] /\ e[1] <= Max(Range(d)) * e[2]

\* The sum is defined, and right, if every partial sum is an int.
SumRight(d) ==
    (\A k \in DOMAIN d : Sum(SubSeq(d, 1, k)) \in Int_) => sum_array(d) = {Sum(d)}

OverflowRight(a, b) ==
    LET r == add_overflow(a, b)
    IN  r[1] <=> (a >= 0 /\ b >= 0 /\ r[2] < 0) \/ (a < 0 /\ b < 0 /\ r[2] >= 0)

AccessRight(idx, n) ==
    LET arr == <<1, 2, 3, 4, 5>>
        buf == [k \in 1 .. 6 |-> 0]
    IN  /\ checked_index(arr, idx) = <<>> <=> idx \notin 0 .. 4
        /\ (safe_shift(1, n) # <<>>) <=> n < Width
        /\ (maybe_find_price(n > 0) = <<>>) <=> n = 0
        /\ n <= 3 => memcpy_from(memcpy_to(buf, n, <<4, 2, 5>>), n, 3) = <<4, 2, 5>>

LastOf(s, n) == SubSeq(s, Max({1, Len(s) - n + 1}), Len(s))
Count(s, P(_)) == Cardinality({k \in DOMAIN s : P(s[k])})

\* The ring holds "the last N raw samples" once there are as many, the mean is
\* "always over the last N samples"; at least p per cent of the samples are no larger
\* than the percentile p and at most p per cent smaller; each bucket counts the samples
\* its label names.
SamplesRight(s) ==
    LET last == LastOf(s, Window)
    IN  /\ Len(s) >= BufSize => Sorted(ring(s)) = Sorted(LastOf(s, BufSize))
        /\ mean(buf_(s)) = <<Sum(last), Len(last)>>
        /\ \A p \in {50, 95, 99} : \A w \in {s} \cup {x \in {ring(s)} : Len(s) >= BufSize} :
             LET v == pct(p, w)
             IN  100 * Count(w, LAMBDA x : x <= v) >= p * Len(w) /\ 100 * Count(w, LAMBDA x : x < v) <= p * Len(w)
        /\ \A b \in 0 .. 4 : buckets(s)[b] =
             Count(s, LAMBDA x : (b > 0 => x >= 10 ^ (b + 1)) /\ (b < 4 => x < 10 ^ (b + 2)))

\* Blocks are aligned, inside the buffer and apart.
Apart(a) ==
    /\ \A k \in DOMAIN a.blocks : LET b == a.blocks[k] IN b[1] % b[3] = 0 /\ b[1] + b[2] <= Capacity
    /\ \A j, k \in DOMAIN a.blocks : j < k => a.blocks[j][1] + a.blocks[j][2] <= a.blocks[k][1]

\* So they are as long as no sum of alloc() has wrapped, which takes a request near
\* SIZE_MAX: such a block is handed out and ends past the buffer.
Wraps(a, r) == r[1] = "alloc" /\ Aligned(a.used, r[3]) + r[2] >= 2 ^ SizeBits
ArenaRight(rs) ==
    LET after(k) == FoldLeft(Request, Fresh, SubSeq(rs, 1, k))
    IN  (\A k \in DOMAIN rs : ~Wraps(after(k - 1), rs[k])) => Apart(after(Len(rs)))

\* The programs never see a null pointer or std::bad_alloc: what they ask for fits.
DemosRight(n) ==
    LET a == demo_arena(2, n)
    IN  /\ arena2_capacity(n) <= Capacity => a.refused = 0 /\ Len(a.blocks) = n /\ Apart(a)
        /\ Len(demo_monotonic) = 1 /\ Len(folly_vector) = 1
        /\ \A b \in {SysArena_values, SysArena_request} : b.refused = 0 /\ Apart(b)

\* A chunk is live or free, never both and never twice; a pool cuts no more chunks than
\* were live at once: "second round served from free-list".
PoolRight(ops) ==
    LET p == Pool(ops)
        most == Max({Len(Pool(SubSeq(ops, 1, k)).live) : k \in 0 .. Len(ops)})
    IN  /\ IsInjective(p.live \o p.free) /\ Range(p.live \o p.free) = 1 .. p.cut
        /\ p.cut = most
        /\ demo_pool(Len(ops)).cut = Len(ops) /\ demo_pool(Len(ops)).live = <<>>
        /\ raw_pool.live = <<>> /\ IsInjective(object_pool.gone) /\ Len(object_pool.gone) = 2
        /\ fast_pool_list(Len(ops)).cut = Len(ops)

\* depth() is what was accepted less what was cancelled, orders of one price keep the
\* order of their arrival, none rests above best_bid(), and cancel() finds every order
\* that rests.  (That one rests at best_bid() is BestBidRests.)
OrdersRight(ops) ==
    LET b == OrderBook(ops)
        l == b.levels
    IN  /\ depth(l) = b.accepted - b.gone
        /\ \A p \in DOMAIN l : \A j, k \in DOMAIN l[p] : j < k => l[p][j].seq < l[p][k].seq
        /\ \A p \in DOMAIN l : l[p] # <<>> => p <= best_bid(l)
        /\ \A id \in {1, 2} : (cancel(l, id) = l) <=> \A p \in DOMAIN l : \A k \in DOMAIN l[p] : l[p][k].id # id

-------------------------------------------------------------------------------
(* Properties.                                                             *)

\* The kernels compute what they should for every input for which they are defined:
\* orders of traversal, data layouts, branches and vectorised loops make no difference
\* to the result; a checked operation refuses exactly what would be undefined
\* (performance/01 to 05, 09 and 10, build_tooling/03).
ComputesRight ==
    LET x == Last(input)
    IN  input # <<>> =>
        CASE kernel = "traverse" -> TraverseRight(input)
          [] kernel = "vwap" -> VwapRight(input)
          [] kernel = "threshold" -> ThresholdRight(input)
          [] kernel = "abs" -> AbsRight(x)
          [] kernel = "clamp" -> clamp_bl(x[1], x[2], x[3]) = Sorted(x)[2]
          [] kernel = "order" -> OrderRight(x)
          [] kernel = "book" -> BookRight(input)
          [] kernel = "add" -> AddRight(x[1], x[2], x[3], x[4])
          [] kernel = "prefix" -> PrefixRight(input)
          [] kernel = "signs" -> SignsRight(input)
          [] kernel = "quote" -> QuoteRight(x[1], x[2], x[3], x[4])
          [] kernel = "ewma" -> EwmaRight(input)
          [] kernel = "sum" -> SumRight(input)
          [] kernel = "overflow" -> OverflowRight(x[1], x[2])
          [] kernel = "access" -> AccessRight(x[1], x[2])
          [] OTHER -> TRUE

\* What is kept is kept in its place: members of a struct, blocks of an arena and
\* chunks of a pool are aligned and apart, a pool hands out no chunk twice, windows
\* hold the last samples, and a book its orders by price and time; no percentile reads
\* past the end (performance/02, 06, 07 and 10, boost/08 and 09, folly/09, testing/02).
\* Of the arena it is claimed for requests whose end does not wrap.
StoredRight ==
    LET x == Last(input)
    IN  input # <<>> =>
        CASE kernel = "layout" -> LayoutRight(x)
          [] kernel = "percentile" -> PercentileRight(x[1], x[2])
          [] kernel = "samples" -> SamplesRight(input)
          [] kernel = "arena" -> ArenaRight(input)
          [] kernel = "demos" -> DemosRight(x)
          [] kernel = "pool" -> PoolRight(input)
          [] kernel = "orders" -> OrdersRight(input)
          [] OTHER -> TRUE

\* "best is now 99.50" (BestBidUpdatesAfterCancel): best_bid() is the highest price at
\* which an order rests, also after cancel().
BestBidRests ==
    kernel = "orders" =>
        LET l == OrderBook(input).levels
        IN  depth(l) > 0 => best_bid(l) = Max({p \in DOMAIN l : l[p] # <<>>})
================================================================================
