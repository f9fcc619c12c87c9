------------------------------ MODULE ScanPatterns ------------------------------
(* The algorithms whose parallel pattern is one __parallel_strict_scan: a call is   *)
(* one of them on some data, the scan keeps its contract, and the functors the       *)
(* pattern gives it read and write slots of memory: the mask, the range, the buffer  *)
(* of raw memory and the output. The slots hold elements, <<sequence, place>>.       *)
EXTENDS Integers, FiniteSets, Bags, Sequences

CONSTANTS MaxMasked,       \* bound on the length of the range of a masked copy,
          MaxN1, MaxN2,    \* on those of the two sequences of a set operation,
          MaxSum,          \* and on the two together
          SetKeys,         \* the keys of the elements of the set operations
          SetCutOff,       \* __set_algo_cut_off
          NoSum            \* of the scan: apex has not been called

ASSUME ScanAssumption ==
  /\ {MaxMasked, MaxN1, MaxN2, MaxSum, SetCutOff} \subseteq Nat /\ SetKeys \subseteq Int
  /\ NoSum \notin {-1} \X Nat

VARIABLES scanCall,        \* the call
          memory,          \* the memory, and whether it has been used as it may be
          sums,            \* the values of the blocks reduced so far
          scanN, scanReduced, total, scanned, scanReturned,  \* the strict scan
          copies,          \* the parallel copies left
          scanPc, scanAnswer \* what the call returned: {}, or {it}

strictScan == <<scanN, scanReduced, total, scanned, scanReturned>>
scanVars == <<scanCall, memory, sums, strictScan, copies, scanPc, scanAnswer>>

Contract == INSTANCE ScanContract WITH n <- scanN, reduced <- scanReduced, returned <- scanReturned
Mask == INSTANCE MaskedCopies
Set == INSTANCE SetOperations

IsSet(call) == call.alg \in Set!Algs
Removes == Mask!Removes(scanCall)
plan == Set!Plan(scanCall)

Raw == <<0, 0>>
MovedFrom == <<0, 1>>
NotWritten == <<0, 2>>

Fill(len, e) == [k \in 0..(len - 1) |-> e]

\* Places at, at + 1, ... of a memory get the elements of a sequence.
Put(mem, at, seq) ==
  [k \in DOMAIN mem |-> IF k \in at..(at + Len(seq) - 1) THEN seq[k - at + 1] ELSE mem[k]]

AllAre(mem, at, len, e) == \A k \in at..(at + len - 1) : k \in DOMAIN mem /\ mem[k] = e
NoneIs(mem, at, len, e) == \A k \in at..(at + len - 1) : k \in DOMAIN mem /\ mem[k] # e

ScanCalls ==
  (UNION {Mask!Calls(m) : m \in 0..MaxMasked}) \cup
  (UNION {Set!Calls(m[1], m[2], SetKeys) :
            m \in {p \in (0..MaxN1) \X (0..MaxN2) : p[1] + p[2] <= MaxSum}})

\* The length of the scan, 0 where the call needs none.
ScanLength(call) ==
  IF IsSet(call)
    THEN LET p == Set!Plan(call) IN IF p.kind = "set_op" THEN Set!Size(call.a) - p.a0 ELSE 0
    ELSE IF Mask!Short(call) THEN 0 ELSE Mask!Size(call) - Mask!ScanBegin(call)

Size(call) == IF IsSet(call) THEN Set!Size(call.a) + Set!Size(call.b) ELSE Mask!Size(call)

ScanInit ==
  /\ scanCall \in ScanCalls
  /\ LET m == Size(scanCall)
     IN  memory = [mask |-> Fill(m, "unset"), src |-> [k \in 0..(m - 1) |-> <<1, k>>], buf |-> <<>>,
                   out |-> Fill(m, NotWritten), out2 |-> Fill(m, NotWritten), ok |-> TRUE]
  /\ scanN = ScanLength(scanCall)
  /\ sums = {}
  /\ scanReduced = EmptyBag /\ total = NoSum /\ scanned = EmptyBag /\ scanReturned = FALSE
  /\ copies = {}
  /\ scanPc = "begin"
  /\ scanAnswer = {}

IsSerial == IF IsSet(scanCall) THEN plan.kind = "serial" ELSE Mask!Short(scanCall)

Results(yes) ==
  IF IsSet(scanCall) THEN [k \in 1..Cardinality(Set!Chosen(scanCall)) |-> Set!Nth(scanCall, k - 1)]
                     ELSE [k \in 1..Cardinality(Mask!Chosen(scanCall, yes)) |-> Mask!Nth(scanCall, yes, k - 1)]

\* The serial algorithm does it all.
Serially ==
  /\ scanPc = "begin"
  /\ IsSerial
  /\ memory' = IF Removes THEN [memory EXCEPT !.src = Put(@, 0, Results(TRUE))]
               ELSE [memory EXCEPT !.out = Put(@, 0, Results(TRUE)),
                                   !.out2 = IF scanCall.alg = "partition_copy" THEN Put(@, 0, Results(FALSE)) ELSE @]
  /\ scanAnswer' = {Len(Results(TRUE))}
  /\ scanPc' = "done"
  /\ UNCHANGED <<scanCall, sums, strictScan, copies>>

\* The buffers are allocated; the reduction of __remove_elements has written the mask
\* and found the first element to remove (see ReducePatterns).
Begin ==
  /\ scanPc = "begin"
  /\ ~IsSerial
  /\ IF IsSet(scanCall)
       THEN /\ copies' = plan.copies
            /\ memory' = [memory EXCEPT !.buf = Fill(IF plan.kind = "set_op"
                                 THEN Set!SizeFunc(scanCall.alg, scanN, Set!Size(scanCall.b) - plan.b0) ELSE 0, Raw)]
       ELSE /\ copies' = {}
            /\ memory' = IF Removes
                           THEN [memory EXCEPT !.buf = Fill(scanN, Raw), !.mask = Mask!Masked(scanCall, @, 0, Size(scanCall))]
                           ELSE memory
  /\ scanPc' = IF scanN = 0 THEN "join" ELSE "scan"
  /\ UNCHANGED <<scanCall, sums, strictScan, scanAnswer>>

\* What a call of reduce for [i, j) leaves in the memory, and its value.
Reduced(i, j) ==
  IF IsSet(scanCall)
    THEN LET r == Set!Reduce(scanCall, plan, i, j)
         IN  <<[memory EXCEPT !.buf = Put(@, r[2].buf, r[1]),
                              !.ok = @ /\ AllAre(memory.buf, r[2].buf, r[2].len, Raw)], r[2]>>
    ELSE LET base == Mask!ScanBegin(scanCall)
             mask == IF Removes THEN memory.mask ELSE Mask!Masked(scanCall, memory.mask, i, j)
         IN  <<[memory EXCEPT !.mask = mask,
                              !.ok = @ /\ NoneIs(mask, base + i, j - i, "unset")],
               Mask!BlockValue(mask, base + i, base + j)>>

ReduceBlock(i, len) ==
  /\ scanPc = "scan"
  /\ Contract!Reduce(i, len)
  /\ LET r == Reduced(i, i + len)
     IN  /\ memory' = r[1]
         /\ sums' = sums \cup {[lo |-> i, hi |-> i + len, val |-> r[2]]}
  /\ UNCHANGED <<scanCall, copies, scanPc, scanAnswer>>

Combine(u, v) == IF IsSet(scanCall) THEN Set!Combine(u, v) ELSE Mask!Combine(u, v)

InitialSum == IF IsSet(scanCall) THEN Set!NoRange ELSE Mask!NoCounts

\* The sum of what precedes place k, the end of a block.
SumUpTo(k) ==
  LET upto[j \in {0} \cup {b.hi : b \in sums}] ==
        IF j = 0 THEN InitialSum
        ELSE LET s == CHOOSE b \in sums : b.hi = j IN Combine(upto[s.lo], s.val)
  IN  upto[k]

\* Scan and apex of __parallel_set_op: the last range of a sum leaves the buffer.
MoveRange(s) ==
  IF Set!Empty(s) THEN memory
  ELSE [memory EXCEPT !.out = Put(@, plan.at + s.pos, [k \in 1..s.len |-> memory.buf[s.buf + k - 1]]),
                      !.buf = Put(@, s.buf, [k \in 1..s.len |-> Raw]),
                      !.ok = @ /\ NoneIs(memory.buf, s.buf, s.len, Raw)
                               /\ AllAre(memory.out, plan.at + s.pos, s.len, NotWritten)]

\* The length of the output, from what apex got: __m.
OutputLength(s) == IF IsSet(scanCall) THEN s.pos + s.len ELSE s.yes

\* apex: the set operations move the last range here.
ApexCall ==
  /\ scanPc = "scan"
  /\ Contract!Apex
  /\ memory' = IF IsSet(scanCall) THEN MoveRange(SumUpTo(scanN)) ELSE memory
  /\ UNCHANGED <<scanCall, sums, copies, scanPc, scanAnswer>>

\* The elements of <<from, to>> pairs are copied from a memory to one whose slots are free.
Assigned(mem, from, pairs) ==
  [k \in DOMAIN mem |-> IF \E t \in pairs : t[2] = k
                          THEN from[(CHOOSE t \in pairs : t[2] = k)[1]] ELSE mem[k]]
Targets(mem, pairs, e) == \A t \in pairs : t[2] \in DOMAIN mem /\ mem[t[2]] = e

\* [mutant] The elements not kept are written where as many kept ones begin.
CopyMasked_SameInitial(i, j, s) ==
  LET base == Mask!ScanBegin(scanCall)
      yes == Mask!Transfers(memory.mask, base + i, base + j, "yes", s.yes)
      no  == Mask!Transfers(memory.mask, base + i, base + j, "no", s.yes)
  IN  IF Removes
        THEN [memory EXCEPT !.buf = Assigned(@, memory.src, yes),
                            !.src = [k \in DOMAIN @ |-> IF \E t \in yes : t[1] = k THEN MovedFrom ELSE @[k]],
                            !.ok = @ /\ Targets(memory.buf, yes, Raw) /\ \A t \in yes : memory.src[t[1]] # MovedFrom]
      ELSE IF scanCall.alg = "partition_copy"
        THEN [memory EXCEPT !.out = Assigned(@, memory.src, yes), !.out2 = Assigned(@, memory.src, no),
                            !.ok = @ /\ Targets(memory.out, yes, NotWritten) /\ Targets(memory.out2, no, NotWritten)]
      ELSE [memory EXCEPT !.out = Assigned(@, memory.src, yes),
                          !.ok = @ /\ Targets(memory.out, yes, NotWritten)]

\* Scan of the masked copies: the block [i, j) is copied by its mask, or moved to the
\* raw memory of the buffer.
CopyMasked(i, j, s) ==
  LET base == Mask!ScanBegin(scanCall)
      yes == Mask!Transfers(memory.mask, base + i, base + j, "yes", s.yes)
      no  == Mask!Transfers(memory.mask, base + i, base + j, "no", s.no)
  IN  IF Removes
        THEN [memory EXCEPT !.buf = Assigned(@, memory.src, yes),
                            !.src = [k \in DOMAIN @ |-> IF \E t \in yes : t[1] = k THEN MovedFrom ELSE @[k]],
                            !.ok = @ /\ Targets(memory.buf, yes, Raw) /\ \A t \in yes : memory.src[t[1]] # MovedFrom]
      ELSE IF scanCall.alg = "partition_copy"
        THEN [memory EXCEPT !.out = Assigned(@, memory.src, yes), !.out2 = Assigned(@, memory.src, no),
                            !.ok = @ /\ Targets(memory.out, yes, NotWritten) /\ Targets(memory.out2, no, NotWritten)]
      ELSE [memory EXCEPT !.out = Assigned(@, memory.src, yes),
                          !.ok = @ /\ Targets(memory.out, yes, NotWritten)]

ScanBlock(i, len) ==
  /\ scanPc = "scan"
  /\ Contract!Scan(i, len)
  /\ memory' = IF IsSet(scanCall) THEN MoveRange(SumUpTo(i)) ELSE CopyMasked(i, i + len, SumUpTo(i))
  /\ UNCHANGED <<scanCall, sums, copies, scanPc, scanAnswer>>

\* The scan returns; __remove_elements then moves the elements of the buffer back.
ScanReturns ==
  /\ scanPc = "scan"
  /\ Contract!Return
  /\ scanPc' = "join"
  /\ copies' = IF Removes THEN {Set!Copy(0, k, k + 1, Mask!ScanBegin(scanCall) + k) :
                                  k \in 0..(SumUpTo(scanN).yes - 1)} ELSE copies
  /\ UNCHANGED <<scanCall, memory, sums, scanAnswer>>

\* One of the parallel copies beside the scan of a set operation, or an element of the
\* parallel loop after the scan of __remove_elements.
CopyRange(t) ==
  /\ scanPc \in {"scan", "join"}
  /\ t \in copies
  /\ copies' = copies \ {t}
  /\ LET elements == [k \in 1..(t.hi - t.lo) |-> <<t.seq, t.lo + k - 1>>]
     IN  memory' = IF t.seq = 0
                     THEN [memory EXCEPT !.src[t.at] = memory.buf[t.lo], !.buf[t.lo] = Raw,
                                         !.ok = @ /\ memory.buf[t.lo] # Raw]
                     ELSE [memory EXCEPT !.out = Put(@, t.at, elements),
                                         !.ok = @ /\ AllAre(memory.out, t.at, Len(elements), NotWritten)]
  /\ UNCHANGED <<scanCall, sums, strictScan, scanPc, scanAnswer>>

Finish ==
  /\ scanPc = "join"
  /\ copies = {}
  /\ scanAnswer' = {IF IsSet(scanCall) THEN plan.at + (IF scanN = 0 THEN 0 ELSE OutputLength(SumUpTo(scanN)))
                    ELSE Mask!ScanBegin(scanCall) + (IF scanN = 0 THEN 0 ELSE OutputLength(SumUpTo(scanN)))}
  /\ scanPc' = "done"
  /\ UNCHANGED <<scanCall, memory, sums, strictScan, copies>>

ScanNext ==
  \/ Serially \/ Begin \/ ApexCall \/ ScanReturns \/ Finish
  \/ \E i \in 0..(scanN - 1) : \E len \in 1..(scanN - i) : ReduceBlock(i, len) \/ ScanBlock(i, len)
  \/ \E t \in copies : CopyRange(t)

ScanSpec == ScanInit /\ [][ScanNext]_scanVars
-------------------------------------------------------------------------------
\* The output, and nothing beyond it, holds the elements the algorithm keeps, in order,
\* and the call returns its end (the patterns from algorithm_impl.h:1269 to 3554).
ScanIsCorrect ==
  scanPc = "done" =>
    LET kept == Results(TRUE)
        others == Results(FALSE)
        Same(t, u) == IF scanCall.alg = "intersection" THEN Set!Key(scanCall, t) = Set!Key(scanCall, u) ELSE t = u
    IN  /\ scanAnswer = {Len(kept)}
        /\ IF Removes THEN \A k \in 1..Len(kept) : memory.src[k - 1] = kept[k]
           ELSE /\ \A k \in 1..Len(kept) : memory.out[k - 1] # NotWritten /\ Same(memory.out[k - 1], kept[k])
                /\ AllAre(memory.out, Len(kept), Size(scanCall) - Len(kept), NotWritten)
                /\ scanCall.alg = "partition_copy" =>
                            memory.out2 = Put(Fill(Size(scanCall), NotWritten), 0, others)

\* Raw memory is constructed in once, moved from once and raw in the end; an output
\* slot is written once; a mask is read after it is written: the blocks that the
\* functors make of [i, len) never overlap, however they are shifted
\* (algorithm_impl.h:1468, 3068-3112).
LifetimesKept ==
  /\ memory.ok
  /\ scanPc = "done" => \A k \in DOMAIN memory.buf : memory.buf[k] = Raw

\* One way to put the brackets between two ends of blocks, from those between nearer ones.
Ends == {b.hi : b \in sums} \cup {0}
Spans == {p \in Ends \X Ends : p[1] < p[2]}
Combined(us, vs) == {Combine(u, v) : u \in us, v \in vs}
Brackets(p, all) ==
  {b.val : b \in {d \in sums : d.lo = p[1] /\ d.hi = p[2]}} \cup
  UNION {Combined(all[<<p[1], e>>], all[<<e, p[2]>>]) : e \in {d \in Ends : p[1] < d /\ d < p[2]}}

\* The scan may combine neighbouring blocks in any order: every way to put the brackets
\* gives one sum (algorithm_impl.h:3113-3117, "Combine").
OneBracketing ==
  (total = NoSum /\ scanN > 0 /\ scanPc = "scan" /\ Contract!Covered) =>
    LET all[p \in Spans] == Brackets(p, all)
    IN  {Combine(InitialSum, s) : s \in all[<<0, scanN>>]} = {SumUpTo(scanN)}

\* What the test states of set_intersection (set.pass.cpp:139-143, "wrong
\* set_intersection effect"): the output is the one of std::set_intersection, whose
\* elements come from the first sequence. The branch that swaps the sequences copies
\* the equal elements of the second one (algorithm_impl.h:3391-3402).
IntersectionFromFirst ==
  (scanPc = "done" /\ scanCall.alg = "intersection") =>
    \A k \in 0..(Size(scanCall) - 1) : memory.out[k] # NotWritten => memory.out[k] = Set!Nth(scanCall, k)
===============================================================================
