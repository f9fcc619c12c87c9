-------------------------- MODULE SegmentedAlgorithms --------------------------
(* The algorithms that reduce or scan segments of equal keys, and those that search  *)
(* a sorted range for many values: the library's algorithms they are made of, one     *)
(* after the other, on the host and on a device. Value i is <<i>> and the operation    *)
(* joins sequences, so that every associative one is covered. A scan may put the        *)
(* brackets anywhere, and a loop may take its elements in any order.                    *)
EXTENDS Integers, Sequences, FiniteSets, FiniteSetsExt, SequencesExt

CONSTANTS MaxKeys,         \* bound on the number of keys
          MaxSought,       \* bound on the number of values sought
          GroupSize        \* __wgroup_size: the longest segment a work-item reduces

VARIABLES request,         \* the algorithm, where it runs, the keys and the values sought
          stages,          \* what comes next
          buffers,         \* the temporary buffers and the output
          left,            \* the elements of the loop under way that it has still to take
          returned         \* {}, or {how far into the output the returned iterator leads}

vars == <<request, stages, buffers, left, returned>>

Scans == {"inclusive_scan_by_segment", "exclusive_scan_by_segment"}
Searches == {"lower_bound", "upper_bound", "binary_search"}

Arrays(max, S) == UNION {[0..(m - 1) -> S] : m \in 0..max}
Ascending(a) == \A i, j \in DOMAIN a : i < j => a[i] <= a[j]
Request(alg, device, keys, sought) == [alg |-> alg, device |-> device, keys |-> keys, sought |-> sought]

BySegment(alg) ==
  {Request(alg, device, keys, << >>) : device \in BOOLEAN, keys \in Arrays(MaxKeys, {1, 2})}
ReduceCalls == BySegment("reduce_by_segment")
InclusiveCalls == BySegment("inclusive_scan_by_segment")
ExclusiveCalls == BySegment("exclusive_scan_by_segment")
SearchCalls ==
  {Request(alg, device, keys, sought) : alg \in Searches, device \in BOOLEAN,
     keys \in {a \in Arrays(MaxKeys, {1, 3}) : Ascending(a)}, sought \in Arrays(MaxSought, 0..4)}

n == Cardinality(DOMAIN request.keys)
Value(i) == <<i>>
InitialValue == << -1 >>

\* What a place of a buffer or an output holds before anything is written to it.
Unset == << -2 >>
NoKey == 0
NoPlace == -1
Fresh(m, unset) == [i \in 0..(m - 1) |-> unset]
-------------------------------------------------------------------------------
(* The calls each algorithm makes. Of the scans only the host's make an exception of *)
(* one key, and of the searches only the device's of no key.                          *)
Unless(trivial, calls) == IF n = 0 THEN << >> ELSE IF n = 1 /\ trivial THEN <<"one key">> ELSE calls

HostReduce == Unless(TRUE, <<"flags", "scan", "places", "scatter">>)
HostInclusive == Unless(TRUE, <<"flags", "scan">>)
HostExclusive == Unless(TRUE, <<"flags", "shift", "scan">>)
RangeReduce == Unless(TRUE, <<"pick pieces", "reduce pieces", "pick segments", "reduce segments">>)
DeviceReduce == IF n = 0 THEN << >> ELSE RangeReduce
DeviceInclusive == Unless(FALSE, <<"flags", "scan">>)
DeviceExclusive == Unless(FALSE, <<"flags", "shift", "scan with init">>)
DeviceSearch == Unless(FALSE, <<"search">>)

Stages ==
  CASE request.alg = "reduce_by_segment"         -> IF request.device THEN DeviceReduce ELSE HostReduce
    [] request.alg = "inclusive_scan_by_segment" -> IF request.device THEN DeviceInclusive ELSE HostInclusive
    [] request.alg = "exclusive_scan_by_segment" -> IF request.device THEN DeviceExclusive ELSE HostExclusive
    [] request.alg \in Searches                  -> IF request.device THEN DeviceSearch ELSE <<"search">>

Init ==
  /\ request \in ReduceCalls \cup InclusiveCalls \cup ExclusiveCalls \cup SearchCalls
  /\ stages = Stages
  /\ buffers = [flags |-> << >>, terms |-> [i \in 0..(n - 1) |-> Value(i)], sums |-> << >>, places |-> << >>,
                ends |-> << >>, keys |-> request.keys, outKeys |-> Fresh(n, NoKey),
                out |-> IF request.alg \in Searches THEN Fresh(Cardinality(DOMAIN request.sought), NoPlace)
                                                    ELSE Fresh(n, Unset)]
  /\ left = {}
  /\ returned = {}

At(stage) == stages # << >> /\ Head(stages) = stage
NextStage == stages' = Tail(stages) /\ UNCHANGED <<request, returned>>

\* The next call is a loop over m elements, one by one.
LoopOver(m) == left' = 0..(m - 1) /\ NextStage
LoopEnds == left = {} /\ NextStage /\ UNCHANGED <<buffers, left>>

OneKey ==
  /\ At("one key")
  /\ buffers' = [buffers EXCEPT !.out[0] = IF request.alg = "exclusive_scan_by_segment" THEN InitialValue ELSE Value(0),
                                !.outKeys[0] = IF request.alg = "reduce_by_segment" THEN request.keys[0] ELSE @]
  /\ NextStage /\ UNCHANGED left
-------------------------------------------------------------------------------
\* transform with __not_pred: the first keys of the segments are flagged, and for the
\* reduction one place past the end.
Flags ==
  /\ At("flags")
  /\ buffers' = [buffers EXCEPT !.flags =
       [i \in 0..(IF request.alg = "reduce_by_segment" THEN n ELSE n - 1) |->
          IF i \in {0, n} \/ request.keys[i - 1] # request.keys[i] THEN 1 ELSE 0]]
  /\ NextStage /\ UNCHANGED left

\* replace_if_fun: the values move on by one place, and segments begin with init.
Shift ==
  /\ At("shift")
  /\ buffers' = [buffers EXCEPT !.terms =
       [i \in DOMAIN @ |-> IF buffers.flags[i] = 1 THEN InitialValue ELSE Value(i - 1)]]
  /\ NextStage /\ UNCHANGED left

\* [mutant] The second part of the pair is the flag of the second operand alone.
SegmentedScanFun_LastFlag(x, y) == <<IF y[2] = 1 THEN y[1] ELSE x[1] \o y[1], y[2]>>

\* segmented_scan_fun
SegmentedScanFun(x, y) ==
  <<IF y[2] = 1 THEN y[1] ELSE x[1] \o y[1], IF x[2] = 1 THEN 1 ELSE y[2]>>

\* Everything a scan may make of a sequence: it puts the brackets where it likes.
Bracketed(s) ==
  LET all[p \in (1..Len(s)) \X (1..Len(s))] ==
        IF p[1] = p[2] THEN {s[p[1]]}
        ELSE UNION {{SegmentedScanFun(x, y) : x \in all[<<p[1], k>>], y \in all[<<k + 1, p[2]>>]} :
                      k \in p[1]..(p[2] - 1)}
  IN  all[<<1, Len(s)>>]

Terms(i) == [k \in 1..(i + 1) |-> <<buffers.terms[k - 1], buffers.flags[k - 1]>>]
InitialTerm == << <<InitialValue, 1>> >>

\* inclusive_scan of the terms and their flags. The scans by segment write their output
\* and, in place, the flags; the reduction leaves the flags alone.
ScanTerms ==
  /\ At("scan") \/ At("scan with init")
  /\ LET upto(i) == Bracketed((IF At("scan") THEN << >> ELSE InitialTerm) \o Terms(i))
     IN  \E pairs \in [0..(n - 1) -> UNION {upto(i) : i \in 0..(n - 1)}] :
           /\ \A i \in DOMAIN pairs : pairs[i] \in upto(i)
           /\ LET sums == [i \in DOMAIN pairs |-> pairs[i][1]]
                  flags == [i \in DOMAIN pairs |-> pairs[i][2]]
              IN  buffers' = IF request.alg = "reduce_by_segment" THEN [buffers EXCEPT !.sums = sums]
                             ELSE [buffers EXCEPT !.out = sums, !.flags = flags]
  /\ NextStage /\ UNCHANGED left

\* exclusive_scan of the flags from the second one on: the segment of each value.
Places ==
  /\ At("places")
  /\ buffers' = [buffers EXCEPT !.places =
       [i \in 0..(n - 1) |-> Cardinality({k \in 1..i : buffers.flags[k] = 1})]]
  /\ LoopOver(n)

\* scatter_and_accumulate_fun in for_each: the first of a segment gives its key, the
\* last one its sum.
Scatter(i) ==
  /\ At("scatter") /\ i \in left
  /\ left' = left \ {i}
  /\ LET place == buffers.places[i]
     IN  buffers' = [buffers EXCEPT
           !.outKeys[place] = IF buffers.flags[i] = 1 THEN request.keys[i] ELSE @,
           !.out[place] = IF buffers.flags[i + 1] = 1 THEN buffers.sums[i] ELSE @]
  /\ UNCHANGED <<request, stages, returned>>
-------------------------------------------------------------------------------
(* The reduction on a device: pieces of segments first, then the segments.          *)

LastOf(keys, len, cuts) ==
  {i \in 0..(len - 1) : i = len - 1 \/ i \in cuts \/ keys[i + 1] # keys[i]}

\* copy_if with __brick_assign_key_position: the keys of the pieces' last places, and
\* the places after them. Pieces are cut for their length too, segments are not.
Pick ==
  LET pieces == At("pick pieces")
      len  == Cardinality(DOMAIN buffers.keys)
      cuts == IF pieces THEN {i \in 0..len : i % GroupSize = 0} ELSE {}
      last == SetToSortSeq(LastOf(buffers.keys, len, cuts), <)
      keys == [j \in 0..(Len(last) - 1) |-> buffers.keys[last[j + 1]]]
  IN  /\ pieces \/ At("pick segments")
      /\ buffers' = [buffers EXCEPT !.ends = [j \in 0..(Len(last) - 1) |-> last[j + 1] + 1],
                                    !.keys = IF pieces THEN keys ELSE @,
                                    !.outKeys = IF pieces THEN @ ELSE keys @@ @]
      /\ LoopOver(Len(last))

\* __brick_reduce_idx: a work-item joins the values from the end of the piece before.
Joined(j, values) ==
  LET from == IF j = 0 THEN 0 ELSE buffers.ends[j - 1]
  IN  FlattenSeq([k \in 1..(buffers.ends[j] - from) |-> values[from + k - 1]])

ReducePiece(j) ==
  /\ j \in left
  /\ left' = left \ {j}
  /\ \/ At("reduce pieces") /\ buffers' = [buffers EXCEPT !.sums = (j :> Joined(j, buffers.terms)) @@ @]
     \/ At("reduce segments") /\ buffers' = [buffers EXCEPT !.out[j] = Joined(j, buffers.sums)]
  /\ UNCHANGED <<request, stages, returned>>
-------------------------------------------------------------------------------
(* The searches: a loop over the values sought, on the host with std's search.       *)

\* __pstl_lower_bound, and __pstl_upper_bound with the comparison reordered and negated.
Bound(a, v, upper) ==
  LET Before(k) == IF upper THEN ~(v < a[k]) ELSE a[k] < v
      from[first \in 0..n, len \in 0..n] ==
        IF len = 0 THEN first
        ELSE LET cur == len \div 2
             IN  IF Before(first + cur) THEN from[first + cur + 1, len - (cur + 1)] ELSE from[first, cur]
  IN  from[0, n]

HostBound(a, v, upper) == Cardinality({k \in DOMAIN a : IF upper THEN a[k] <= v ELSE a[k] < v})

\* custom_brick
Found(v) ==
  LET a == request.keys
      BoundOf(upper) == IF request.device THEN Bound(a, v, upper) ELSE HostBound(a, v, upper)
  IN  CASE request.alg = "lower_bound" -> BoundOf(FALSE)
        [] request.alg = "upper_bound" -> BoundOf(TRUE)
        [] request.alg = "binary_search" -> IF BoundOf(FALSE) # n /\ v = a[BoundOf(FALSE)] THEN 1 ELSE 0

Search ==
  /\ At("search")
  /\ buffers' = [buffers EXCEPT !.out = [k \in DOMAIN request.sought |-> Found(request.sought[k])]]
  /\ NextStage /\ UNCHANGED left
-------------------------------------------------------------------------------
\* A device that has nothing to search in returns result itself.
Result ==
  CASE request.alg \in Scans    -> n
    [] request.alg \in Searches -> IF request.device /\ n = 0 THEN 0 ELSE Cardinality(DOMAIN request.sought)
    [] n < 2                    -> n
    [] OTHER                    -> IF request.device THEN Cardinality(DOMAIN buffers.ends) ELSE buffers.places[n - 1] + 1

Return ==
  /\ stages = << >> /\ returned = {}
  /\ returned' = {Result}
  /\ UNCHANGED <<request, stages, buffers, left>>

Next ==
  \/ OneKey \/ Flags \/ Shift \/ ScanTerms \/ Places \/ Pick \/ Search \/ Return
  \/ (At("scatter") \/ At("reduce pieces") \/ At("reduce segments")) /\ LoopEnds
  \/ \E i \in left : Scatter(i) \/ ReducePiece(i)

Spec == Init /\ [][Next]_vars
-------------------------------------------------------------------------------
SegmentBegins == {i \in DOMAIN request.keys : i = 0 \/ request.keys[i - 1] # request.keys[i]}
BeginOf(i) == Max({b \in SegmentBegins : b <= i})
Run(i, j) == [k \in 1..(j - i) |-> i + k - 1]

\* A device searches an empty range for nothing, see ReturnsEndOfResults.
NotSearched == request.device /\ n = 0

\* Segments are reduced, or scanned, in order and never across their ends, and every
\* value is sought for, however the parts of a scan are joined (additional_algorithms.rst,
\* reduce_by_segment_impl.h:50-138, algorithm_ranges_impl_hetero.h:639-774,
\* binary_search_impl.h:39-196).
SegmentsAreKept ==
  returned # {} =>
    LET begins == SetToSortSeq(SegmentBegins, <)
        EndOf(j) == IF j = Len(begins) THEN n ELSE begins[j + 1]
        Sums(i) == CASE request.alg = "inclusive_scan_by_segment" -> Run(BeginOf(i), i + 1)
                     [] request.alg = "exclusive_scan_by_segment" -> InitialValue \o Run(BeginOf(i), i)
        Below(v) == Cardinality({k \in DOMAIN request.keys : request.keys[k] < v})
        UpTo(v) == Cardinality({k \in DOMAIN request.keys : request.keys[k] <= v})
        Answer(v) == CASE request.alg = "lower_bound" -> Below(v)
                       [] request.alg = "upper_bound" -> UpTo(v)
                       [] request.alg = "binary_search" -> IF UpTo(v) > Below(v) THEN 1 ELSE 0
    IN  CASE request.alg = "reduce_by_segment" ->
               /\ returned = {Len(begins)}
               /\ \A j \in 1..Len(begins) :
                    /\ buffers.outKeys[j - 1] = request.keys[begins[j]]
                    /\ buffers.out[j - 1] = Run(begins[j], EndOf(j))
               /\ \A k \in Len(begins)..(n - 1) : buffers.out[k] = Unset /\ buffers.outKeys[k] = NoKey
          [] request.alg \in Scans -> returned = {n} /\ \A i \in 0..(n - 1) : buffers.out[i] = Sums(i)
          [] OTHER -> NotSearched \/ \A k \in DOMAIN request.sought : buffers.out[k] = Answer(request.sought[k])

\* The documentation of the searches: "An iterator to one past the last value in the
\* result sequence is returned" (additional_algorithms.rst:46-66).
ReturnsEndOfResults ==
  (returned # {} /\ request.alg \in Searches) => returned = {Cardinality(DOMAIN request.sought)}
===============================================================================
