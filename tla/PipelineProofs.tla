--------------------------- MODULE PipelineProofs ---------------------------
(***************************************************************************)
(* Theorems of the commands over finished traces: the benchmark, the       *)
(* credibility suite, the recommendations and what-if reports, and the     *)
(* Batsim path.                                                            *)
(***************************************************************************)
EXTENDS Pipeline, SharedLemmas, SequenceTheorems

-----------------------------------------------------------------------------
(* The benchmark.                                                          *)

Records == BenchProfiles \X Rates \X {"pass", "fail"}
Garbled == <<"garbled">>

(* PriorPasses, PriorTail and RegressionFail of a given history.           *)
Passes(lines, p) == {i \in DOMAIN lines : lines[i] # Garbled /\ lines[i][1] = p /\ lines[i][3] = "pass"}
TailOf(lines, p) == {i \in Passes(lines, p) : Cardinality({j \in Passes(lines, p) : j > i}) < HistoryWindow}
RatesOf(lines, p) == [i \in TailOf(lines, p) |-> lines[i][2]]
Floor(lines, given, p) ==
  Median2(RatesOf(lines, p)) *
    (100 - (IF ~ given THEN 10
            ELSE CASE DetectWorkloadClass(Figures[p]) = "heavy_tail" -> 15
                   [] DetectWorkloadClass(Figures[p]) = "low_congestion" -> 8
                   [] OTHER -> 10))
Regresses(lines, given, p, rate) ==
  Median2(RatesOf(lines, p)) > 0 /\ 200 * rate < Floor(lines, given, p)

(* A history keeps to its records; what is half-written is garbled.        *)
HistoryOK(lines, cut) ==
  /\ lines \in Seq(Records \cup {Garbled})
  /\ cut => lines # <<>> /\ lines[Len(lines)] = Garbled

(* No run of the profile of run i passed since.                            *)
NoPassSince(runs, i) ==
  \A k \in i..Len(runs) : runs[k][1] = runs[i][1] => runs[k][3] = "fail"

(* A run that failed would fail now, as long as none passed since.         *)
FailsStill(runs, lines, given) ==
  \A i \in DOMAIN runs :
    NoPassSince(runs, i) => Regresses(lines, given, runs[i][1], runs[i][2])

(* NoPassByRetry of a list of runs.                                        *)
NoRetry(runs) ==
  \A i, j \in DOMAIN runs :
    /\ i < j /\ runs[i][1] = runs[j][1] /\ runs[i][3] = "fail"
    /\ runs[j][2] <= runs[i][2]
    /\ \A k \in i..(j - 1) : runs[k][1] = runs[i][1] => runs[k][3] = "fail"
    => runs[j][3] = "fail"

BenchInv ==
  /\ regression_config \in BOOLEAN
  /\ torn \in BOOLEAN
  /\ results \in Seq(Records)
  /\ HistoryOK(history, torn)
  /\ FailsStill(results, history, regression_config)
  /\ NoRetry(results)

(* The value of a function at one place among finitely many is a natural:  *)
(* the k-th smallest of at least k values.                                 *)
LEMMA SmallestIsNatural ==
  ASSUME NEW D, IsFiniteSet(D), NEW values \in [D -> Nat], D # {},
         NEW k \in Nat, k <= Cardinality(D)
  PROVE  Smallest(values, k) \in Nat
  <1> DEFINE V == {v \in Range(values) : Cardinality({i \in DOMAIN values : values[i] <= v}) >= k}
  <1>1. Range(values) \in SUBSET Nat /\ Range(values) # {} /\ IsFiniteSet(Range(values))
    <2>1. values \in Surjection(D, Range(values))
      BY DEF Surjection, Range
    <2>2. IsFiniteSet(Range(values))
      BY <2>1, FS_Surjection
    <2> QED
      BY <2>2 DEF Range
  <1>2. Max(Range(values)) \in V
    <2>1. /\ Max(Range(values)) \in Range(values)
          /\ \A v \in Range(values) : v <= Max(Range(values))
      BY <1>1, MaxOfFinite
    <2>2. {i \in DOMAIN values : values[i] <= Max(Range(values))} = D
      BY <2>1 DEF Range
    <2>3. Cardinality(D) \in Nat
      BY FS_CardinalityType
    <2> QED
      BY <2>1, <2>2, <2>3
  <1>3. V \in SUBSET Nat
    BY <1>1
  <1> HIDE DEF V
  <1>4. PICK m \in V : \A n \in V : m <= n
    BY <1>2, <1>3, LeastNatural
  <1>5. Min(V) \in V
    BY <1>4 DEF Min
  <1>6. Smallest(values, k) = Min(V)
    BY DEF V, Smallest
  <1> QED
    BY <1>3, <1>5, <1>6

(* The median of finitely many naturals is one half of a natural.          *)
LEMMA MedianIsNatural ==
  ASSUME NEW D, IsFiniteSet(D), NEW values \in [D -> Nat]
  PROVE  Median2(values) \in Nat
  <1> DEFINE n == Cardinality(D)
  <1>1. n \in Nat /\ DOMAIN values = D
    BY FS_CardinalityType
  <1>2. CASE n = 0
    BY <1>1, <1>2 DEF Median2
  <1>3. CASE n # 0
    <2>1. D # {}
      BY <1>3, FS_EmptySet
    <2> HIDE DEF n
    <2>2. (n + 1) \div 2 \in Nat /\ (n + 1) \div 2 <= n /\ n \div 2 + 1 \in Nat /\ n \div 2 + 1 <= n
      BY <1>1, <1>3
    <2>3. Smallest(values, (n + 1) \div 2) \in Nat /\ Smallest(values, n \div 2 + 1) \in Nat
      BY <2>1, <2>2, SmallestIsNatural DEF n
    <2>4. Median2(values) = Smallest(values, (n + 1) \div 2) + Smallest(values, n \div 2 + 1)
      BY <1>1, <1>3 DEF Median2, n
    <2> QED
      BY <2>3, <2>4
  <1> QED
    BY <1>2, <1>3

(* The floor of a profile is an integer.                                   *)
LEMMA FloorIsInteger ==
  ASSUME NEW lines \in Seq(Records \cup {Garbled}), NEW given \in BOOLEAN, NEW p
  PROVE  Floor(lines, given, p) \in Int
  <1>1. DOMAIN lines = 1..Len(lines) /\ Len(lines) \in Nat /\ IsFiniteSet(1..Len(lines))
    BY LenProperties, FS_Interval
  <1>2. TailOf(lines, p) \in SUBSET (1..Len(lines))
    BY <1>1 DEF TailOf, Passes
  <1>3. IsFiniteSet(TailOf(lines, p))
    BY <1>1, <1>2, FS_Subset
  <1>4. RatesOf(lines, p) \in [TailOf(lines, p) -> Nat]
    <2> SUFFICES ASSUME NEW i \in TailOf(lines, p) PROVE lines[i][2] \in Nat
      BY DEF RatesOf
    <2>1. i \in 1..Len(lines) /\ lines[i] # Garbled
      BY <1>1 DEF TailOf, Passes
    <2>2. lines[i] \in Records
      BY <2>1, ElementOfSeq
    <2> QED
      BY <2>2, BenchAssumption DEF Records
  <1>5. Median2(RatesOf(lines, p)) \in Nat
    BY <1>3, <1>4, MedianIsNatural
  <1> DEFINE drop == IF ~ given THEN 10
                     ELSE CASE DetectWorkloadClass(Figures[p]) = "heavy_tail" -> 15
                            [] DetectWorkloadClass(Figures[p]) = "low_congestion" -> 8
                            [] OTHER -> 10
  <1>6. drop \in Nat
    OBVIOUS
  <1> HIDE DEF drop
  <1>7. Median2(RatesOf(lines, p)) * (100 - drop) \in Int
    BY <1>5, <1>6
  <1> QED
    BY <1>7 DEF Floor, drop

(* RegressionFail in these words.                                          *)
LEMMA RegressionInWords ==
  ASSUME NEW p, NEW rate
  PROVE  RegressionFail(p, rate) <=> Regresses(history, regression_config, p, rate)
  <1>1. PriorPasses(p) = Passes(history, p)
    BY DEF PriorPasses, LoadHistory, Passes, Garbled
  <1>2. PriorTail(p) = TailOf(history, p)
    BY <1>1 DEF PriorTail, TailOf
  <1>3. [i \in PriorTail(p) |-> history[i][2]] = RatesOf(history, p)
    BY <1>2 DEF RatesOf
  <1> QED
    BY <1>3 DEF RegressionFail, Regresses, Floor, RegressionMaxDrop

(* What is slower than what regresses regresses.                           *)
LEMMA SlowerRegresses ==
  ASSUME NEW lines \in Seq(Records \cup {Garbled}), NEW given \in BOOLEAN, NEW p,
         NEW fast \in Nat, NEW slow \in Nat, slow <= fast,
         Regresses(lines, given, p, fast)
  PROVE  Regresses(lines, given, p, slow)
  <1>1. Floor(lines, given, p) \in Int
    BY FloorIsInteger
  <1> QED
    BY <1>1 DEF Regresses

(* The passing runs of a profile are the same ones.                        *)
PassesSame(more, lines, p) ==
  Passes(more, p) = Passes(lines, p) /\ \A i \in Passes(lines, p) : more[i] = lines[i]

(* A line that is no passing run of a profile changes nothing for it.      *)
LEMMA SamePasses ==
  ASSUME NEW lines, NEW more, NEW given, NEW p, NEW rate, PassesSame(more, lines, p)
  PROVE  Regresses(more, given, p, rate) <=> Regresses(lines, given, p, rate)
  <1>1. TailOf(more, p) = TailOf(lines, p)
    BY DEF TailOf, PassesSame
  <1>2. RatesOf(more, p) = RatesOf(lines, p)
    BY <1>1 DEF RatesOf, TailOf, PassesSame
  <1> QED
    BY <1>2 DEF Regresses, Floor

(* What either way of ending a run leaves in the file.                     *)
Written(lines, cut, record) ==
  IF cut THEN [lines EXCEPT ![Len(lines)] = Garbled] ELSE Append(lines, record)
HalfWritten(lines, cut) == IF cut THEN lines ELSE Append(lines, Garbled)

(* A line that is no passing run of a profile.                             *)
SaysNothing(line, p) == line = Garbled \/ line[1] # p \/ line[3] # "pass"

(* A line added at the end, of which only a record that passes is one more *)
(* passing run, and of its own profile.                                    *)
LEMMA LineAdded ==
  ASSUME NEW lines \in Seq(Records \cup {Garbled}), NEW line \in Records \cup {Garbled},
         NEW p, SaysNothing(line, p)
  PROVE  /\ Append(lines, line) \in Seq(Records \cup {Garbled})
         /\ Append(lines, line) # <<>>
         /\ Append(lines, line)[Len(Append(lines, line))] = line
         /\ PassesSame(Append(lines, line), lines, p)
  <1> DEFINE more == Append(lines, line)
             n == Len(lines)
  <1>1. /\ more \in Seq(Records \cup {Garbled}) /\ Len(more) = n + 1 /\ more # <<>>
        /\ \A i \in 1..n : more[i] = lines[i]
        /\ more[n + 1] = line
    BY AppendProperties
  <1>2. n \in Nat /\ DOMAIN lines = 1..n /\ DOMAIN more = 1..(n + 1)
    BY <1>1, LenProperties
  <1> HIDE DEF more, n
  <1>3. \A i \in 1..(n + 1) : i \in 1..n \/ i = n + 1
    BY <1>2
  <1>4. Passes(more, p) = Passes(lines, p)
    BY <1>1, <1>2, <1>3 DEF Passes, SaysNothing
  <1>5. \A i \in Passes(lines, p) : more[i] = lines[i]
    BY <1>1, <1>2 DEF Passes
  <1> QED
    BY <1>1, <1>4, <1>5 DEF more, PassesSame

(* A run that ends leaves a history with at most one more passing run, its *)
(* own; so a profile of which no run passed stands as it stood.            *)
LEMMA RunKeepsHistory ==
  ASSUME NEW lines, NEW cut \in BOOLEAN, HistoryOK(lines, cut), NEW record \in Records,
         NEW more, NEW after \in BOOLEAN,
         \/ more = Written(lines, cut, record) /\ after = FALSE
         \/ more = HalfWritten(lines, cut) /\ after = TRUE
  PROVE  /\ HistoryOK(more, after)
         /\ \A given, p, rate : record[1] # p \/ record[3] # "pass" =>
              (Regresses(more, given, p, rate) <=> Regresses(lines, given, p, rate))
  <1>0. lines \in Seq(Records \cup {Garbled}) /\ DOMAIN lines = 1..Len(lines) /\ Len(lines) \in Nat
    BY LenProperties DEF HistoryOK
  <1>1. ASSUME cut PROVE Written(lines, cut, record) = lines /\ HalfWritten(lines, cut) = lines
    <2>1. lines[Len(lines)] = Garbled
      BY <1>1 DEF HistoryOK
    <2>2. [lines EXCEPT ![Len(lines)] = Garbled] = lines
      BY <1>0, <2>1
    <2> QED
      BY <1>1, <2>2 DEF Written, HalfWritten
  <1>2. CASE cut
    BY <1>1, <1>2 DEF HistoryOK
  <1>3. CASE ~ cut /\ more = Append(lines, record) /\ after = FALSE
    <2>1. HistoryOK(more, after)
      BY <1>0, <1>3, AppendProperties DEF HistoryOK
    <2>2. ASSUME NEW given, NEW p, NEW rate, record[1] # p \/ record[3] # "pass"
          PROVE  Regresses(more, given, p, rate) <=> Regresses(lines, given, p, rate)
      <3>1. PassesSame(more, lines, p)
        <4>1. record \in Records \cup {Garbled} /\ lines \in Seq(Records \cup {Garbled})
          BY <1>0
        <4>2. SaysNothing(record, p)
          BY <2>2 DEF SaysNothing
        <4>3. PassesSame(Append(lines, record), lines, p)
          BY <4>1, <4>2, LineAdded
        <4> QED
          BY <1>3, <4>3
      <3> QED
        BY <3>1, SamePasses
    <2> QED
      BY <2>1, <2>2
  <1>4. CASE ~ cut /\ more = Append(lines, Garbled) /\ after = TRUE
    <2>1. HistoryOK(more, after)
      BY <1>0, <1>4, LineAdded DEF HistoryOK
    <2>2. ASSUME NEW given, NEW p, NEW rate
          PROVE  Regresses(more, given, p, rate) <=> Regresses(lines, given, p, rate)
      <3>1. PassesSame(more, lines, p)
        <4>1. Garbled \in Records \cup {Garbled} /\ lines \in Seq(Records \cup {Garbled})
          BY <1>0
        <4>2. SaysNothing(Garbled, p)
          BY DEF SaysNothing
        <4>3. PassesSame(Append(lines, Garbled), lines, p)
          BY <4>1, <4>2, LineAdded
        <4> QED
          BY <1>4, <4>3
      <3> QED
        BY <3>1, SamePasses
    <2> QED
      BY <2>1, <2>2
  <1> QED
    BY <1>2, <1>3, <1>4 DEF Written, HalfWritten

(* One more run keeps what is said of the runs.                            *)
LEMMA RunKeepsRuns ==
  ASSUME BenchInv, NEW p \in BenchProfiles, NEW rate \in Rates, NEW status \in {"pass", "fail"},
         status = "fail" <=> Regresses(history, regression_config, p, rate),
         NEW lines,
         \A given, q, r : p # q \/ status # "pass" =>
           (Regresses(lines, given, q, r) <=> Regresses(history, given, q, r))
  PROVE  LET more == Append(results, <<p, rate, status>>)
         IN  /\ more \in Seq(Records)
             /\ FailsStill(more, lines, regression_config)
             /\ NoRetry(more)
  <1> DEFINE record == <<p, rate, status>>
             more == Append(results, record)
             n == Len(results)
  <1>1. record \in Records /\ record[1] = p /\ record[2] = rate /\ record[3] = status
    BY DEF Records
  <1> HIDE DEF record
  <1>2. results \in Seq(Records)
    BY DEF BenchInv
  <1>3. /\ more \in Seq(Records) /\ Len(more) = n + 1
        /\ \A i \in 1..n : more[i] = results[i]
        /\ more[n + 1] = record
    BY <1>1, <1>2, AppendProperties
  <1>4. n \in Nat /\ DOMAIN results = 1..n /\ DOMAIN more = 1..(n + 1)
    BY <1>2, <1>3, LenProperties
  <1> HIDE DEF more
  <1>5. \A i \in 1..(n + 1) : i \in 1..n \/ i = n + 1
    BY <1>4
  <1>6. FailsStill(more, lines, regression_config)
    <2> SUFFICES ASSUME NEW i \in 1..(n + 1), NoPassSince(more, i)
                 PROVE  Regresses(lines, regression_config, more[i][1], more[i][2])
      BY <1>4 DEF FailsStill
    <2>1. CASE i = n + 1
      <3>1. n + 1 \in i..Len(more)
        BY <1>3, <1>4, <2>1
      <3>2. status = "fail"
        BY <1>1, <1>3, <2>1, <3>1 DEF NoPassSince
      <3> QED
        BY <1>1, <1>3, <2>1, <3>2
    <2>2. CASE i \in 1..n
      <3>1. \A k \in i..n : k \in i..Len(more) /\ more[k] = results[k]
        BY <1>3, <1>4, <2>2
      <3>2. NoPassSince(results, i)
        BY <1>3, <2>2, <3>1 DEF NoPassSince
      <3>3. Regresses(history, regression_config, results[i][1], results[i][2])
        BY <1>4, <2>2, <3>2 DEF BenchInv, FailsStill
      <3>4. n + 1 \in i..Len(more)
        BY <1>3, <1>4, <2>2
      <3>5. p # results[i][1] \/ status # "pass"
        BY <1>1, <1>3, <2>2, <3>4 DEF NoPassSince
      <3> QED
        BY <1>3, <2>2, <3>3, <3>5
    <2> QED
      BY <1>5, <2>1, <2>2
  <1>7. NoRetry(more)
    <2> SUFFICES ASSUME NEW i \in 1..(n + 1), NEW j \in 1..(n + 1),
                        i < j, more[i][1] = more[j][1], more[i][3] = "fail",
                        more[j][2] <= more[i][2],
                        \A k \in i..(j - 1) : more[k][1] = more[i][1] => more[k][3] = "fail"
                 PROVE  more[j][3] = "fail"
      BY <1>4 DEF NoRetry
    <2>1. i \in 1..n
      BY <1>4, <1>5
    <2>2. CASE j \in 1..n
      <3>1. \A k \in i..(j - 1) : k \in 1..n /\ more[k] = results[k]
        BY <1>3, <1>4, <2>1, <2>2
      <3>2. \A k \in i..(j - 1) : results[k][1] = results[i][1] => results[k][3] = "fail"
        BY <1>3, <2>1, <3>1
      <3>3. more[i] = results[i] /\ more[j] = results[j]
        BY <1>3, <2>1, <2>2
      <3>4. NoRetry(results)
        BY DEF BenchInv
      <3> QED
        BY <1>4, <2>1, <2>2, <3>2, <3>3, <3>4 DEF NoRetry
    <2>3. CASE j = n + 1
      <3>1. \A k \in i..n : k \in i..(j - 1) /\ more[k] = results[k]
        BY <1>3, <1>4, <2>1, <2>3
      <3>2. NoPassSince(results, i)
        BY <1>3, <2>1, <3>1 DEF NoPassSince
      <3>3. Regresses(history, regression_config, results[i][1], results[i][2])
        BY <1>4, <2>1, <3>2 DEF BenchInv, FailsStill
      <3>4. results[i][1] = p /\ rate <= results[i][2]
        BY <1>1, <1>3, <2>1, <2>3
      <3>5. results[i] \in Records
        BY <1>2, <2>1, ElementOfSeq
      <3>6. rate \in Nat /\ results[i][2] \in Nat
        BY <3>5, BenchAssumption DEF Records
      <3>7. history \in Seq(Records \cup {Garbled}) /\ regression_config \in BOOLEAN
        BY DEF BenchInv, HistoryOK
      <3>8. Regresses(history, regression_config, p, rate)
        BY <3>3, <3>4, <3>6, <3>7, SlowerRegresses
      <3> QED
        BY <1>1, <1>3, <2>3, <3>8
    <2> QED
      BY <1>5, <2>2, <2>3
  <1> QED
    BY <1>3, <1>6, <1>7 DEF more, record

(* Before any run there is nothing to compare with.                        *)
LEMMA BenchInitInv == BenchInit => BenchInv
  <1> SUFFICES ASSUME BenchInit PROVE BenchInv
    OBVIOUS
  <1>1. HistoryOK(history, torn)
    BY DEF BenchInit, HistoryOK
  <1>2. FailsStill(results, history, regression_config) /\ NoRetry(results)
    BY DEF BenchInit, FailsStill, NoRetry
  <1>3. regression_config \in BOOLEAN
    BY DEF BenchInit
  <1>4. torn = FALSE
    BY DEF BenchInit
  <1>5. torn \in BOOLEAN
    BY ONLY <1>4
  <1>6. results \in Seq(Records)
    BY DEF BenchInit
  <1> QED
    BY <1>1, <1>2, <1>3, <1>5, <1>6 DEF BenchInv

(* Every run keeps the invariant, however it ends.                         *)
LEMMA BenchStep == BenchInv /\ [BenchNext]_benchVars => BenchInv'
  <1> SUFFICES ASSUME BenchInv, [BenchNext]_benchVars PROVE BenchInv'
    OBVIOUS
  <1>1. CASE UNCHANGED benchVars
    BY <1>1 DEF BenchInv, benchVars
  <1>2. ASSUME NEW p \in BenchProfiles, NEW rate \in Rates,
               RunBenchmarkSuite(p, rate) \/ CrashInAppend(p, rate)
        PROVE  BenchInv'
    <2> DEFINE status == IF RegressionFail(p, rate) THEN "fail" ELSE "pass"
               record == <<p, rate, status>>
    <2>1. /\ results' = Append(results, record) /\ regression_config' = regression_config
          /\ \/ history' = Written(history, torn, record) /\ torn' = FALSE
             \/ history' = HalfWritten(history, torn) /\ torn' = TRUE
      BY <1>2 DEF RunBenchmarkSuite, CrashInAppend, AppendHistory, Written, HalfWritten, Garbled
    <2>2. /\ status \in {"pass", "fail"}
          /\ status = "fail" <=> Regresses(history, regression_config, p, rate)
      BY RegressionInWords
    <2> HIDE DEF status
    <2>3. record \in Records /\ record[1] = p /\ record[3] = status
      BY <2>2 DEF Records
    <2>4. torn \in BOOLEAN /\ torn' \in BOOLEAN /\ HistoryOK(history, torn)
      BY <2>1 DEF BenchInv
    <2>5. /\ HistoryOK(history', torn')
          /\ \A given, q, r : record[1] # q \/ record[3] # "pass" =>
               (Regresses(history', given, q, r) <=> Regresses(history, given, q, r))
      <3> HIDE DEF record
      <3> QED
        BY <2>1, <2>3, <2>4, RunKeepsHistory
    <2>6. \A given, q, r : p # q \/ status # "pass" =>
            (Regresses(history', given, q, r) <=> Regresses(history, given, q, r))
      <3> HIDE DEF record
      <3> QED
        BY <2>3, <2>5
    <2>7. /\ results' \in Seq(Records)
          /\ FailsStill(results', history', regression_config)
          /\ NoRetry(results')
      BY <2>1, <2>2, <2>6, RunKeepsRuns
    <2> QED
      BY <2>1, <2>4, <2>5, <2>7 DEF BenchInv
  <1> QED
    BY <1>1, <1>2 DEF BenchNext

(* artifacts/benchmark.py: a benchmark that failed is not passed by running *)
(* it again no faster, whatever other profiles ran in between and wherever *)
(* a crash cut the history.                                                *)
THEOREM RetriesDoNotPass == Spec => []NoPassByRetry
  <1>1. BenchInv => NoPassByRetry
    BY DEF BenchInv, NoRetry, NoPassByRetry
  <1>2. Init => BenchInv
    BY BenchInitInv DEF Init
  <1>3. BenchInv /\ [Next]_vars => BenchInv'
    BY BenchStep DEF Next, vars, RecommendCommand, WhatIfCommand, CredibilityCommand, BenchmarkCommand, BatsimCommands
  <1> QED
    BY <1>1, <1>2, <1>3, PTL DEF Spec

-----------------------------------------------------------------------------
(* The credibility suite.                                                  *)

Advice == {"none"} \cup {RecommendationOf[x] : x \in (DOMAIN Replays) \X (DOMAIN Replays) \X {"pass", "fail"}}
Result == [trace : Traces, status : {"pass", "fail", "error"}, fidelity : {"none", "pass", "fail"}, recommendation : Advice]
Contents == DOMAIN Replays \cup {"none", "pass", "fail"} \cup Advice
Report == [trace : Traces, kind : KindsOfARun \cup {"trace_profile"}, suite : Nat, content : Contents]
StepNames == {"ingest", "profile", "features", "train", "replay_fifo", "replay_easy",
              "simulate_ml", "fidelity", "recommend", "manifest"}
RunType ==
  {Idle}
    \cup [step : {"next"}, pos : 1..(Len(SuiteTraces) + 1), per_trace : Seq(Result)]
    \cup [step : StepNames, pos : 1..Len(SuiteTraces), per_trace : Seq(Result),
          data : DOMAIN Replays \cup {"none"}, result : Result]

(* The stamped reports of one trace and suite, and what they say when      *)
(* whole; and the profile of a trace.                                      *)
Of(R, t, s) == {r \in R : r.trace = t /\ r.suite = s /\ r.kind # "trace_profile"}
Prof(R, t) == {p \in R : p.trace = t /\ p.kind = "trace_profile"}
Kinds(F) == {r.kind : r \in F}
Whole(F) ==
  /\ Kinds(F) = KindsOfARun
  /\ \A r \in F : r.kind = "fidelity_report" => r.content = "pass"
  /\ Cardinality({r.content : r \in {q \in F : OfTheFile(q.kind)}}) = 1
Line(t, k, s, c) == [trace |-> t, kind |-> k, suite |-> s, content |-> c]
Unique(R) == \A r, q \in R : r.trace = q.trace /\ r.kind = q.kind /\ r.suite = q.suite => r = q

(* The profile beside the reports of suite s when n suites were started:   *)
(* it is there while s is the last, and of no earlier suite.               *)
ProfileKept(R, t, s, n) ==
  /\ s = n => Prof(R, t) # {}
  /\ \A p \in Prof(R, t) :
       /\ p.suite >= s
       /\ p.suite = s => \A r \in Of(R, t, s) : OfTheFile(r.kind) => r.content = p.content
ProfileIs(P, s, file) == P # {} /\ \A p \in P : p.suite = s /\ p.content = file

(* An entry of a summary says of its trace what the reports of that suite  *)
(* say: it passed exactly if they are whole, and what was not cut short    *)
(* quotes them.                                                            *)
Stands(e, t, s, n, R, D) ==
  /\ e.trace = t
  /\ e.status = "pass" <=> Whole(Of(R, t, s))
  /\ e.status # "error" =>
       /\ t \in D
       /\ Line(t, "fidelity_report", s, e.fidelity) \in R
       /\ Line(t, "recommendation_report", s, e.recommendation) \in R
       /\ e.status = "pass" <=> e.fidelity = "pass"
       /\ ProfileKept(R, t, s, n)
AllStand(list, s, n, R, D) == \A i \in DOMAIN list : Stands(list[i], SuiteTraces[i], s, n, R, D)

(* The stamped reports a suite has written of a trace when it is at a step. *)
KindsBefore(step) ==
  CASE step \in {"ingest", "profile", "features", "train", "replay_fifo"} -> {}
    [] step = "replay_easy" -> {"FIFO_STRICT"}
    [] step = "simulate_ml" -> {"FIFO_STRICT", "EASY_BACKFILL_BASELINE"}
    [] step = "fidelity" -> {"FIFO_STRICT", "EASY_BACKFILL_BASELINE", "ML_BACKFILL_P50"}
    [] step = "recommend" -> {"FIFO_STRICT", "EASY_BACKFILL_BASELINE", "ML_BACKFILL_P50", "fidelity_report"}
    [] step = "manifest" -> KindsOfARun \ {"credibility_manifest"}
Says(F, file, result) == \A r \in F :
  r.content = CASE r.kind = "fidelity_report" -> result.fidelity
                [] r.kind = "recommendation_report" -> result.recommendation
                [] OTHER -> file

(* What a suite that runs has done: nothing of the traces to come, of the  *)
(* trace it is at the reports of the steps before.                         *)
RunInv ==
  run # Idle =>
    /\ Len(run.per_trace) = run.pos - 1
    /\ AllStand(run.per_trace, suites, suites, reports, dirs)
    /\ \A i \in (run.pos + 1)..Len(SuiteTraces) : Of(reports, SuiteTraces[i], suites) = {}
    /\ run.step = "next" /\ run.pos <= Len(SuiteTraces) => Of(reports, Trace, suites) = {}
    /\ run.step \in StepNames =>
         /\ Trace \in dirs
         /\ raw[Trace] \in DOMAIN Replays
         /\ run.step # "ingest" => run.data = raw[Trace]
         /\ run.result.trace = Trace
         /\ run.result.status = "error"
         /\ run.step \in {"recommend", "manifest"} => run.result.fidelity \in {"pass", "fail"}
         /\ Kinds(Of(reports, Trace, suites)) = KindsBefore(run.step)
         /\ Says(Of(reports, Trace, suites), raw[Trace], run.result)
         /\ run.step \notin {"ingest", "profile"} => ProfileIs(Prof(reports, Trace), suites, raw[Trace])

SummaryInv ==
  summary # NoSummary =>
    /\ summary.suite \in Nat
    /\ summary.suite <= suites
    /\ run # Idle => summary.suite < suites
    /\ summary.per_trace \in Seq(Result)
    /\ Len(summary.per_trace) = Len(SuiteTraces)
    /\ AllStand(summary.per_trace, summary.suite, suites, reports, dirs)
    /\ summary.status = Aggregate(summary.per_trace)

CredType ==
  /\ raw \in [Traces -> DOMAIN Replays \cup {"absent"}]
  /\ suites \in Nat
  /\ run \in RunType
  /\ dirs \subseteq Traces
  /\ reports \subseteq Report
  /\ Unique(reports)
  /\ \A r \in reports : r.suite <= suites

CredInv == CredType /\ RunInv /\ SummaryInv

(* The traces of the suite, of which there are finitely many.              *)
LEMMA SuiteFacts ==
  /\ Len(SuiteTraces) \in Nat
  /\ DOMAIN SuiteTraces = 1..Len(SuiteTraces)
  /\ \A i \in 1..Len(SuiteTraces) : SuiteTraces[i] \in Traces
  /\ \A i, j \in 1..Len(SuiteTraces) : SuiteTraces[i] = SuiteTraces[j] => i = j
  <1>1. Len(SuiteTraces) \in Nat /\ DOMAIN SuiteTraces = 1..Len(SuiteTraces)
    BY SuiteAssumption, LenProperties
  <1> QED
    BY <1>1, SuiteAssumption DEF Traces

(* The order of the steps.                                                 *)
LEMMA StepOrder ==
  /\ StepAfter("ingest") = "profile" /\ StepAfter("profile") = "features"
  /\ StepAfter("features") = "train" /\ StepAfter("train") = "replay_fifo"
  /\ StepAfter("replay_fifo") = "replay_easy" /\ StepAfter("replay_easy") = "simulate_ml"
  /\ StepAfter("simulate_ml") = "fidelity" /\ StepAfter("fidelity") = "recommend"
  /\ StepAfter("recommend") = "manifest"
  /\ Range(Steps) = StepNames
  <1>1. DOMAIN Steps = 1..10
    BY DEF Steps
  <1>2. \A i, j \in 1..10 : Steps[i] = Steps[j] => i = j
    BY DEF Steps
  <1>3. \A i \in 1..9 : StepAfter(Steps[i]) = Steps[i + 1]
    <2> SUFFICES ASSUME NEW i \in 1..9 PROVE StepAfter(Steps[i]) = Steps[i + 1]
      OBVIOUS
    <2>1. (CHOOSE j \in DOMAIN Steps : Steps[j] = Steps[i]) = i
      BY <1>1, <1>2
    <2>2. 1 + i = i + 1
      OBVIOUS
    <2> QED
      BY <2>1, <2>2 DEF StepAfter
  <1>4. Range(Steps) = StepNames
    <2>1. StepNames \subseteq {Steps[i] : i \in 1..10}
      <3>1. /\ Steps[1] = "ingest" /\ Steps[2] = "profile" /\ Steps[3] = "features" /\ Steps[4] = "train"
            /\ Steps[5] = "replay_fifo" /\ Steps[6] = "replay_easy" /\ Steps[7] = "simulate_ml"
            /\ Steps[8] = "fidelity" /\ Steps[9] = "recommend" /\ Steps[10] = "manifest"
        BY DEF Steps
      <3> QED
        BY <3>1 DEF StepNames
    <2>2. \A i \in 1..10 : Steps[i] \in StepNames
      BY DEF Steps, StepNames
    <2> QED
      BY <1>1, <2>1, <2>2 DEF Range
  <1>5. /\ Steps[1] = "ingest" /\ Steps[2] = "profile" /\ Steps[3] = "features" /\ Steps[4] = "train"
        /\ Steps[5] = "replay_fifo" /\ Steps[6] = "replay_easy" /\ Steps[7] = "simulate_ml"
        /\ Steps[8] = "fidelity" /\ Steps[9] = "recommend" /\ Steps[10] = "manifest"
    BY DEF Steps
  <1>6. /\ 1 \in 1..9 /\ 2 \in 1..9 /\ 3 \in 1..9 /\ 4 \in 1..9 /\ 5 \in 1..9 /\ 6 \in 1..9
        /\ 7 \in 1..9 /\ 8 \in 1..9 /\ 9 \in 1..9
        /\ 1 + 1 = 2 /\ 2 + 1 = 3 /\ 3 + 1 = 4 /\ 4 + 1 = 5 /\ 5 + 1 = 6 /\ 6 + 1 = 7 /\ 7 + 1 = 8
        /\ 8 + 1 = 9 /\ 9 + 1 = 10
    OBVIOUS
  <1> HIDE DEF Steps
  <1> QED
    BY <1>3, <1>4, <1>5, <1>6

(* A profile is kept as long as it is only replaced by that of a later     *)
(* suite.                                                                  *)
LEMMA ProfileStays ==
  ASSUME NEW t, NEW s \in Nat, NEW n, NEW m, NEW R, NEW S,
         ProfileKept(R, t, s, n), Of(S, t, s) = Of(R, t, s),
         s = m => n = m /\ Prof(S, t) = Prof(R, t),
         \A p \in Prof(S, t) : p \in Prof(R, t) \/ (p.suite \in Nat /\ p.suite > s)
  PROVE  ProfileKept(S, t, s, m)
  <1>1. s = m => Prof(S, t) # {}
    BY DEF ProfileKept
  <1>2. ASSUME NEW p \in Prof(S, t)
        PROVE  /\ p.suite >= s
               /\ p.suite = s => \A r \in Of(S, t, s) : OfTheFile(r.kind) => r.content = p.content
    <2>1. CASE p \in Prof(R, t)
      BY <2>1 DEF ProfileKept
    <2>2. CASE p.suite \in Nat /\ p.suite > s
      BY <2>2
    <2> QED
      BY <2>1, <2>2
  <1> QED
    BY <1>1, <1>2 DEF ProfileKept

(* An entry keeps standing while the reports of its trace and suite stay   *)
(* and its profile is kept.                                                *)
LEMMA StandsKept ==
  ASSUME NEW e, NEW t, NEW s, NEW n, NEW m, NEW R, NEW S, NEW D, NEW E,
         Stands(e, t, s, n, R, D), Of(S, t, s) = Of(R, t, s), D \subseteq E,
         ProfileKept(R, t, s, n) => ProfileKept(S, t, s, m)
  PROVE  Stands(e, t, s, m, S, E)
  <1>1. \A k, c : k # "trace_profile" /\ Line(t, k, s, c) \in R => Line(t, k, s, c) \in S
    <2> SUFFICES ASSUME NEW k, NEW c, k # "trace_profile", Line(t, k, s, c) \in R PROVE Line(t, k, s, c) \in S
      OBVIOUS
    <2>1. Line(t, k, s, c).trace = t /\ Line(t, k, s, c).suite = s /\ Line(t, k, s, c).kind = k
      BY DEF Line
    <2>2. Line(t, k, s, c) \in Of(R, t, s)
      BY <2>1 DEF Of
    <2> QED
      BY <2>2 DEF Of
  <1> QED
    BY <1>1 DEF Stands

(* A report written over the one of its name.                              *)
Overwritten(R, t, k, s, c) ==
  (R \ {r \in R : r.trace = t /\ r.kind = k /\ (k = "trace_profile" \/ r.suite = s)}) \cup {Line(t, k, s, c)}

LEMMA WriteReplaces ==
  ASSUME NEW R \in SUBSET Report, Unique(R),
         NEW t \in Traces, NEW k \in KindsOfARun, NEW s \in Nat, NEW c \in Contents,
         NEW S, S = Overwritten(R, t, k, s, c)
  PROVE  /\ S \in SUBSET Report
         /\ Unique(S)
         /\ \A u, v : u # t \/ v # s => Of(S, u, v) = Of(R, u, v)
         /\ Kinds(Of(S, t, s)) = Kinds(Of(R, t, s)) \cup {k}
         /\ \A r \in Of(S, t, s) : r = Line(t, k, s, c) \/ (r \in Of(R, t, s) /\ r.kind # k)
         /\ Line(t, k, s, c) \in Of(S, t, s)
         /\ \A r \in S : r.suite = s \/ r \in R
         /\ \A u : Prof(S, u) = Prof(R, u)
  <1> DEFINE new == Line(t, k, s, c)
  <1>1. new \in Report /\ new.trace = t /\ new.kind = k /\ new.suite = s /\ new.content = c
    BY DEF Line, Report
  <1>0. k # "trace_profile"
    BY DEF KindsOfARun
  <1> HIDE DEF new
  <1>2. S = (R \ {r \in R : r.trace = t /\ r.kind = k /\ r.suite = s}) \cup {new}
    BY <1>0 DEF new, Overwritten
  <1>3. S \in SUBSET Report
    BY <1>1, <1>2
  <1>4. Unique(S)
    BY <1>1, <1>2 DEF Unique
  <1>5. \A u, v : u # t \/ v # s => Of(S, u, v) = Of(R, u, v)
    BY <1>1, <1>2 DEF Of
  <1>6. \A r \in Of(S, t, s) : r = new \/ (r \in Of(R, t, s) /\ r.kind # k)
    BY <1>2 DEF Of
  <1>7. new \in Of(S, t, s)
    BY <1>0, <1>1, <1>2 DEF Of
  <1>8. Kinds(Of(S, t, s)) = Kinds(Of(R, t, s)) \cup {k}
    <2>1. \A r \in Of(R, t, s) : r.kind = k \/ r \in Of(S, t, s)
      BY <1>2 DEF Of
    <2> QED
      BY <1>1, <1>6, <1>7, <2>1 DEF Kinds
  <1>9. \A r \in S : r.suite = s \/ r \in R
    BY <1>1, <1>2
  <1>10. \A u : Prof(S, u) = Prof(R, u)
    BY <1>0, <1>1, <1>2 DEF Prof
  <1> QED
    BY <1>3, <1>4, <1>5, <1>6, <1>7, <1>8, <1>9, <1>10 DEF new

LEMMA ProfileReplaces ==
  ASSUME NEW R \in SUBSET Report, Unique(R), NEW t \in Traces, NEW s \in Nat, NEW c \in Contents,
         NEW S, S = Overwritten(R, t, "trace_profile", s, c)
  PROVE  /\ S \in SUBSET Report
         /\ Unique(S)
         /\ \A u, v : Of(S, u, v) = Of(R, u, v)
         /\ \A u : u # t => Prof(S, u) = Prof(R, u)
         /\ ProfileIs(Prof(S, t), s, c)
         /\ \A r \in S : r.suite = s \/ r \in R
  <1> DEFINE new == Line(t, "trace_profile", s, c)
  <1>1. new \in Report /\ new.trace = t /\ new.kind = "trace_profile" /\ new.suite = s /\ new.content = c
    BY DEF Line, Report
  <1> HIDE DEF new
  <1>2. S = (R \ {r \in R : r.trace = t /\ r.kind = "trace_profile"}) \cup {new}
    BY DEF new, Overwritten
  <1>3. S \in SUBSET Report /\ \A r \in S : r.suite = s \/ r \in R
    BY <1>1, <1>2
  <1>4. Unique(S)
    BY <1>1, <1>2 DEF Unique
  <1>5. \A u, v : Of(S, u, v) = Of(R, u, v)
    BY <1>1, <1>2 DEF Of
  <1>6. \A u : u # t => Prof(S, u) = Prof(R, u)
    BY <1>1, <1>2 DEF Prof
  <1>7. Prof(S, t) = {new}
    BY <1>1, <1>2 DEF Prof
  <1> QED
    BY <1>1, <1>3, <1>4, <1>5, <1>6, <1>7 DEF ProfileIs

(* Reports that change only for the trace a suite is at.                   *)
Carried ==
  /\ reports' \subseteq Report
  /\ Unique(reports')
  /\ \A r \in reports' : r.suite <= suites
  /\ \A u, v : u # Trace \/ v # suites => Of(reports', u, v) = Of(reports, u, v)
  /\ \A u : u # Trace => Prof(reports', u) = Prof(reports, u)
  /\ \A p \in Prof(reports', Trace) : p \in reports \/ p.suite = suites

(* Then what a summary or the suite said of other traces stands.           *)
LEMMA CarriedStands ==
  ASSUME CredInv, run # Idle, run.pos \in 1..Len(SuiteTraces), Carried, suites' = suites, dirs \subseteq dirs',
         summary' = summary, run' \in RunType
  PROVE  /\ \A i \in 1..(run.pos - 1) : Stands(run.per_trace[i], SuiteTraces[i], suites, suites, reports', dirs')
         /\ \A i \in (run.pos + 1)..Len(SuiteTraces) : Of(reports', SuiteTraces[i], suites) = {}
         /\ SummaryInv'
  <1>1. \A i \in 1..Len(SuiteTraces) : i # run.pos => Of(reports', SuiteTraces[i], suites) = Of(reports, SuiteTraces[i], suites)
    BY SuiteFacts DEF Carried, Trace
  <1>2. run.per_trace \in Seq(Result) /\ Len(run.per_trace) = run.pos - 1 /\ AllStand(run.per_trace, suites, suites, reports, dirs)
    BY DEF CredInv, CredType, RunType, RunInv, Idle
  <1>3. DOMAIN run.per_trace = 1..(run.pos - 1)
    BY <1>2, LenProperties
  <1>4. ASSUME NEW i \in 1..(run.pos - 1)
        PROVE  Stands(run.per_trace[i], SuiteTraces[i], suites, suites, reports', dirs')
    <2>1. Stands(run.per_trace[i], SuiteTraces[i], suites, suites, reports, dirs)
      BY <1>2, <1>3 DEF AllStand
    <2>2. i \in 1..Len(SuiteTraces) /\ i # run.pos
      BY SuiteFacts
    <2>3. Of(reports', SuiteTraces[i], suites) = Of(reports, SuiteTraces[i], suites)
      BY <1>1, <2>2
    <2>4. Prof(reports', SuiteTraces[i]) = Prof(reports, SuiteTraces[i])
      BY <2>2, SuiteFacts DEF Carried, Trace
    <2>5. ProfileKept(reports, SuiteTraces[i], suites, suites) => ProfileKept(reports', SuiteTraces[i], suites, suites)
      BY <2>3, <2>4 DEF ProfileKept
    <2> QED
      BY <2>1, <2>3, <2>5, StandsKept
  <1>5. ASSUME NEW i \in (run.pos + 1)..Len(SuiteTraces) PROVE Of(reports', SuiteTraces[i], suites) = {}
    <2>1. Of(reports, SuiteTraces[i], suites) = {}
      BY DEF CredInv, RunInv
    <2>2. i \in 1..Len(SuiteTraces) /\ i # run.pos
      BY SuiteFacts
    <2> QED
      BY <1>1, <2>1, <2>2
  <1>6. SummaryInv'
    <2> SUFFICES ASSUME summary # NoSummary
                 PROVE  AllStand(summary.per_trace, summary.suite, suites, reports', dirs')
      <3>1. SummaryInv
        BY DEF CredInv
      <3> QED
        BY <3>1 DEF SummaryInv
    <2>1. /\ summary.suite \in Nat /\ summary.suite < suites /\ suites \in Nat
          /\ AllStand(summary.per_trace, summary.suite, suites, reports, dirs)
      BY DEF CredInv, CredType, SummaryInv
    <2>2. \A u : Of(reports', u, summary.suite) = Of(reports, u, summary.suite)
      BY <2>1 DEF Carried
    <2>3. ASSUME NEW i \in DOMAIN summary.per_trace
          PROVE  Stands(summary.per_trace[i], SuiteTraces[i], summary.suite, suites, reports', dirs')
      <3> DEFINE t == SuiteTraces[i]
      <3>1. Stands(summary.per_trace[i], t, summary.suite, suites, reports, dirs)
        BY <2>1 DEF AllStand
      <3>2. Of(reports', t, summary.suite) = Of(reports, t, summary.suite)
        BY <2>2
      <3>3. summary.suite # suites
        BY <2>1
      <3>4. ASSUME NEW p \in Prof(reports', t)
            PROVE  p \in Prof(reports, t) \/ (p.suite \in Nat /\ p.suite > summary.suite)
        <4>1. CASE t # Trace
          BY <4>1 DEF Carried
        <4>2. CASE t = Trace
          <5>1. p \in reports \/ p.suite = suites
            BY <4>2 DEF Carried
          <5>2. p.trace = t /\ p.kind = "trace_profile"
            BY DEF Prof
          <5> QED
            BY <2>1, <5>1, <5>2 DEF Prof
        <4> QED
          BY <4>1, <4>2
      <3> HIDE DEF t
      <3>5. ProfileKept(reports, t, summary.suite, suites) => ProfileKept(reports', t, summary.suite, suites)
        BY <2>1, <3>2, <3>3, <3>4, ProfileStays
      <3> QED
        BY <3>1, <3>2, <3>5, StandsKept DEF t
    <2> QED
      BY <2>3 DEF AllStand
  <1> QED
    BY <1>4, <1>5, <1>6

(* A step done: the suite is at the next one, with its reports written.    *)
LEMMA ToNextStep ==
  ASSUME CredInv, run.step \in StepNames, Carried, UNCHANGED <<raw, suites, dirs, summary>>,
         NEW step \in StepNames, NEW result \in Result,
         run' = [step |-> step, pos |-> run.pos, per_trace |-> run.per_trace,
                 data |-> raw[Trace], result |-> result],
         result.trace = Trace, result.status = "error",
         step \in {"recommend", "manifest"} => result.fidelity \in {"pass", "fail"},
         Kinds(Of(reports', Trace, suites)) = KindsBefore(step),
         Says(Of(reports', Trace, suites), raw[Trace], result),
         step \notin {"ingest", "profile"} => ProfileIs(Prof(reports', Trace), suites, raw[Trace])
  PROVE  CredInv'
  <1>1. /\ run.pos \in 1..Len(SuiteTraces) /\ run.per_trace \in Seq(Result) /\ run # Idle
        /\ raw[Trace] \in DOMAIN Replays /\ Trace \in dirs
        /\ Len(run.per_trace) = run.pos - 1
    BY DEF CredInv, CredType, RunType, RunInv, Idle, StepNames
  <1>2. run' \in RunType
    BY <1>1 DEF RunType
  <1>3. CredType'
    BY <1>2 DEF CredInv, CredType, Carried
  <1>4. /\ \A i \in 1..(run.pos - 1) : Stands(run.per_trace[i], SuiteTraces[i], suites, suites, reports', dirs')
        /\ \A i \in (run.pos + 1)..Len(SuiteTraces) : Of(reports', SuiteTraces[i], suites) = {}
        /\ SummaryInv'
    BY <1>1, <1>2, CarriedStands
  <1>5. Trace' = Trace
    BY DEF Trace
  <1>6. AllStand(run'.per_trace, suites', suites', reports', dirs')
    <2>1. DOMAIN run.per_trace = 1..(run.pos - 1)
      BY <1>1, LenProperties
    <2> QED
      BY <1>4, <2>1 DEF AllStand
  <1>7. step # "next"
    BY DEF StepNames
  <1>8. RunInv'
    <2>1. /\ run'.step = step /\ run'.pos = run.pos /\ run'.per_trace = run.per_trace
          /\ run'.data = raw[Trace] /\ run'.result = result
      OBVIOUS
    <2>2. \A i \in (run'.pos + 1)..Len(SuiteTraces) : Of(reports', SuiteTraces[i], suites') = {}
      BY <1>4, <2>1
    <2>3. Len(run'.per_trace) = run'.pos - 1
      BY <1>1, <2>1
    <2>4. /\ Trace' \in dirs' /\ raw'[Trace'] \in DOMAIN Replays /\ run'.data = raw'[Trace']
          /\ run'.result.trace = Trace' /\ run'.result.status = "error"
      BY <1>1, <1>5, <2>1
    <2>5. Kinds(Of(reports', Trace', suites')) = KindsBefore(run'.step)
      BY <1>5, <2>1
    <2>6. Says(Of(reports', Trace', suites'), raw'[Trace'], run'.result)
      BY <1>5, <2>1
    <2>7. run'.step \in {"recommend", "manifest"} => run'.result.fidelity \in {"pass", "fail"}
      BY <2>1
    <2>8. run'.step # "next"
      BY <1>7, <2>1
    <2>9. run'.step \notin {"ingest", "profile"} => ProfileIs(Prof(reports', Trace'), suites', raw'[Trace'])
      BY <1>5, <2>1
    <2> QED
      BY ONLY <1>6, <2>2, <2>3, <2>4, <2>5, <2>6, <2>7, <2>8, <2>9 DEF RunInv
  <1> QED
    BY <1>3, <1>4, <1>8 DEF CredInv

(* A trace done with, in whatever way: its entry joins the others.         *)
LEMMA TraceClosed ==
  ASSUME CredInv, run # Idle, run.pos \in 1..Len(SuiteTraces), Carried,
         UNCHANGED <<raw, suites, dirs, summary>>,
         NEW result \in Result, run' = Closed(result),
         Stands(result, Trace, suites, suites, reports', dirs)
  PROVE  CredInv'
  <1>1. run.per_trace \in Seq(Result) /\ Len(run.per_trace) = run.pos - 1
    BY DEF CredInv, CredType, RunType, RunInv, Idle
  <1> DEFINE list == Append(run.per_trace, result)
  <1>2. /\ list \in Seq(Result) /\ Len(list) = run.pos /\ list[run.pos] = result
        /\ \A i \in 1..(run.pos - 1) : list[i] = run.per_trace[i]
        /\ DOMAIN list = 1..run.pos
    <2>1. /\ list \in Seq(Result) /\ Len(list) = Len(run.per_trace) + 1
          /\ \A i \in 1..Len(run.per_trace) : list[i] = run.per_trace[i]
          /\ list[Len(run.per_trace) + 1] = result
      BY <1>1, AppendProperties
    <2>2. Len(run.per_trace) + 1 = run.pos
      BY <1>1, SuiteFacts
    <2>3. DOMAIN list = 1..Len(list)
      BY <2>1, LenProperties
    <2> QED
      BY <1>1, <2>1, <2>2, <2>3
  <1>3. run' = [step |-> "next", pos |-> run.pos + 1, per_trace |-> list]
    BY DEF Closed
  <1> HIDE DEF list
  <1>4. run' \in RunType
    BY <1>2, <1>3, SuiteFacts DEF RunType
  <1>5. CredType'
    BY <1>4 DEF CredInv, CredType, Carried
  <1>6. /\ \A i \in 1..(run.pos - 1) : Stands(run.per_trace[i], SuiteTraces[i], suites, suites, reports', dirs')
        /\ \A i \in (run.pos + 1)..Len(SuiteTraces) : Of(reports', SuiteTraces[i], suites) = {}
        /\ SummaryInv'
    BY <1>4, CarriedStands
  <1>7. AllStand(list, suites', suites', reports', dirs')
    <2> SUFFICES ASSUME NEW i \in 1..run.pos PROVE Stands(list[i], SuiteTraces[i], suites, suites, reports', dirs')
      BY <1>2 DEF AllStand
    <2>1. i = run.pos \/ i \in 1..(run.pos - 1)
      BY SuiteFacts
    <2> QED
      BY <1>2, <1>6, <2>1 DEF Trace
  <1>8. RunInv'
    <2>1. run.pos + 1 \in Nat /\ run.pos + 1 - 1 = run.pos
      BY SuiteFacts
    <2>2. \A i \in (run.pos + 2)..Len(SuiteTraces) : i \in (run.pos + 1)..Len(SuiteTraces)
      BY SuiteFacts
    <2>3. \A i \in (run'.pos + 1)..Len(SuiteTraces) : Of(reports', SuiteTraces[i], suites') = {}
      <3>1. run'.pos + 1 = run.pos + 2
        BY <1>3, SuiteFacts
      <3> QED
        BY <1>6, <2>2, <3>1
    <2>4. run'.pos <= Len(SuiteTraces) => Of(reports', Trace', suites') = {}
      <3> SUFFICES ASSUME run.pos + 1 <= Len(SuiteTraces) PROVE Of(reports', SuiteTraces[run.pos + 1], suites) = {}
        BY <1>3 DEF Trace
      <3>1. run.pos + 1 \in (run.pos + 1)..Len(SuiteTraces)
        BY SuiteFacts
      <3> QED
        BY <1>6, <3>1
    <2>5. run'.step = "next" /\ run'.per_trace = list /\ run'.pos = run.pos + 1
      BY <1>3
    <2>6. "next" \notin StepNames
      BY DEF StepNames
    <2>7. Len(run'.per_trace) = run'.pos - 1
      BY <1>2, <2>1, <2>5
    <2>8. AllStand(run'.per_trace, suites', suites', reports', dirs')
      BY <1>7, <2>5
    <2> QED
      BY ONLY <2>3, <2>4, <2>5, <2>6, <2>7, <2>8 DEF RunInv
  <1> QED
    BY <1>5, <1>6, <1>8 DEF CredInv

(* Nothing written is carried, and so are a profile cut short and a report *)
(* of the trace.                                                           *)
LEMMA NothingWritten ==
  ASSUME CredInv, reports' \in {reports, reports \ Files("trace_profile")}
  PROVE  Carried /\ \A u, v : Of(reports', u, v) = Of(reports, u, v)
  <1>1. CASE reports' = reports
    BY <1>1 DEF CredInv, CredType, Carried, Prof
  <1>2. CASE reports' = reports \ Files("trace_profile")
    <2>1. \A r \in Files("trace_profile") : r.trace = Trace /\ r.kind = "trace_profile"
      BY DEF Files
    <2>2. reports' \subseteq reports
      BY <1>2
    <2>3. /\ reports' \subseteq Report /\ Unique(reports') /\ \A r \in reports' : r.suite <= suites
          /\ \A p \in Prof(reports', Trace) : p \in reports
      BY <2>2 DEF CredInv, CredType, Unique, Prof
    <2>4. \A u, v : Of(reports', u, v) = Of(reports, u, v)
      BY <1>2, <2>1 DEF Of
    <2>5. \A u : u # Trace => Prof(reports', u) = Prof(reports, u)
      BY <1>2, <2>1 DEF Prof
    <2> QED
      BY <2>3, <2>4, <2>5 DEF Carried
  <1> QED
    BY <1>1, <1>2

LEMMA ReportWritten ==
  ASSUME CredInv, run.step \in StepNames, NEW kind \in KindsOfARun, NEW content \in Contents,
         Write(kind, content), NEW result, Says(Of(reports, Trace, suites), raw[Trace], run.result),
         \A r \in Of(reports, Trace, suites) : r.kind # kind =>
           (CASE r.kind = "fidelity_report" -> result.fidelity
              [] r.kind = "recommendation_report" -> result.recommendation
              [] OTHER -> raw[Trace]) =
           (CASE r.kind = "fidelity_report" -> run.result.fidelity
              [] r.kind = "recommendation_report" -> run.result.recommendation
              [] OTHER -> raw[Trace]),
         content = CASE kind = "fidelity_report" -> result.fidelity
                     [] kind = "recommendation_report" -> result.recommendation
                     [] OTHER -> raw[Trace]
  PROVE  /\ Carried
         /\ Kinds(Of(reports', Trace, suites)) = Kinds(Of(reports, Trace, suites)) \cup {kind}
         /\ Says(Of(reports', Trace, suites), raw[Trace], result)
         /\ Line(Trace, kind, suites, content) \in Of(reports', Trace, suites)
         /\ Prof(reports', Trace) = Prof(reports, Trace)
  <1>1. /\ reports \in SUBSET Report /\ Unique(reports) /\ suites \in Nat /\ Trace \in Traces
        /\ \A r \in reports : r.suite <= suites
    <2>1. run.pos \in 1..Len(SuiteTraces)
      BY DEF CredInv, CredType, RunType, Idle, StepNames
    <2> QED
      BY <2>1, SuiteFacts DEF CredInv, CredType, Trace
  <1>2. reports' = Overwritten(reports, Trace, kind, suites, content)
    BY DEF Write, Files, Line, Overwritten
  <1>3. /\ reports' \in SUBSET Report
        /\ Unique(reports')
        /\ \A u, v : u # Trace \/ v # suites => Of(reports', u, v) = Of(reports, u, v)
        /\ Kinds(Of(reports', Trace, suites)) = Kinds(Of(reports, Trace, suites)) \cup {kind}
        /\ \A r \in Of(reports', Trace, suites) :
             r = Line(Trace, kind, suites, content) \/ (r \in Of(reports, Trace, suites) /\ r.kind # kind)
        /\ Line(Trace, kind, suites, content) \in Of(reports', Trace, suites)
        /\ \A r \in reports' : r.suite = suites \/ r \in reports
        /\ \A u : Prof(reports', u) = Prof(reports, u)
    BY ONLY <1>1, <1>2, WriteReplaces, kind \in KindsOfARun, content \in Contents
  <1>4. Carried
    BY <1>1, <1>3 DEF Carried, Prof
  <1>5. Says(Of(reports', Trace, suites), raw[Trace], result)
    <2>1. /\ Line(Trace, kind, suites, content).kind = kind
          /\ Line(Trace, kind, suites, content).content = content
      BY DEF Line
    <2> QED
      BY <1>3, <2>1 DEF Says
  <1> QED
    BY <1>3, <1>4, <1>5

(* What is known of a suite at a step.                                     *)
LEMMA AtStep ==
  ASSUME CredInv, run.step \in StepNames
  PROVE  /\ run.pos \in 1..Len(SuiteTraces) /\ run # Idle /\ Trace \in Traces
         /\ run = [step |-> run.step, pos |-> run.pos, per_trace |-> run.per_trace,
                   data |-> run.data, result |-> run.result]
         /\ run.result \in Result
         /\ raw[Trace] \in DOMAIN Replays
         /\ run.step # "ingest" => run.data = raw[Trace]
         /\ run.result.trace = Trace /\ run.result.status = "error" /\ Trace \in dirs
         /\ run.step \in {"recommend", "manifest"} => run.result.fidelity \in {"pass", "fail"}
         /\ Kinds(Of(reports, Trace, suites)) = KindsBefore(run.step)
         /\ Says(Of(reports, Trace, suites), raw[Trace], run.result)
         /\ run.step \notin {"ingest", "profile"} => ProfileIs(Prof(reports, Trace), suites, raw[Trace])
  <1>1. run \in RunType /\ run # Idle
    BY DEF CredInv, CredType, StepNames, Idle
  <1>2. run \in [step : StepNames, pos : 1..Len(SuiteTraces), per_trace : Seq(Result),
                data : DOMAIN Replays \cup {"none"}, result : Result]
    BY <1>1 DEF RunType, StepNames
  <1>3. Trace \in Traces
    BY <1>2, SuiteFacts DEF Trace
  <1> QED
    BY <1>1, <1>2, <1>3 DEF CredInv, RunInv

(* The steps that write nothing.                                           *)
LEMMA QuietStep == CredInv /\ (Ingest \/ BuildModels) => CredInv'
  <1> SUFFICES ASSUME CredInv, Ingest \/ BuildModels PROVE CredInv'
    OBVIOUS
  <1>1. run.step \in StepNames
    BY DEF Ingest, BuildModels, StepNames
  <1>2. PICK step \in {"profile", "train", "replay_fifo"} :
          /\ KindsBefore(step) = KindsBefore(run.step)
          /\ step = "profile" \/ run.step \notin {"ingest", "profile"}
          /\ run' = [step |-> step, pos |-> run.pos, per_trace |-> run.per_trace,
                     data |-> raw[Trace], result |-> run.result]
    <2>1. CASE Ingest
      <3>1. KindsBefore("profile") = KindsBefore("ingest")
        BY DEF KindsBefore
      <3> QED
        BY <1>1, <2>1, <3>1, AtStep, StepOrder DEF Ingest
    <2>2. CASE BuildModels
      <3>1. KindsBefore("train") = KindsBefore("features") /\ KindsBefore("replay_fifo") = KindsBefore("train")
        BY DEF KindsBefore
      <3> QED
        BY <1>1, <2>2, <3>1, AtStep, StepOrder DEF BuildModels, To
    <2> QED
      BY <2>1, <2>2
  <1>3. step \in StepNames /\ step \notin {"recommend", "manifest"}
    BY DEF StepNames
  <1>4. UNCHANGED <<raw, suites, dirs, summary>> /\ reports' = reports
    BY DEF Ingest, BuildModels
  <1>5. Carried
    BY <1>4, NothingWritten
  <1>6. Kinds(Of(reports', Trace, suites)) = KindsBefore(step) /\ Says(Of(reports', Trace, suites), raw[Trace], run.result)
    BY <1>1, <1>2, <1>4, AtStep
  <1>7. step \notin {"ingest", "profile"} => ProfileIs(Prof(reports', Trace), suites, raw[Trace])
    BY <1>1, <1>2, <1>4, AtStep
  <1> QED
    BY <1>1, <1>2, <1>3, <1>4, <1>5, <1>6, <1>7, AtStep, ToNextStep

(* The profile, whoever wrote the one before.                              *)
LEMMA ProfileStep == CredInv /\ BuildProfile => CredInv'
  <1> SUFFICES ASSUME CredInv, BuildProfile PROVE CredInv'
    OBVIOUS
  <1>1. run.step = "profile" /\ run.step \in StepNames
    BY DEF BuildProfile, StepNames
  <1>2. run.data = raw[Trace] /\ raw[Trace] \in Contents /\ Trace \in Traces
    BY <1>1, AtStep DEF Contents
  <1>3. /\ run' = [step |-> "features", pos |-> run.pos, per_trace |-> run.per_trace,
                   data |-> raw[Trace], result |-> run.result]
        /\ Write("trace_profile", raw[Trace]) /\ UNCHANGED <<raw, suites, dirs, summary>>
    BY <1>1, <1>2, AtStep, StepOrder DEF BuildProfile, To
  <1>4. reports' = Overwritten(reports, Trace, "trace_profile", suites, raw[Trace])
    BY <1>3 DEF Write, Files, Line, Overwritten
  <1>5. reports \in SUBSET Report /\ Unique(reports) /\ suites \in Nat /\ \A r \in reports : r.suite <= suites
    BY DEF CredInv, CredType
  <1>6. /\ reports' \in SUBSET Report
        /\ Unique(reports')
        /\ \A u, v : Of(reports', u, v) = Of(reports, u, v)
        /\ \A u : u # Trace => Prof(reports', u) = Prof(reports, u)
        /\ ProfileIs(Prof(reports', Trace), suites, raw[Trace])
        /\ \A r \in reports' : r.suite = suites \/ r \in reports
    BY ONLY <1>2, <1>4, <1>5, ProfileReplaces
  <1>7. Carried
    BY <1>5, <1>6 DEF Carried, Prof
  <1>8. KindsBefore("features") = KindsBefore("profile") /\ "features" \in StepNames
    BY DEF KindsBefore, StepNames
  <1>9. Kinds(Of(reports', Trace, suites)) = KindsBefore("features") /\ Says(Of(reports', Trace, suites), raw[Trace], run.result)
    BY <1>1, <1>6, <1>8, AtStep
  <1> QED
    BY <1>1, <1>3, <1>6, <1>7, <1>8, <1>9, AtStep, ToNextStep

(* The steps that write a report of the trace's file.                      *)
LEMMA DataStep == CredInv /\ Simulate => CredInv'
  <1> SUFFICES ASSUME CredInv, Simulate PROVE CredInv'
    OBVIOUS
  <1>1. run.step \in {"replay_fifo", "replay_easy", "simulate_ml"}
    BY DEF Simulate, SimReport
  <1>2. run.step \in StepNames
    BY <1>1 DEF StepNames
  <1> DEFINE kind == SimReport[run.step]
             step == StepAfter(run.step)
  <1>3. /\ step \in StepNames /\ step \notin {"recommend", "manifest"}
        /\ KindsBefore(step) = KindsBefore(run.step) \cup {kind}
        /\ kind \in KindsOfARun /\ kind \notin {"fidelity_report", "recommendation_report"}
    BY <1>1, StepOrder DEF KindsBefore, StepNames, SimReport, KindsOfARun
  <1>4. /\ Write(kind, raw[Trace])
        /\ UNCHANGED <<raw, suites, dirs, summary>>
        /\ run' = [step |-> step, pos |-> run.pos, per_trace |-> run.per_trace,
                   data |-> raw[Trace], result |-> run.result]
    <2>1. run.data = raw[Trace]
      BY <1>1, <1>2, AtStep
    <2>2. run' = To(step) /\ Write(kind, run.data) /\ UNCHANGED <<raw, suites, dirs, summary>>
      BY DEF Simulate
    <2> QED
      BY <1>2, <2>1, <2>2, AtStep DEF To
  <1> HIDE DEF kind, step
  <1>5. raw[Trace] \in Contents
    BY <1>2, AtStep DEF Contents
  <1>6. Says(Of(reports, Trace, suites), raw[Trace], run.result)
    BY <1>2, AtStep
  <1>7. /\ Carried
        /\ Kinds(Of(reports', Trace, suites)) = Kinds(Of(reports, Trace, suites)) \cup {kind}
        /\ Says(Of(reports', Trace, suites), raw[Trace], run.result)
        /\ Prof(reports', Trace) = Prof(reports, Trace)
    BY <1>2, <1>3, <1>4, <1>5, <1>6, ReportWritten
  <1>8. ProfileIs(Prof(reports', Trace), suites, raw[Trace])
    BY <1>1, <1>2, <1>7, AtStep
  <1> QED
    BY <1>2, <1>3, <1>4, <1>7, <1>8, AtStep, ToNextStep

(* The fidelity gate.                                                      *)
LEMMA FidelityStep == CredInv /\ RunFidelityGate => CredInv'
  <1> SUFFICES ASSUME CredInv, RunFidelityGate PROVE CredInv'
    OBVIOUS
  <1>1. run.step = "fidelity" /\ run.step \in StepNames
    BY DEF RunFidelityGate, StepNames
  <1> DEFINE gate == GateOf[raw[Trace]]
             result == [run.result EXCEPT !.fidelity = gate]
  <1>2. gate \in {"pass", "fail"}
    BY <1>1, AtStep DEF GateOf, GateStatus
  <1>3. run.data = raw[Trace] /\ run.result \in Result
    BY <1>1, AtStep
  <1>4. /\ run' = [step |-> "recommend", pos |-> run.pos, per_trace |-> run.per_trace,
                   data |-> raw[Trace], result |-> result]
        /\ Write("fidelity_report", gate) /\ UNCHANGED <<raw, suites, dirs, summary>>
    BY <1>1, <1>3, AtStep, StepOrder DEF RunFidelityGate
  <1> HIDE DEF gate
  <1>5. /\ result \in Result /\ result.fidelity = gate /\ result.trace = run.result.trace
        /\ result.status = run.result.status /\ result.recommendation = run.result.recommendation
    BY <1>2, <1>3 DEF Result
  <1>6. gate \in Contents /\ "fidelity_report" \in KindsOfARun
    BY <1>2 DEF Contents, KindsOfARun
  <1> HIDE DEF result
  <1>7. Says(Of(reports, Trace, suites), raw[Trace], run.result)
    BY <1>1, AtStep
  <1>8. /\ Carried
        /\ Kinds(Of(reports', Trace, suites)) = Kinds(Of(reports, Trace, suites)) \cup {"fidelity_report"}
        /\ Says(Of(reports', Trace, suites), raw[Trace], result)
        /\ ProfileIs(Prof(reports', Trace), suites, raw[Trace])
    <2>1. run.step \notin {"ingest", "profile"}
      BY <1>1
    <2> QED
      BY <1>1, <1>4, <1>5, <1>6, <1>7, <2>1, ReportWritten, AtStep
  <1>9. KindsBefore("recommend") = KindsBefore("fidelity") \cup {"fidelity_report"} /\ "recommend" \in StepNames
    BY DEF KindsBefore, StepNames
  <1>10. Kinds(Of(reports', Trace, suites)) = KindsBefore("recommend")
    BY <1>1, <1>8, <1>9, AtStep
  <1> QED
    BY <1>1, <1>2, <1>4, <1>5, <1>8, <1>9, <1>10, AtStep, ToNextStep

(* A report a suite reads back is the one it wrote.                        *)
LEMMA ReadsItsOwn ==
  ASSUME CredInv, run.step \in StepNames, NEW kind \in KindsBefore(run.step)
  PROVE  ReadBack(kind) = CASE kind = "fidelity_report" -> run.result.fidelity
                            [] kind = "recommendation_report" -> run.result.recommendation
                            [] OTHER -> raw[Trace]
  <1>1. PICK r \in Of(reports, Trace, suites) : r.kind = kind
    BY AtStep DEF Kinds
  <1>2. r \in Files(kind) /\ kind # "trace_profile"
    BY <1>1 DEF Of, Files
  <1>3. PICK q \in Files(kind) : ReadBack(kind) = q.content
    BY <1>2 DEF ReadBack
  <1>4. q \in Of(reports, Trace, suites) /\ q.kind = kind
    BY <1>2, <1>3 DEF Of, Files
  <1> QED
    BY <1>3, <1>4, AtStep DEF Says

(* The recommendation.                                                     *)
LEMMA RecommendStep == CredInv /\ Recommend => CredInv'
  <1> SUFFICES ASSUME CredInv, Recommend PROVE CredInv'
    OBVIOUS
  <1>1. run.step = "recommend" /\ run.step \in StepNames
    BY DEF Recommend, StepNames
  <1> DEFINE status == RecommendationOf[<<ReadBack("ML_BACKFILL_P50"), ReadBack("EASY_BACKFILL_BASELINE"),
                                        ReadBack("fidelity_report")>>]
             result == [run.result EXCEPT !.recommendation = status]
  <1>2. status \in Advice
    <2>1. {"ML_BACKFILL_P50", "EASY_BACKFILL_BASELINE", "fidelity_report"} \subseteq KindsBefore(run.step)
      BY <1>1 DEF KindsBefore
    <2>2. /\ ReadBack("ML_BACKFILL_P50") = raw[Trace] /\ ReadBack("EASY_BACKFILL_BASELINE") = raw[Trace]
          /\ ReadBack("fidelity_report") = run.result.fidelity
      BY <1>1, <2>1, ReadsItsOwn
    <2>3. raw[Trace] \in DOMAIN Replays /\ run.result.fidelity \in {"pass", "fail"}
      BY <1>1, AtStep
    <2>4. <<raw[Trace], raw[Trace], run.result.fidelity>> \in (DOMAIN Replays) \X (DOMAIN Replays) \X {"pass", "fail"}
      BY <2>3
    <2>5. status = RecommendationOf[<<raw[Trace], raw[Trace], run.result.fidelity>>]
      BY <2>2
    <2> HIDE DEF status
    <2> QED
      BY <2>4, <2>5, Zenon DEF Advice
  <1>3. run.data = raw[Trace] /\ run.result \in Result
    BY <1>1, AtStep
  <1>4. /\ run' = [step |-> "manifest", pos |-> run.pos, per_trace |-> run.per_trace,
                   data |-> raw[Trace], result |-> result]
        /\ Write("recommendation_report", status) /\ UNCHANGED <<raw, suites, dirs, summary>>
    BY <1>1, <1>3, AtStep, StepOrder DEF Recommend
  <1> HIDE DEF status
  <1>5. /\ result \in Result /\ result.recommendation = status /\ result.trace = run.result.trace
        /\ result.status = run.result.status /\ result.fidelity = run.result.fidelity
    BY <1>2, <1>3 DEF Result
  <1>6. status \in Contents /\ "recommendation_report" \in KindsOfARun
    BY <1>2 DEF Contents, KindsOfARun
  <1> HIDE DEF result
  <1>7. Says(Of(reports, Trace, suites), raw[Trace], run.result)
    BY <1>1, AtStep
  <1>8. /\ Carried
        /\ Kinds(Of(reports', Trace, suites)) = Kinds(Of(reports, Trace, suites)) \cup {"recommendation_report"}
        /\ Says(Of(reports', Trace, suites), raw[Trace], result)
        /\ ProfileIs(Prof(reports', Trace), suites, raw[Trace])
    <2>1. run.step \notin {"ingest", "profile"}
      BY <1>1
    <2> QED
      BY <1>1, <1>4, <1>5, <1>6, <1>7, <2>1, ReportWritten, AtStep
  <1>9. KindsBefore("manifest") = KindsBefore("recommend") \cup {"recommendation_report"} /\ "manifest" \in StepNames
    BY DEF KindsBefore, StepNames, KindsOfARun
  <1>10. Kinds(Of(reports', Trace, suites)) = KindsBefore("manifest")
    BY <1>1, <1>8, <1>9, AtStep
  <1>11. result.fidelity \in {"pass", "fail"}
    BY <1>1, <1>5, AtStep
  <1> QED
    BY <1>1, <1>4, <1>5, <1>8, <1>9, <1>10, <1>11, AtStep, ToNextStep

(* The manifest closes the trace: its reports are whole, and its verdict   *)
(* is that of the gate.                                                    *)
LEMMA ManifestStep == CredInv /\ WriteManifest => CredInv'
  <1> SUFFICES ASSUME CredInv, WriteManifest PROVE CredInv'
    OBVIOUS
  <1>1. run.step = "manifest" /\ run.step \in StepNames
    BY DEF WriteManifest, StepNames
  <1> DEFINE result == [run.result EXCEPT !.status = IF run.result.fidelity = "pass" THEN "pass" ELSE "fail"]
             F == Of(reports', Trace, suites)
             file == raw[Trace]
  <1>2. run' = Closed(result) /\ Write("credibility_manifest", file) /\ UNCHANGED <<raw, suites, dirs, summary>>
    BY DEF WriteManifest
  <1>3. run.result \in Result /\ run.result.fidelity \in {"pass", "fail"} /\ run.result.trace = Trace
    BY <1>1, AtStep
  <1>4. /\ result \in Result /\ result.trace = Trace /\ result.fidelity = run.result.fidelity
        /\ result.recommendation = run.result.recommendation
        /\ result.status \in {"pass", "fail"} /\ (result.status = "pass" <=> result.fidelity = "pass")
    BY <1>3 DEF Result
  <1> HIDE DEF result
  <1>5. file \in Contents /\ "credibility_manifest" \in KindsOfARun /\ Says(Of(reports, Trace, suites), raw[Trace], run.result)
    BY <1>1, AtStep DEF Contents, KindsOfARun
  <1>6. /\ Carried /\ Kinds(F) = Kinds(Of(reports, Trace, suites)) \cup {"credibility_manifest"} /\ Says(F, file, result)
        /\ Prof(reports', Trace) = Prof(reports, Trace)
    BY <1>1, <1>2, <1>4, <1>5, ReportWritten
  <1>7. Kinds(F) = KindsOfARun
    BY <1>1, <1>6, AtStep DEF KindsBefore, KindsOfARun
  <1>8. F \subseteq Report /\ \A r \in F : r \in reports' /\ r.trace = Trace /\ r.suite = suites
    BY <1>6 DEF Carried, Of
  <1> HIDE DEF F
  <1>9. \A k \in KindsOfARun : \E r \in F : r.kind = k
    BY <1>7 DEF Kinds
  <1>10. Line(Trace, "fidelity_report", suites, result.fidelity) \in reports'
    <2>1. PICK r \in F : r.kind = "fidelity_report"
      BY <1>9 DEF KindsOfARun
    <2>2. r.content = result.fidelity
      BY <1>6, <2>1 DEF Says
    <2> QED
      BY <1>8, <2>1, <2>2 DEF Report, Line
  <1>11. Line(Trace, "recommendation_report", suites, result.recommendation) \in reports'
    <2>1. PICK r \in F : r.kind = "recommendation_report"
      BY <1>9 DEF KindsOfARun
    <2>2. r.content = result.recommendation
      BY <1>6, <2>1 DEF Says
    <2> QED
      BY <1>8, <2>1, <2>2 DEF Report, Line
  <1>12. \A q \in F : OfTheFile(q.kind) => q.content = file
    BY <1>6 DEF Says, OfTheFile
  <1>17. {r.content : r \in {q \in F : OfTheFile(q.kind)}} = {file}
    <2>1. PICK r \in F : r.kind = "FIFO_STRICT"
      BY <1>9 DEF KindsOfARun
    <2>2. OfTheFile(r.kind)
      BY <2>1 DEF OfTheFile
    <2> QED
      BY <1>12, <2>1, <2>2
  <1>18. ProfileKept(reports', Trace, suites, suites)
    <2>1. ProfileIs(Prof(reports', Trace), suites, file)
      BY <1>1, <1>6, AtStep
    <2>2. suites \in Nat
      BY DEF CredInv, CredType
    <2> QED
      BY <1>12, <2>1, <2>2 DEF ProfileKept, ProfileIs, F
  <1>13. Cardinality({file}) = 1
    BY FS_Singleton
  <1>14. Whole(F) <=> result.fidelity = "pass"
    <2>1. \A r \in F : r.kind = "fidelity_report" => r.content = result.fidelity
      BY <1>6 DEF Says
    <2>2. \E r \in F : r.kind = "fidelity_report"
      BY <1>9 DEF KindsOfARun
    <2> QED
      BY <1>7, <1>13, <1>17, <2>1, <2>2 DEF Whole
  <1>15. Stands(result, Trace, suites, suites, reports', dirs)
    BY <1>1, <1>4, <1>10, <1>11, <1>14, <1>18, AtStep DEF Stands, F
  <1>16. run # Idle /\ run.pos \in 1..Len(SuiteTraces)
    BY <1>1, AtStep
  <1> QED
    BY <1>2, <1>4, <1>6, <1>15, <1>16, TraceClosed

(* A step that fails leaves reports without a manifest, which are not      *)
(* whole, and perhaps no profile.                                          *)
LEMMA FailedStep == CredInv /\ StepFails => CredInv'
  <1> SUFFICES ASSUME CredInv, StepFails PROVE CredInv'
    OBVIOUS
  <1>1. /\ run.step \in StepNames /\ run' = Closed(run.result)
        /\ UNCHANGED <<raw, suites, dirs, summary>>
        /\ reports' \in {reports, reports \ Files("trace_profile")}
    BY StepOrder DEF StepFails, CutShort
  <1>2. Carried /\ Of(reports', Trace, suites) = Of(reports, Trace, suites)
    BY <1>1, NothingWritten
  <1>3. "credibility_manifest" \in KindsOfARun /\ "credibility_manifest" \notin KindsBefore(run.step)
    BY <1>1 DEF KindsBefore, KindsOfARun, StepNames
  <1>4. ~ Whole(Of(reports', Trace, suites))
    BY <1>1, <1>2, <1>3, AtStep DEF Whole
  <1>5. Stands(run.result, Trace, suites, suites, reports', dirs)
    BY <1>1, <1>4, AtStep DEF Stands
  <1> QED
    BY <1>1, <1>2, <1>5, AtStep, TraceClosed

(* The next trace: its file is missing, or it gets its directory.          *)
LEMMA NextTraceStep == CredInv /\ NextTrace => CredInv'
  <1> SUFFICES ASSUME CredInv, NextTrace PROVE CredInv'
    OBVIOUS
  <1>1. /\ run.step = "next" /\ run # Idle /\ run.pos <= Len(SuiteTraces) /\ reports' = reports
        /\ UNCHANGED <<raw, suites, summary>>
    BY DEF NextTrace, Idle
  <1>2. /\ run.pos \in 1..Len(SuiteTraces) /\ run.per_trace \in Seq(Result)
        /\ Of(reports, Trace, suites) = {} /\ Len(run.per_trace) = run.pos - 1
    BY <1>1, SuiteFacts DEF CredInv, CredType, RunType, RunInv, StepNames, Idle
  <1>3. Trace \in Traces /\ Trace' = SuiteTraces[run'.pos]
    BY <1>2, SuiteFacts DEF Trace
  <1>4. Carried
    BY <1>1, NothingWritten
  <1>5. FreshResult(Trace) \in Result
    BY <1>3 DEF FreshResult, Result, Advice
  <1>6. CASE raw[Trace] = "absent"
    <2>1. run' = Closed(FreshResult(Trace)) /\ dirs' = dirs
      BY <1>6 DEF NextTrace
    <2>2. ~ Whole(Of(reports', Trace, suites))
      BY <1>1, <1>2 DEF Whole, Kinds, KindsOfARun
    <2>3. Stands(FreshResult(Trace), Trace, suites, suites, reports', dirs)
      BY <2>2 DEF Stands, FreshResult
    <2> QED
      BY <1>1, <1>2, <1>4, <1>5, <2>1, <2>3, TraceClosed
  <1>7. CASE raw[Trace] # "absent"
    <2>1. /\ run' = [step |-> "ingest", pos |-> run.pos, per_trace |-> run.per_trace,
                     data |-> "none", result |-> FreshResult(Trace)]
          /\ dirs' = dirs \cup {Trace}
      BY <1>7 DEF NextTrace
    <2>2. /\ run'.step = "ingest" /\ run'.pos = run.pos /\ run'.per_trace = run.per_trace
          /\ run'.result = FreshResult(Trace)
      BY <2>1
    <2>3. Trace' = Trace
      BY <1>3, <2>2 DEF Trace
    <2>4. run' \in RunType
      BY <1>2, <1>5, <2>1 DEF RunType, StepNames
    <2>5. raw[Trace] \in DOMAIN Replays
      BY <1>3, <1>7 DEF CredInv, CredType
    <2>6. CredType'
      BY <1>1, <1>3, <2>1, <2>4 DEF CredInv, CredType
    <2>7. /\ \A i \in 1..(run.pos - 1) : Stands(run.per_trace[i], SuiteTraces[i], suites, suites, reports', dirs')
          /\ \A i \in (run.pos + 1)..Len(SuiteTraces) : Of(reports', SuiteTraces[i], suites) = {}
          /\ SummaryInv'
      <3>1. dirs \subseteq dirs' /\ suites' = suites /\ summary' = summary
        BY <1>1, <2>1
      <3> QED
        BY <1>1, <1>2, <1>4, <2>4, <3>1, CarriedStands
    <2>8. AllStand(run'.per_trace, suites', suites', reports', dirs')
      <3>1. DOMAIN run.per_trace = 1..(run.pos - 1)
        BY <1>2, LenProperties
      <3> QED
        BY <1>1, <2>2, <2>7, <3>1 DEF AllStand
    <2>9. RunInv'
      <3>1. \A i \in (run'.pos + 1)..Len(SuiteTraces) : Of(reports', SuiteTraces[i], suites') = {}
        BY <1>1, <2>2, <2>7
      <3>2. Len(run'.per_trace) = run'.pos - 1
        BY <1>2, <2>2
      <3>3. /\ Trace' \in dirs' /\ raw'[Trace'] \in DOMAIN Replays /\ run'.step = "ingest"
            /\ run'.result.trace = Trace' /\ run'.result.status = "error"
        BY <1>1, <2>1, <2>2, <2>3, <2>5 DEF FreshResult
      <3>4. Of(reports', Trace', suites') = {}
        BY <1>1, <1>2, <2>3
      <3>5. Kinds(Of(reports', Trace', suites')) = KindsBefore(run'.step)
        BY <3>4, <3>3 DEF Kinds, KindsBefore
      <3>6. Says(Of(reports', Trace', suites'), raw'[Trace'], run'.result)
        BY <3>4 DEF Says
      <3> QED
        BY ONLY <2>8, <3>1, <3>2, <3>3, <3>5, <3>6 DEF RunInv
    <2> QED
      BY <2>6, <2>7, <2>9 DEF CredInv
  <1> QED
    BY <1>6, <1>7

(* A suite that ends, by its summary or not: no trace is lost in it.       *)
LEMMA EndStep == CredInv /\ (EndSuite \/ SimulationRaises \/ CrashInSuite) => CredInv'
  <1> SUFFICES ASSUME CredInv, EndSuite \/ SimulationRaises \/ CrashInSuite PROVE CredInv'
    OBVIOUS
  <1>1. run # Idle /\ run' = Idle /\ UNCHANGED <<raw, suites, dirs>> /\ reports' \in CutShort
    BY DEF EndSuite, SimulationRaises, CrashInSuite, CutShort, Idle, SimReport
  <1>4. Carried /\ (run.step # "profile" => reports' = reports)
    <2>1. reports' \in {reports, reports \ Files("trace_profile")} /\ (run.step # "profile" => reports' = reports)
      BY <1>1 DEF CutShort
    <2> QED
      BY <2>1, NothingWritten
  <1>2. CredType' /\ RunInv'
    <2>1. Idle \in RunType
      BY DEF RunType
    <2> QED
      BY <1>1, <1>4, <2>1 DEF CredInv, CredType, RunInv, Carried
  <1>3. SummaryInv'
    <2>1. CASE summary' = summary
      <3>1. CASE reports' = reports
        BY <1>1, <2>1, <3>1 DEF CredInv, SummaryInv
      <3>2. CASE reports' # reports
        <4>1. run.step = "profile" /\ run.step \in StepNames
          BY <1>4, <3>2 DEF StepNames
        <4>2. run.pos \in 1..Len(SuiteTraces)
          BY <4>1, AtStep
        <4> QED
          BY <1>1, <1>2, <1>4, <2>1, <4>2, CarriedStands DEF CredType
      <3> QED
        BY <3>1, <3>2
    <2>2. CASE summary' = NoSummary
      BY <2>2 DEF SummaryInv
    <2>3. CASE EndSuite
      <3>0. reports' = reports
        BY <2>3 DEF EndSuite
      <3>1. /\ run.step = "next" /\ run.pos > Len(SuiteTraces)
            /\ summary' = [status |-> Aggregate(run.per_trace), suite |-> suites, per_trace |-> run.per_trace]
        BY <2>3 DEF EndSuite
      <3>2. /\ summary'.status = Aggregate(run.per_trace) /\ summary'.suite = suites
            /\ summary'.per_trace = run.per_trace
        BY <3>1
      <3>3. run \in [step : {"next"}, pos : 1..(Len(SuiteTraces) + 1), per_trace : Seq(Result)]
        BY <1>1, <3>1 DEF CredInv, CredType, RunType, StepNames
      <3>4. Len(run.per_trace) = Len(SuiteTraces) /\ run.per_trace \in Seq(Result)
        BY <1>1, <3>1, <3>3, SuiteFacts DEF CredInv, RunInv
      <3>5. AllStand(run.per_trace, suites, suites, reports, dirs) /\ suites \in Nat
        BY <1>1 DEF CredInv, CredType, RunInv
      <3>6. suites <= suites
        BY <3>5
      <3>7. summary'.status = Aggregate(summary'.per_trace)
        BY <3>2
      <3> QED
        BY ONLY <1>1, <3>0, <3>2, <3>4, <3>5, <3>6, <3>7 DEF SummaryInv
    <2> QED
      BY <2>1, <2>2, <2>3 DEF SimulationRaises, CrashInSuite
  <1> QED
    BY <1>2, <1>3 DEF CredInv

(* Between suites: a new one has written nothing yet.                      *)
LEMMA BetweenSuites == CredInv /\ (StartSuite \/ ReplaceTrace) => CredInv'
  <1> SUFFICES ASSUME CredInv, StartSuite \/ ReplaceTrace PROVE CredInv'
    OBVIOUS
  <1>1. CASE StartSuite
    <2>1. /\ run = Idle /\ suites' = suites + 1 /\ run' = [step |-> "next", pos |-> 1, per_trace |-> <<>>]
          /\ UNCHANGED <<raw, dirs, reports, summary>>
      BY <1>1 DEF StartSuite
    <2>2. /\ run'.step = "next" /\ run'.pos = 1 /\ run'.per_trace = <<>>
      BY <2>1
    <2>3. run' \in RunType
      <3>1. <<>> \in Seq(Result)
        BY EmptySeq
      <3>2. 1 \in 1..(Len(SuiteTraces) + 1)
        BY SuiteFacts
      <3> QED
        BY <2>1, <3>1, <3>2 DEF RunType
    <2>4. suites \in Nat /\ \A r \in reports : r.suite <= suites /\ r.suite \in Nat
      BY DEF CredInv, CredType, Report
    <2>5. CredType'
      BY <2>1, <2>3, <2>4 DEF CredInv, CredType
    <2>6. \A u : Of(reports', u, suites') = {}
      BY <2>1, <2>4 DEF Of
    <2>7. RunInv'
      <3>1. AllStand(run'.per_trace, suites', suites', reports', dirs')
        BY <2>2 DEF AllStand
      <3>2. Len(run'.per_trace) = run'.pos - 1
        BY <2>2
      <3>3. run'.step \notin StepNames
        BY <2>2 DEF StepNames
      <3> QED
        BY ONLY <2>6, <3>1, <3>2, <3>3 DEF RunInv
    <2>8. SummaryInv'
      <3> SUFFICES ASSUME summary # NoSummary PROVE SummaryInv'
        BY <2>1 DEF SummaryInv
      <3>1. /\ summary.suite \in Nat /\ summary.suite <= suites
            /\ AllStand(summary.per_trace, summary.suite, suites, reports, dirs)
        BY DEF CredInv, SummaryInv
      <3>2. summary.suite # suites + 1 /\ summary.suite <= suites + 1 /\ summary.suite < suites + 1
        BY <2>4, <3>1
      <3>3. ASSUME NEW i \in DOMAIN summary.per_trace
            PROVE  Stands(summary.per_trace[i], SuiteTraces[i], summary.suite, suites + 1, reports, dirs)
        <4>1. Stands(summary.per_trace[i], SuiteTraces[i], summary.suite, suites, reports, dirs)
          BY <3>1 DEF AllStand
        <4>2. ProfileKept(reports, SuiteTraces[i], summary.suite, suites) =>
                ProfileKept(reports, SuiteTraces[i], summary.suite, suites + 1)
          BY <3>2 DEF ProfileKept
        <4> QED
          BY <4>1, <4>2, StandsKept
      <3>4. AllStand(summary.per_trace, summary.suite, suites', reports', dirs')
        BY <2>1, <3>3 DEF AllStand
      <3> QED
        BY <2>1, <3>1, <3>2, <3>4 DEF CredInv, SummaryInv
    <2> QED
      BY <2>5, <2>7, <2>8 DEF CredInv
  <1>2. CASE ReplaceTrace
    <2>1. run = Idle /\ UNCHANGED <<suites, run, dirs, reports, summary>>
      BY <1>2 DEF ReplaceTrace
    <2>2. raw' \in [Traces -> DOMAIN Replays \cup {"absent"}]
      <3>1. raw \in [Traces -> DOMAIN Replays \cup {"absent"}]
        BY DEF CredInv, CredType
      <3> QED
        BY <1>2, <3>1 DEF ReplaceTrace
    <2>3. CredType' /\ RunInv'
      BY <2>1, <2>2 DEF CredInv, CredType, RunInv
    <2>4. SummaryInv'
      BY <2>1 DEF CredInv, SummaryInv
    <2> QED
      BY <2>3, <2>4 DEF CredInv
  <1> QED
    BY <1>1, <1>2

(* Before the first suite there is nothing to be told.                     *)
LEMMA CredInitInv == CredInit => CredInv
  <1> SUFFICES ASSUME CredInit PROVE CredInv
    OBVIOUS
  <1>1. CredType
    BY DEF CredInit, CredType, RunType, Unique
  <1>2. RunInv /\ SummaryInv
    BY DEF CredInit, RunInv, SummaryInv
  <1> QED
    BY <1>1, <1>2 DEF CredInv

(* Every step of a suite keeps the invariant.                              *)
LEMMA CredStep == CredInv /\ [CredNext]_credVars => CredInv'
  <1> SUFFICES ASSUME CredInv, [CredNext]_credVars PROVE CredInv'
    OBVIOUS
  <1>1. CASE UNCHANGED credVars
    <2>1. UNCHANGED <<raw, suites, run, dirs, reports, summary>>
      BY <1>1 DEF credVars
    <2>2. CredType'
      BY <2>1 DEF CredInv, CredType
    <2>3. RunInv'
      BY <2>1 DEF CredInv, RunInv, Trace
    <2>4. SummaryInv'
      BY <2>1 DEF CredInv, SummaryInv
    <2> QED
      BY <2>2, <2>3, <2>4 DEF CredInv
  <1>2. CASE CredNext
    BY <1>2, QuietStep, ProfileStep, DataStep, FidelityStep, RecommendStep, ManifestStep, FailedStep, NextTraceStep,
       EndStep, BetweenSuites DEF CredNext, Protocol
  <1> QED
    BY <1>1, <1>2

(* The verdict of a suite counts the traces that passed.                   *)
LEMMA VerdictCounts ==
  ASSUME CredInv, summary # NoSummary
  PROVE  LET passed == {t \in Traces : Passed(t, summary.suite)}
         IN  /\ summary.status = "pass" <=> passed = Traces
             /\ summary.status = "partial" <=> passed \notin {{}, Traces}
  <1> DEFINE list == summary.per_trace
             s == summary.suite
             n == Len(SuiteTraces)
             passed == {t \in Traces : Passed(t, s)}
             statuses == {list[i].status : i \in DOMAIN list}
  <1>1. /\ list \in Seq(Result) /\ Len(list) = n /\ AllStand(list, s, suites, reports, dirs)
        /\ summary.status = Aggregate(list)
    BY DEF CredInv, SummaryInv
  <1>2. DOMAIN list = 1..n
    BY <1>1, LenProperties
  <1> HIDE DEF list, n, s
  <1>3. \A t : Passed(t, s) <=> Whole(Of(reports, t, s)) /\ ProfileKept(reports, t, s, suites)
    <2>1. \A t : ReportsOf(t, s) = Of(reports, t, s) /\ Named(t, "trace_profile") = Prof(reports, t)
      BY DEF ReportsOf, Of, Named, Prof
    <2>2. \A t : ProfileStands(t, s) <=> ProfileKept(reports, t, s, suites)
      BY <2>1, Zenon DEF ProfileStands, ProfileKept
    <2>3. \A t : Passed(t, s) <=> Whole(ReportsOf(t, s)) /\ ProfileStands(t, s)
      BY Zenon DEF Passed, Whole, Kinds
    <2> QED
      BY <2>1, <2>2, <2>3
  <1>4. \A i \in 1..n : list[i].status = "pass" <=> Passed(SuiteTraces[i], s)
    BY <1>1, <1>2, <1>3 DEF AllStand, Stands
  <1>5. /\ \A i \in 1..n : SuiteTraces[i] \in Traces
        /\ \A t \in Traces : \E i \in 1..n : t = SuiteTraces[i]
    BY SuiteFacts DEF Traces, n
  <1>6. statuses \subseteq {"pass"} <=> passed = Traces
    BY <1>2, <1>4, <1>5
  <1>7. "pass" \in statuses <=> passed # {}
    BY <1>2, <1>4, <1>5
  <1>8. summary.status = IF statuses \subseteq {"pass"} THEN "pass" ELSE IF "pass" \in statuses THEN "partial" ELSE "fail"
    BY <1>1 DEF Aggregate
  <1> HIDE DEF statuses, passed
  <1>9. /\ summary.status = "pass" <=> passed = Traces
        /\ summary.status = "partial" <=> passed \notin {{}, Traces}
    BY <1>6, <1>7, <1>8
  <1> QED
    BY <1>9 DEF passed, s

(* A summary of the last suite is what the directory shows.                *)
LEMMA DossierAgrees ==
  ASSUME CredInv, run = Idle, summary # NoSummary, summary.suite = suites,
         NEW i \in 1..Len(SuiteTraces), summary.per_trace[i].status # "error"
  PROVE  /\ summary.per_trace[i].trace = SuiteTraces[i] /\ SuiteTraces[i] \in dirs
         /\ Collected(SuiteTraces[i], "fidelity_report") = summary.per_trace[i].fidelity
         /\ Collected(SuiteTraces[i], "recommendation_report") = summary.per_trace[i].recommendation
         /\ summary.per_trace[i].status = "pass" <=> summary.per_trace[i].fidelity = "pass"
  <1> DEFINE e == summary.per_trace[i]
             t == SuiteTraces[i]
  <1>1. Stands(e, t, suites, suites, reports, dirs)
    <2>1. summary.per_trace \in Seq(Result) /\ Len(summary.per_trace) = Len(SuiteTraces)
          /\ AllStand(summary.per_trace, suites, suites, reports, dirs)
      BY DEF CredInv, SummaryInv
    <2>2. i \in DOMAIN summary.per_trace
      BY <2>1, LenProperties
    <2> QED
      BY <2>1, <2>2 DEF AllStand
  <1> HIDE DEF e, t
  <1>2. /\ reports \subseteq Report /\ Unique(reports) /\ suites \in Nat
        /\ \A r \in reports : r.suite <= suites /\ r.suite \in Nat
    BY DEF CredInv, CredType, Report
  <1>3. ASSUME NEW kind, NEW content, Line(t, kind, suites, content) \in reports
        PROVE  Collected(t, kind) = content
    <2> DEFINE mine == Line(t, kind, suites, content)
    <2>1. mine.trace = t /\ mine.kind = kind /\ mine.suite = suites /\ mine.content = content
      BY DEF Line
    <2> HIDE DEF mine
    <2>2. mine \in Named(t, kind) /\ \A q \in Named(t, kind) : q.suite <= mine.suite
      BY <1>2, <1>3, <2>1 DEF Named, mine
    <2>3. PICK r \in Named(t, kind) :
            Collected(t, kind) = r.content /\ \A q \in Named(t, kind) : q.suite <= r.suite
      BY <2>2 DEF Collected
    <2>4. r \in reports /\ r.trace = t /\ r.kind = kind /\ r.suite = suites /\ mine \in reports
      BY <1>2, <2>1, <2>2, <2>3 DEF Named
    <2>5. r = mine
      BY <1>2, <2>1, <2>4 DEF Unique
    <2> QED
      BY <2>1, <2>3, <2>5
  <1>4. /\ e.trace = t /\ t \in dirs /\ (e.status = "pass" <=> e.fidelity = "pass")
        /\ Line(t, "fidelity_report", suites, e.fidelity) \in reports
        /\ Line(t, "recommendation_report", suites, e.recommendation) \in reports
    BY <1>1 DEF Stands, e
  <1> QED
    BY <1>3, <1>4 DEF e, t

(* Counting the traces of a set is counting their places in the suite.     *)
LEMMA CountByPlace ==
  ASSUME NEW I \in SUBSET (1..Len(SuiteTraces))
  PROVE  Cardinality({SuiteTraces[i] : i \in I}) = Cardinality(I)
  <1> DEFINE T == {SuiteTraces[i] : i \in I}
             f == [i \in I |-> SuiteTraces[i]]
  <1>1. IsFiniteSet(I)
    <2>1. Len(SuiteTraces) \in Int
      BY SuiteFacts
    <2>2. IsFiniteSet(1..Len(SuiteTraces))
      BY <2>1, FS_Interval
    <2> QED
      BY <2>2, FS_Subset
  <1>2. f \in Bijection(I, T)
    BY SuiteFacts DEF Bijection, Injection, Surjection, IsInjective
  <1> QED
    BY <1>1, <1>2, FS_Bijection DEF ExistsBijection

(* The dossier as a whole agrees with the summary.                         *)
LEMMA DossierOfTheLast == CredInv => DossierMatchesSummary
  <1> SUFFICES ASSUME CredInv, run = Idle, summary # NoSummary, summary.suite = suites
               PROVE  LET done == {i \in DOMAIN summary.per_trace : summary.per_trace[i].status # "error"}
                          said(i) == summary.per_trace[i]
                      IN  /\ \A i \in done : /\ said(i).trace \in dirs
                                             /\ Dossier.fidelity[said(i).trace] = said(i).fidelity
                                             /\ Dossier.recommendation[said(i).trace] = said(i).recommendation
                          /\ done = DOMAIN summary.per_trace =>
                               /\ Dossier.all_pass <=> summary.status = "pass"
                               /\ Dossier.accepted_count = Cardinality({i \in done : said(i).recommendation = "accepted"})
    BY DEF DossierMatchesSummary
  <1> DEFINE list == summary.per_trace
             n == Len(SuiteTraces)
             done == {i \in 1..n : list[i].status # "error"}
             accepted == {t \in dirs : Collected(t, "recommendation_report") = "accepted"}
             places == {i \in 1..n : list[i].recommendation = "accepted"}
  <1>1. DOMAIN list = 1..n /\ summary.status = Aggregate(list)
    <2>1. list \in Seq(Result) /\ Len(list) = n /\ summary.status = Aggregate(list)
      BY DEF CredInv, SummaryInv
    <2> QED
      BY <2>1, LenProperties
  <1>2. \A i \in done : /\ list[i].trace = SuiteTraces[i] /\ SuiteTraces[i] \in dirs
                        /\ Collected(SuiteTraces[i], "fidelity_report") = list[i].fidelity
                        /\ Collected(SuiteTraces[i], "recommendation_report") = list[i].recommendation
                        /\ list[i].status = "pass" <=> list[i].fidelity = "pass"
    BY DossierAgrees
  <1>3. /\ \A t \in dirs : Dossier.fidelity[t] = Collected(t, "fidelity_report")
                          /\ Dossier.recommendation[t] = Collected(t, "recommendation_report")
        /\ Dossier.all_pass <=> \A t \in dirs : Collected(t, "fidelity_report") = "pass"
        /\ Dossier.accepted_count = Cardinality(accepted)
    BY DEF Dossier
  <1> HIDE DEF accepted
  <1>4. ASSUME done = 1..n
        PROVE  /\ (\A t \in dirs : Collected(t, "fidelity_report") = "pass") <=> summary.status = "pass"
               /\ Cardinality(accepted) = Cardinality(places)
    <2>1. dirs = {SuiteTraces[i] : i \in 1..n}
      BY <1>2, <1>4, SuiteFacts DEF CredInv, CredType, Traces
    <2>2. (\A t \in dirs : Collected(t, "fidelity_report") = "pass") <=> \A i \in 1..n : list[i].status = "pass"
      BY <1>2, <1>4, <2>1
    <2>3. summary.status = "pass" <=> {list[i].status : i \in DOMAIN list} \subseteq {"pass"}
      BY <1>1 DEF Aggregate
    <2>4. accepted = {SuiteTraces[i] : i \in places}
      BY <1>2, <1>4, <2>1 DEF accepted
    <2>5. Cardinality(accepted) = Cardinality(places)
      BY <2>4, CountByPlace
    <2> QED
      BY <1>1, <2>2, <2>3, <2>5
  <1>5. {i \in DOMAIN list : list[i].status # "error"} = done
    BY <1>1
  <1>6. done = 1..n => {i \in done : list[i].recommendation = "accepted"} = places
    OBVIOUS
  <1>7. \A i \in done : /\ list[i].trace \in dirs
                        /\ Dossier.fidelity[list[i].trace] = list[i].fidelity
                        /\ Dossier.recommendation[list[i].trace] = list[i].recommendation
    BY <1>2, <1>3
  <1>8. done = 1..n =>
          /\ Dossier.all_pass <=> summary.status = "pass"
          /\ Dossier.accepted_count = Cardinality({i \in done : list[i].recommendation = "accepted"})
    BY <1>3, <1>4, <1>6
  <1> HIDE DEF done
  <1> QED
    BY ONLY <1>1, <1>5, <1>7, <1>8

(* orchestrate/credibility.py: the verdict of a suite is what its reports  *)
(* say: pass when every trace has all the stamped ones of this run, of one *)
(* file and with a gate that passed, partial when some have; whatever step *)
(* failed or crashed, and whatever earlier suites left in the directory.   *)
(* The trace profile, whose name has no stamp, is of that run and file     *)
(* until the next suite starts, and never of an earlier one.               *)
THEOREM VerdictIsSound == Spec => []SuiteVerdictSound
  <1>1. CredInv => SuiteVerdictSound
    <2> SUFFICES ASSUME CredInv, summary # NoSummary
                 PROVE  /\ {summary.per_trace[i].trace : i \in DOMAIN summary.per_trace} = Traces
                        /\ \A passed \in {{t \in Traces : Passed(t, summary.suite)}} :
                             /\ summary.status = "pass" <=> passed = Traces
                             /\ summary.status = "partial" <=> passed \notin {{}, Traces}
      BY DEF SuiteVerdictSound
    <2>1. /\ DOMAIN summary.per_trace = 1..Len(SuiteTraces)
          /\ \A i \in 1..Len(SuiteTraces) : summary.per_trace[i].trace = SuiteTraces[i]
      <3>1. /\ summary.per_trace \in Seq(Result) /\ Len(summary.per_trace) = Len(SuiteTraces)
            /\ AllStand(summary.per_trace, summary.suite, suites, reports, dirs)
        BY DEF CredInv, SummaryInv
      <3>2. DOMAIN summary.per_trace = 1..Len(SuiteTraces)
        BY <3>1, LenProperties
      <3> QED
        BY <3>1, <3>2 DEF AllStand, Stands
    <2>2. {summary.per_trace[i].trace : i \in DOMAIN summary.per_trace} = Traces
      BY <2>1, SuiteFacts DEF Traces
    <2> QED
      BY <2>2, VerdictCounts
  <1>2. Init => CredInv
    BY CredInitInv DEF Init
  <1>3. CredInv /\ [Next]_vars => CredInv'
    BY CredStep DEF Next, vars, RecommendCommand, WhatIfCommand, CredibilityCommand, BenchmarkCommand, BatsimCommands
  <1> QED
    BY <1>1, <1>2, <1>3, PTL DEF Spec

(* artifacts/credibility_dossier.py: after a suite that wrote its summary  *)
(* the dossier agrees with it on every trace that was not cut short.       *)
THEOREM DossierIsTheSummary == Spec => []DossierMatchesSummary
  <1>1. Init => CredInv
    BY CredInitInv DEF Init
  <1>2. CredInv /\ [Next]_vars => CredInv'
    BY CredStep DEF Next, vars, RecommendCommand, WhatIfCommand, CredibilityCommand, BenchmarkCommand, BatsimCommands
  <1> QED
    BY <1>1, <1>2, DossierOfTheLast, PTL DEF Spec

-----------------------------------------------------------------------------
(* Recommendations.                                                        *)

(* Figures of a candidate give it a score and say whether it is accepted.  *)
LEMMA EvaluatedIs ==
  ASSUME NEW cand \in PolicyFigures, NEW base \in PolicyFigures,
         NEW fidelity \in {"not_provided", "pass", "fail"}
  PROVE  LET ev == Evaluated(cand, base, fidelity)
         IN  /\ ev.objective = cand /\ ev.score = WeightedScore(cand, base) /\ ev.score \in Int
             /\ ev.reasons = RejectionReasons(cand, base, fidelity)
             /\ ev.accepted \in BOOLEAN
             /\ ev.accepted <=> fidelity # "fail" /\ RejectionReasons(cand, base, fidelity) = {}
  <1>1. /\ cand.p95_bsld \in Int /\ cand.utilization_cpu \in Int /\ cand.fairness_dev \in Int /\ cand.jain \in Int
        /\ base.p95_bsld \in Int /\ base.utilization_cpu \in Int /\ base.fairness_dev \in Int /\ base.jain \in Int
    BY DEF PolicyFigures
  <1>2. WeightedScore(cand, base) \in Int
    BY <1>1 DEF WeightedScore, Pos
  <1>3. RejectionReasons(cand, base, fidelity) = {} <=>
          FidelityGateOK(fidelity) /\ Violations(cand, base) = {} /\ PrimaryImproved(cand, base)
    BY DEF RejectionReasons
  <1>4. FidelityGateOK(fidelity) <=> fidelity # "fail"
    BY DEF FidelityGateOK
  <1> QED
    BY <1>2, <1>3, <1>4 DEF Evaluated

(* What beats another candidate at all it is scored by has a higher score. *)
LEMMA BeatsScores ==
  ASSUME NEW other \in PolicyFigures, NEW cand \in PolicyFigures, NEW base \in PolicyFigures,
         Beats(other, cand)
  PROVE  WeightedScore(other, base) > WeightedScore(cand, base)
  <1>1. /\ cand.p95_bsld \in Int /\ cand.utilization_cpu \in Int /\ cand.fairness_dev \in Int /\ cand.jain \in Int
        /\ base.p95_bsld \in Int /\ base.utilization_cpu \in Int /\ base.fairness_dev \in Int /\ base.jain \in Int
        /\ other.p95_bsld \in Int /\ other.utilization_cpu \in Int /\ other.fairness_dev \in Int /\ other.jain \in Int
    BY DEF PolicyFigures
  <1>2. /\ Pos(other.fairness_dev - base.fairness_dev) <= Pos(cand.fairness_dev - base.fairness_dev)
        /\ Pos(base.jain - other.jain) <= Pos(base.jain - cand.jain)
        /\ Pos(other.fairness_dev - base.fairness_dev) \in Int /\ Pos(cand.fairness_dev - base.fairness_dev) \in Int
        /\ Pos(base.jain - other.jain) \in Int /\ Pos(base.jain - cand.jain) \in Int
    BY <1>1 DEF Pos, Beats
  <1> QED
    BY <1>1, <1>2 DEF WeightedScore, Beats

(* The candidates that dominate one.                                       *)
Rivals(cands, i) == {j \in DOMAIN cands : IsDominated(ParetoPoint(cands[i]), ParetoPoint(cands[j]))}

(* To dominate, in the figures themselves; it raises their sum.            *)
Exceeds(y, x) ==
  /\ y.p95_bsld <= x.p95_bsld /\ y.utilization_cpu >= x.utilization_cpu /\ y.fairness_dev <= x.fairness_dev
  /\ y.p95_bsld < x.p95_bsld \/ y.utilization_cpu > x.utilization_cpu \/ y.fairness_dev < x.fairness_dev

(* That is what it is.                                                     *)
LEMMA ExceedsIs ==
  ASSUME NEW x \in PolicyFigures, NEW y \in PolicyFigures
  PROVE  IsDominated(ParetoPoint(x), ParetoPoint(y)) <=> Exceeds(y, x)
  <1> DEFINE a == ParetoPoint(x)
             b == ParetoPoint(y)
  <1>1. /\ x.p95_bsld \in Int /\ x.utilization_cpu \in Int /\ x.fairness_dev \in Int
        /\ y.p95_bsld \in Int /\ y.utilization_cpu \in Int /\ y.fairness_dev \in Int
    BY DEF PolicyFigures
  <1>2. /\ DOMAIN a = {1, 2, 3}
        /\ a[1] = 0 - x.p95_bsld /\ a[2] = x.utilization_cpu /\ a[3] = 0 - x.fairness_dev
        /\ b[1] = 0 - y.p95_bsld /\ b[2] = y.utilization_cpu /\ b[3] = 0 - y.fairness_dev
    BY DEF ParetoPoint
  <1> HIDE DEF a, b
  <1>3. IsDominated(a, b) <=> /\ b[1] >= a[1] /\ b[2] >= a[2] /\ b[3] >= a[3]
                             /\ (b[1] > a[1] \/ b[2] > a[2] \/ b[3] > a[3])
    BY <1>2 DEF IsDominated
  <1>4. IsDominated(a, b) <=> Exceeds(y, x)
    BY <1>1, <1>2, <1>3 DEF Exceeds
  <1> QED
    BY <1>4 DEF a, b

(* The sum of a candidate's figures, as far as they are good.              *)
SumOf(x) == x.utilization_cpu - x.p95_bsld - x.fairness_dev

(* The sum is a number, and nobody dominates himself.                      *)
LEMMA FigureSum ==
  ASSUME NEW x \in PolicyFigures
  PROVE  SumOf(x) \in Int /\ ~ Exceeds(x, x)
  <1>1. x.p95_bsld \in Int /\ x.utilization_cpu \in Int /\ x.fairness_dev \in Int
    BY DEF PolicyFigures
  <1> QED
    BY <1>1 DEF Exceeds, SumOf

(* Dominance is transitive, and goes up in the sum.                        *)
LEMMA ExceedsSum ==
  ASSUME NEW x \in PolicyFigures, NEW y \in PolicyFigures, NEW z \in PolicyFigures,
         Exceeds(y, x), Exceeds(z, y)
  PROVE  Exceeds(z, x) /\ SumOf(z) > SumOf(y)
  <1>1. /\ x.p95_bsld \in Int /\ x.utilization_cpu \in Int /\ x.fairness_dev \in Int
        /\ y.p95_bsld \in Int /\ y.utilization_cpu \in Int /\ y.fairness_dev \in Int
        /\ z.p95_bsld \in Int /\ z.utilization_cpu \in Int /\ z.fairness_dev \in Int
    BY DEF PolicyFigures
  <1> QED
    BY <1>1 DEF Exceeds, SumOf

(* Whoever is dominated is dominated by one that is not: the one with the  *)
(* greatest sum of its figures.                                            *)
LEMMA BestRival ==
  ASSUME NEW n \in Nat, NEW cands \in [1..n -> PolicyFigures], NEW i \in 1..n, Rivals(cands, i) # {}
  PROVE  \E m \in Rivals(cands, i) : Rivals(cands, m) = {}
  <1> DEFINE sum(j) == SumOf(cands[j])
             sums == {sum(j) : j \in Rivals(cands, i)}
             f == [j \in Rivals(cands, i) |-> sum(j)]
  <1>1. \A j \in 1..n : cands[j] \in PolicyFigures /\ sum(j) \in Int
    BY FigureSum
  <1>2. \A j, k \in 1..n : k \in Rivals(cands, j) <=> Exceeds(cands[k], cands[j])
    BY ExceedsIs DEF Rivals
  <1>3. Rivals(cands, i) \in SUBSET (1..n) /\ DOMAIN cands = 1..n
    BY DEF Rivals
  <1>4. sums \in SUBSET Int /\ sums # {} /\ IsFiniteSet(sums)
    <2>1. IsFiniteSet(Rivals(cands, i))
      BY <1>3, FS_Interval, FS_Subset
    <2>2. f \in Surjection(Rivals(cands, i), sums)
      BY DEF Surjection
    <2>3. IsFiniteSet(sums)
      <3> HIDE DEF f, sums
      <3> QED
        BY <2>1, <2>2, FS_Surjection
    <2> QED
      BY <1>1, <1>3, <2>3
  <1>5. Max(sums) \in sums /\ \A s \in sums : s <= Max(sums)
    <2> HIDE DEF sums
    <2> QED
      BY <1>4, MaxOfFinite
  <1>6. PICK m \in Rivals(cands, i) : Max(sums) = sum(m)
    BY <1>5
  <1>7. ASSUME NEW k \in Rivals(cands, m) PROVE FALSE
    <2>1. k \in 1..n /\ m \in 1..n
      BY <1>3 DEF Rivals
    <2>2. Exceeds(cands[m], cands[i]) /\ Exceeds(cands[k], cands[m])
      BY <1>2, <1>7, <2>1
    <2>3. Exceeds(cands[k], cands[i]) /\ sum(k) > sum(m)
      BY <1>1, <2>1, <2>2, ExceedsSum
    <2>4. k \in Rivals(cands, i)
      BY <1>2, <2>1, <2>3
    <2>5. sum(k) <= sum(m)
      BY <1>5, <1>6, <2>4
    <2> QED
      BY <1>1, <2>1, <2>3, <2>5
  <1> QED
    BY <1>7

(* The loop marks those that are dominated, although it passes over rivals *)
(* it has marked; and one is left.                                         *)
LEMMA FrontierIs ==
  ASSUME NEW n \in Nat, NEW cands \in [1..n -> PolicyFigures]
  PROVE  /\ ParetoFrontier(cands) = {i \in 1..n : Rivals(cands, i) = {}}
         /\ n # 0 => ParetoFrontier(cands) # {}
  <1> DEFINE marks(d) == \A i \in DOMAIN cands :
               i \in d <=> \E j \in DOMAIN cands \ (MarkedBefore(d, i) \cup {i}) :
                            IsDominated(ParetoPoint(cands[i]), ParetoPoint(cands[j]))
             dominated == {i \in 1..n : Rivals(cands, i) # {}}
  <1>1. DOMAIN cands = 1..n
    OBVIOUS
  <1>2. \A i \in 1..n : i \notin Rivals(cands, i)
    <2> SUFFICES ASSUME NEW i \in 1..n, IsDominated(ParetoPoint(cands[i]), ParetoPoint(cands[i])) PROVE FALSE
      BY DEF Rivals
    <2> QED
      BY ExceedsIs, FigureSum
  <1>3. ASSUME NEW d \in SUBSET (1..n), marks(d) PROVE d = dominated
    <2>1. \A i \in d : i \in dominated
      BY <1>1, <1>3 DEF Rivals
    <2>2. ASSUME NEW i \in dominated PROVE i \in d
      <3>1. PICK m \in Rivals(cands, i) : Rivals(cands, m) = {}
        BY BestRival
      <3>2. m \in 1..n /\ m # i /\ m \notin d
        BY <1>1, <1>2, <2>1, <3>1 DEF Rivals
      <3>3. m \in DOMAIN cands \ (MarkedBefore(d, i) \cup {i})
        BY <1>1, <3>2 DEF MarkedBefore
      <3> QED
        BY <1>1, <1>3, <3>1, <3>3 DEF Rivals
    <2> QED
      BY <1>3, <2>1, <2>2
  <1>4. marks(dominated)
    <2> SUFFICES ASSUME NEW i \in 1..n
                 PROVE  i \in dominated <=> \E j \in DOMAIN cands \ (MarkedBefore(dominated, i) \cup {i}) :
                                             IsDominated(ParetoPoint(cands[i]), ParetoPoint(cands[j]))
      BY <1>1
    <2>1. ASSUME i \in dominated
          PROVE  \E j \in DOMAIN cands \ (MarkedBefore(dominated, i) \cup {i}) :
                   IsDominated(ParetoPoint(cands[i]), ParetoPoint(cands[j]))
      <3>1. PICK m \in Rivals(cands, i) : Rivals(cands, m) = {}
        BY <2>1, BestRival
      <3>2. m \in 1..n /\ m # i /\ m \notin dominated
        BY <1>1, <1>2, <3>1 DEF Rivals
      <3> QED
        BY <1>1, <3>1, <3>2 DEF Rivals, MarkedBefore
    <2> QED
      BY <1>1, <2>1 DEF Rivals
  <1>5. ParetoDominated(cands) = dominated
    <2> HIDE DEF dominated
    <2>1. dominated \in SUBSET (1..n)
      BY DEF dominated
    <2>2. ParetoDominated(cands) = CHOOSE d \in SUBSET DOMAIN cands : marks(d)
      BY DEF ParetoDominated
    <2> HIDE DEF marks
    <2> QED
      BY <1>1, <1>3, <1>4, <2>1, <2>2
  <1>6. ParetoFrontier(cands) = {i \in 1..n : Rivals(cands, i) = {}}
    BY <1>1, <1>5 DEF ParetoFrontier
  <1>7. ASSUME n # 0 PROVE ParetoFrontier(cands) # {}
    <2>1. 1 \in 1..n
      BY <1>7
    <2>2. CASE Rivals(cands, 1) = {}
      BY <1>6, <2>1, <2>2
    <2>3. CASE Rivals(cands, 1) # {}
      <3>1. PICK m \in Rivals(cands, 1) : Rivals(cands, m) = {}
        BY <2>1, <2>3, BestRival
      <3> QED
        BY <1>1, <1>6, <3>1 DEF Rivals
    <2> QED
      BY <2>2, <2>3
  <1> QED
    BY <1>6, <1>7

(* The report on any candidates, under any gate and with any profile.      *)
LEMMA RecommendationStands ==
  ASSUME NEW n \in Nat, NEW cands \in [1..n -> PolicyFigures], Baseline \in PolicyFigures,
         NEW fidelity \in {"not_provided", "pass", "fail"}, NEW profile
  PROVE  Recommends([cands |-> cands, fidelity |-> fidelity,
                     report |-> GenerateRecommendation(cands, Baseline, fidelity, profile),
                     frontier |-> ParetoFrontier(cands)])
  <1> DEFINE ev == [i \in DOMAIN cands |-> Evaluated(cands[i], Baseline, fidelity)]
             key == [i \in DOMAIN ev |-> RankKey(ev[i])]
             ranked == Ranked(ev)
             report == GenerateRecommendation(cands, Baseline, fidelity, profile)
             ask == [cands |-> cands, fidelity |-> fidelity, report |-> report, frontier |-> ParetoFrontier(cands)]
             sound == {i \in 1..n : Sound(cands[i], fidelity)}
             won == ranked # <<>> /\ ranked[1].accepted
             refused == {p \in 1..n : ~ ranked[p].accepted}
  <1>1. /\ DOMAIN cands = 1..n /\ DOMAIN ev = 1..n /\ DOMAIN key = 1..n
        /\ cands \in Seq(PolicyFigures) /\ Len(cands) = n /\ \A i \in 1..n : cands[i] \in PolicyFigures
    OBVIOUS
  <1>2. \A i \in 1..n : /\ ev[i].objective = cands[i] /\ ev[i].score = WeightedScore(cands[i], Baseline)
                        /\ ev[i].score \in Int /\ ev[i].reasons = RejectionReasons(cands[i], Baseline, fidelity)
                        /\ ev[i].accepted \in BOOLEAN
                        /\ ev[i].accepted <=> i \in sound
                        /\ ~ ev[i].accepted => ev[i].reasons # {} \/ fidelity = "fail"
    <2> TAKE i \in 1..n
    <2>1. ev[i] = Evaluated(cands[i], Baseline, fidelity)
      BY <1>1
    <2> HIDE DEF ev
    <2> QED
      BY <1>1, <2>1, EvaluatedIs DEF Sound
  <1>3. \A i \in 1..n : fidelity = "fail" => ev[i].reasons # {}
    BY <1>2 DEF RejectionReasons, FidelityGateOK
  <1>4. \A i \in 1..n : key[i][1] = (IF ev[i].accepted THEN 0 ELSE 1) /\ key[i][2] = 0 - ev[i].score
    BY <1>1 DEF RankKey
  <1>5. SortKeys(key, n)
    <2> HIDE DEF ev, key, sound
    <2> QED
      BY <1>1, <1>2, <1>4 DEF SortKeys
  <1>6. PICK order : Ordering(order, key, n) /\ ranked = [p \in 1..n |-> ev[order[p]]]
    <2>1. ranked = Sorted(ev, key)
      BY DEF Ranked
    <2>2. DOMAIN ev = 1..n
      BY <1>1
    <2> HIDE DEF ev, key, ranked
    <2>3. \E order : Permuted(order, ev, key, n)
      BY <1>5, <2>2, SortedIs
    <2> QED
      BY <2>1, <2>3 DEF Permuted
  <1>7. /\ report.status = (IF won THEN "accepted" ELSE "blocked")
        /\ report.selected = (IF won THEN <<ranked[1].objective>> ELSE <<>>)
        /\ report.failure_modes = [p \in {q \in DOMAIN ranked : ~ ranked[q].accepted} |-> ranked[p].reasons]
        /\ report.narrative = (IF won \/ ranked = <<>> THEN <<>>
                               ELSE <<[causes |-> ranked[1].reasons, regime |-> WorkloadRegime(profile)]>>)
    BY DEF GenerateRecommendation
  <1> HIDE DEF ev, key, ranked, report
  <1>8. /\ order \in Bijection(1..n, 1..n) /\ DOMAIN ranked = 1..n
        /\ \A p \in 1..n : order[p] \in 1..n /\ ranked[p] = ev[order[p]]
        /\ \A i \in 1..n : \E p \in 1..n : order[p] = i
        /\ \A p, q \in 1..n : order[p] = order[q] => p = q
    BY <1>6 DEF Ordering, Bijection, Injection, IsInjective, Surjection
  <1>9. ranked = <<>> <=> n = 0
    BY <1>8
  <1>10. ASSUME n # 0
         PROVE  /\ 1 \in 1..n
                /\ \A i \in sound : /\ ranked[1].accepted
                                     /\ WeightedScore(cands[i], Baseline) <= WeightedScore(cands[order[1]], Baseline)
    <2>1. 1 \in 1..n
      BY <1>10
    <2>2. ASSUME NEW i \in sound
          PROVE  /\ ranked[1].accepted
                 /\ WeightedScore(cands[i], Baseline) <= WeightedScore(cands[order[1]], Baseline)
      <3>1. PICK p \in 1..n : order[p] = i
        BY <1>8
      <3>2. i \in 1..n /\ order[1] \in 1..n /\ ranked[1] = ev[order[1]] /\ ev[i].accepted
        BY <1>2, <1>8, <2>1
      <3>3. CASE p = 1
        BY <1>2, <3>1, <3>2, <3>3
      <3>4. CASE p # 1
        <4>1. KeyBefore(key, order[1], i)
          BY <1>6, <2>1, <3>1, <3>4 DEF Ordering
        <4>2. key[order[1]][1] < key[i][1] \/ (key[order[1]][1] = key[i][1] /\ key[order[1]][2] <= key[i][2])
          BY <1>5, <3>2, <4>1 DEF KeyBefore, SortKeys
        <4>3. /\ key[i][1] = 0 /\ key[i][2] = 0 - ev[i].score /\ key[order[1]][2] = 0 - ev[order[1]].score
              /\ key[order[1]][1] = IF ev[order[1]].accepted THEN 0 ELSE 1
          BY <1>4, <3>2
        <4>4. key[order[1]][1] = 0 /\ ev[order[1]].accepted /\ key[order[1]][2] <= key[i][2]
          BY <4>2, <4>3
        <4>5. ev[i].score \in Int /\ ev[order[1]].score \in Int
          BY <1>2, <3>2
        <4>6. ev[i].score <= ev[order[1]].score
          BY <4>3, <4>4, <4>5
        <4> HIDE DEF sound
        <4> QED
          BY <1>2, <3>2, <4>4, <4>6
      <3> QED
        BY <3>3, <3>4
    <2> QED
      BY <2>1, <2>2
  <1>11. won <=> sound # {}
    <2>1. ASSUME won PROVE sound # {}
      <3>1. n # 0
        BY <1>9, <2>1
      <3>2. order[1] \in 1..n /\ ev[order[1]].accepted
        BY <1>8, <1>10, <2>1, <3>1
      <3> QED
        BY <1>2, <3>2
    <2>2. ASSUME NEW i \in sound PROVE won
      <3>1. n # 0
        BY <2>2
      <3> QED
        BY <1>9, <1>10, <2>2, <3>1
    <2> QED
      BY <2>1, <2>2
  <1>12. \A s \in DOMAIN report.selected :
           /\ \E i \in sound : cands[i] = report.selected[s]
           /\ \A i \in sound : ~ Beats(cands[i], report.selected[s])
    <2> SUFFICES ASSUME NEW s \in DOMAIN report.selected
                 PROVE  /\ \E i \in sound : cands[i] = report.selected[s]
                        /\ \A i \in sound : ~ Beats(cands[i], report.selected[s])
      OBVIOUS
    <2>1. won
      <3> HIDE DEF won
      <3>1. ASSUME ~ won PROVE FALSE
        BY <1>7, <3>1
      <3> QED
        BY <3>1
    <2>2. n # 0 /\ order[1] \in 1..n /\ ranked[1] = ev[order[1]]
      BY <1>8, <1>9, <1>10, <2>1
    <2>3. s = 1 /\ report.selected[s] = ranked[1].objective
      <3> HIDE DEF won
      <3> QED
        BY <1>7, <2>1
    <2>4. report.selected[s] = cands[order[1]] /\ order[1] \in sound
      BY <1>2, <2>1, <2>2, <2>3
    <2>5. ASSUME NEW i \in sound, Beats(cands[i], cands[order[1]]) PROVE FALSE
      <3>1. WeightedScore(cands[i], Baseline) <= WeightedScore(cands[order[1]], Baseline)
        BY <1>10, <2>2, <2>5
      <3>2. i \in 1..n /\ WeightedScore(cands[i], Baseline) \in Int /\ WeightedScore(cands[order[1]], Baseline) \in Int
        BY <1>2, <2>2, <2>5
      <3>3. WeightedScore(cands[i], Baseline) > WeightedScore(cands[order[1]], Baseline)
        BY <1>1, <2>2, <2>5, <3>2, BeatsScores
      <3> QED
        BY <3>1, <3>2, <3>3
    <2> QED
      BY <2>4, <2>5
  <1>13. DOMAIN report.failure_modes = refused /\ \A p \in refused : report.failure_modes[p] # {}
    <2>1. DOMAIN report.failure_modes = refused
      BY <1>7, <1>8
    <2>2. ASSUME NEW p \in refused PROVE report.failure_modes[p] # {}
      <3>1. p \in 1..n /\ order[p] \in 1..n /\ ranked[p] = ev[order[p]] /\ ~ ev[order[p]].accepted
        BY <1>8
      <3>2. p \in {q \in DOMAIN ranked : ~ ranked[q].accepted}
        BY <1>8
      <3>3. report.failure_modes[p] = ranked[p].reasons
        <4>1. report.failure_modes = [q \in {r \in DOMAIN ranked : ~ ranked[r].accepted} |-> ranked[q].reasons]
          BY <1>7
        <4> HIDE DEF refused
        <4> QED
          BY <3>2, <4>1
      <3> QED
        BY <1>2, <1>3, <3>1, <3>3
    <2> QED
      BY <2>1, <2>2
  <1>14. Cardinality(refused) = n - Cardinality(sound)
    <2> DEFINE unsound == (1..n) \ sound
               f == [p \in refused |-> order[p]]
    <2>1. IsFiniteSet(1..n) /\ Cardinality(1..n) = n /\ sound \in SUBSET (1..n) /\ refused \in SUBSET (1..n)
      BY FS_Interval
    <2>2. f \in Bijection(refused, unsound)
      <3>1. \A p \in 1..n : p \in refused <=> order[p] \in unsound
        <4>1. \A i \in 1..n : ev[i].accepted <=> i \in sound
          BY <1>2
        <4> HIDE DEF sound
        <4> QED
          BY <1>8, <4>1
      <3>2. \A i \in unsound : \E p \in refused : order[p] = i
        <4> HIDE DEF sound, refused
        <4> QED
          BY <1>8, <3>1
      <3> HIDE DEF refused, unsound
      <3> QED
        BY <1>8, <2>1, <3>1, <3>2 DEF Bijection, Injection, IsInjective, Surjection
    <2>3. IsFiniteSet(refused) /\ IsFiniteSet(sound)
      <3> HIDE DEF refused, sound
      <3> QED
        BY <2>1, FS_Subset
    <2>4. Cardinality(unsound) = Cardinality(refused)
      <3>1. ExistsBijection(refused, unsound)
        <4> HIDE DEF f, refused, unsound
        <4> QED
          BY <2>2 DEF ExistsBijection
      <3> HIDE DEF refused, unsound
      <3> QED
        BY <2>3, <3>1, FS_Bijection
    <2>5. Cardinality(unsound) = n - Cardinality(sound)
      <3>1. (1..n) \cap sound = sound
        BY <2>1
      <3> HIDE DEF sound, unsound
      <3>2. Cardinality((1..n) \ sound) = Cardinality(1..n) - Cardinality((1..n) \cap sound)
        BY <2>1, FS_Difference
      <3>3. Cardinality((1..n) \ sound) = n - Cardinality(sound)
        BY <2>1, <3>1, <3>2
      <3> QED
        BY <3>3 DEF unsound
    <2> QED
      BY <2>4, <2>5
  <1>15. report.narrative # <<>> <=> sound = {} /\ cands # <<>>
    <2>1. cands # <<>> <=> n # 0
      BY <1>1
    <2>2. report.narrative # <<>> <=> ~ (won \/ ranked = <<>>)
      <3> HIDE DEF won
      <3> QED
        BY <1>7
    <2> HIDE DEF won, sound
    <2> QED
      BY <1>9, <1>11, <2>1, <2>2
  <1>16. /\ report.status = "accepted" <=> sound # {}
         /\ report.status = "accepted" <=> report.selected # <<>>
    <2> HIDE DEF won, sound
    <2> QED
      BY <1>7, <1>11
  <1>17. FrontierExact(ask)
    <2>1. \A i \in 1..n : Rivals(cands, i) = {} <=>
            \A j \in DOMAIN cands : ~ IsDominated(ParetoPoint(cands[i]), ParetoPoint(cands[j]))
      BY DEF Rivals
    <2>2. cands # <<>> => n # 0
      BY <1>1
    <2> QED
      BY <1>1, <2>1, <2>2, FrontierIs DEF FrontierExact
  <1>18. ask.cands = cands /\ ask.fidelity = fidelity /\ ask.report = report
    OBVIOUS
  <1>19. {i \in DOMAIN ask.cands : Sound(ask.cands[i], ask.fidelity)} = sound /\ Len(ask.cands) = n
    BY <1>1, <1>18
  <1> HIDE DEF ask, sound, refused, won
  <1>20. Recommends(ask)
    BY <1>12, <1>13, <1>14, <1>15, <1>16, <1>17, <1>18, <1>19 DEF Recommends
  <1> QED
    BY <1>20 DEF ask, report

-----------------------------------------------------------------------------
(* The capacity inferred from a schedule.                                  *)

(* Two sets each of which reaches as high as the other have one maximum.   *)
LEMMA SameMax ==
  ASSUME NEW A \in SUBSET Int, NEW B \in SUBSET Int, IsFiniteSet(A), IsFiniteSet(B), A # {}, B # {},
         \A a \in A : \E b \in B : a <= b, \A b \in B : \E a \in A : b <= a
  PROVE  Max(A) = Max(B)
  <1>1. Max(A) \in A /\ \A a \in A : a <= Max(A)
    BY MaxOfFinite
  <1>2. Max(B) \in B /\ \A b \in B : b <= Max(B)
    BY MaxOfFinite
  <1>3. Max(A) \in Int /\ Max(B) \in Int
    BY <1>1, <1>2
  <1>4. PICK b \in B : Max(A) <= b
    BY <1>1
  <1>5. PICK a \in A : Max(B) <= a
    BY <1>2
  <1>6. b <= Max(B) /\ a <= Max(A) /\ a \in Int /\ b \in Int
    BY <1>1, <1>2
  <1> QED
    BY <1>3, <1>4, <1>5, <1>6

(* The rows that started by a time, and those that ended by it.            *)
Begun(trace, t) == {i \in ObservedRows(trace) : trace[i].start_ts <= t}
Ended(trace, t) == {i \in ObservedRows(trace) : trace[i].end_ts <= t}
Between(trace, t) == {i \in ObservedRows(trace) : trace[i].start_ts <= t /\ t < trace[i].end_ts}

(* What is known of the rows of a schedule.                                *)
Rows(trace) ==
  /\ ObservedRows(trace) \in SUBSET DOMAIN trace /\ DOMAIN trace \in SUBSET (Nat \ {0})
  /\ IsFiniteSet(DOMAIN trace) /\ IsFiniteSet(ObservedRows(trace))
  /\ \A i \in DOMAIN trace : trace[i].start_ts \in Int
  /\ \A i \in ObservedRows(trace) :
       /\ trace[i].start_ts \in Int /\ trace[i].end_ts \in Int /\ trace[i].start_ts < trace[i].end_ts
       /\ Cpus(trace[i]) \in Nat /\ Sizes(trace)[i] = Cpus(trace[i]) /\ i \in Nat \ {0}

(* And every schedule's are such.                                          *)
LEMMA RowFacts ==
  ASSUME NEW trace \in Seq(ObservedTimes)
  PROVE  Rows(trace)
  <1>1. DOMAIN trace = 1..Len(trace) /\ Len(trace) \in Nat
    BY LenProperties
  <1>2. IsFiniteSet(DOMAIN trace)
    BY <1>1, FS_Interval
  <1>3. ObservedRows(trace) \in SUBSET DOMAIN trace
    BY DEF ObservedRows
  <1>4. IsFiniteSet(ObservedRows(trace))
    BY <1>2, <1>3, FS_Subset
  <1>5. ASSUME NEW i \in DOMAIN trace
        PROVE  /\ trace[i].start_ts \in Int /\ trace[i].end_ts \in Int
               /\ Cpus(trace[i]) \in Nat /\ Sizes(trace)[i] = Cpus(trace[i]) /\ i \in Nat \ {0}
    <2>1. trace[i] \in ObservedTimes
      BY <1>1, <1>5, ElementOfSeq
    <2> QED
      BY <1>1, <2>1 DEF ObservedTimes, Cpus, NoValue, Sizes
  <1>6. \A i \in ObservedRows(trace) : trace[i].start_ts < trace[i].end_ts
    <2> TAKE i \in ObservedRows(trace)
    <2>1. trace[i].end_ts > trace[i].start_ts /\ i \in DOMAIN trace
      BY DEF ObservedRows, Observed
    <2> QED
      BY <1>5, <2>1
  <1>7. DOMAIN trace \in SUBSET (Nat \ {0})
    BY <1>1
  <1> QED
    BY <1>2, <1>3, <1>4, <1>5, <1>6, <1>7 DEF Rows

(* What is in use is what started less what ended.                         *)
LEMMA InUseIs ==
  ASSUME NEW trace, Rows(trace), NEW t \in Int
  PROVE  /\ InUse(trace, t) = TotalOf(Sizes(trace), Begun(trace, t)) - TotalOf(Sizes(trace), Ended(trace, t))
         /\ InUse(trace, t) \in Nat
         /\ TotalOf(Sizes(trace), Begun(trace, t)) \in Nat /\ TotalOf(Sizes(trace), Ended(trace, t)) \in Nat
  <1> DEFINE size == Sizes(trace)
             B == Begun(trace, t)
             E == Ended(trace, t)
  <1>1. IsFiniteSet(B) /\ \A i \in B : size[i] \in Nat
    <2>1. B \in SUBSET ObservedRows(trace)
      BY DEF Begun
    <2> HIDE DEF B
    <2> QED
      BY <2>1, FS_Subset DEF Rows
  <1>2. E \in SUBSET B /\ B \ E = Between(trace, t)
    BY DEF Begun, Ended, Between, Rows
  <1>3. InUse(trace, t) = TotalOf(size, Between(trace, t))
    BY DEF InUse, Between
  <1> HIDE DEF size, B, E
  <1>4. /\ TotalOf(size, B) \in Nat /\ TotalOf(size, E) \in Nat /\ TotalOf(size, B \ E) \in Nat
        /\ TotalOf(size, E) + TotalOf(size, B \ E) = TotalOf(size, B)
    BY <1>1, <1>2, TotalSplit
  <1>5. InUse(trace, t) = TotalOf(size, B \ E)
    BY <1>2, <1>3
  <1>6. InUse(trace, t) = TotalOf(size, B) - TotalOf(size, E) /\ InUse(trace, t) \in Nat
    BY <1>4, <1>5
  <1> QED
    BY <1>4, <1>6 DEF size, B, E

(* The rows a running sum counts, at a start and at an end.                *)
StartsUpTo(trace, c) == {i \in ObservedRows(trace) : UpTo(StartOf(trace, i), c)}
EndsUpTo(trace, c) == {i \in ObservedRows(trace) : UpTo(EndOf(trace, i), c)}

(* At a start, all that ended by then and no start of later.               *)
LEMMA SumAtStart ==
  ASSUME NEW trace, Rows(trace), NEW j \in ObservedRows(trace)
  PROVE  /\ StartsUpTo(trace, StartOf(trace, j)) \in SUBSET Begun(trace, trace[j].start_ts)
         /\ EndsUpTo(trace, StartOf(trace, j)) = Ended(trace, trace[j].start_ts)
  <1>1. ASSUME NEW i \in ObservedRows(trace)
        PROVE  /\ UpTo(StartOf(trace, i), StartOf(trace, j)) => trace[i].start_ts <= trace[j].start_ts
               /\ UpTo(EndOf(trace, i), StartOf(trace, j)) <=> trace[i].end_ts <= trace[j].start_ts
    <2>1. /\ trace[i].start_ts \in Int /\ trace[i].end_ts \in Int /\ Cpus(trace[i]) \in Nat /\ i \in Nat
          /\ trace[j].start_ts \in Int /\ Cpus(trace[j]) \in Nat /\ j \in Nat
      BY DEF Rows
    <2> QED
      BY <2>1 DEF UpTo, StartOf, EndOf
  <1> QED
    BY <1>1 DEF StartsUpTo, EndsUpTo, Begun, Ended

(* At an end, all that started before and every end before.                *)
LEMMA SumAtEnd ==
  ASSUME NEW trace, Rows(trace), NEW j \in ObservedRows(trace)
  PROVE  /\ StartsUpTo(trace, EndOf(trace, j)) = Begun(trace, trace[j].end_ts - 1)
         /\ Ended(trace, trace[j].end_ts - 1) \in SUBSET EndsUpTo(trace, EndOf(trace, j))
  <1>1. ASSUME NEW i \in ObservedRows(trace)
        PROVE  /\ UpTo(StartOf(trace, i), EndOf(trace, j)) <=> trace[i].start_ts <= trace[j].end_ts - 1
               /\ trace[i].end_ts <= trace[j].end_ts - 1 => UpTo(EndOf(trace, i), EndOf(trace, j))
    <2>1. /\ trace[i].start_ts \in Int /\ trace[i].end_ts \in Int /\ Cpus(trace[i]) \in Nat /\ i \in Nat
          /\ trace[j].end_ts \in Int /\ Cpus(trace[j]) \in Nat /\ j \in Nat /\ j # 0 /\ i # 0
      BY DEF Rows
    <2> QED
      BY <2>1 DEF UpTo, StartOf, EndOf
  <1> QED
    BY <1>1 DEF StartsUpTo, EndsUpTo, Begun, Ended

(* No running sum is above what is in use at some time.                    *)
LEMMA SumIsInUse ==
  ASSUME NEW trace, Rows(trace), NEW j \in ObservedRows(trace)
  PROVE  /\ Current(trace, StartOf(trace, j)) \in Int /\ Current(trace, EndOf(trace, j)) \in Int
         /\ Current(trace, StartOf(trace, j)) <= InUse(trace, trace[j].start_ts)
         /\ Current(trace, EndOf(trace, j)) <= InUse(trace, trace[j].end_ts - 1)
  <1> DEFINE size == Sizes(trace)
             t == trace[j].start_ts
             u == trace[j].end_ts - 1
             s == StartOf(trace, j)
             e == EndOf(trace, j)
  <1>1. t \in Int /\ u \in Int
    BY DEF Rows
  <1>2. ASSUME NEW S \in SUBSET ObservedRows(trace)
        PROVE  IsFiniteSet(S) /\ \A i \in S : size[i] \in Nat
    BY FS_Subset DEF Rows
  <1>3. /\ Current(trace, s) = TotalOf(size, StartsUpTo(trace, s)) - TotalOf(size, EndsUpTo(trace, s))
        /\ Current(trace, e) = TotalOf(size, StartsUpTo(trace, e)) - TotalOf(size, EndsUpTo(trace, e))
    BY DEF Current, StartsUpTo, EndsUpTo
  <1>4. /\ StartsUpTo(trace, s) \in SUBSET Begun(trace, t) /\ EndsUpTo(trace, s) = Ended(trace, t)
        /\ StartsUpTo(trace, e) = Begun(trace, u) /\ Ended(trace, u) \in SUBSET EndsUpTo(trace, e)
    BY SumAtStart, SumAtEnd
  <1> HIDE DEF size, t, u, s, e
  <1>5. /\ TotalOf(size, StartsUpTo(trace, s)) \in Nat
        /\ TotalOf(size, StartsUpTo(trace, s)) <= TotalOf(size, Begun(trace, t))
    <2>1. Begun(trace, t) \in SUBSET ObservedRows(trace)
      BY DEF Begun
    <2> QED
      BY <1>2, <1>4, <2>1, TotalPart
  <1>6. /\ TotalOf(size, EndsUpTo(trace, e)) \in Nat
        /\ TotalOf(size, Ended(trace, u)) <= TotalOf(size, EndsUpTo(trace, e))
    <2>1. EndsUpTo(trace, e) \in SUBSET ObservedRows(trace)
      BY DEF EndsUpTo
    <2>2. EndsUpTo(trace, e) \in SUBSET EndsUpTo(trace, e)
      OBVIOUS
    <2> QED
      BY <1>2, <1>4, <2>1, <2>2, TotalPart
  <1>7. /\ InUse(trace, t) = TotalOf(size, Begun(trace, t)) - TotalOf(size, Ended(trace, t))
        /\ InUse(trace, u) = TotalOf(size, Begun(trace, u)) - TotalOf(size, Ended(trace, u))
        /\ TotalOf(size, Begun(trace, t)) \in Nat /\ TotalOf(size, Ended(trace, t)) \in Nat
        /\ TotalOf(size, Begun(trace, u)) \in Nat /\ TotalOf(size, Ended(trace, u)) \in Nat
    BY <1>1, InUseIs DEF size
  <1>8. Current(trace, s) = TotalOf(size, StartsUpTo(trace, s)) - TotalOf(size, Ended(trace, t))
    BY <1>3, <1>4
  <1>9. Current(trace, e) = TotalOf(size, Begun(trace, u)) - TotalOf(size, EndsUpTo(trace, e))
    BY <1>3, <1>4
  <1>10. Current(trace, s) \in Int /\ Current(trace, s) <= InUse(trace, t)
    BY <1>5, <1>7, <1>8
  <1>11. Current(trace, e) \in Int /\ Current(trace, e) <= InUse(trace, u)
    BY <1>6, <1>7, <1>9
  <1> QED
    BY <1>10, <1>11 DEF s, e, t, u

(* What is in use at any time is in use at some start, if anything is.     *)
LEMMA PeakAtStart ==
  ASSUME NEW trace, Rows(trace), NEW t \in Int
  PROVE  \/ InUse(trace, t) = 0
         \/ \E m \in ObservedRows(trace) : InUse(trace, t) <= InUse(trace, trace[m].start_ts)
  <1> DEFINE now == Between(trace, t)
             begins == [i \in now |-> trace[i].start_ts]
             starts == {begins[i] : i \in DOMAIN begins}
  <1>1. InUse(trace, t) = TotalOf(Sizes(trace), now)
    BY DEF InUse, Between
  <1>2. CASE now = {}
    BY <1>1, <1>2, TotalNone
  <1>3. CASE now # {}
    <2>1. now \in SUBSET ObservedRows(trace)
      BY DEF Between
    <2>2. IsFiniteSet(starts) /\ starts \in SUBSET Int /\ starts # {}
      <3>1. IsFiniteSet(now)
        BY <2>1, FS_Subset DEF Rows
      <3>2. \A i \in now : begins[i] \in Int
        BY <2>1 DEF Rows
      <3>3. DOMAIN begins = now
        OBVIOUS
      <3> HIDE DEF begins, now
      <3>4. IsFiniteSet(starts)
        BY <3>1, <3>3, ImageIsFinite
      <3> QED
        BY <1>3, <3>2, <3>3, <3>4
    <2>3. Max(starts) \in starts /\ \A x \in starts : x <= Max(starts)
      <3> HIDE DEF starts
      <3> QED
        BY <2>2, MaxOfFinite
    <2>4. PICK m \in now : Max(starts) = begins[m]
      BY <2>3
    <2>5. m \in ObservedRows(trace) /\ \A i \in now : trace[i].start_ts <= trace[m].start_ts
      <3>1. begins[m] = trace[m].start_ts
        OBVIOUS
      <3>2. \A i \in now : trace[i].start_ts \in starts
        OBVIOUS
      <3> QED
        BY <2>1, <2>3, <2>4, <3>1, <3>2
    <2>6. now \in SUBSET Between(trace, trace[m].start_ts)
      BY <2>1, <2>4, <2>5 DEF Between, Rows
    <2>7. /\ IsFiniteSet(Between(trace, trace[m].start_ts))
          /\ \A i \in Between(trace, trace[m].start_ts) : Sizes(trace)[i] \in Nat
      <3>1. Between(trace, trace[m].start_ts) \in SUBSET ObservedRows(trace)
        BY DEF Between
      <3> QED
        BY <3>1, FS_Subset DEF Rows
    <2>8. TotalOf(Sizes(trace), now) <= TotalOf(Sizes(trace), Between(trace, trace[m].start_ts))
      <3> HIDE DEF now
      <3> QED
        BY <2>6, <2>7, TotalPart
    <2>9. InUse(trace, trace[m].start_ts) = TotalOf(Sizes(trace), Between(trace, trace[m].start_ts))
      BY DEF InUse, Between
    <2> QED
      BY <1>1, <2>5, <2>8, <2>9
  <1> QED
    BY <1>2, <1>3

(* The last of the starts at a time counts them all.                       *)
LEMMA LastStart ==
  ASSUME NEW trace, Rows(trace), NEW m \in ObservedRows(trace)
  PROVE  \E k \in ObservedRows(trace) : Current(trace, StartOf(trace, k)) = InUse(trace, trace[m].start_ts)
  <1> DEFINE t == trace[m].start_ts
             same == {i \in ObservedRows(trace) : trace[i].start_ts = t}
             given == [i \in same |-> Cpus(trace[i])]
             cpus == {given[i] : i \in DOMAIN given}
             widest == {i \in same : Cpus(trace[i]) = Max(cpus)}
             k == Max(widest)
  <1>1. same \in SUBSET ObservedRows(trace) /\ IsFiniteSet(same) /\ m \in same
    <2>1. same \in SUBSET ObservedRows(trace) /\ m \in same
      OBVIOUS
    <2> HIDE DEF same
    <2> QED
      BY <2>1, FS_Subset DEF Rows
  <1>2. Max(cpus) \in cpus /\ \A x \in cpus : x <= Max(cpus)
    <2>1. \A i \in same : given[i] \in Int
      BY <1>1 DEF Rows
    <2>2. DOMAIN given = same
      OBVIOUS
    <2> HIDE DEF given, same
    <2>3. IsFiniteSet(cpus) /\ cpus \in SUBSET Int /\ cpus # {}
      BY <1>1, <2>1, <2>2, ImageIsFinite
    <2> HIDE DEF cpus
    <2> QED
      BY <2>3, MaxOfFinite
  <1>3. \A i \in same : Cpus(trace[i]) <= Max(cpus)
    <2> TAKE i \in same
    <2>1. given[i] = Cpus(trace[i]) /\ given[i] \in cpus
      OBVIOUS
    <2> HIDE DEF cpus, given
    <2> QED
      BY <1>2, <2>1
  <1>4. widest \in SUBSET same /\ widest # {}
    <2>1. PICK i \in same : Max(cpus) = Cpus(trace[i])
      BY <1>2
    <2> QED
      BY <2>1
  <1>5. k \in widest /\ \A i \in widest : i <= k
    <2>1. widest \in SUBSET Int /\ IsFiniteSet(widest)
      <3> HIDE DEF widest, same
      <3> QED
        BY <1>1, <1>4, FS_Subset DEF Rows
    <2> HIDE DEF widest
    <2> QED
      BY <1>4, <2>1, MaxOfFinite
  <1>6. k \in ObservedRows(trace) /\ trace[k].start_ts = t /\ Cpus(trace[k]) = Max(cpus)
    <2> HIDE DEF k
    <2> QED
      BY <1>5
  <1> HIDE DEF k, cpus
  <1>7. ASSUME NEW i \in ObservedRows(trace), trace[i].start_ts <= t
        PROVE  UpTo(StartOf(trace, i), StartOf(trace, k))
    <2>1. /\ trace[i].start_ts \in Int /\ t \in Int /\ Cpus(trace[i]) \in Nat /\ Cpus(trace[k]) \in Nat
          /\ i \in Nat /\ k \in Nat
      BY <1>6 DEF Rows
    <2>2. trace[i].start_ts = t => Cpus(trace[i]) <= Cpus(trace[k])
      BY <1>3, <1>6, <1>7
    <2>3. trace[i].start_ts = t /\ Cpus(trace[i]) = Cpus(trace[k]) => i <= k
      BY <1>5, <1>6, <1>7
    <2>4. StartOf(trace, i)[1] = trace[i].start_ts /\ StartOf(trace, k)[1] = t
      BY <1>6 DEF StartOf
    <2>5. /\ StartOf(trace, i)[2] = Cpus(trace[i]) /\ StartOf(trace, k)[2] = Cpus(trace[k])
          /\ StartOf(trace, i)[3] = i /\ StartOf(trace, k)[3] = k
      BY DEF StartOf
    <2>6. trace[i].start_ts < t \/ trace[i].start_ts = t
      BY <1>7, <2>1
    <2>7. Cpus(trace[i]) <= Cpus(trace[k]) => Cpus(trace[i]) < Cpus(trace[k]) \/ Cpus(trace[i]) = Cpus(trace[k])
      BY <2>1
    <2> HIDE DEF t
    <2> QED
      BY <2>2, <2>3, <2>4, <2>5, <2>6, <2>7 DEF UpTo
  <1>8. StartsUpTo(trace, StartOf(trace, k)) = Begun(trace, t) /\ EndsUpTo(trace, StartOf(trace, k)) = Ended(trace, t)
    <2>1. /\ StartsUpTo(trace, StartOf(trace, k)) \in SUBSET Begun(trace, t)
          /\ EndsUpTo(trace, StartOf(trace, k)) = Ended(trace, t)
      BY <1>6, SumAtStart
    <2>2. Begun(trace, t) \in SUBSET StartsUpTo(trace, StartOf(trace, k))
      BY <1>7 DEF Begun, StartsUpTo
    <2> QED
      BY <2>1, <2>2
  <1>9. Current(trace, StartOf(trace, k))
          = TotalOf(Sizes(trace), StartsUpTo(trace, StartOf(trace, k)))
              - TotalOf(Sizes(trace), EndsUpTo(trace, StartOf(trace, k)))
    BY DEF Current, StartsUpTo, EndsUpTo
  <1>10. t \in Int
    BY DEF Rows
  <1>11. InUse(trace, t) = TotalOf(Sizes(trace), Begun(trace, t)) - TotalOf(Sizes(trace), Ended(trace, t))
    BY <1>10, InUseIs
  <1> QED
    BY <1>6, <1>8, <1>9, <1>11

(* The capacity inferred is what the schedule takes at its peak.           *)
LEMMA CapacityIsPeak ==
  ASSUME NEW trace \in Seq(ObservedTimes)
  PROVE  InferCapacity(trace) = Max({1} \cup {InUse(trace, trace[i].start_ts) : i \in DOMAIN trace})
  <1> DEFINE ran == ObservedRows(trace)
             s == [i \in ran |-> Current(trace, StartOf(trace, i))]
             e == [i \in ran |-> Current(trace, EndOf(trace, i))]
             p == [i \in DOMAIN trace |-> InUse(trace, trace[i].start_ts)]
             S == {s[i] : i \in DOMAIN s}
             E == {e[i] : i \in DOMAIN e}
             P == {p[i] : i \in DOMAIN p}
             changes == {StartOf(trace, i) : i \in ran} \cup {EndOf(trace, i) : i \in ran}
  <1>1. Rows(trace)
    BY RowFacts
  <1>2. InferCapacity(trace) = Max({1} \cup S \cup E)
    <2>1. {Current(trace, change) : change \in changes} = S \cup E
      OBVIOUS
    <2>2. {1} \cup (S \cup E) = {1} \cup S \cup E
      OBVIOUS
    <2>3. InferCapacity(trace) = Max({1} \cup {Current(trace, change) : change \in changes})
      BY DEF InferCapacity
    <2> HIDE DEF S, E, changes
    <2> QED
      BY <2>1, <2>2, <2>3
  <1>3. IsFiniteSet(ran) /\ IsFiniteSet(DOMAIN trace) /\ IsFiniteSet({1})
    BY <1>1, FS_Singleton DEF Rows
  <1>4. DOMAIN s = ran /\ DOMAIN e = ran /\ DOMAIN p = DOMAIN trace
    OBVIOUS
  <1>5. \A i \in ran : s[i] \in Int /\ e[i] \in Int
    BY <1>1, SumIsInUse
  <1>6. ASSUME NEW i \in DOMAIN trace PROVE p[i] \in Int
    <2>1. trace[i].start_ts \in Int
      BY <1>1 DEF Rows
    <2>2. InUse(trace, trace[i].start_ts) \in Nat
      BY <1>1, <2>1, InUseIs
    <2> QED
      BY <2>2
  <1>7. \A i \in ran : i \in DOMAIN trace
    BY DEF ObservedRows
  <1>8. IsFiniteSet(S) /\ IsFiniteSet(E) /\ IsFiniteSet(P)
    <2> HIDE DEF s, e, p, ran
    <2> QED
      BY <1>3, <1>4, ImageIsFinite
  <1>9. S \in SUBSET Int /\ E \in SUBSET Int /\ P \in SUBSET Int
    <2> HIDE DEF s, e, p, ran
    <2> QED
      BY <1>4, <1>5, <1>6
  <1>10. ASSUME NEW t \in Int
         PROVE  \E a \in {1} \cup P : InUse(trace, t) <= a
    <2>1. CASE InUse(trace, t) = 0
      BY <2>1
    <2>2. CASE \E m \in ran : InUse(trace, t) <= InUse(trace, trace[m].start_ts)
      <3>1. PICK m \in ran : InUse(trace, t) <= InUse(trace, trace[m].start_ts)
        BY <2>2
      <3>2. m \in DOMAIN trace
        BY <1>7
      <3>3. InUse(trace, trace[m].start_ts) \in P
        BY <3>2
      <3> QED
        BY <3>1, <3>3
    <2> QED
      BY <1>1, <2>1, <2>2, PeakAtStart
  <1>11. \A a \in {1} \cup S \cup E : \E b \in {1} \cup P : a <= b
    <2>1. ASSUME NEW i \in ran PROVE (\E b \in {1} \cup P : s[i] <= b) /\ (\E b \in {1} \cup P : e[i] <= b)
      <3>1. trace[i].start_ts \in Int /\ trace[i].end_ts - 1 \in Int
        BY <1>1 DEF Rows
      <3>2. PICK a \in {1} \cup P : InUse(trace, trace[i].start_ts) <= a
        BY <1>10, <3>1
      <3>3. PICK b \in {1} \cup P : InUse(trace, trace[i].end_ts - 1) <= b
        BY <1>10, <3>1
      <3>4. s[i] <= InUse(trace, trace[i].start_ts) /\ e[i] <= InUse(trace, trace[i].end_ts - 1)
        BY <1>1, SumIsInUse
      <3>5. InUse(trace, trace[i].start_ts) \in Nat /\ InUse(trace, trace[i].end_ts - 1) \in Nat
        BY <1>1, <3>1, InUseIs
      <3>6. s[i] \in Int /\ e[i] \in Int /\ a \in Int /\ b \in Int
        BY <1>5, <1>9
      <3> HIDE DEF s, e, P
      <3>7. s[i] <= a /\ e[i] <= b
        BY <3>2, <3>3, <3>4, <3>5, <3>6
      <3> QED
        BY <3>7
    <2>2. \E b \in {1} \cup P : 1 <= b
      OBVIOUS
    <2> HIDE DEF P, s, e, ran
    <2> QED
      BY <1>4, <2>1, <2>2
  <1>12. \A b \in {1} \cup P : \E a \in {1} \cup S \cup E : b <= a
    <2>1. ASSUME NEW i \in DOMAIN trace PROVE \E a \in {1} \cup S \cup E : p[i] <= a
      <3>1. trace[i].start_ts \in Int /\ p[i] = InUse(trace, trace[i].start_ts) /\ p[i] \in Int
        BY <1>1, <1>6 DEF Rows
      <3>2. CASE InUse(trace, trace[i].start_ts) = 0
        BY <3>1, <3>2
      <3>3. CASE \E m \in ran : InUse(trace, trace[i].start_ts) <= InUse(trace, trace[m].start_ts)
        <4>1. PICK m \in ran : InUse(trace, trace[i].start_ts) <= InUse(trace, trace[m].start_ts)
          BY <3>3
        <4>2. PICK k \in ran : Current(trace, StartOf(trace, k)) = InUse(trace, trace[m].start_ts)
          BY <1>1, LastStart
        <4>3. s[k] \in S /\ s[k] = InUse(trace, trace[m].start_ts)
          BY <4>2
        <4> HIDE DEF S, E, s, p
        <4> QED
          BY <3>1, <4>1, <4>3
      <3> QED
        BY <1>1, <3>1, <3>2, <3>3, PeakAtStart
    <2>2. \E a \in {1} \cup S \cup E : 1 <= a
      OBVIOUS
    <2> HIDE DEF S, E, p
    <2> QED
      BY <1>4, <2>1, <2>2
  <1>13. Max({1} \cup S \cup E) = Max({1} \cup P)
    <2> DEFINE A == {1} \cup S \cup E
               B == {1} \cup P
    <2>1. IsFiniteSet(A) /\ IsFiniteSet(B)
      <3> HIDE DEF S, E, P
      <3>1. IsFiniteSet({1} \cup S)
        BY <1>3, <1>8, FS_Union
      <3> QED
        BY <1>3, <1>8, <3>1, FS_Union
    <2>2. A \in SUBSET Int /\ B \in SUBSET Int /\ A # {} /\ B # {}
      <3> HIDE DEF S, E, P
      <3> QED
        BY <1>9
    <2>3. (\A a \in A : \E b \in B : a <= b) /\ (\A b \in B : \E a \in A : b <= a)
      <3> HIDE DEF S, E, P
      <3> QED
        BY <1>11, <1>12
    <2> HIDE DEF A, B
    <2>4. Max(A) = Max(B)
      BY <2>1, <2>2, <2>3, SameMax
    <2> QED
      BY <2>4 DEF A, B
  <1>14. P = {InUse(trace, trace[i].start_ts) : i \in DOMAIN trace}
    OBVIOUS
  <1> HIDE DEF S, E, P
  <1> QED
    BY <1>2, <1>13, <1>14

(* The report on one candidate.                                            *)
LEMMA OneCandidate ==
  ASSUME NEW cand \in PolicyFigures, NEW base \in PolicyFigures
  PROVE  GenerateRecommendation(<<cand>>, base, "pass", <<>>).status
           = IF Violations(cand, base) = {} /\ PrimaryImproved(cand, base) THEN "accepted" ELSE "blocked"
  <1> DEFINE ev == [i \in DOMAIN <<cand>> |-> Evaluated(<<cand>>[i], base, "pass")]
             key == [i \in DOMAIN ev |-> RankKey(ev[i])]
             ranked == Ranked(ev)
  <1>1. DOMAIN ev = 1..1 /\ DOMAIN key = 1..1
    OBVIOUS
  <1>2. /\ ev[1].score \in Int
        /\ ev[1].accepted <=> Violations(cand, base) = {} /\ PrimaryImproved(cand, base)
    <2>1. ev[1] = Evaluated(cand, base, "pass")
      BY <1>1
    <2>2. Evaluated(cand, base, "pass").score \in Int
      BY EvaluatedIs
    <2>3. Evaluated(cand, base, "pass").accepted
            <=> Violations(cand, base) = {} /\ PrimaryImproved(cand, base)
      BY DEF Evaluated, FidelityGateOK
    <2> HIDE DEF ev
    <2> QED
      BY <2>1, <2>2, <2>3
  <1>3. SortKeys(key, 1)
    <2>1. key[1] = RankKey(ev[1])
      BY <1>1
    <2> HIDE DEF key, ev
    <2>2. key[1][1] \in Int /\ key[1][2] \in Int
      BY <1>2, <2>1 DEF RankKey
    <2> QED
      BY <1>1, <2>2 DEF SortKeys
  <1>4. PICK order : Permuted(order, ev, key, 1)
    <2> HIDE DEF key, ev
    <2> QED
      BY <1>1, <1>3, SortedIs
  <1>5. ranked = [p \in 1..1 |-> ev[order[p]]] /\ order \in Bijection(1..1, 1..1)
    <2>1. ranked = Sorted(ev, key)
      BY DEF Ranked
    <2> HIDE DEF key, ev, ranked
    <2> QED
      BY <1>4, <2>1 DEF Permuted, Ordering
  <1>6. GenerateRecommendation(<<cand>>, base, "pass", <<>>).status
          = IF ranked # <<>> /\ ranked[1].accepted THEN "accepted" ELSE "blocked"
    BY DEF GenerateRecommendation
  <1> HIDE DEF key, ev, ranked
  <1>7. ranked # <<>> /\ ranked[1] = ev[1]
    <2>1. order[1] \in 1..1
      BY <1>5 DEF Bijection, Injection
    <2>2. order[1] = 1
      BY <2>1
    <2>3. DOMAIN ranked = 1..1 /\ ranked[1] = ev[order[1]]
      BY <1>5
    <2> QED
      BY <2>2, <2>3
  <1> QED
    BY <1>2, <1>6, <1>7

(* A verdict on figures agrees with the recommendation on them, and with   *)
(* the verdict on them turned round.                                       *)
LEMMA VerdictAgrees ==
  ASSUME NEW cand \in PolicyFigures, NEW base \in PolicyFigures
  PROVE  LET recommended == GenerateRecommendation(<<cand>>, base, "pass", <<>>).status
             verdict == Verdict(cand, base)
         IN  /\ verdict = "improvement" => recommended = "accepted"
             /\ verdict \in {"regression", "blocked_constraints"} => recommended = "blocked"
             /\ verdict = "improvement" => Verdict(base, cand) \in {"regression", "blocked_constraints"}
  <1> DEFINE recommended == GenerateRecommendation(<<cand>>, base, "pass", <<>>).status
             gain == base.p95_bsld - cand.p95_bsld
             loss == cand.p95_bsld - base.p95_bsld
  <1>1. cand.p95_bsld \in Nat \ {0} /\ base.p95_bsld \in Nat \ {0}
    BY DEF PolicyFigures
  <1>2. gain \in Int /\ loss \in Int /\ loss = 0 - gain /\ base.p95_bsld > 0 /\ cand.p95_bsld > 0
    BY <1>1
  <1>3. /\ Verdict(cand, base) =
             (IF Violations(cand, base) # {} THEN "blocked_constraints"
              ELSE IF 100 * gain > base.p95_bsld THEN "improvement"
              ELSE IF 100 * gain < 0 - base.p95_bsld THEN "regression"
              ELSE "no_material_change")
        /\ Verdict(base, cand) =
             (IF Violations(base, cand) # {} THEN "blocked_constraints"
              ELSE IF 100 * loss > cand.p95_bsld THEN "improvement"
              ELSE IF 100 * loss < 0 - cand.p95_bsld THEN "regression"
              ELSE "no_material_change")
    BY <1>2 DEF Verdict
  <1>4. PrimaryImproved(cand, base) <=> gain > 0
    BY DEF PrimaryImproved
  <1>5. recommended = IF Violations(cand, base) = {} /\ gain > 0 THEN "accepted" ELSE "blocked"
    BY <1>4, OneCandidate
  <1>6. 100 * gain > base.p95_bsld => gain > 0 /\ 100 * loss < 0 - cand.p95_bsld /\ ~ (100 * loss > cand.p95_bsld)
    BY <1>1
  <1>7. 100 * gain < 0 - base.p95_bsld => ~ (gain > 0)
    BY <1>1
  <1> HIDE DEF recommended, gain, loss
  <1>8. /\ Verdict(cand, base) = "improvement" => recommended = "accepted"
        /\ Verdict(cand, base) \in {"regression", "blocked_constraints"} => recommended = "blocked"
        /\ Verdict(cand, base) = "improvement" => Verdict(base, cand) \in {"regression", "blocked_constraints"}
    BY <1>3, <1>5, <1>6, <1>7
  <1> QED
    BY <1>8 DEF recommended

(* recommend/engine.py, whatif/engine.py: whatever the candidates' figures,*)
(* the gate and the observed schedule, a recommendation is made exactly    *)
(* when one is due and is of a candidate none beats, every refusal has its *)
(* reasons, the frontier is the one by definition, a what-if verdict       *)
(* agrees with the recommendation, and an inferred capacity is the peak.   *)
THEOREM AdviceIsSound == Spec => []RecommendationSound
  <1>1. Init => RecommendationSound
    BY DEF Init, RecommendationSound
  <1>2. ASSUME RecommendationSound, [Next]_vars PROVE RecommendationSound'
    <2>1. CASE RecommendCommand
      <3>1. PICK n \in 0..MaxCandidates : \E cands \in [1..n -> Candidates],
               fidelity \in {"not_provided", "pass", "fail"}, profile \in {<<>>} \cup {<<p>> : p \in Profiles} :
                 Generate(cands, fidelity, profile)
        BY <2>1 DEF RecommendCommand
      <3>2. PICK cands \in [1..n -> Candidates], fidelity \in {"not_provided", "pass", "fail"},
                 profile \in {<<>>} \cup {<<p>> : p \in Profiles} :
                   Generate(cands, fidelity, profile)
        BY <3>1
      <3> DEFINE ask == [cands |-> cands, fidelity |-> fidelity,
                         report |-> GenerateRecommendation(cands, Baseline, fidelity, profile),
                         frontier |-> ParetoFrontier(cands)]
      <3>3. asked' = <<ask>> /\ command' = "recommend"
        BY <2>1, <3>2 DEF RecommendCommand, Generate
      <3>4. n \in Nat /\ cands \in [1..n -> PolicyFigures] /\ Baseline \in PolicyFigures
        BY FiguresAssumption
      <3>5. Recommends(ask)
        BY <3>4, RecommendationStands
      <3> HIDE DEF ask
      <3> QED
        BY <3>3, <3>5 DEF RecommendationSound
    <2>2. CASE WhatIfCommand
      <3>1. PICK trace \in WhatIfTraces, capacity \in {NoValue, 4}, cand \in Candidates, base \in Candidates,
                 gate \in {"pass", "fail"} :
               asked' = <<[trace |-> trace, cand |-> cand, base |-> base,
                           report |-> RunWhatIf(trace, capacity, cand, base, gate)]>>
        BY <2>2 DEF WhatIfCommand
      <3> DEFINE report == RunWhatIf(trace, capacity, cand, base, gate)
                 ask == [trace |-> trace, cand |-> cand, base |-> base, report |-> report]
      <3>2. asked' = <<ask>> /\ command' = "whatif"
        BY <2>2, <3>1 DEF WhatIfCommand
      <3>3. trace \in Seq(ObservedTimes) /\ cand \in PolicyFigures /\ base \in PolicyFigures
        BY FiguresAssumption
      <3>4. /\ report.verdict = Verdict(cand, base)
            /\ report.capacity_inferred_from_trace <=> capacity = NoValue
            /\ capacity = NoValue => report.capacity_cpus = InferCapacity(trace)
        BY DEF RunWhatIf
      <3>5. ask.trace = trace /\ ask.cand = cand /\ ask.base = base /\ ask.report = report
        OBVIOUS
      <3> HIDE DEF report, ask
      <3>6. Answers(ask)
        BY <3>3, <3>4, <3>5, CapacityIsPeak, VerdictAgrees DEF Answers
      <3> QED
        BY <3>2, <3>6 DEF RecommendationSound
    <2>3. CASE CredibilityCommand \/ BenchmarkCommand \/ BatsimCommands \/ UNCHANGED vars
      <3>1. UNCHANGED <<command, asked>>
        BY <2>3 DEF CredibilityCommand, BenchmarkCommand, BatsimCommands, vars
      <3> QED
        BY <1>2, <3>1 DEF RecommendationSound
    <2> QED
      BY <1>2, <2>1, <2>2, <2>3 DEF Next
  <1> QED
    BY <1>1, <1>2, PTL DEF Spec

-----------------------------------------------------------------------------
(* The Batsim path.                                                        *)

(* Half seconds cut to whole ones.                                         *)
LEMMA HalfIs ==
  ASSUME NEW x \in Nat
  PROVE  x \div 2 \in Nat /\ 2 * (x \div 2) <= x /\ x <= 2 * (x \div 2) + 1
  OBVIOUS

(* And what is later stays so, and no time gets longer by it.              *)
LEMMA HalvesAre ==
  ASSUME NEW x \in Nat, NEW y \in Nat
  PROVE  /\ x <= y => x \div 2 <= y \div 2
         /\ x \div 2 + y \div 2 <= (x + y) \div 2
  <1>1. /\ x \div 2 \in Nat /\ 2 * (x \div 2) <= x /\ x <= 2 * (x \div 2) + 1
        /\ y \div 2 \in Nat /\ 2 * (y \div 2) <= y /\ y <= 2 * (y \div 2) + 1
    BY HalfIs
  <1>2. (x + y) \div 2 \in Nat /\ 2 * ((x + y) \div 2) <= x + y /\ x + y <= 2 * ((x + y) \div 2) + 1
    BY HalfIs
  <1> DEFINE a == x \div 2
             b == y \div 2
             c == (x + y) \div 2
  <1> HIDE DEF a, b, c
  <1>3. /\ a \in Nat /\ 2 * a <= x /\ x <= 2 * a + 1 /\ b \in Nat /\ 2 * b <= y /\ y <= 2 * b + 1
        /\ c \in Nat /\ 2 * c <= x + y /\ x + y <= 2 * c + 1
    BY <1>1, <1>2 DEF a, b, c
  <1>4. (x <= y => a <= b) /\ a + b <= c
    BY <1>3
  <1> QED
    BY <1>4 DEF a, b, c

(* What a trace holds.                                                     *)
TraceOK(trace) ==
  /\ trace \in Seq(BatsimRow)
  /\ \A i, j \in DOMAIN trace : trace[i].job_id = trace[j].job_id => i = j

(* A workload of a trace, its jobs those of the rows in this order.        *)
JobsOf(jobs, trace, capacity, order) ==
  /\ order \in Bijection(1..Len(trace), 1..Len(trace)) /\ DOMAIN jobs = 1..Len(trace)
  /\ \A i \in 1..Len(trace) :
       /\ jobs[i].id = trace[order[i]].job_id
       /\ jobs[i].subtime = Positive(trace[order[i]].submit, 0)
       /\ jobs[i].res = RequestedResources(trace[order[i]], capacity)
       /\ jobs[i].user_id = trace[order[i]].user_id
       /\ jobs[i].id \in Int /\ jobs[i].subtime \in Nat /\ jobs[i].res \in Nat \ {0}
       /\ jobs[i].delay \in Nat \ {0} /\ jobs[i].walltime \in Nat

(* A configuration as it is written.                                       *)
WellConfigured(written, trace, before, source, capacity) ==
  /\ TraceOK(trace) /\ before \in Int /\ capacity \in Nat
  /\ written = Configured(trace, Workload(trace, before), source, capacity)

(* Every job asks for a CPU at least.                                      *)
LEMMA RequestedPositive ==
  ASSUME NEW row \in BatsimRow, NEW capacity \in Int
  PROVE  RequestedResources(row, capacity) \in Nat \ {0}
  <1> DEFINE wanted == Positive(row.requested_cpus, Positive(row.allocated_cpus, 1))
  <1>1. wanted \in Int
    BY DEF BatsimRow, Positive
  <1> HIDE DEF wanted
  <1>2. PICK m \in Int : m = Min({wanted, capacity})
    BY <1>1, PairMax
  <1>3. Max({1, m}) \in Int /\ Max({1, m}) >= 1
    BY PairMax
  <1> QED
    BY <1>2, <1>3 DEF RequestedResources, wanted

(* What generate_batsim_workload_from_trace makes of a trace.              *)
LEMMA WorkloadIs ==
  ASSUME NEW trace, TraceOK(trace), NEW capacity \in Int
  PROVE  /\ Workload(trace, capacity).nb_res = capacity
         /\ \E order : JobsOf(Workload(trace, capacity).jobs, trace, capacity, order)
  <1> DEFINE n == Len(trace)
             key == [i \in DOMAIN trace |-> <<trace[i].submit, trace[i].job_id>>]
             rows == Sorted(trace, key)
             jobs == Workload(trace, capacity).jobs
  <1>1. n \in Nat /\ DOMAIN trace = 1..n /\ DOMAIN key = 1..n
    BY DEF TraceOK
  <1>2. \A i \in 1..n : trace[i] \in BatsimRow
    BY <1>1, ElementOfSeq DEF TraceOK
  <1>3. SortKeys(key, n)
    <2>1. \A i \in 1..n : key[i][1] = trace[i].submit /\ key[i][2] = trace[i].job_id
      BY <1>1
    <2>2. \A i \in 1..n : trace[i].submit \in Int /\ trace[i].job_id \in Int
      BY <1>2 DEF BatsimRow
    <2> HIDE DEF key
    <2> QED
      BY <1>1, <2>1, <2>2 DEF SortKeys
  <1>4. PICK order : Permuted(order, trace, key, n)
    <2> HIDE DEF key, n
    <2> QED
      BY <1>1, <1>3, SortedIs
  <1>5. order \in Bijection(1..n, 1..n) /\ rows = [p \in 1..n |-> trace[order[p]]]
    BY <1>4 DEF Permuted, Ordering
  <1>6. /\ Workload(trace, capacity).nb_res = capacity
        /\ jobs = [i \in DOMAIN rows |->
                     [id |-> rows[i].job_id, subtime |-> Positive(rows[i].submit, 0),
                      res |-> RequestedResources(rows[i], capacity),
                      delay |-> RuntimeHalves(rows[i]),
                      walltime |-> Positive(rows[i].runtime_requested, 0),
                      user_id |-> rows[i].user_id]]
    BY DEF Workload
  <1> HIDE DEF rows, jobs, key
  <1>7. DOMAIN jobs = 1..n /\ DOMAIN rows = 1..n
    BY <1>5, <1>6
  <1>8. ASSUME NEW i \in 1..n
        PROVE  /\ jobs[i].id = trace[order[i]].job_id
               /\ jobs[i].subtime = Positive(trace[order[i]].submit, 0)
               /\ jobs[i].res = RequestedResources(trace[order[i]], capacity)
               /\ jobs[i].user_id = trace[order[i]].user_id
               /\ jobs[i].id \in Int /\ jobs[i].subtime \in Nat /\ jobs[i].res \in Nat \ {0}
               /\ jobs[i].delay \in Nat \ {0} /\ jobs[i].walltime \in Nat
    <2>1. order[i] \in 1..n
      BY <1>5 DEF Bijection, Injection
    <2>2. rows[i] = trace[order[i]] /\ rows[i] \in BatsimRow
      BY <1>2, <1>5, <2>1
    <2>3. jobs[i] = [id |-> rows[i].job_id, subtime |-> Positive(rows[i].submit, 0),
                     res |-> RequestedResources(rows[i], capacity),
                     delay |-> RuntimeHalves(rows[i]),
                     walltime |-> Positive(rows[i].runtime_requested, 0),
                     user_id |-> rows[i].user_id]
      BY <1>6, <1>7
    <2>4. /\ jobs[i].id = rows[i].job_id /\ jobs[i].subtime = Positive(rows[i].submit, 0)
          /\ jobs[i].res = RequestedResources(rows[i], capacity) /\ jobs[i].user_id = rows[i].user_id
          /\ jobs[i].delay = RuntimeHalves(rows[i]) /\ jobs[i].walltime = Positive(rows[i].runtime_requested, 0)
      BY <2>3
    <2>5. /\ rows[i].job_id \in Int /\ Positive(rows[i].submit, 0) \in Nat
          /\ RuntimeHalves(rows[i]) \in Nat \ {0} /\ Positive(rows[i].runtime_requested, 0) \in Nat
      BY <2>2 DEF BatsimRow, Positive, RuntimeHalves
    <2>6. RequestedResources(rows[i], capacity) \in Nat \ {0}
      BY <2>2, RequestedPositive
    <2> QED
      BY <2>2, <2>4, <2>5, <2>6
  <1>9. JobsOf(jobs, trace, capacity, order)
    BY <1>5, <1>7, <1>8 DEF JobsOf
  <1> QED
    BY <1>6, <1>9 DEF jobs

(* The capacity inferred from a trace.                                     *)
LEMMA InferPeakIs ==
  ASSUME NEW trace, TraceOK(trace)
  PROVE  InferPeak(trace) \in Nat
  <1> DEFINE pair == [i \in DOMAIN trace |-> {trace[i].requested_cpus, trace[i].allocated_cpus}]
             pairs == {pair[i] : i \in DOMAIN pair}
             given == UNION pairs \ {NoNumber}
  <1>1. DOMAIN trace = 1..Len(trace) /\ Len(trace) \in Nat /\ DOMAIN pair = DOMAIN trace
    BY DEF TraceOK
  <1>2. \A i \in DOMAIN trace : trace[i].requested_cpus \in Int /\ trace[i].allocated_cpus \in Int
    <2> TAKE i \in DOMAIN trace
    <2>1. trace[i] \in BatsimRow
      BY <1>1, ElementOfSeq DEF TraceOK
    <2> QED
      BY <2>1 DEF BatsimRow
  <1>3. IsFiniteSet(pairs)
    <2>1. IsFiniteSet(DOMAIN pair)
      BY <1>1, FS_Interval
    <2> HIDE DEF pair
    <2> QED
      BY <2>1, ImageIsFinite
  <1>4. \A P \in pairs : IsFiniteSet(P) /\ P \in SUBSET Int
    <2> SUFFICES ASSUME NEW i \in DOMAIN trace
                 PROVE  IsFiniteSet({trace[i].requested_cpus, trace[i].allocated_cpus})
      BY <1>1, <1>2
    <2>1. IsFiniteSet({trace[i].requested_cpus}) /\ IsFiniteSet({trace[i].allocated_cpus})
      BY FS_Singleton
    <2>2. IsFiniteSet({trace[i].requested_cpus} \cup {trace[i].allocated_cpus})
      BY <2>1, FS_Union
    <2>3. {trace[i].requested_cpus} \cup {trace[i].allocated_cpus} = {trace[i].requested_cpus, trace[i].allocated_cpus}
      OBVIOUS
    <2> QED
      BY <2>2, <2>3
  <1>5. {{row.requested_cpus, row.allocated_cpus} : row \in ToSet(trace)} = pairs
    <2>1. pairs = {{trace[i].requested_cpus, trace[i].allocated_cpus} : i \in DOMAIN trace}
      OBVIOUS
    <2>2. {{row.requested_cpus, row.allocated_cpus} : row \in {trace[i] : i \in DOMAIN trace}}
            = {{trace[i].requested_cpus, trace[i].allocated_cpus} : i \in DOMAIN trace}
      OBVIOUS
    <2> HIDE DEF pairs
    <2> QED
      BY <2>1, <2>2 DEF ToSet
  <1> HIDE DEF pairs
  <1>6. IsFiniteSet({1} \cup given) /\ {1} \cup given \in SUBSET Int
    <2>1. IsFiniteSet(UNION pairs)
      BY <1>3, <1>4, FS_UNION
    <2>2. IsFiniteSet(given) /\ IsFiniteSet({1})
      BY <2>1, FS_Subset, FS_Singleton
    <2>3. IsFiniteSet({1} \cup given)
      BY <2>2, FS_Union
    <2> QED
      BY <1>4, <2>3
  <1>7. InferPeak(trace) = IF given = {} THEN 64 ELSE Max({1} \cup given)
    BY <1>5 DEF InferPeak
  <1> HIDE DEF given
  <1>8. Max({1} \cup given) \in Int /\ 1 <= Max({1} \cup given)
    <2>1. Max({1} \cup given) \in {1} \cup given /\ \A x \in {1} \cup given : x <= Max({1} \cup given)
      BY <1>6, MaxOfFinite
    <2> QED
      BY <1>6, <2>1
  <1> QED
    BY <1>7, <1>8

(* A row of the export, before they are put in the order of completion.    *)
StartedAt(jobs, delays, i) == jobs[i].subtime + delays[i]
RowOf(jobs, delays, i) ==
  [job_id |-> jobs[i].id, submission_time |-> jobs[i].subtime,
   starting_time |-> IF Rejected(jobs[i]) THEN NoNumber ELSE StartedAt(jobs, delays, i),
   finish_time |-> IF Rejected(jobs[i]) THEN NoNumber ELSE StartedAt(jobs, delays, i) + Ran(jobs[i]),
   execution_time |-> IF Rejected(jobs[i]) THEN NoNumber ELSE Ran(jobs[i]),
   requested_number_of_resources |-> jobs[i].res]

(* Jobs of a configured workload, each with an id of its own.              *)
JobsOK(jobs, n) ==
  /\ n \in Nat /\ jobs = config.workload.jobs /\ DOMAIN jobs = 1..n
  /\ \A i, j \in 1..n : jobs[i].id = jobs[j].id => i = j
  /\ \A i \in 1..n : /\ jobs[i].id \in Int /\ jobs[i].subtime \in Nat /\ jobs[i].res \in Nat \ {0}
                     /\ jobs[i].delay \in Nat \ {0} /\ jobs[i].walltime \in Nat

(* A job that runs takes time.                                             *)
LEMMA RanIs ==
  ASSUME NEW job, job.delay \in Nat \ {0}, job.walltime \in Nat
  PROVE  Ran(job) \in Nat \ {0}
  <1>1. Min({job.delay, job.walltime}) = IF job.delay <= job.walltime THEN job.delay ELSE job.walltime
    BY PairMax
  <1> QED
    BY <1>1 DEF Ran

(* The metadata of an id is that of its one job.                           *)
LEMMA UserIs ==
  ASSUME NEW jobs, NEW n, JobsOK(jobs, n), NEW i \in 1..n
  PROVE  UserOf(jobs[i].id) = jobs[i].user_id
  <1>1. {k \in DOMAIN jobs : jobs[k].id = jobs[i].id} = {i, i} /\ i \in Int
    BY DEF JobsOK
  <1>2. Max({i, i}) = i
    BY <1>1, PairMax
  <1> QED
    BY <1>1, <1>2 DEF UserOf, JobsOK

(* What the report says of a job.                                          *)
LEMMA JobRowIs ==
  ASSUME NEW jobs, NEW n, JobsOK(jobs, n), NEW delays \in [1..n -> Nat], NEW i \in 1..n
  PROVE  LET r == JobRow(RowOf(jobs, delays, i))
             began == StartedAt(jobs, delays, i)
         IN  /\ r.job_id = jobs[i].id /\ r.user_id = jobs[i].user_id /\ r.requested_cpus = jobs[i].res
             /\ r.submit_ts = jobs[i].subtime \div 2
             /\ Rejected(jobs[i]) => r.start_ts = r.submit_ts /\ r.end_ts = r.submit_ts
             /\ ~ Rejected(jobs[i]) => r.start_ts = began \div 2 /\ r.end_ts = (began + Ran(jobs[i])) \div 2
  <1> DEFINE row == RowOf(jobs, delays, i)
             began == StartedAt(jobs, delays, i)
             ran == Ran(jobs[i])
             submit == ToIntTs(row.submission_time, 0)
             start == ToIntTs(row.starting_time, submit)
             finish == Max({ToIntTs(row.finish_time, start), start})
             runtime == Max({finish - start, ToIntTs(row.execution_time, 0)})
             r == JobRow(row)
  <1>1. /\ jobs[i].subtime \in Nat /\ jobs[i].res \in Nat \ {0} /\ ran \in Nat \ {0}
        /\ delays[i] \in Nat /\ began \in Nat /\ jobs[i].subtime <= began
    <2>1. ran \in Nat \ {0}
      BY RanIs DEF JobsOK
    <2>2. jobs[i].subtime \in Nat /\ jobs[i].res \in Nat \ {0}
      BY DEF JobsOK
    <2> QED
      BY <2>1, <2>2 DEF StartedAt
  <1>2. /\ row.job_id = jobs[i].id /\ row.submission_time = jobs[i].subtime
        /\ row.requested_number_of_resources = jobs[i].res
        /\ row.starting_time = (IF Rejected(jobs[i]) THEN NoNumber ELSE began)
        /\ row.finish_time = (IF Rejected(jobs[i]) THEN NoNumber ELSE began + ran)
        /\ row.execution_time = (IF Rejected(jobs[i]) THEN NoNumber ELSE ran)
    BY DEF RowOf
  <1>3. /\ r.job_id = row.job_id /\ r.submit_ts = submit /\ r.start_ts = start /\ r.end_ts = start + runtime
        /\ r.requested_cpus = Positive(row.requested_number_of_resources, 1) /\ r.user_id = UserOf(row.job_id)
    BY DEF JobRow
  <1> HIDE DEF row, r, began, ran
  <1>4. ASSUME NEW x \in Nat, NEW y PROVE ToIntTs(x, y) = x \div 2
    BY DEF ToIntTs, NoNumber
  <1>5. submit = jobs[i].subtime \div 2 /\ submit \in Nat
    BY <1>1, <1>2, <1>4, HalfIs
  <1>6. r.requested_cpus = jobs[i].res /\ r.user_id = jobs[i].user_id /\ r.job_id = jobs[i].id
    BY <1>1, <1>2, <1>3, UserIs DEF Positive
  <1> HIDE DEF submit
  <1>7. CASE Rejected(jobs[i])
    <2>1. start = submit
      BY <1>2, <1>7 DEF ToIntTs
    <2>2. finish = submit
      <3>1. ToIntTs(row.finish_time, start) = submit
        BY <1>2, <1>7, <2>1 DEF ToIntTs
      <3> HIDE DEF start
      <3>2. finish = Max({submit, submit})
        BY <2>1, <3>1
      <3> QED
        BY <1>5, <3>2, PairMax
    <2>3. runtime = 0
      <3>1. ToIntTs(row.execution_time, 0) = 0
        BY <1>2, <1>7 DEF ToIntTs
      <3> HIDE DEF start, finish
      <3>2. finish - start = 0
        BY <1>5, <2>1, <2>2
      <3>3. runtime = Max({0, 0})
        BY <3>1, <3>2
      <3> QED
        BY <3>3, PairMax
    <2>4. start + runtime = submit
      <3> HIDE DEF runtime, start
      <3> QED
        BY <1>5, <2>1, <2>3
    <2> QED
      BY <1>3, <1>5, <1>6, <1>7, <2>1, <2>4 DEF r, row
  <1>8. CASE ~ Rejected(jobs[i])
    <2> DEFINE a == began \div 2
               b == ran \div 2
               c == (began + ran) \div 2
    <2>1. a \in Nat /\ b \in Nat /\ c \in Nat /\ a + b <= c
      BY <1>1, HalfIs, HalvesAre
    <2>2. start = a
      BY <1>1, <1>2, <1>4, <1>8
    <2>3. ToIntTs(row.finish_time, start) = c /\ ToIntTs(row.execution_time, 0) = b
      BY <1>1, <1>2, <1>4, <1>8
    <2> HIDE DEF a, b, c, start
    <2>4. finish = c
      <3>1. finish = Max({c, a})
        BY <2>2, <2>3
      <3>2. c >= a
        BY <2>1
      <3> QED
        BY <2>1, <3>1, <3>2, PairMax
    <2> HIDE DEF finish
    <2>5. runtime = c - a
      <3>1. runtime = Max({c - a, b})
        BY <2>2, <2>3, <2>4
      <3>2. c - a \in Int /\ c - a >= b
        BY <2>1
      <3> HIDE DEF runtime
      <3> QED
        BY <2>1, <3>1, <3>2, PairMax
    <2> HIDE DEF runtime
    <2>6. start + runtime = c
      BY <2>1, <2>2, <2>5
    <2> QED
      BY <1>3, <1>5, <1>6, <1>8, <2>2, <2>6 DEF r, row, a, c, began, ran
  <1> QED
    BY <1>7, <1>8

(* The rows of the report are those of the jobs, in some order that goes   *)
(* by submission and id.                                                   *)
ReportOf(rows, jobs, delays, n, order) ==
  /\ order \in Bijection(1..n, 1..n)
  /\ rows = [p \in 1..n |-> JobRow(RowOf(jobs, delays, order[p]))]
  /\ \A p, q \in 1..n : p < q => rows[p].submit_ts <= rows[q].submit_ts

(* Export and report put the jobs in another order, and leave none out.    *)
LEMMA ReportIs ==
  ASSUME NEW jobs, NEW n, JobsOK(jobs, n), NEW delays \in [1..n -> Nat]
  PROVE  \E order : ReportOf(BuildJobs(Exported(delays)), jobs, delays, n, order)
  <1> DEFINE row == [i \in DOMAIN jobs |-> RowOf(jobs, delays, i)]
             done == [i \in DOMAIN jobs |-> <<RowOf(jobs, delays, i).finish_time, 0>>]
             csv == Exported(delays)
             given == [i \in DOMAIN csv |-> JobRow(csv[i])]
             key == [i \in DOMAIN csv |-> <<given[i].submit_ts, given[i].job_id>>]
             rows == BuildJobs(csv)
  <1>1. n \in Nat /\ DOMAIN jobs = 1..n /\ DOMAIN row = 1..n /\ DOMAIN done = 1..n
    BY DEF JobsOK
  <1>2. csv = Sorted(row, done)
    BY DEF Exported, RowOf, StartedAt, JobsOK
  <1>3. SortKeys(done, n)
    <2>1. ASSUME NEW i \in 1..n PROVE RowOf(jobs, delays, i).finish_time \in Int
      <3>1. Ran(jobs[i]) \in Nat /\ jobs[i].subtime \in Nat /\ delays[i] \in Nat
        BY RanIs DEF JobsOK
      <3> QED
        BY <3>1 DEF RowOf, StartedAt, NoNumber
    <2>2. \A i \in 1..n : done[i][1] \in Int /\ done[i][2] \in Int
      BY <1>1, <2>1
    <2> HIDE DEF done
    <2> QED
      BY <1>1, <2>2 DEF SortKeys
  <1>4. PICK first : Permuted(first, row, done, n)
    <2> HIDE DEF row, done
    <2> QED
      BY <1>1, <1>3, SortedIs
  <1>5. csv = [p \in 1..n |-> RowOf(jobs, delays, first[p])] /\ first \in Bijection(1..n, 1..n)
    <2>1. csv = [p \in 1..n |-> row[first[p]]] /\ first \in Bijection(1..n, 1..n)
      BY <1>2, <1>4 DEF Permuted, Ordering
    <2>2. \A p \in 1..n : first[p] \in 1..n
      BY <2>1 DEF Bijection, Injection
    <2>3. \A p \in 1..n : row[first[p]] = RowOf(jobs, delays, first[p])
      BY <1>1, <2>2
    <2> HIDE DEF csv, row
    <2> QED
      BY <2>1, <2>3
  <1> HIDE DEF csv, row, done
  <1>6. /\ DOMAIN csv = 1..n /\ DOMAIN given = 1..n /\ DOMAIN key = 1..n
        /\ \A p \in 1..n : first[p] \in 1..n /\ given[p] = JobRow(RowOf(jobs, delays, first[p]))
    BY <1>5 DEF Bijection, Injection
  <1>7. \A i \in 1..n : JobRow(RowOf(jobs, delays, i)).submit_ts \in Int /\ JobRow(RowOf(jobs, delays, i)).job_id \in Int
    <2> TAKE i \in 1..n
    <2>1. jobs[i].subtime \in Nat /\ jobs[i].id \in Int
      BY DEF JobsOK
    <2>2. /\ JobRow(RowOf(jobs, delays, i)).submit_ts = jobs[i].subtime \div 2
          /\ JobRow(RowOf(jobs, delays, i)).job_id = jobs[i].id
      BY JobRowIs
    <2> QED
      BY <2>1, <2>2
  <1>8. SortKeys(key, n)
    <2>1. \A p \in 1..n : key[p][1] = given[p].submit_ts /\ key[p][2] = given[p].job_id
      BY <1>6
    <2>2. \A p \in 1..n : given[p].submit_ts \in Int /\ given[p].job_id \in Int
      <3> HIDE DEF given
      <3> QED
        BY <1>6, <1>7
    <2> HIDE DEF key, given
    <2> QED
      BY <1>1, <1>6, <2>1, <2>2 DEF SortKeys
  <1>9. PICK then : Permuted(then, given, key, n)
    <2> HIDE DEF key, given
    <2> QED
      BY <1>1, <1>6, <1>8, SortedIs
  <1>10. /\ rows = [p \in 1..n |-> given[then[p]]] /\ then \in Bijection(1..n, 1..n)
         /\ \A p, q \in 1..n : p < q => KeyBefore(key, then[p], then[q])
    <2>1. rows = Sorted(given, key)
      BY DEF BuildJobs
    <2> HIDE DEF rows, key, given
    <2> QED
      BY <1>9, <2>1 DEF Permuted, Ordering
  <1>11. \A p \in 1..n : then[p] \in 1..n
    BY <1>10 DEF Bijection, Injection
  <1> DEFINE order == [p \in 1..n |-> first[then[p]]]
  <1>12. order \in Bijection(1..n, 1..n)
    <2>1. /\ \A p \in 1..n : order[p] \in 1..n /\ order[p] = first[then[p]]
          /\ \A p, q \in 1..n : first[p] = first[q] => p = q
          /\ \A p, q \in 1..n : then[p] = then[q] => p = q
          /\ \A i \in 1..n : \E p \in 1..n : first[p] = i
          /\ \A i \in 1..n : \E p \in 1..n : then[p] = i
      BY <1>5, <1>6, <1>10, <1>11 DEF Bijection, Injection, IsInjective, Surjection
    <2>2. order \in [1..n -> 1..n]
      BY <2>1
    <2>3. \A p, q \in 1..n : order[p] = order[q] => p = q
      BY <1>11, <2>1
    <2>4. ASSUME NEW i \in 1..n PROVE \E p \in 1..n : order[p] = i
      <3>1. PICK q \in 1..n : first[q] = i
        BY <2>1
      <3>2. PICK p \in 1..n : then[p] = q
        BY <2>1
      <3> QED
        BY <2>1, <3>1, <3>2
    <2> HIDE DEF order
    <2> QED
      BY <2>2, <2>3, <2>4 DEF Bijection, Injection, IsInjective, Surjection
  <1>13. rows = [p \in 1..n |-> JobRow(RowOf(jobs, delays, order[p]))]
    <2>1. \A p \in 1..n : given[then[p]] = JobRow(RowOf(jobs, delays, order[p]))
      <3> HIDE DEF given
      <3> QED
        BY <1>6, <1>11
    <2> HIDE DEF rows, given, order
    <2> QED
      BY <1>10, <2>1
  <1>14. ASSUME NEW p \in 1..n, NEW q \in 1..n, p < q PROVE rows[p].submit_ts <= rows[q].submit_ts
    <2>1. KeyBefore(key, then[p], then[q]) /\ then[p] \in 1..n /\ then[q] \in 1..n
      BY <1>10, <1>11, <1>14
    <2>2. key[then[p]][1] <= key[then[q]][1]
      <3> HIDE DEF key
      <3> QED
        BY <1>8, <2>1 DEF KeyBefore, SortKeys
    <2>3. key[then[p]][1] = given[then[p]].submit_ts /\ key[then[q]][1] = given[then[q]].submit_ts
      BY <1>6, <2>1
    <2>4. rows[p] = given[then[p]] /\ rows[q] = given[then[q]]
      <3> HIDE DEF rows, given
      <3> QED
        BY <1>10
    <2> HIDE DEF rows, given, key
    <2> QED
      BY <2>2, <2>3, <2>4
  <1> HIDE DEF rows, order, given, key
  <1>15. ReportOf(rows, jobs, delays, n, order)
    BY <1>12, <1>13, <1>14 DEF ReportOf
  <1> QED
    BY <1>15 DEF rows, csv

(* The jobs of a schedule that run at a half second.                       *)
Accepted(jobs) == {i \in DOMAIN jobs : ~ Rejected(jobs[i])}
Busy(jobs, delays, t) ==
  {i \in Accepted(jobs) : StartedAt(jobs, delays, i) <= t /\ t < StartedAt(jobs, delays, i) + Ran(jobs[i])}
Resources(jobs) == [i \in DOMAIN jobs |-> jobs[i].res]

(* They are finitely many.                                                 *)
LEMMA BusyIs ==
  ASSUME NEW jobs, NEW n, JobsOK(jobs, n), NEW delays, NEW t
  PROVE  LET now == Busy(jobs, delays, t)
         IN  now \in SUBSET (1..n) /\ IsFiniteSet(now) /\ \A i \in now : Resources(jobs)[i] \in Nat
  <1> DEFINE now == Busy(jobs, delays, t)
  <1>1. now \in SUBSET (1..n) /\ n \in Nat
    BY DEF Busy, Accepted, JobsOK
  <1>2. IsFiniteSet(1..n)
    BY <1>1, FS_Interval
  <1>3. \A i \in 1..n : Resources(jobs)[i] \in Nat
    BY DEF Resources, JobsOK
  <1> HIDE DEF now
  <1>4. IsFiniteSet(now)
    BY <1>1, <1>2, FS_Subset
  <1>5. \A i \in now : Resources(jobs)[i] \in Nat
    BY <1>1, <1>3
  <1> QED
    BY <1>1, <1>4, <1>5 DEF now

(* At every start the jobs that run fit the machine.                       *)
Fits(jobs, delays) ==
  \A i \in DOMAIN jobs :
    TotalOf(Resources(jobs), Busy(jobs, delays, StartedAt(jobs, delays, i))) <= config.capacity

(* Every schedule of the external simulator does.                          *)
LEMMA ScheduleFits ==
  ASSUME NEW jobs, NEW n, JobsOK(jobs, n), MaxDelay \in Nat, NEW delays \in Schedules
  PROVE  delays \in [1..n -> Nat] /\ Fits(jobs, delays)
  <1>1. jobs = config.workload.jobs /\ DOMAIN jobs = 1..n
    BY DEF JobsOK
  <1>2. delays \in [1..n -> 0..MaxDelay] /\ Fits(jobs, delays)
    BY <1>1 DEF Schedules, Fits, Resources, Busy, Accepted, StartedAt
  <1>3. delays \in [1..n -> Nat]
    BY <1>2
  <1> QED
    BY <1>2, <1>3

(* Of the jobs that run at one time, all run when the last of them starts. *)
LEMMA BusyAtStart ==
  ASSUME NEW jobs, NEW n, JobsOK(jobs, n), NEW delays \in [1..n -> Nat], NEW t \in Int,
         Busy(jobs, delays, t) # {}
  PROVE  \E m \in 1..n : TotalOf(Resources(jobs), Busy(jobs, delays, t))
                           <= TotalOf(Resources(jobs), Busy(jobs, delays, StartedAt(jobs, delays, m)))
  <1> DEFINE now == Busy(jobs, delays, t)
             begins == [i \in now |-> StartedAt(jobs, delays, i)]
             starts == {begins[i] : i \in DOMAIN begins}
  <1>1. now \in SUBSET (1..n) /\ IsFiniteSet(now) /\ DOMAIN jobs = 1..n
    BY BusyIs DEF JobsOK
  <1>2. \A i \in 1..n : StartedAt(jobs, delays, i) \in Nat
    BY DEF StartedAt, JobsOK
  <1>3. IsFiniteSet(starts) /\ starts \in SUBSET Int /\ starts # {}
    <2>1. DOMAIN begins = now /\ \A i \in now : begins[i] \in Int
      BY <1>1, <1>2
    <2> HIDE DEF begins
    <2>2. starts # {} /\ starts \in SUBSET Int
      BY <2>1
    <2> HIDE DEF now
    <2>3. IsFiniteSet(starts)
      BY <1>1, <2>1, ImageIsFinite
    <2> QED
      BY <2>2, <2>3
  <1>4. Max(starts) \in starts /\ \A x \in starts : x <= Max(starts)
    <2> HIDE DEF starts
    <2> QED
      BY <1>3, MaxOfFinite
  <1>5. PICK m \in now : Max(starts) = begins[m]
    BY <1>4
  <1>6. m \in 1..n /\ \A i \in now : StartedAt(jobs, delays, i) <= StartedAt(jobs, delays, m)
    <2>1. begins[m] = StartedAt(jobs, delays, m) /\ \A i \in now : StartedAt(jobs, delays, i) \in starts
      OBVIOUS
    <2> HIDE DEF starts, begins, now
    <2> QED
      BY <1>1, <1>4, <1>5, <2>1
  <1>7. now \in SUBSET Busy(jobs, delays, StartedAt(jobs, delays, m))
    <2> SUFFICES ASSUME NEW i \in now PROVE i \in Busy(jobs, delays, StartedAt(jobs, delays, m))
      OBVIOUS
    <2>1. /\ i \in Accepted(jobs) /\ t < StartedAt(jobs, delays, i) + Ran(jobs[i])
          /\ StartedAt(jobs, delays, m) <= t
      BY <1>5 DEF Busy
    <2>2. StartedAt(jobs, delays, i) <= StartedAt(jobs, delays, m)
      BY <1>6
    <2>3. /\ StartedAt(jobs, delays, i) \in Nat /\ StartedAt(jobs, delays, m) \in Nat
          /\ Ran(jobs[i]) \in Nat
      BY <1>1, <1>2, <1>6, RanIs DEF JobsOK
    <2>4. StartedAt(jobs, delays, m) < StartedAt(jobs, delays, i) + Ran(jobs[i])
      BY <2>1, <2>3
    <2> QED
      BY <2>1, <2>2, <2>4 DEF Busy
  <1>8. /\ IsFiniteSet(Busy(jobs, delays, StartedAt(jobs, delays, m)))
        /\ \A i \in Busy(jobs, delays, StartedAt(jobs, delays, m)) : Resources(jobs)[i] \in Nat
    BY BusyIs
  <1> HIDE DEF now
  <1>9. TotalOf(Resources(jobs), now) <= TotalOf(Resources(jobs), Busy(jobs, delays, StartedAt(jobs, delays, m)))
    BY <1>7, <1>8, TotalPart
  <1> QED
    BY <1>6, <1>9 DEF now

(* In whole seconds the schedule fits the machine as well: what runs at a  *)
(* second runs at its second half.                                         *)
LEMMA ReportFits ==
  ASSUME NEW jobs, NEW n, JobsOK(jobs, n), MaxDelay \in Nat, config.capacity \in Nat,
         NEW delays \in Schedules, NEW rows, NEW order, ReportOf(rows, jobs, delays, n, order),
         NEW t \in Int
  PROVE  CpusInUse(rows, t) <= config.capacity
  <1> DEFINE size == [p \in DOMAIN rows |-> rows[p].requested_cpus]
             using == {p \in DOMAIN rows : rows[p].start_ts <= t /\ t < rows[p].end_ts}
             used == {order[p] : p \in using}
             h == 2 * t + 1
  <1>0. delays \in [1..n -> Nat] /\ Fits(jobs, delays)
    BY ScheduleFits
  <1>1. DOMAIN jobs = 1..n /\ n \in Nat /\ h \in Int
    BY DEF JobsOK
  <1>2. /\ DOMAIN rows = 1..n /\ \A p \in 1..n : order[p] \in 1..n
        /\ \A p \in 1..n : rows[p] = JobRow(RowOf(jobs, delays, order[p]))
        /\ \A p, q \in 1..n : order[p] = order[q] => p = q
    BY DEF ReportOf, Bijection, Injection, IsInjective
  <1>3. ASSUME NEW p \in using PROVE order[p] \in Busy(jobs, delays, h)
    <2> DEFINE i == order[p]
               began == StartedAt(jobs, delays, i)
               ran == Ran(jobs[i])
               r == JobRow(RowOf(jobs, delays, i))
    <2>1. i \in 1..n /\ p \in 1..n /\ rows[p] = r /\ rows[p].start_ts <= t /\ t < rows[p].end_ts
      BY <1>2
    <2>2. began \in Nat /\ ran \in Nat /\ jobs[i].subtime \in Nat
      <3>1. ran \in Nat
        BY <2>1, RanIs DEF JobsOK
      <3>2. jobs[i].subtime \in Nat /\ delays[i] \in Nat
        BY <1>0, <2>1 DEF JobsOK
      <3> QED
        BY <3>1, <3>2 DEF StartedAt
    <2>3. /\ r.submit_ts = jobs[i].subtime \div 2
          /\ Rejected(jobs[i]) => r.start_ts = r.submit_ts /\ r.end_ts = r.submit_ts
          /\ ~ Rejected(jobs[i]) => r.start_ts = began \div 2 /\ r.end_ts = (began + ran) \div 2
      BY <1>0, <2>1, JobRowIs
    <2> HIDE DEF i, began, ran, r
    <2>4. r.submit_ts \in Nat
      BY <2>2, <2>3, HalfIs
    <2>5. ~ Rejected(jobs[i])
      <3>1. ASSUME Rejected(jobs[i]) PROVE FALSE
        <4>1. r.submit_ts <= t /\ t < r.submit_ts
          BY <2>1, <2>3, <3>1
        <4> QED
          BY <2>4, <4>1
      <3> QED
        BY <3>1
    <2>6. PICK a \in Nat : a = began \div 2 /\ began <= 2 * a + 1
      BY <2>2, HalfIs
    <2>7. PICK b \in Nat : b = (began + ran) \div 2 /\ 2 * b <= began + ran
      BY <2>2, HalfIs
    <2>8. a <= t /\ t < b
      BY <2>1, <2>3, <2>5, <2>6, <2>7
    <2>9. began <= h /\ h < began + ran
      BY <2>2, <2>6, <2>7, <2>8
    <2>10. i \in Accepted(jobs)
      BY <2>1, <2>5 DEF Accepted, JobsOK
    <2> QED
      BY <2>9, <2>10 DEF Busy, i, began, ran
  <1>4. TotalOf(size, using) = TotalOf(Resources(jobs), used)
    <2> DEFINE f == [p \in using |-> order[p]]
    <2>1. using \in SUBSET (1..n)
      BY <1>2
    <2>2. IsFiniteSet(using)
      <3>1. IsFiniteSet(1..n)
        BY <1>1, FS_Interval
      <3> HIDE DEF using
      <3> QED
        BY <2>1, <3>1, FS_Subset
    <2>3. f \in Bijection(using, used)
      <3> HIDE DEF using
      <3> QED
        BY <1>2, <2>1 DEF Bijection, Injection, IsInjective, Surjection
    <2>4. ASSUME NEW p \in using PROVE size[p] \in Nat /\ size[p] = Resources(jobs)[f[p]]
      <3>1. /\ p \in 1..n /\ order[p] \in 1..n /\ size[p] = rows[p].requested_cpus
            /\ rows[p] = JobRow(RowOf(jobs, delays, order[p])) /\ f[p] = order[p]
        BY <1>2, <2>1
      <3>2. JobRow(RowOf(jobs, delays, order[p])).requested_cpus = jobs[order[p]].res
        BY <1>0, <3>1, JobRowIs
      <3>3. Resources(jobs)[order[p]] = jobs[order[p]].res /\ jobs[order[p]].res \in Nat
        BY <3>1 DEF Resources, JobsOK
      <3> HIDE DEF f, size
      <3> QED
        BY <3>1, <3>2, <3>3
    <2> HIDE DEF using, used, size, f
    <2> QED
      BY <2>2, <2>3, <2>4, TotalMoved
  <1>5. CpusInUse(rows, t) = TotalOf(size, using)
    BY DEF CpusInUse
  <1>6. used \in SUBSET Busy(jobs, delays, h)
    BY <1>3
  <1>7. IsFiniteSet(Busy(jobs, delays, h)) /\ \A i \in Busy(jobs, delays, h) : Resources(jobs)[i] \in Nat
    BY BusyIs
  <1> HIDE DEF size, using, used, h
  <1>8. TotalOf(Resources(jobs), used) \in Nat /\ TotalOf(Resources(jobs), used) <= TotalOf(Resources(jobs), Busy(jobs, delays, h))
    BY <1>6, <1>7, TotalPart
  <1>9. CASE Busy(jobs, delays, h) = {}
    <2>1. TotalOf(Resources(jobs), used) = 0
      BY <1>6, <1>9, TotalNone
    <2> QED
      BY <1>4, <1>5, <2>1
  <1>10. CASE Busy(jobs, delays, h) # {}
    <2>1. PICK m \in 1..n : TotalOf(Resources(jobs), Busy(jobs, delays, h))
                              <= TotalOf(Resources(jobs), Busy(jobs, delays, StartedAt(jobs, delays, m)))
      BY <1>0, <1>1, <1>10, BusyAtStart
    <2>2. TotalOf(Resources(jobs), Busy(jobs, delays, StartedAt(jobs, delays, m))) <= config.capacity
      BY <1>0, <1>1 DEF Fits
    <2>3. TotalOf(Resources(jobs), Busy(jobs, delays, h)) \in Nat
      BY <1>7, TotalPart
    <2>4. TotalOf(Resources(jobs), Busy(jobs, delays, StartedAt(jobs, delays, m))) \in Nat
      <3> DEFINE busy == Busy(jobs, delays, StartedAt(jobs, delays, m))
      <3>1. busy \in SUBSET busy /\ IsFiniteSet(busy) /\ \A i \in busy : Resources(jobs)[i] \in Nat
        BY BusyIs
      <3> HIDE DEF busy
      <3>2. TotalOf(Resources(jobs), busy) \in Nat
        BY <3>1, TotalPart
      <3> QED
        BY <3>2 DEF busy
    <2> QED
      BY <1>4, <1>5, <1>8, <2>1, <2>2, <2>3, <2>4
  <1> QED
    BY <1>9, <1>10

(* NormalizedFaithful of a report.                                         *)
Told(r) == [job_id |-> r.job_id, submit_ts |-> r.submit_ts, user_id |-> r.user_id, cpus |-> r.requested_cpus]
Due(row, capacity) ==
  [job_id |-> row.job_id, submit_ts |-> Positive(row.submit, 0) \div 2, user_id |-> row.user_id,
   cpus |-> RequestedResources(row, capacity)]
Faithful(rows, of, violations) ==
  /\ {Told(r) : r \in ToSet(rows)} = {Due(row, of.workload.nb_res) : row \in ToSet(of.trace)}
  /\ Len(rows) = Len(of.trace)
  /\ \A i, j \in DOMAIN rows : i < j =>
       <<rows[j].submit_ts, rows[j].job_id>> # <<rows[i].submit_ts, rows[i].job_id>>
         /\ rows[i].submit_ts <= rows[j].submit_ts
  /\ \A i \in DOMAIN rows : CpusInUse(rows, rows[i].start_ts) <= of.capacity
  /\ violations = {}

(* Every report normalized from an export is faithful.                     *)
LEMMA NormalizedIs ==
  ASSUME MaxDelay \in Nat, NEW trace, NEW before, NEW source, NEW capacity,
         WellConfigured(config, trace, before, source, capacity), NEW delays \in Schedules
  PROVE  LET report == Normalized(Exported(delays))
         IN  Faithful(report.jobs, report.of, report.violations) /\ report.of = config
  <1> DEFINE n == Len(trace)
             jobs == config.workload.jobs
             rows == BuildJobs(Exported(delays))
             report == Normalized(Exported(delays))
  <1>1. /\ config.trace = trace /\ config.capacity = capacity /\ config.workload = Workload(trace, before)
        /\ capacity \in Nat /\ before \in Int /\ TraceOK(trace)
    BY DEF WellConfigured, Configured
  <1>2. PICK order : JobsOf(jobs, trace, before, order)
    BY <1>1, WorkloadIs
  <1>3. config.workload.nb_res = before
    BY <1>1, WorkloadIs
  <1>4. n \in Nat /\ DOMAIN trace = 1..n
    BY <1>1 DEF TraceOK
  <1> HIDE DEF jobs
  <1>5. /\ DOMAIN jobs = 1..n /\ \A i \in 1..n : order[i] \in 1..n
        /\ \A i, j \in 1..n : order[i] = order[j] => i = j
        /\ \A k \in 1..n : \E i \in 1..n : order[i] = k
    BY <1>2 DEF JobsOf, Bijection, Injection, IsInjective, Surjection
  <1>6. \A i \in 1..n : /\ jobs[i].id = trace[order[i]].job_id
                        /\ jobs[i].subtime = Positive(trace[order[i]].submit, 0)
                        /\ jobs[i].res = RequestedResources(trace[order[i]], before)
                        /\ jobs[i].user_id = trace[order[i]].user_id
    BY <1>2 DEF JobsOf
  <1>7. JobsOK(jobs, n)
    <2>1. ASSUME NEW i \in 1..n, NEW j \in 1..n, jobs[i].id = jobs[j].id PROVE i = j
      <3>1. order[i] \in DOMAIN trace /\ order[j] \in DOMAIN trace
        BY <1>4, <1>5
      <3>2. trace[order[i]].job_id = trace[order[j]].job_id
        BY <1>6, <2>1
      <3>3. order[i] = order[j]
        BY <1>1, <3>1, <3>2 DEF TraceOK
      <3> QED
        BY <1>5, <3>3
    <2>2. jobs = config.workload.jobs
      BY DEF jobs
    <2> QED
      BY <1>2, <1>4, <1>5, <2>1, <2>2 DEF JobsOf, JobsOK
  <1>8. delays \in [1..n -> Nat]
    BY <1>7, ScheduleFits
  <1>9. PICK last : ReportOf(rows, jobs, delays, n, last)
    BY <1>7, <1>8, ReportIs
  <1> HIDE DEF rows
  <1>10. /\ rows = [p \in 1..n |-> JobRow(RowOf(jobs, delays, last[p]))] /\ \A p \in 1..n : last[p] \in 1..n
         /\ \A p, q \in 1..n : last[p] = last[q] => p = q
         /\ \A k \in 1..n : \E p \in 1..n : last[p] = k
         /\ \A p, q \in 1..n : p < q => rows[p].submit_ts <= rows[q].submit_ts
    BY <1>9 DEF ReportOf, Bijection, Injection, IsInjective, Surjection
  <1>11. DOMAIN rows = 1..n /\ \A p \in 1..n : rows[p] = JobRow(RowOf(jobs, delays, last[p]))
    BY <1>10
  <1>12. Len(rows) = n
    BY <1>4, <1>10
  <1>13. ASSUME NEW p \in 1..n
         PROVE  /\ rows[p].job_id = jobs[last[p]].id /\ rows[p].user_id = jobs[last[p]].user_id
                /\ rows[p].requested_cpus = jobs[last[p]].res /\ rows[p].submit_ts = jobs[last[p]].subtime \div 2
    <2>1. last[p] \in 1..n /\ rows[p] = JobRow(RowOf(jobs, delays, last[p]))
      BY <1>10, <1>11
    <2> QED
      BY <1>7, <1>8, <2>1, JobRowIs
  <1>14. \A p \in 1..n : Told(rows[p]) = Due(trace[order[last[p]]], before)
    <2> TAKE p \in 1..n
    <2>1. last[p] \in 1..n
      BY <1>10
    <2>2. /\ rows[p].job_id = trace[order[last[p]]].job_id /\ rows[p].user_id = trace[order[last[p]]].user_id
          /\ rows[p].requested_cpus = RequestedResources(trace[order[last[p]]], before)
          /\ rows[p].submit_ts = Positive(trace[order[last[p]]].submit, 0) \div 2
      BY <1>6, <1>13, <2>1
    <2> QED
      BY <2>2 DEF Told, Due
  <1>15. {Told(r) : r \in ToSet(rows)} = {Due(row, before) : row \in ToSet(trace)}
    <2>1. \A p \in 1..n : last[p] \in 1..n /\ order[last[p]] \in 1..n
      BY <1>5, <1>10
    <2>2. \A k \in 1..n : \E p \in 1..n : order[last[p]] = k
      <3> TAKE k \in 1..n
      <3>1. PICK i \in 1..n : order[i] = k
        BY <1>5
      <3>2. PICK p \in 1..n : last[p] = i
        BY <1>10
      <3> QED
        BY <3>1, <3>2
    <2>3. ASSUME NEW r \in ToSet(rows) PROVE \E row \in ToSet(trace) : Told(r) = Due(row, before)
      <3>1. PICK p \in 1..n : r = rows[p]
        BY <1>11 DEF ToSet
      <3>2. trace[order[last[p]]] \in ToSet(trace)
        BY <1>4, <2>1 DEF ToSet
      <3> QED
        BY <1>14, <3>1, <3>2
    <2>4. ASSUME NEW row \in ToSet(trace) PROVE \E r \in ToSet(rows) : Told(r) = Due(row, before)
      <3>1. PICK k \in 1..n : row = trace[k]
        BY <1>4 DEF ToSet
      <3>2. PICK p \in 1..n : order[last[p]] = k
        BY <2>2
      <3>3. rows[p] \in ToSet(rows)
        BY <1>11 DEF ToSet
      <3> QED
        BY <1>14, <3>1, <3>2, <3>3
    <2> QED
      BY <2>3, <2>4
  <1>16. ASSUME NEW p \in DOMAIN rows, NEW q \in DOMAIN rows, p < q
         PROVE  /\ <<rows[q].submit_ts, rows[q].job_id>> # <<rows[p].submit_ts, rows[p].job_id>>
                /\ rows[p].submit_ts <= rows[q].submit_ts
    <2>1. p \in 1..n /\ q \in 1..n /\ p # q /\ last[p] \in 1..n /\ last[q] \in 1..n /\ last[p] # last[q]
      BY <1>10, <1>11, <1>16
    <2>2. jobs[last[p]].id # jobs[last[q]].id
      BY <1>7, <2>1 DEF JobsOK
    <2>3. rows[p].job_id # rows[q].job_id
      BY <1>13, <2>1, <2>2
    <2> QED
      BY <1>10, <1>16, <2>1, <2>3
  <1>17. ASSUME NEW p \in 1..n
         PROVE  /\ rows[p].submit_ts \in Nat /\ rows[p].start_ts \in Nat /\ rows[p].end_ts \in Nat
                /\ rows[p].submit_ts <= rows[p].start_ts /\ rows[p].start_ts <= rows[p].end_ts
                /\ rows[p].requested_cpus \in Nat \ {0}
    <2> DEFINE i == last[p]
               began == StartedAt(jobs, delays, i)
    <2>1. i \in 1..n /\ rows[p] = JobRow(RowOf(jobs, delays, i))
      BY <1>10, <1>11
    <2>2. /\ rows[p].submit_ts = jobs[i].subtime \div 2
          /\ Rejected(jobs[i]) => rows[p].start_ts = rows[p].submit_ts /\ rows[p].end_ts = rows[p].submit_ts
          /\ ~ Rejected(jobs[i]) =>
               rows[p].start_ts = began \div 2 /\ rows[p].end_ts = (began + Ran(jobs[i])) \div 2
      BY <1>7, <1>8, <2>1, JobRowIs
    <2>3. /\ jobs[i].subtime \in Nat /\ Ran(jobs[i]) \in Nat /\ began \in Nat /\ jobs[i].subtime <= began
          /\ began + Ran(jobs[i]) \in Nat /\ began <= began + Ran(jobs[i])
      <3>1. Ran(jobs[i]) \in Nat
        BY <1>7, <2>1, RanIs DEF JobsOK
      <3>2. jobs[i].subtime \in Nat /\ delays[i] \in Nat
        BY <1>7, <1>8, <2>1 DEF JobsOK
      <3> QED
        BY <3>1, <3>2 DEF StartedAt
    <2> HIDE DEF began, i
    <2>4. /\ jobs[i].subtime \div 2 \in Nat /\ began \div 2 \in Nat /\ (began + Ran(jobs[i])) \div 2 \in Nat
          /\ jobs[i].subtime \div 2 <= began \div 2 /\ began \div 2 <= (began + Ran(jobs[i])) \div 2
      <3>1. PICK x \in Nat : x = jobs[i].subtime
        BY <2>3
      <3>2. PICK y \in Nat : y = began + Ran(jobs[i])
        BY <2>3
      <3>3. x \div 2 \in Nat /\ began \div 2 \in Nat /\ y \div 2 \in Nat
        BY <2>3, HalfIs
      <3>4. x \div 2 <= began \div 2
        BY <2>3, <3>1, HalvesAre
      <3>5. began \div 2 <= y \div 2
        BY <2>3, <3>2, HalvesAre
      <3>6. y \div 2 = (began + Ran(jobs[i])) \div 2 /\ x \div 2 = jobs[i].subtime \div 2
        BY <3>1, <3>2
      <3> DEFINE a == x \div 2
                 b == began \div 2
                 c == y \div 2
      <3> HIDE DEF a, b, c
      <3> QED
        BY <3>3, <3>4, <3>5, <3>6
    <2>5. rows[p].requested_cpus \in Nat \ {0}
      <3>1. last[p] \in 1..n
        BY <1>10
      <3>2. jobs[last[p]].res \in Nat \ {0}
        BY <1>7, <3>1 DEF JobsOK
      <3> QED
        BY <1>13, <3>2
    <2> QED
      BY <2>2, <2>4, <2>5
  <1>18. \A p \in DOMAIN rows : CpusInUse(rows, rows[p].start_ts) <= capacity
    <2> TAKE p \in DOMAIN rows
    <2>1. rows[p].start_ts \in Int /\ config.capacity \in Nat
      BY <1>1, <1>11, <1>17
    <2>2. CpusInUse(rows, rows[p].start_ts) <= config.capacity
      BY <1>7, <1>9, <2>1, ReportFits
    <2> QED
      BY <1>1, <2>2
  <1>19. \A p \in DOMAIN rows : FailedInvariants(rows[p]) = {}
    <2> TAKE p \in DOMAIN rows
    <2>1. /\ ~ (rows[p].start_ts < rows[p].submit_ts) /\ ~ (rows[p].end_ts < rows[p].start_ts)
          /\ ~ (rows[p].requested_cpus <= 0)
      <3>1. p \in 1..n
        BY <1>11
      <3> QED
        BY <1>17, <3>1
    <2> QED
      BY <2>1 DEF FailedInvariants
  <1>20. /\ report.jobs = rows /\ report.of = config
         /\ report.violations = {<<rows[i].job_id, FailedInvariants(rows[i])>> :
                                   i \in {j \in DOMAIN rows : FailedInvariants(rows[j]) # {}}}
    BY DEF Normalized, rows
  <1> HIDE DEF report
  <1>21. report.violations = {}
    BY <1>19, <1>20
  <1>22. Faithful(rows, config, {})
    BY <1>1, <1>3, <1>12, <1>15, <1>16, <1>18 DEF Faithful
  <1> QED
    BY <1>20, <1>21, <1>22 DEF report

(* A configuration that can be read is one that was written whole.         *)
ConfigOK ==
  config \notin {NoConfig, TornConfig} =>
    \E trace, before, source, capacity : WellConfigured(config, trace, before, source, capacity)

(* Which holds of every one that is written.                               *)
LEMMA ConfigKept == ConfigOK /\ BatsimConfig => ConfigOK'
  <1> SUFFICES ASSUME BatsimConfig
               PROVE  \E trace, before, source, capacity : WellConfigured(config', trace, before, source, capacity)
    BY DEF ConfigOK
  <1>1. PICK trace \in BatsimTraces, asked_cpus \in AskedCapacities : BuildConfig(trace, asked_cpus)
    BY DEF BatsimConfig
  <1>2. TraceOK(trace) /\ asked_cpus \in Nat /\ InferPeak(trace) \in Nat
    <2>1. TraceOK(trace) /\ asked_cpus \in Nat
      BY BatsimAssumption DEF TraceOK
    <2> QED
      BY <2>1, InferPeakIs
  <1>3. Positive(asked_cpus, InferPeak(trace)) \in Nat
    BY <1>2 DEF Positive
  <1>4. CASE config' = Configured(trace, Workload(trace, Positive(asked_cpus, InferPeak(trace))),
                                  "generated_from_trace", Positive(asked_cpus, InferPeak(trace)))
    BY <1>2, <1>3, <1>4 DEF WellConfigured
  <1>5. CASE \E before \in AskedCapacities \ {0} :
               \/ config' = Configured(trace, Workload(trace, before), "provided", Positive(asked_cpus, InferPeak(trace)))
               \/ config' = Configured(trace, Workload(trace, before), "trace_json", Positive(asked_cpus, before))
    <2>1. PICK before \in AskedCapacities \ {0} :
            \/ config' = Configured(trace, Workload(trace, before), "provided", Positive(asked_cpus, InferPeak(trace)))
            \/ config' = Configured(trace, Workload(trace, before), "trace_json", Positive(asked_cpus, before))
      BY <1>5
    <2>2. before \in Nat /\ Positive(asked_cpus, before) \in Nat
      BY <1>2, BatsimAssumption DEF Positive
    <2> QED
      BY <1>2, <1>3, <2>1, <2>2 DEF WellConfigured
  <1> QED
    BY <1>1, <1>4, <1>5 DEF BuildConfig

(* simulate/batsim.py: whatever rows a trace has, whatever capacity is     *)
(* asked for and however the external run went, the report tells of every  *)
(* job once and its schedule in whole seconds still fits the machine.      *)
THEOREM ReportIsFaithful == Spec => []NormalizedFaithful
  <1> DEFINE Standing == ConfigOK /\ (sim_report # NoSim =>
                         Faithful(sim_report.jobs, sim_report.of, sim_report.violations))
  <1>1. Init => Standing
    BY DEF Init, BatsimInit, ConfigOK
  <1>2. ASSUME Standing, [Next]_vars PROVE Standing'
    <2>1. CASE BatsimConfig
      <3>1. ConfigOK' /\ UNCHANGED sim_report
        BY <1>2, <2>1, ConfigKept DEF BatsimConfig
      <3> QED
        BY <1>2, <3>1
    <2>2. CASE CrashInConfig
      BY <1>2, <2>2 DEF CrashInConfig, ConfigOK
    <2>3. ASSUME NEW opts \in [dry_run : BOOLEAN, use_wsl : BOOLEAN, distro_named : BOOLEAN, installed : BOOLEAN],
                 BatsimRunCommand(opts)
          PROVE  Standing'
      <3>1. UNCHANGED config
        BY <2>3 DEF BatsimRunCommand
      <3>2. CASE UNCHANGED sim_report
        BY <1>2, <3>1, <3>2 DEF ConfigOK
      <3>3. CASE RefusedFor(opts) = "none" /\ \E delays \in Schedules : sim_report' = Normalized(Exported(delays))
        <4>1. PICK delays \in Schedules : sim_report' = Normalized(Exported(delays))
          BY <3>3
        <4>2. config \notin {NoConfig, TornConfig}
          BY <2>3, <3>3 DEF BatsimRunCommand, RefusedFor
        <4>3. PICK trace, before, source, capacity : WellConfigured(config, trace, before, source, capacity)
          BY <1>2, <4>2 DEF ConfigOK
        <4>4. Faithful(sim_report'.jobs, sim_report'.of, sim_report'.violations)
          BY <4>1, <4>3, BatsimAssumption, NormalizedIs
        <4>5. ConfigOK'
          BY <1>2, <3>1 DEF ConfigOK
        <4> QED
          BY <4>4, <4>5
      <3> QED
        BY <2>3, <3>2, <3>3 DEF BatsimRunCommand
    <2>4. CASE UNCHANGED <<config, sim_report>>
      BY <1>2, <2>4 DEF ConfigOK
    <2>5. \/ BatsimConfig \/ CrashInConfig \/ UNCHANGED <<config, sim_report>>
          \/ \E opts \in [dry_run : BOOLEAN, use_wsl : BOOLEAN, distro_named : BOOLEAN, installed : BOOLEAN] :
               BatsimRunCommand(opts)
      BY <1>2 DEF Next, vars, batsimVars, RecommendCommand, WhatIfCommand, CredibilityCommand,
                  BenchmarkCommand, BatsimCommands, BatsimNext
    <2> HIDE DEF Standing
    <2> QED
      BY <2>1, <2>2, <2>3, <2>4, <2>5
  <1>3. Standing => NormalizedFaithful
    BY DEF Faithful, Told, Due, NormalizedFaithful
  <1> HIDE DEF Standing
  <1> QED
    BY <1>1, <1>2, <1>3, PTL DEF Spec
=============================================================================
