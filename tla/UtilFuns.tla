------------------------------ MODULE UtilFuns ------------------------------
(***************************************************************************)
(* utilfuns of stoch-vola: mean, standardDeviation and quantile of a       *)
(* vector of doubles.  A call is one step, from its arguments to what it   *)
(* returns or throws.                                                      *)
(*                                                                         *)
(* A double is a multiple of some unit and written as that integer.  Every *)
(* operation of the code, in its order, is followed by rounding to one of  *)
(* the nearest doubles; which one a tie goes to is left open.              *)
(***************************************************************************)
EXTENDS Integers, FiniteSets, SequencesExt

CONSTANTS
    Doubles,        \* the numbers that are doubles, in units
    One,            \* the number 1.0, in units
    Samples,        \* the vectors
    Quantiles,      \* the arguments q
    Ddofs,          \* the arguments ddof, an int
    SizeBits        \* the bits of a size_t

ASSUME UtilAssumption ==
    /\ Doubles \subseteq Int /\ 0 \in Doubles
    /\ One \in Nat \ {0}
    /\ \A data \in Samples :
          /\ data \in Seq(Doubles)
          /\ Len(data) < 2 ^ SizeBits
          /\ \A k \in 0..Len(data) : k * One \in Doubles    \* sizes are exact
    /\ Quantiles \subseteq Doubles
    /\ Ddofs \subseteq Int
    /\ SizeBits \in Nat

VARIABLES request, response    \* a call's arguments, and what it came to

utilVars == <<request, response>>

\* How far the double d is from num / den, times den.
Distance(num, den, d) == IF num > d * den THEN num - d * den ELSE d * den - num

\* num / den as a double.
Round(num, den) ==
    CHOOSE d \in Doubles : \A e \in Doubles : Distance(num, den, d) <= Distance(num, den, e)

\* sum += value, for one value after the other: the sums on the way.
RunningSums(data) ==
    LET sum[k \in 0..Len(data)] == IF k = 0 THEN 0 ELSE Round(sum[k - 1] + data[k], 1)
    IN  sum

SumOf(data) == RunningSums(data)[Len(data)]

Throws == [what |-> "invalid_argument"]

Value(v) == [what |-> "value", value |-> v]

MeanOf(data) == Round(SumOf(data), Len(data))

Mean(data) == IF data = <<>> THEN Throws ELSE Value(MeanOf(data))

\* (value - meanValue) * (value - meanValue)
SquaredDeviation(value, meanValue) ==
    LET d == Round(value - meanValue, 1) IN Round(d * d, One)

SumSquares(data) ==
    LET meanValue == MeanOf(data)
    IN  SumOf([i \in DOMAIN data |-> SquaredDeviation(data[i], meanValue)])

\* data.size() - ddof in size_t: it wraps when ddof is larger.
Divisor(data, ddof) == (Len(data) - ddof) % 2 ^ SizeBits

\* The argument of std::sqrt.  A divisor of 0 makes it an infinity, or no
\* number at all if the deviations are 0.
StandardDeviation(data, ddof) ==
    IF ddof < 0 THEN Throws
    ELSE IF Len(data) < 2 THEN Value(0)
    ELSE IF Divisor(data, ddof) = 0 THEN [what |-> IF SumSquares(data) = 0 THEN "nan" ELSE "inf"]
    ELSE Value(Round(SumSquares(data), Divisor(data, ddof)))

\* Mutant of SortedData: std::sort is forgotten.
UnsortedData(data) == data

\* What std::sort puts in front of data[i]: what is less and, of what is
\* equal, what was in front already.
Earlier(data, i) ==
    {j \in DOMAIN data : data[j] < data[i] \/ (data[j] = data[i] /\ j < i)}

SortedData(data) ==
    [k \in DOMAIN data |-> data[CHOOSE i \in DOMAIN data : Cardinality(Earlier(data, i)) = k - 1]]

\* Between two neighbours of the sorted data the result is interpolated.
Interpolated(lower, upper, weight) ==
    Round(Round(lower * Round(One - weight, 1), One) + Round(upper * weight, One), 1)

Quantile(data, q) ==
    IF data = <<>> \/ q < 0 \/ q > One THEN Throws
    ELSE LET sorted == SortedData(data)
             pos == Round(q * (Len(data) - 1), 1)
             lowerIndex == pos \div One
             weight == Round(pos - lowerIndex * One, 1)
         IN  IF lowerIndex + 1 >= Len(data)
             THEN Value(sorted[lowerIndex + 1])
             ELSE Value(Interpolated(sorted[lowerIndex + 1], sorted[lowerIndex + 2], weight))

UtilInit == request = <<>> /\ response = <<>>

CallMean(data) ==
    /\ request' = [fun |-> "mean", data |-> data]
    /\ response' = Mean(data)

CallStandardDeviation(data, ddof) ==
    /\ request' = [fun |-> "standardDeviation", data |-> data, ddof |-> ddof]
    /\ response' = StandardDeviation(data, ddof)

CallQuantile(data, q) ==
    /\ request' = [fun |-> "quantile", data |-> data, q |-> q]
    /\ response' = Quantile(data, q)

UtilNext ==
    /\ request = <<>>
    /\ \E data \in Samples :
          \/ CallMean(data)
          \/ \E ddof \in Ddofs : CallStandardDeviation(data, ddof)
          \/ \E q \in Quantiles : CallQuantile(data, q)

UtilSpec == UtilInit /\ [][UtilNext]_utilVars

-----------------------------------------------------------------------------
(* Properties                                                              *)

Below(data, v) == {i \in DOMAIN data : data[i] <= v}
Above(data, v) == {i \in DOMAIN data : data[i] >= v}

\* No sum on the way was rounded.
ExactSums(data) ==
    \A k \in 1..Len(data) : RunningSums(data)[k] = RunningSums(data)[k - 1] + data[k]

\* The product of two doubles is one.
ExactProduct(x, y) == \E d \in Doubles : d * One = x * y

\* steps / One, the position of a quantile, and its distances to the places
\* on either side are doubles, and so are their products with the data.
ExactWeights(data, steps) ==
    LET weight == steps % One
    IN  /\ steps \in Doubles /\ weight \in Doubles /\ One - weight \in Doubles
        /\ \A x \in ToSet(data) : ExactProduct(x, weight) /\ ExactProduct(x, One - weight)

\* A quantile divides the data as it should, however they are ordered and
\* whichever are equal: floor(q * (size - 1)) + 1 of them are not above it
\* and size - ceil(q * (size - 1)) are not below it, if the weights were not
\* rounded, as they never are where q * (size - 1) is a whole number.
\* A mean is not outside the data, if the sums were not rounded.
\* A standard deviation is the root of a number that is not negative, and of
\* 0 for data that are all the same, if their sums were not rounded.
SummariesSound ==
    request # <<>> /\ response.what = "value" =>
       LET data == request.data
           v == response.value
       IN  CASE request.fun = "quantile" ->
                  LET steps == request.q * (Len(data) - 1)
                  IN  ExactWeights(data, steps) =>
                         /\ Cardinality(Below(data, v)) >= steps \div One + 1
                         /\ Cardinality(Above(data, v)) >= Len(data) + (-steps) \div One
             [] request.fun = "mean" ->
                  ExactSums(data) => Below(data, v) # {} /\ Above(data, v) # {}
             [] request.fun = "standardDeviation" ->
                  /\ v >= 0
                  /\ ExactSums(data) /\ (\A i, j \in DOMAIN data : data[i] = data[j]) => v = 0
=============================================================================
