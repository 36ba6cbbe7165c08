-------------------------- MODULE AlgorithmsProofs --------------------------
(***************************************************************************)
(* Proofs about the functions of Algorithms and Canaries, for inputs of any *)
(* length over any values, and about the rate limiter.                      *)
(*                                                                          *)
(* A loop over a list is a fold in the model; its steps are unfolded with    *)
(* the lemmas on folds below and followed by induction.  That induction is   *)
(* over sets of naturals (InductiveSet), because a theorem with an operator  *)
(* parameter cannot be instantiated.                                        *)
(***************************************************************************)
EXTENDS Algorithms, Canaries, RateLimiter, FiniteSetTheorems, WellFoundedInduction,
        SequenceTheorems, TLAPS

-----------------------------------------------------------------------------
(* Induction, extreme elements, folds and quotients.                       *)

\* A set of naturals that holds 0 and the successor of each of its elements
\* holds every natural number.
LEMMA InductiveSet ==
    ASSUME NEW T \in SUBSET Nat, 0 \in T, \A n \in T : n + 1 \in T
    PROVE  T = Nat
<1> DEFINE R == {p \in Nat \X Nat : p[1] < p[2]}
           Missing == Nat \ T
<1>0. SUFFICES ASSUME Missing # {} PROVE FALSE
  OBVIOUS
<1>1. IsWellFoundedOn(R, Nat)
  BY NatLessThanWellFounded, Zenon DEF OpToRel
<1>2. PICK x \in Missing : \A y \in Missing : <<y, x>> \notin R
  <2>1. Missing \subseteq Nat
    OBVIOUS
  <2> HIDE DEF R, Missing
  <2> QED BY <1>0, <1>1, <2>1, WFMin
<1>3. x \in Nat /\ x # 0 /\ x \notin T
  OBVIOUS
<1>4. x - 1 \in Nat /\ x - 1 < x
  BY <1>3
<1>5. x - 1 \notin Missing
  BY <1>2, <1>3, <1>4
<1>6. (x - 1) + 1 = x
  BY <1>3
<1> QED BY <1>3, <1>4, <1>5, <1>6

\* A non-empty set of naturals has a least element.
LEMMA LeastElement ==
    ASSUME NEW T \in SUBSET Nat, T # {}
    PROVE  \E n \in T : \A m \in T : n <= m
<1> DEFINE R == {p \in Nat \X Nat : p[1] < p[2]}
<1>1. IsWellFoundedOn(R, Nat)
  BY NatLessThanWellFounded, Zenon DEF OpToRel
<1> HIDE DEF R
<1>2. PICK x \in T : \A y \in T : <<y, x>> \notin R
  BY <1>1, WFMin
<1>3. \A y \in T : ~(y < x)
  BY <1>2 DEF R
<1> QED BY <1>3

\* The greatest element of a set that holds its bound.
LEMMA MaxIsBound ==
    ASSUME NEW n \in Nat, NEW s \in SUBSET (1 .. n), n \in s
    PROVE  Max(s) = n
<1>1. \A y \in s : n >= y
  OBVIOUS
<1>2. \A x \in s : (\A y \in s : x >= y) => x = n
  <2> TAKE x \in s
  <2>1. x \in 1 .. n
    OBVIOUS
  <2> QED BY <2>1
<1> QED BY <1>1, <1>2 DEF Max

\* A non-empty set of naturals up to n has a greatest element, and it is its Max.
LEMMA GreatestElement ==
    ASSUME NEW n \in Nat, NEW s \in SUBSET (0 .. n), s # {}
    PROVE  Max(s) \in s /\ \A x \in s : x <= Max(s)
<1> DEFINE T == {b \in Nat : \A x \in s : x <= b}
<1>1. n \in T /\ T \in SUBSET Nat
  OBVIOUS
<1>2. PICK b \in T : \A c \in T : b <= c
  <2> HIDE DEF T
  <2> QED BY <1>1, LeastElement
<1>3. b \in s
  <2>1. CASE b = 0
    <3>1. PICK x \in s : TRUE
      OBVIOUS
    <3>2. x \in 0 .. n /\ x <= 0
      BY <1>2, <2>1
    <3>3. x = 0
      BY <3>2
    <3> QED BY <2>1, <3>1, <3>3
  <2>2. CASE b # 0
    <3>1. b - 1 \notin T /\ b - 1 \in Nat
      BY <1>2, <2>2
    <3>2. PICK x \in s : ~(x <= b - 1)
      BY <3>1
    <3>3. x \in Nat /\ x <= b /\ b \in Nat
      BY <1>2
    <3>4. x = b
      BY <3>2, <3>3
    <3> QED BY <3>4
  <2> QED BY <2>1, <2>2
<1>4. \A x \in s : b >= x
  BY <1>2
<1> HIDE DEF T
<1> QED BY <1>3, <1>4 DEF Max

\* The greatest element of a set of naturals up to n is one of them.
LEMMA MaxInside ==
    ASSUME NEW n \in Nat, NEW s \in SUBSET (1 .. n), s # {}
    PROVE  Max(s) \in s /\ \A x \in s : x <= Max(s)
<1>1. s \in SUBSET (0 .. n)
  OBVIOUS
<1> QED BY <1>1, GreatestElement

\* A non-empty set of naturals has a least element, and it is its Min.
LEMMA MinInside ==
    ASSUME NEW s \in SUBSET Nat, s # {}
    PROVE  Min(s) \in s /\ \A x \in s : Min(s) <= x
<1>1. \E m \in s : \A x \in s : m <= x
  BY LeastElement
<1> QED BY <1>1 DEF Min

\* h folds f over 1 .. n: what it yields for a set is f of what it yields without
\* the greatest element, and of that element.
FoldsTo(h, n, A, base, f) ==
    /\ h \in [SUBSET (1 .. n) -> A]
    /\ \A s \in SUBSET (1 .. n) :
        h[s] = IF s = {} THEN base ELSE f[<<h[s \ {Max(s)}], Max(s)>>]

\* A function that folds over 1 .. n extends to one more element.
LEMMA FoldOneMore ==
    ASSUME NEW A, NEW base \in A, NEW n \in Nat, NEW f, NEW g, FoldsTo(g, n, A, base, f),
           \A a \in A : f[<<a, n + 1>>] \in A
    PROVE  \E h : FoldsTo(h, n + 1, A, base, f)
<1> DEFINE h == [s \in SUBSET (1 .. (n + 1)) |->
                    IF n + 1 \in s THEN f[<<g[s \ {n + 1}], n + 1>>] ELSE g[s]]
<1>1. ASSUME NEW s \in SUBSET (1 .. (n + 1)) PROVE s \ {n + 1} \in SUBSET (1 .. n)
  OBVIOUS
<1>2. h \in [SUBSET (1 .. (n + 1)) -> A]
  <2>1. ASSUME NEW s \in SUBSET (1 .. (n + 1))
        PROVE  (IF n + 1 \in s THEN f[<<g[s \ {n + 1}], n + 1>>] ELSE g[s]) \in A
    <3>1. g[s \ {n + 1}] \in A
      BY <1>1 DEF FoldsTo
    <3>2. n + 1 \notin s => s = s \ {n + 1}
      OBVIOUS
    <3> QED BY <3>1, <3>2
  <2> QED BY <2>1
<1>3. ASSUME NEW s \in SUBSET (1 .. (n + 1))
      PROVE  h[s] = IF s = {} THEN base ELSE f[<<h[s \ {Max(s)}], Max(s)>>]
  <2>1. CASE n + 1 \in s
    <3>1. Max(s) = n + 1
      BY <2>1, MaxIsBound
    <3>2. s \ {n + 1} \in SUBSET (1 .. (n + 1)) /\ n + 1 \notin s \ {n + 1}
      OBVIOUS
    <3>3. h[s \ {n + 1}] = g[s \ {n + 1}]
      BY <3>2
    <3> QED BY <2>1, <3>1, <3>3
  <2>2. CASE n + 1 \notin s
    <3>1. s \in SUBSET (1 .. n) /\ s \ {Max(s)} \in SUBSET (1 .. (n + 1))
          /\ n + 1 \notin s \ {Max(s)}
      <4>1. s = s \ {n + 1}
        BY <2>2
      <4>2. s \in SUBSET (1 .. n)
        BY <1>1, <4>1
      <4> QED BY <2>2, <4>2
    <3>2. h[s] = g[s] /\ h[s \ {Max(s)}] = g[s \ {Max(s)}]
      BY <2>2, <3>1
    <3>3. g[s] = IF s = {} THEN base ELSE f[<<g[s \ {Max(s)}], Max(s)>>]
      BY <3>1 DEF FoldsTo
    <3> HIDE DEF h
    <3> QED BY <3>2, <3>3
  <2> QED BY <2>1, <2>2
<1> HIDE DEF h
<1> QED BY <1>2, <1>3 DEF FoldsTo

\* The function that a fold over 1 .. N recurses through exists.
LEMMA FoldExists ==
    ASSUME NEW A, NEW base \in A, NEW N \in Nat, NEW f \in [A \X (1 .. N) -> A]
    PROVE  \E h : FoldsTo(h, N, A, base, f)
<1> DEFINE T == {n \in Nat : n <= N => \E h : FoldsTo(h, n, A, base, f)}
<1>1. 0 \in T
  <2> DEFINE h == [s \in SUBSET (1 .. 0) |-> base]
  <2>1. SUBSET (1 .. 0) = {{}}
    OBVIOUS
  <2>2. FoldsTo(h, 0, A, base, f)
    BY <2>1 DEF FoldsTo
  <2> QED BY <2>2
<1>2. ASSUME NEW n \in T PROVE n + 1 \in T
  <2>1. SUFFICES ASSUME n + 1 <= N PROVE \E h : FoldsTo(h, n + 1, A, base, f)
    OBVIOUS
  <2>2. PICK g : FoldsTo(g, n, A, base, f)
    BY <2>1
  <2>3. \A a \in A : f[<<a, n + 1>>] \in A
    BY <2>1
  <2> QED BY <2>2, <2>3, FoldOneMore
<1>3. T = Nat
  <2>1. T \in SUBSET Nat
    OBVIOUS
  <2> HIDE DEF T
  <2> QED BY <1>1, <1>2, <2>1, InductiveSet
<1>4. N \in T
  BY <1>3
<1> QED BY <1>4

\* it recurses like that wherever what it recurses to is in A.
Recurses(it, n, A, base, f) ==
    /\ it[{}] = base
    /\ \A s \in SUBSET (1 .. n) :
        s # {} /\ it[s \ {Max(s)}] \in A => it[s] = f[<<it[s \ {Max(s)}], Max(s)>>]

\* path holds what a fold over 1 .. k yields for every k.
StepsAlong(path, n, A, base, f) ==
    /\ path \in [0 .. n -> A]
    /\ path[0] = base
    /\ \A k \in 1 .. n : path[k] = f[<<path[k - 1], k>>]

\* What such a function yields for 1 .. k, step by step from the base.
LEMMA FoldUnfolds ==
    ASSUME NEW A, NEW base \in A, NEW N \in Nat, NEW f \in [A \X (1 .. N) -> A],
           NEW it, Recurses(it, N, A, base, f)
    PROVE  StepsAlong([k \in 0 .. N |-> it[1 .. k]], N, A, base, f)
<1> USE DEF Recurses, StepsAlong
<1>1. 1 .. 0 = {} /\ it[1 .. 0] = base
  <2>1. 1 .. 0 = {}
    OBVIOUS
  <2> QED BY <2>1
<1>2. ASSUME NEW k \in 1 .. N, it[1 .. (k - 1)] \in A
      PROVE  it[1 .. k] = f[<<it[1 .. (k - 1)], k>>] /\ it[1 .. k] \in A
  <2>1. 1 .. k \in SUBSET (1 .. N) /\ 1 .. k # {}
    OBVIOUS
  <2>2. Max(1 .. k) = k
    <3>1. k \in 1 .. k /\ 1 .. k \in SUBSET (1 .. k)
      OBVIOUS
    <3> QED BY <3>1, MaxIsBound
  <2>3. (1 .. k) \ {k} = 1 .. (k - 1)
    OBVIOUS
  <2>4. it[1 .. k] = f[<<it[1 .. (k - 1)], k>>]
    BY <1>2, <2>1, <2>2, <2>3
  <2> QED BY <1>2, <2>4
<1> DEFINE T == {k \in Nat : k <= N => it[1 .. k] \in A}
<1>3. ASSUME NEW k \in T PROVE k + 1 \in T
  <2>1. SUFFICES ASSUME k + 1 <= N PROVE it[1 .. (k + 1)] \in A
    OBVIOUS
  <2>2. k + 1 \in 1 .. N /\ (k + 1) - 1 = k /\ it[1 .. k] \in A
    BY <2>1
  <2>3. it[1 .. ((k + 1) - 1)] \in A
    BY <2>2
  <2> HIDE DEF T
  <2> QED BY <1>2, <2>2, <2>3
<1>4. 0 \in T /\ T \in SUBSET Nat
  BY <1>1
<1>5. T = Nat
  <2> HIDE DEF T
  <2> QED BY <1>3, <1>4, InductiveSet
<1>6. \A k \in 0 .. N : it[1 .. k] \in A
  BY <1>5
<1> HIDE DEF T
<1> DEFINE path == [k \in 0 .. N |-> it[1 .. k]]
<1>7. path \in [0 .. N -> A] /\ path[0] = base
  BY <1>1, <1>6
<1>8. ASSUME NEW k \in 1 .. N PROVE path[k] = f[<<path[k - 1], k>>]
  <2>1. k - 1 \in 0 .. N /\ k \in 0 .. N
    OBVIOUS
  <2> QED BY <1>2, <1>6, <2>1
<1>9. StepsAlong(path, N, A, base, f)
  <2> HIDE DEF path
  <2> QED BY <1>7, <1>8
<1> QED BY <1>9

\* The steps of a fold whose function exists.
LEMMA StepsExist ==
    ASSUME NEW A, NEW base \in A, NEW N \in Nat, NEW f \in [A \X (1 .. N) -> A]
    PROVE  \E path : StepsAlong(path, N, A, base, f)
<1>1. PICK h : FoldsTo(h, N, A, base, f)
  BY FoldExists
<1>2. Recurses(h, N, A, base, f)
  <2>1. {} \in SUBSET (1 .. N)
    OBVIOUS
  <2> QED BY <1>1, <2>1 DEF FoldsTo, Recurses
<1> QED BY <1>2, FoldUnfolds

\* What follows multiplies and divides by constants: these facts keep the
\* arithmetic of the other steps linear.
LEMMA MulMonotone ==
    ASSUME NEW c \in Nat, NEW x \in Int, NEW y \in Int, x <= y
    PROVE  c * x <= c * y
  OBVIOUS

\* The quotient and what it leaves over.
LEMMA DivBounds ==
    ASSUME NEW a \in Nat, NEW d \in Nat \ {0}
    PROVE  /\ a \div d \in Nat
           /\ d * (a \div d) <= a
           /\ a < d * (a \div d) + d
  OBVIOUS

\* The quotient is the largest number of whole intervals.
LEMMA DivLargest ==
    ASSUME NEW a \in Nat, NEW d \in Nat \ {0}, NEW q \in Int, d * q <= a
    PROVE  q <= a \div d
<1> DEFINE r == a \div d
<1>1. r \in Nat /\ a < d * r + d
  BY DivBounds
<1> HIDE DEF r
<1> SUFFICES ASSUME r + 1 <= q PROVE FALSE
  BY <1>1 DEF r
<1>2. d * (r + 1) <= d * q
  BY <1>1, MulMonotone
<1>3. d * (r + 1) = d * r + d
  BY <1>1
<1> QED BY <1>1, <1>2, <1>3

\* The addresses that share a quotient are an interval.
LEMMA QuotientInterval ==
    ASSUME NEW s \in Nat \ {0}, NEW q \in Nat, NEW x \in Nat
    PROVE  x \div s = q <=> s * q <= x /\ x <= s * q + s - 1
<1> DEFINE r == x \div s
<1>1. r \in Nat /\ s * r <= x /\ x < s * r + s
  BY DivBounds
<1>2. s * q \in Nat /\ s * r \in Nat
  BY <1>1
<1> HIDE DEF r
<1>3. ASSUME s * q <= x, x <= s * q + s - 1 PROVE r = q
  <2>1. q <= r
    BY <1>3, DivLargest DEF r
  <2>2. r <= q
    <3> SUFFICES ASSUME q + 1 <= r PROVE FALSE
      BY <1>1
    <3>1. s * (q + 1) <= s * r
      BY <1>1, MulMonotone
    <3>2. s * (q + 1) = s * q + s
      OBVIOUS
    <3> QED BY <1>1, <1>2, <1>3, <3>1, <3>2
  <2> QED BY <1>1, <2>1, <2>2
<1>4. ASSUME r = q PROVE s * q <= x /\ x <= s * q + s - 1
  BY <1>1, <1>2, <1>4
<1> QED BY <1>3, <1>4 DEF r

-----------------------------------------------------------------------------
(* evaluate.                                                               *)

\* Paths that share their origin overlap: pathOverlap counts the origin itself.
LEMMA OriginOverlaps ==
    ASSUME NEW S, NEW a \in Seq(S), NEW b \in Seq(S), a # <<>>, b # <<>>,
           Origin(a) = Origin(b)
    PROVE  pathOverlap(a, b) > 0
<1> DEFINE P == {j \in 1..Len(b) : \E i \in 1..Len(a) : a[i] = b[j]}
<1>1. Len(a) \in 1..Len(a) /\ Len(b) \in 1..Len(b)
  OBVIOUS
<1>2. Len(b) \in P
  BY <1>1 DEF Origin
<1>3. IsFiniteSet(P)
  <2>1. IsFiniteSet(1..Len(b))
    BY FS_Interval
  <2>2. P \subseteq 1..Len(b)
    OBVIOUS
  <2> QED BY <2>1, <2>2, FS_Subset
<1>4. Cardinality(P) # 0 /\ Cardinality(P) \in Nat
  BY <1>2, <1>3, FS_EmptySet, FS_CardinalityType
<1> HIDE DEF P
<1>5. Cardinality(P) > 0
  BY <1>4
<1> QED BY <1>5 DEF pathOverlap, P

\* The last branch of evaluate is unreachable: a mismatch means the origins differ.
LEMMA EvaluateMismatch ==
    ASSUME NEW S, NEW bgp \in Seq(S), NEW tr \in Seq(S), NEW reached,
           evaluate(bgp, tr, reached) = "mismatch"
    PROVE  Origin(bgp) # Origin(tr)
<1> SUFFICES ASSUME Origin(bgp) = Origin(tr) PROVE FALSE
  OBVIOUS
<1>1. bgp # <<>> /\ Len(tr) >= 2
  BY DEF evaluate
<1>2. tr # <<>>
  BY <1>1
<1>3. pathOverlap(bgp, tr) > 0
  BY <1>1, <1>2, OriginOverlaps
<1> QED BY <1>1, <1>3 DEF evaluate

\* An "exact" answer was given for paths with one origin, the traceroute's being
\* a segment of the BGP path; without loops that segment can only be its tail.
LEMMA EvaluateExact ==
    ASSUME NEW S, NEW bgp \in Seq(S), NEW tr \in Seq(S), NEW reached,
           evaluate(bgp, tr, reached) = "exact", LoopFree(bgp)
    PROVE  IsTail(tr, bgp)
<1>1. bgp # <<>> /\ Len(tr) >= 2 /\ Origin(bgp) = Origin(tr) /\ isSubsequence(tr, bgp)
  BY DEF evaluate
<1>2. PICK i \in 0..(Len(bgp) - Len(tr)) : \A j \in 1..Len(tr) : bgp[i + j] = tr[j]
  BY <1>1 DEF isSubsequence
<1>3. Len(tr) <= Len(bgp) /\ Len(tr) \in 1..Len(tr) /\ Len(bgp) \in 1..Len(bgp)
  BY <1>1 DEF isSubsequence
<1>4. bgp[i + Len(tr)] = bgp[Len(bgp)] /\ i + Len(tr) \in 1..Len(bgp)
  BY <1>1, <1>2, <1>3 DEF Origin
<1>5. i + Len(tr) = Len(bgp)
  BY <1>3, <1>4 DEF LoopFree
<1>6. i = Len(bgp) - Len(tr)
  BY <1>5
<1> QED BY <1>2, <1>3, <1>6 DEF IsTail

\* A bounded path is a sequence of AS numbers.
LEMMA PathsAreSequences == Paths \subseteq Seq(ASNs)
BY PathAssumption DEF Paths

\* What a step that leaves a call of evaluate behind has computed.
LEMMA EvaluateStep ==
    ASSUME Next, call'.op = "evaluate"
    PROVE  \E bgp \in Paths, tr \in Paths, reached \in BOOLEAN :
                Evaluate(bgp, tr, reached)
<1>1. ASSUME NEW a \in PrefixInputs, NEW b \in PrefixInputs, Compare(a, b)
      PROVE  FALSE
  BY <1>1 DEF Compare
<1>2. ASSUME NEW raw \in RawPaths, Parse(raw)
      PROVE  FALSE
  BY <1>2 DEF Parse
<1>3. ASSUME NEW answers, CheckExpiry(answers)
      PROVE  FALSE
  BY <1>3 DEF CheckExpiry
<1> QED BY <1>1, <1>2, <1>3 DEF Next

\* Whatever the paths, a "mismatch" is a disagreement about the origin AS.
THEOREM MismatchMeansOrigin == Spec => []MismatchIsOrigin
<1>1. Init => MismatchIsOrigin
  BY DEF Init, MismatchIsOrigin
<1>2. MismatchIsOrigin /\ [Next]_call => MismatchIsOrigin'
  <2> SUFFICES ASSUME MismatchIsOrigin, [Next]_call,
                      call'.op = "evaluate", call'.match = "mismatch"
               PROVE  Origin(call'.bgp) # Origin(call'.tr)
    BY DEF MismatchIsOrigin
  <2>1. CASE Next
    <3>1. PICK bgp \in Paths, tr \in Paths, reached \in BOOLEAN :
                Evaluate(bgp, tr, reached)
      BY <2>1, EvaluateStep
    <3>2. call'.bgp = bgp /\ call'.tr = tr /\ call'.match = evaluate(bgp, tr, reached)
      BY <3>1 DEF Evaluate
    <3> QED BY <3>2, PathsAreSequences, EvaluateMismatch
  <2>2. CASE UNCHANGED call
    BY <2>2 DEF MismatchIsOrigin
  <2> QED BY <2>1, <2>2
<1> QED BY <1>1, <1>2, PTL DEF Spec

\* Whatever the traceroute, "exact" against a BGP path without loops means that
\* it saw the path's tail.
THEOREM ExactMeansTail == Spec => []ExactIsTail
<1>1. Init => ExactIsTail
  BY DEF Init, ExactIsTail
<1>2. ExactIsTail /\ [Next]_call => ExactIsTail'
  <2> SUFFICES ASSUME ExactIsTail, [Next]_call, call'.op = "evaluate",
                      call'.match = "exact", LoopFree(call'.bgp)
               PROVE  IsTail(call'.tr, call'.bgp)
    BY DEF ExactIsTail
  <2>1. CASE Next
    <3>1. PICK bgp \in Paths, tr \in Paths, reached \in BOOLEAN :
                Evaluate(bgp, tr, reached)
      BY <2>1, EvaluateStep
    <3>2. call'.bgp = bgp /\ call'.tr = tr /\ call'.match = evaluate(bgp, tr, reached)
      BY <3>1 DEF Evaluate
    <3> QED BY <3>2, PathsAreSequences, EvaluateExact
  <2>2. CASE UNCHANGED call
    BY <2>2 DEF ExactIsTail
  <2> QED BY <2>1, <2>2
<1> QED BY <1>1, <1>2, PTL DEF Spec

-----------------------------------------------------------------------------
(* parse_as_path.                                                          *)

\* What parse_as_path does with one part, and the paths it has after each part.
ParseStep(asns, part) ==
    IF isdigit(part) /\ (asns = <<>> \/ asns[Len(asns)] # part) THEN Append(asns, part)
    ELSE asns

Parses(path, raw, S) ==
    /\ path \in [0 .. Len(raw) -> Seq(S)]
    /\ path[0] = <<>>
    /\ \A k \in 1 .. Len(raw) : path[k] = ParseStep(path[k - 1], raw[k])

\* parse_as_path goes through the parts of the attribute in their order.
LEMMA ParseSteps ==
    ASSUME NEW S, NEW raw \in Seq(S)
    PROVE  \E path : Parses(path, raw, S) /\ parse_as_path(raw) = path[Len(raw)]
<1> DEFINE A == Seq(S)
           N == Len(raw)
           f == [p \in A \X (1 .. N) |-> ParseStep(p[1], raw[p[2]])]
           Is(iter) == iter = [s \in SUBSET DOMAIN raw |->
                IF s = {} THEN <<>> ELSE ParseStep(iter[s \ {Max(s)}], raw[Max(s)])]
<1>1. f \in [A \X (1 .. N) -> A]
  BY DEF ParseStep
<1>2. N \in Nat /\ DOMAIN raw = 1 .. N /\ <<>> \in A
  OBVIOUS
<1>3. PICK h : FoldsTo(h, N, A, <<>>, f)
  <2> HIDE DEF f, A, N
  <2> QED BY <1>1, <1>2, FoldExists
<1>4. Is(h)
  <2>1. h \in [SUBSET DOMAIN raw -> A]
    BY <1>2, <1>3 DEF FoldsTo
  <2>2. ASSUME NEW s \in SUBSET DOMAIN raw
        PROVE h[s] = IF s = {} THEN <<>> ELSE ParseStep(h[s \ {Max(s)}], raw[Max(s)])
     <3>1. CASE s # {}
       <4>1. h[s] = f[<<h[s \ {Max(s)}], Max(s)>>]
         BY <1>2, <1>3, <3>1 DEF FoldsTo
       <4>2. h[s \ {Max(s)}] \in A
         BY <1>2, <1>3 DEF FoldsTo
       <4>3. Max(s) \in 1 .. N
         BY <3>1, <1>2, MaxInside
       <4>4. f[<<h[s \ {Max(s)}], Max(s)>>] = ParseStep(h[s \ {Max(s)}], raw[Max(s)])
         <5> HIDE DEF A, N
         <5> QED BY <4>2, <4>3
       <4> QED BY <4>1, <4>4, <3>1
     <3> QED BY <1>2, <1>3, <3>1 DEF FoldsTo
  <2> QED BY <2>1, <2>2
<1> DEFINE iter == CHOOSE it : Is(it)
<1>5. Is(iter)
  <2> HIDE DEF Is
  <2> QED BY <1>4
<1>6. parse_as_path(raw) = iter[DOMAIN raw]
  BY DEF parse_as_path, FoldLeft, MapThenFoldSet, ParseStep
<1> HIDE DEF iter
<1>7. iter[{}] = <<>>
  BY <1>5
<1>8. ASSUME NEW s \in SUBSET (1 .. N), s # {}, iter[s \ {Max(s)}] \in A
      PROVE  iter[s] = f[<<iter[s \ {Max(s)}], Max(s)>>]
  <2>1. iter[s] = ParseStep(iter[s \ {Max(s)}], raw[Max(s)])
    BY <1>2, <1>5, <1>8
  <2>2. Max(s) \in 1 .. N
    BY <1>8, <1>2, MaxInside
  <2> HIDE DEF A, N
  <2> QED BY <1>8, <2>1, <2>2
<1> DEFINE path == [k \in 0 .. N |-> iter[1 .. k]]
<1>9. StepsAlong(path, N, A, <<>>, f)
  <2>1. Recurses(iter, N, A, <<>>, f)
    <3> HIDE DEF f, A, N
    <3> QED BY <1>7, <1>8 DEF Recurses
  <2> HIDE DEF f, A, N
  <2> QED BY <1>1, <1>2, <2>1, FoldUnfolds
<1>10. \A k \in 1 .. N : path[k] = ParseStep(path[k - 1], raw[k])
  <2> TAKE k \in 1 .. N
  <2>1. path[k - 1] \in A
    <3> HIDE DEF A, N, f, path
    <3> QED BY <1>9, <1>2 DEF StepsAlong
  <2>2. path[k] = f[<<path[k - 1], k>>]
    <3> HIDE DEF A, N, f, path
    <3> QED BY <1>9 DEF StepsAlong
  <2> HIDE DEF A, N, path
  <2> QED BY <2>1, <2>2
<1>11. path[N] = iter[1 .. N]
  BY <1>2
<1>12. Parses(path, raw, S)
  <2> HIDE DEF f, path
  <2> QED BY <1>9, <1>10 DEF StepsAlong, Parses
<1> HIDE DEF path
<1> QED BY <1>2, <1>6, <1>11, <1>12

ParsedUpTo(path, raw, k) ==
    /\ Range(path[k]) = {raw[j] : j \in 1 .. k} \ {Junk}
    /\ k # 0 /\ isdigit(raw[k]) => path[k] # <<>> /\ path[k][Len(path[k])] = raw[k]

\* After each part the path names the numbers up to it, and ends with the last part
\* if that is a number.
LEMMA ParsedSoFar ==
    ASSUME NEW S, NEW raw \in Seq(S), NEW path, Parses(path, raw, S)
    PROVE  \A k \in 0 .. Len(raw) : ParsedUpTo(path, raw, k)
<1> DEFINE Q(k) == ParsedUpTo(path, raw, k)
           T == {k \in Nat : k <= Len(raw) => Q(k)}
<1> USE DEF ParsedUpTo
<1>1. 0 \in T
  <2>1. path[0] = <<>> /\ Range(<<>>) = {} /\ {raw[j] : j \in 1 .. 0} = {}
    BY DEF Parses, Range
  <2> QED BY <2>1
<1>2. ASSUME NEW k \in T PROVE k + 1 \in T
  <2>1. SUFFICES ASSUME k + 1 <= Len(raw) PROVE Q(k + 1)
    OBVIOUS
  <2>2. k \in Nat /\ k \in 0 .. Len(raw) /\ k + 1 \in 1 .. Len(raw) /\ Q(k)
    BY <2>1
  <2> DEFINE a == path[k]
             x == raw[k + 1]
             b == path[k + 1]
  <2>3. a \in Seq(S) /\ b = ParseStep(a, x) /\ x \in S
    BY <2>2 DEF Parses
  <2>4. {raw[j] : j \in 1 .. (k + 1)} = {raw[j] : j \in 1 .. k} \cup {x}
    BY <2>2
  <2>5. Range(b) = IF isdigit(x) THEN Range(a) \cup {x} ELSE Range(a)
    <3> HIDE DEF a, b, x
    <3>1. CASE b = Append(a, x)
      BY <2>3, <3>1 DEF ParseStep, Range
    <3>2. CASE b = a /\ isdigit(x)
      <4>1. a # <<>> /\ a[Len(a)] = x
        BY <2>3, <3>2 DEF ParseStep
      <4>2. Len(a) \in DOMAIN a
        BY <2>3, <4>1
      <4> QED BY <3>2, <4>1, <4>2 DEF Range
    <3> QED BY <2>3, <3>1, <3>2 DEF ParseStep
  <2>6. isdigit(x) => b # <<>> /\ b[Len(b)] = x
    <3> HIDE DEF a, b, x
    <3> QED BY <2>3 DEF ParseStep
  <2>7. Range(b) = ({raw[j] : j \in 1 .. k} \cup {x}) \ {Junk}
    <3> HIDE DEF a, b, x
    <3> QED BY <2>2, <2>5 DEF isdigit, a
  <2> QED BY <2>4, <2>6, <2>7
<1>3. T = Nat
  <2>1. T \in SUBSET Nat
    OBVIOUS
  <2> HIDE DEF T
  <2> QED BY <1>1, <1>2, <2>1, InductiveSet
<1> HIDE DEF Q, ParsedUpTo
<1>4. \A k \in 0 .. Len(raw) : Q(k)
  BY <1>3
<1> QED BY <1>4 DEF Q

\* A number written once more beside itself adds no step to the path.
LEMMA RepeatedPart ==
    ASSUME NEW S, NEW raw \in Seq(S), NEW i \in 1 .. Len(raw), isdigit(raw[i])
    PROVE  parse_as_path(InsertAt(raw, i, raw[i])) = parse_as_path(raw)
<1> DEFINE twice == InsertAt(raw, i, raw[i])
           N == Len(raw)
<1>1. /\ twice \in Seq(S) /\ Len(twice) = N + 1
      /\ \A k \in 1 .. i : twice[k] = raw[k]
      /\ \A k \in (i + 1) .. (N + 1) : twice[k] = raw[k - 1]
  <2> DEFINE front == SubSeq(raw, 1, i - 1)
             back == SubSeq(raw, i, N)
             middle == <<raw[i]>>
  <2>1. /\ front \in Seq(S) /\ Len(front) = i - 1
        /\ \A k \in 1 .. (i - 1) : front[k] = raw[k]
    OBVIOUS
  <2>2. /\ back \in Seq(S) /\ Len(back) = N - i + 1
        /\ \A k \in 1 .. (N - i + 1) : back[k] = raw[i + k - 1]
    OBVIOUS
  <2>3. middle \in Seq(S) /\ Len(middle) = 1 /\ middle[1] = raw[i]
    OBVIOUS
  <2>4. twice = (front \o middle) \o back
    BY DEF InsertAt
  <2> HIDE DEF front, back, middle, twice
  <2> DEFINE start == front \o middle
  <2>5. start \in Seq(S) /\ Len(start) = i /\ (\A k \in 1 .. i : start[k] = raw[k])
    <3>1. /\ start \in Seq(S) /\ Len(start) = Len(front) + Len(middle)
          /\ \A k \in 1 .. (Len(front) + Len(middle)) :
                start[k] = IF k <= Len(front) THEN front[k] ELSE middle[k - Len(front)]
      BY <2>1, <2>3, ConcatProperties
    <3> HIDE DEF start
    <3>2. Len(start) = i
      BY <2>1, <2>3, <3>1
    <3>3. ASSUME NEW k \in 1 .. i PROVE start[k] = raw[k]
      <4>1. k \in 1 .. (Len(front) + Len(middle))
        BY <2>1, <2>3
      <4>2. start[k] = IF k <= Len(front) THEN front[k] ELSE middle[k - Len(front)]
        BY <3>1, <4>1
      <4>3. CASE k <= i - 1
        BY <2>1, <4>2, <4>3
      <4>4. CASE k = i
        <5>1. ~(k <= Len(front)) /\ k - Len(front) = 1
          BY <2>1, <4>4
        <5> QED BY <2>3, <4>2, <4>4, <5>1
      <4> QED BY <4>3, <4>4
    <3> QED BY <3>1, <3>2, <3>3
  <2> HIDE DEF start
  <2>6. /\ twice \in Seq(S) /\ Len(twice) = Len(start) + Len(back)
        /\ \A k \in 1 .. (Len(start) + Len(back)) :
                twice[k] = IF k <= Len(start) THEN start[k] ELSE back[k - Len(start)]
    <3>1. twice = start \o back
      BY <2>4 DEF start
    <3> QED BY <2>2, <2>5, <3>1, ConcatProperties
  <2>7. \A k \in 1 .. i : twice[k] = raw[k]
    BY <2>2, <2>5, <2>6
  <2>8. ASSUME NEW k \in (i + 1) .. (N + 1) PROVE twice[k] = raw[k - 1]
    <3>1. k - i \in 1 .. (N - i + 1) /\ i + (k - i) - 1 = k - 1
      OBVIOUS
    <3>2. twice[k] = back[k - i]
      BY <2>2, <2>5, <2>6
    <3> QED BY <2>2, <3>1, <3>2
  <2>9. Len(twice) = N + 1
    BY <2>2, <2>5, <2>6
  <2> QED BY <2>6, <2>7, <2>8, <2>9
<1> HIDE DEF twice
<1>2. PICK p : Parses(p, raw, S) /\ parse_as_path(raw) = p[N]
  BY ParseSteps
<1>3. PICK q : Parses(q, twice, S) /\ parse_as_path(twice) = q[N + 1]
  BY <1>1, ParseSteps
<1> DEFINE Q(k) == q[k] = IF k <= i THEN p[k] ELSE p[k - 1]
           T == {k \in Nat : k <= N + 1 => Q(k)}
<1>4. 0 \in T
  BY <1>2, <1>3 DEF Parses
<1>5. ASSUME NEW k \in T PROVE k + 1 \in T
  <2>1. SUFFICES ASSUME k + 1 <= N + 1 PROVE Q(k + 1)
    OBVIOUS
  <2>2. k \in 0 .. N /\ Q(k) /\ N \in Nat
    BY <2>1
  <2>3. q[k + 1] = ParseStep(q[k], twice[k + 1])
    BY <1>1, <1>3, <2>2 DEF Parses
  <2>4. CASE k + 1 <= i
    <3>1. p[k + 1] = ParseStep(p[k], raw[k + 1])
      BY <1>2, <2>2, <2>4 DEF Parses
    <3>2. twice[k + 1] = raw[k + 1]
      BY <1>1, <2>2, <2>4
    <3> QED BY <2>2, <2>3, <2>4, <3>1, <3>2
  <2>5. CASE k = i
    <3>1. twice[k + 1] = raw[i] /\ q[k] = p[i]
      <4>1. k + 1 \in (i + 1) .. (N + 1) /\ (k + 1) - 1 = i /\ k <= i
        BY <2>2, <2>5
      <4> QED BY <1>1, <2>2, <2>5, <4>1
    <3>2. p[i] # <<>> /\ p[i][Len(p[i])] = raw[i]
      BY <1>2, <2>2, ParsedSoFar DEF ParsedUpTo
    <3>3. q[k + 1] = p[i]
      BY <2>3, <3>1, <3>2 DEF ParseStep
    <3> QED BY <2>2, <2>5, <3>3
  <2>6. CASE k > i
    <3>1. p[k] = ParseStep(p[k - 1], raw[k])
      BY <1>2, <2>2, <2>6 DEF Parses
    <3>2. twice[k + 1] = raw[k] /\ q[k] = p[k - 1]
      BY <1>1, <2>2, <2>6
    <3> QED BY <2>2, <2>3, <2>6, <3>1, <3>2
  <2> QED BY <2>2, <2>4, <2>5, <2>6
<1>6. T = Nat
  <2>1. T \in SUBSET Nat
    OBVIOUS
  <2> HIDE DEF T
  <2> QED BY <1>4, <1>5, <2>1, InductiveSet
<1>7. Q(N + 1)
  BY <1>6
<1>8. q[N + 1] = p[N]
  BY <1>7
<1> QED BY <1>2, <1>3, <1>8 DEF twice

\* A bounded attribute is a sequence of numbers and junk.
LEMMA RawPathsAreSequences == RawPaths \subseteq Seq(ASNs \cup {Junk})
BY PathAssumption DEF RawPaths

\* What a step that leaves a parse behind has computed.
LEMMA ParseDone ==
    ASSUME Next, call'.op = "parse"
    PROVE  \E raw \in RawPaths : Parse(raw)
<1>1. ASSUME NEW bgp, NEW tr, NEW reached, Evaluate(bgp, tr, reached)
      PROVE  FALSE
  BY <1>1 DEF Evaluate
<1>2. ASSUME NEW a, NEW b, Compare(a, b)
      PROVE  FALSE
  BY <1>2 DEF Compare
<1>3. ASSUME NEW answers, CheckExpiry(answers)
      PROVE  FALSE
  BY <1>3 DEF CheckExpiry
<1> QED BY <1>1, <1>2, <1>3 DEF Next

\* Whatever a router writes, repeating a number beside itself leaves the path as it
\* is, and the path names the numbers of the attribute, the last one last.
THEOREM PathIgnoresPrepending == Spec => []PrependingIgnored
<1>1. Init => PrependingIgnored
  BY DEF Init, PrependingIgnored
<1>2. PrependingIgnored /\ [Next]_call => PrependingIgnored'
  <2> SUFFICES ASSUME PrependingIgnored, [Next]_call, call'.op = "parse"
               PROVE  PrependingIgnored'
    BY DEF PrependingIgnored
  <2>1. CASE Next
    <3>1. PICK raw \in RawPaths : Parse(raw)
      BY <2>1, ParseDone
    <3>2. call'.raw = raw /\ call'.path = parse_as_path(raw)
      BY <3>1 DEF Parse
    <3>3. raw \in Seq(ASNs \cup {Junk}) /\ DOMAIN raw = 1 .. Len(raw)
      BY RawPathsAreSequences
    <3>4. PICK path : Parses(path, raw, ASNs \cup {Junk}) /\ parse_as_path(raw) = path[Len(raw)]
      BY <3>3, ParseSteps
    <3>5. \A i \in {j \in DOMAIN raw : isdigit(raw[j])} :
            parse_as_path(InsertAt(raw, i, raw[i])) = parse_as_path(raw)
      BY <3>3, RepeatedPart
    <3>6. /\ Range(path[Len(raw)]) = {raw[j] : j \in 1 .. Len(raw)} \ {Junk}
          /\ Len(raw) # 0 /\ isdigit(raw[Len(raw)]) =>
                /\ path[Len(raw)] # <<>>
                /\ path[Len(raw)][Len(path[Len(raw)])] = raw[Len(raw)]
      <4>1. Len(raw) \in 0 .. Len(raw)
        BY <3>3
      <4>2. ParsedUpTo(path, raw, Len(raw))
        BY <3>3, <3>4, <4>1, ParsedSoFar
      <4> QED BY <4>2 DEF ParsedUpTo
    <3>7. Range(raw) = {raw[j] : j \in 1 .. Len(raw)}
      BY <3>3 DEF Range
    <3>8. Len(raw) > 0 /\ isdigit(Last(raw)) => origin_asn(parse_as_path(raw)) = Last(raw)
      BY <3>3, <3>4, <3>6 DEF Last, origin_asn
    <3>9. Range(parse_as_path(raw)) = Range(raw) \ {Junk}
      BY <3>4, <3>6, <3>7
    <3> QED BY <3>2, <3>5, <3>8, <3>9 DEF PrependingIgnored
  <2>2. CASE UNCHANGED call
    BY <2>2 DEF PrependingIgnored
  <2> QED BY <2>1, <2>2
<1> QED BY <1>1, <1>2, PTL DEF Spec

-----------------------------------------------------------------------------
(* The prefix comparisons.                                                 *)

\* Each host bit doubles the addresses.
LEMMA BlocksDouble ==
    ASSUME NEW v \in Versions
    PROVE  LET size == BlockSizes(v)
           IN  /\ size \in [0 .. Width[v] -> Nat \ {0}]
               /\ size[0] = 1
               /\ \A i \in 1 .. Width[v] : size[i] = 2 * size[i - 1]
<1> DEFINE W == Width[v]
           A == Nat \ {0}
           f == [p \in A \X (1 .. W) |-> 2 * p[1]]
           Is(it) == it = [bits \in 0 .. W |-> IF bits = 0 THEN 1 ELSE 2 * it[bits - 1]]
<1>1. W \in Nat /\ 1 \in A /\ f \in [A \X (1 .. W) -> A]
  <2>1. W \in Nat
    BY WidthAssumption
  <2>2. ASSUME NEW p \in A \X (1 .. W) PROVE 2 * p[1] \in A
    OBVIOUS
  <2> QED BY <2>1, <2>2
<1>2. PICK path : StepsAlong(path, W, A, 1, f)
  <2> HIDE DEF f, A, W
  <2> QED BY <1>1, StepsExist
<1>3. path \in [0 .. W -> A] /\ path[0] = 1
  <2> HIDE DEF f
  <2> QED BY <1>2 DEF StepsAlong
<1>4. ASSUME NEW i \in 1 .. W PROVE path[i] = 2 * path[i - 1]
  <2>1. path[i] = f[<<path[i - 1], i>>]
    <3> HIDE DEF f
    <3> QED BY <1>2 DEF StepsAlong
  <2>2. path[i - 1] \in A
    BY <1>1, <1>3
  <2> QED BY <2>1, <2>2
<1>5. Is(path)
  BY <1>1, <1>3, <1>4
<1> DEFINE size == CHOOSE it : Is(it)
<1>6. Is(size)
  <2> HIDE DEF Is
  <2> QED BY <1>5
<1>7. BlockSizes(v) = size
  BY DEF BlockSizes
<1> HIDE DEF size
<1>8. size[0] = 1 /\ \A i \in 1 .. W : size[i] = 2 * size[i - 1]
  <2>1. \A i \in 0 .. W : size[i] = IF i = 0 THEN 1 ELSE 2 * size[i - 1]
    BY <1>6
  <2>2. 0 \in 0 .. W /\ \A i \in 1 .. W : i \in 0 .. W /\ i # 0
    BY <1>1
  <2> QED BY <2>1, <2>2
<1> DEFINE T == {i \in Nat : i <= W => size[i] \in A}
<1>9. T = Nat
  <2>1. T \in SUBSET Nat /\ 0 \in T
    BY <1>8
  <2>2. ASSUME NEW i \in T PROVE i + 1 \in T
    <3>1. SUFFICES ASSUME i + 1 <= W PROVE size[i + 1] \in A
      OBVIOUS
    <3>2. i \in Nat /\ i + 1 \in 1 .. W /\ (i + 1) - 1 = i /\ size[i] \in A
      BY <1>1, <3>1
    <3>3. size[i + 1] = 2 * size[i]
      BY <1>8, <3>2
    <3> QED BY <3>2, <3>3
  <2> HIDE DEF T
  <2> QED BY <2>1, <2>2, InductiveSet
<1>10. size \in [0 .. W -> A]
  <2>1. \A i \in 0 .. W : size[i] \in A
    BY <1>1, <1>9
  <2>2. size = [i \in 0 .. W |-> size[i]]
    BY <1>6
  <2> HIDE DEF T, Is
  <2> QED BY <2>1, <2>2
<1> QED BY <1>7, <1>8, <1>10

\* A shorter prefix's block is a multiple, by two or more, of a longer one's.
LEMMA BlockMultiples ==
    ASSUME NEW v \in Versions, NEW i \in 0 .. Width[v], NEW j \in 0 .. Width[v], i < j
    PROVE  \E m \in Nat : m >= 2 /\ BlockSizes(v)[j] = BlockSizes(v)[i] * m
<1> DEFINE W == Width[v]
           size == BlockSizes(v)
           T == {k \in Nat : i < k /\ k <= W => \E m \in Nat : m >= 2 /\ size[k] = size[i] * m}
<1>1. /\ size \in [0 .. W -> Nat \ {0}]
      /\ \A k \in 1 .. W : size[k] = 2 * size[k - 1]
  BY BlocksDouble
<1>2. W \in Nat
  BY WidthAssumption
<1> HIDE DEF W, size
<1>3. i \in Nat /\ i \in 0 .. W /\ j \in 0 .. W /\ j \in Nat
  BY <1>2 DEF W
<1>4. 0 \in T /\ T \in SUBSET Nat
  BY <1>3
<1>5. ASSUME NEW k \in T PROVE k + 1 \in T
  <2>1. SUFFICES ASSUME i < k + 1, k + 1 <= W
                 PROVE  \E m \in Nat : m >= 2 /\ size[k + 1] = size[i] * m
    OBVIOUS
  <2>2. k \in Nat /\ k \in 0 .. W /\ k + 1 \in 1 .. W /\ (k + 1) - 1 = k
    BY <1>2, <2>1
  <2>3. size[k + 1] = 2 * size[k] /\ size[k] \in Nat /\ size[i] \in Nat
    BY <1>1, <1>3, <2>2
  <2>4. CASE i = k
    BY <2>3, <2>4
  <2>5. CASE i < k
    <3>1. PICK m \in Nat : m >= 2 /\ size[k] = size[i] * m
      BY <2>1, <2>2, <2>5
    <3>2. 2 * m \in Nat /\ 2 * m >= 2
      BY <3>1
    <3>3. size[k + 1] = size[i] * (2 * m)
      BY <2>3, <3>1
    <3> QED BY <3>2, <3>3
  <2> QED BY <1>3, <2>1, <2>2, <2>4, <2>5
<1>6. T = Nat
  <2> HIDE DEF T
  <2> QED BY <1>4, <1>5, InductiveSet
<1>7. j <= W /\ i < j
  BY <1>2, <1>3
<1> QED BY <1>3, <1>6, <1>7 DEF size

\* The block of a prefix, as the quotient of its addresses.
Size(w) == Block(w.version, w.prefixlen)

Start(w) == Size(w) * (w.addr \div Size(w))

End(w) == Start(w) + Size(w) - 1

\* The block of a prefix has addresses, and begins and ends in order.
LEMMA SizeType ==
    ASSUME NEW w \in PrefixInputs
    PROVE  /\ w.version \in Versions /\ w.addr \in Nat
           /\ Width[w.version] \in Nat /\ w.prefixlen \in 0 .. Width[w.version]
           /\ w.addr < Block(w.version, 0) /\ Block(w.version, 0) \in Nat
           /\ Width[w.version] - w.prefixlen \in 0 .. Width[w.version]
           /\ Size(w) = BlockSizes(w.version)[Width[w.version] - w.prefixlen]
           /\ Size(w) \in Nat \ {0}
           /\ w.addr \div Size(w) \in Nat
           /\ Start(w) \in Nat /\ End(w) \in Nat /\ Start(w) <= End(w)
<1>1. PICK v \in Versions : w \in Written(v)
  BY DEF PrefixInputs
<1>2. Width[v] \in Nat
  BY WidthAssumption
<1>3. w.version = v /\ w.prefixlen \in 0 .. Width[v] /\ w.addr \in 0 .. Block(v, 0) - 1
  BY <1>1 DEF Written
<1>4. \A i \in 0 .. Width[v] : BlockSizes(v)[i] \in Nat \ {0}
  BY BlocksDouble
<1>5. /\ Width[v] - w.prefixlen \in 0 .. Width[v] /\ Width[v] - 0 \in 0 .. Width[v]
      /\ Width[v] - 0 = Width[v]
  BY <1>2, <1>3
<1>6. Size(w) = BlockSizes(v)[Width[v] - w.prefixlen] /\ Size(w) \in Nat \ {0}
  BY <1>3, <1>4, <1>5 DEF Size, Block
<1>7. Block(v, 0) \in Nat
  BY <1>4, <1>5 DEF Block
<1>8. w.addr \in Nat /\ w.addr < Block(v, 0)
  BY <1>3, <1>7
<1>9. w.addr \div Size(w) \in Nat
  BY <1>6, <1>8, DivBounds
<1>10. Start(w) \in Nat
  BY <1>6, <1>9 DEF Start
<1>11. End(w) \in Nat /\ Start(w) <= End(w)
  BY <1>6, <1>10 DEF End
<1> QED BY <1>2, <1>3, <1>5, <1>6, <1>7, <1>8, <1>9, <1>10, <1>11

\* Masking a number's remainder leaves whole blocks.
LEMMA RemainderMasked ==
    ASSUME NEW a \in Nat, NEW s \in Nat \ {0}
    PROVE  a - (a % s) = s * (a \div s)
  OBVIOUS

\* What parse_prefix keeps of a prefix is the block of its addresses.
LEMMA ParsedIsBlock ==
    ASSUME NEW w \in PrefixInputs
    PROVE  /\ parse_prefix(w).version = w.version
           /\ parse_prefix(w).prefixlen = w.prefixlen
           /\ parse_prefix(w).network_address = Start(w)
           /\ broadcast_address(parse_prefix(w)) = End(w)
<1>1. Size(w) \in Nat \ {0} /\ w.addr \in Nat
  BY SizeType
<1>2. w.addr - (w.addr % Size(w)) = Start(w)
  BY <1>1, RemainderMasked DEF Start
<1> DEFINE p == parse_prefix(w)
<1>3. p.version = w.version /\ p.prefixlen = w.prefixlen /\ p.network_address = Start(w)
  BY <1>2 DEF parse_prefix, Size
<1> HIDE DEF p
<1>4. broadcast_address(p) = End(w)
  BY <1>3 DEF broadcast_address, End, Size
<1> QED BY <1>3, <1>4 DEF p

\* The block ends within its family.
LEMMA EndsInFamily ==
    ASSUME NEW w \in PrefixInputs
    PROVE  End(w) <= Block(w.version, 0) - 1
<1> DEFINE v == w.version
           W == Width[v]
           T == Block(v, 0)
           s == Size(w)
           q == w.addr \div s
           i == W - w.prefixlen
<1>1. /\ v \in Versions /\ W \in Nat /\ i \in 0 .. W /\ w.addr \in Nat /\ w.addr < T /\ T \in Nat
      /\ s = BlockSizes(v)[i] /\ s \in Nat \ {0} /\ q \in Nat
  BY SizeType
<1>2. T = BlockSizes(v)[W]
  <2>1. W - 0 = W
    BY <1>1
  <2> QED BY <2>1 DEF Block
<1>3. s * q <= w.addr
  BY <1>1, DivBounds
<1>4. PICK m \in Nat : T = s * m
  <2>1. CASE i = W
    <3>1. T = s * 1
      BY <1>1, <1>2, <2>1
    <3> QED BY <3>1
  <2>2. CASE i < W
    <3>1. W \in 0 .. W
      BY <1>1
    <3>2. \E m \in Nat : m >= 2 /\ BlockSizes(v)[W] = BlockSizes(v)[i] * m
      BY <1>1, <2>2, <3>1, BlockMultiples
    <3> QED BY <1>1, <1>2, <3>2
  <2> QED BY <1>1, <2>1, <2>2
<1> HIDE DEF T, s, q, i, W, v
<1>5. q + 1 <= m
  <2> SUFFICES ASSUME m <= q PROVE FALSE
    BY <1>1
  <2>1. s * m <= s * q
    BY <1>1, MulMonotone
  <2>2. s * m \in Nat /\ s * q \in Nat
    BY <1>1
  <2> QED BY <1>1, <1>3, <1>4, <2>1, <2>2
<1>6. s * (q + 1) <= s * m
  BY <1>1, <1>5, MulMonotone
<1>7. s * (q + 1) = s * q + s /\ s * q \in Nat
  BY <1>1
<1>8. s * q + s - 1 <= T - 1
  BY <1>1, <1>4, <1>6, <1>7
<1> QED BY <1>8 DEF End, Start, T, s, q, v

\* The addresses of a prefix are those of its block.
LEMMA AddressesAreBlock ==
    ASSUME NEW w \in PrefixInputs
    PROVE  Addresses(w) = {w.version} \X (Start(w) .. End(w))
<1>1. /\ Size(w) \in Nat \ {0} /\ w.addr \in Nat /\ w.addr \div Size(w) \in Nat
      /\ Start(w) \in Nat /\ End(w) \in Nat /\ Block(w.version, 0) \in Nat
  BY SizeType
<1>2. ASSUME NEW x \in Nat
      PROVE  x \div Size(w) = w.addr \div Size(w) <=> Start(w) <= x /\ x <= End(w)
  BY <1>1, QuotientInterval DEF Start, End
<1>3. ASSUME NEW x
      PROVE  x \in {y \in 0 .. Block(w.version, 0) - 1 :
                        y \div Size(w) = w.addr \div Size(w)}
                <=> x \in Start(w) .. End(w)
  BY <1>1, <1>2, EndsInFamily
<1>4. Addresses(w) = {<<w.version, x>> : x \in {y \in 0 .. Block(w.version, 0) - 1 :
                        y \div Size(w) = w.addr \div Size(w)}}
  BY DEF Addresses, Size
<1>5. Addresses(w) = {<<w.version, x>> : x \in Start(w) .. End(w)}
  BY <1>3, <1>4, Zenon
<1> QED BY <1>5

\* Blocks of one family are nested or apart: a longer prefix that shares an address with
\* another lies within it.
LEMMA BlocksNest ==
    ASSUME NEW a \in PrefixInputs, NEW b \in PrefixInputs, a.version = b.version,
           a.prefixlen <= b.prefixlen,
           NEW x \in Nat, Start(a) <= x, x <= End(a), Start(b) <= x, x <= End(b)
    PROVE  Start(a) <= Start(b) /\ End(b) <= End(a)
<1> DEFINE v == a.version
           i == Width[v] - a.prefixlen
           j == Width[v] - b.prefixlen
           s == Size(a)
           t == Size(b)
           p == a.addr \div s
           q == b.addr \div t
<1>1. /\ v \in Versions /\ Width[v] \in Nat /\ i \in 0 .. Width[v] /\ j \in 0 .. Width[v] /\ j <= i
      /\ s = BlockSizes(v)[i] /\ t = BlockSizes(v)[j]
      /\ s \in Nat \ {0} /\ t \in Nat \ {0} /\ p \in Nat /\ q \in Nat
  <2>1. /\ v \in Versions /\ Width[v] \in Nat /\ i \in 0 .. Width[v]
        /\ s = BlockSizes(v)[i] /\ s \in Nat \ {0} /\ p \in Nat /\ a.prefixlen \in 0 .. Width[v]
    BY SizeType
  <2>2. /\ j \in 0 .. Width[v] /\ b.prefixlen \in 0 .. Width[v]
        /\ t = BlockSizes(v)[j] /\ t \in Nat \ {0} /\ q \in Nat
    BY SizeType
  <2>3. j <= i
    BY <2>1, <2>2
  <2> QED BY <2>1, <2>2, <2>3
<1>2. Start(a) = s * p /\ Start(b) = t * q /\ End(a) = s * p + s - 1 /\ End(b) = t * q + t - 1
  BY DEF Start, End
<1> HIDE DEF v, i, j, s, t, p, q
<1>3. PICK m \in Nat \ {0} : s = t * m
  <2>1. CASE i = j
    <3>1. s = t * 1
      BY <1>1, <2>1
    <3> QED BY <3>1
  <2>2. CASE j < i
    <3>1. PICK m \in Nat : m >= 2 /\ BlockSizes(v)[i] = BlockSizes(v)[j] * m
      BY <1>1, <2>2, BlockMultiples
    <3> QED BY <1>1, <3>1
  <2> QED BY <1>1, <2>1, <2>2
<1> DEFINE d == m * p
<1>4. d \in Nat /\ s * p = t * d /\ s * p + s = t * (d + m)
  <2>1. s * p = (t * m) * p /\ (t * m) * p = t * (m * p)
    BY <1>1, <1>3
  <2>2. d \in Nat
    BY <1>1
  <2>3. t * (d + m) = t * d + t * m
    BY <1>1, <2>2
  <2> QED BY <1>3, <2>1, <2>2, <2>3
<1> HIDE DEF d
<1>5. t * d <= x /\ x < t * (d + m) /\ t * q <= x /\ x < t * q + t
  <2>1. t * q \in Nat /\ s * p \in Nat /\ t * (d + m) \in Nat
    BY <1>1, <1>4
  <2> QED BY <1>1, <1>2, <1>4, <2>1
<1>6. d <= q
  <2> SUFFICES ASSUME q + 1 <= d PROVE FALSE
    BY <1>1, <1>4
  <2>1. t * (q + 1) <= t * d
    BY <1>1, <1>4, MulMonotone
  <2>2. t * (q + 1) = t * q + t /\ t * q \in Nat /\ t * d \in Nat
    BY <1>1, <1>4
  <2>3. t * q + t <= t * d
    BY <2>1, <2>2
  <2> HIDE DEF Size
  <2> QED BY <1>1, <1>5, <2>2, <2>3
<1>7. q + 1 <= d + m
  <2> SUFFICES ASSUME d + m <= q PROVE FALSE
    BY <1>1, <1>4
  <2>1. t * (d + m) <= t * q
    BY <1>1, <1>4, MulMonotone
  <2>2. t * (d + m) \in Nat /\ t * q \in Nat
    BY <1>1, <1>4
  <2> QED BY <1>5, <2>1, <2>2
<1>8. t * d <= t * q /\ t * (q + 1) <= t * (d + m)
  BY <1>1, <1>4, <1>6, <1>7, MulMonotone
<1>9. t * (q + 1) = t * q + t /\ t * q \in Nat /\ t * d \in Nat /\ t * (d + m) \in Nat
  BY <1>1, <1>4
<1> QED BY <1>1, <1>2, <1>4, <1>8, <1>9

\* A shorter prefix has the larger block.
LEMMA BlocksShrink ==
    ASSUME NEW a \in PrefixInputs, NEW b \in PrefixInputs, a.version = b.version
    PROVE  Size(b) < Size(a) <=> a.prefixlen < b.prefixlen
<1>1. ASSUME NEW c \in PrefixInputs, NEW d \in PrefixInputs, c.version = d.version,
             c.prefixlen < d.prefixlen
      PROVE  Size(d) < Size(c)
  <2> DEFINE v == c.version
             i == Width[v] - c.prefixlen
             j == Width[v] - d.prefixlen
  <2>1. /\ v \in Versions /\ Width[v] \in Nat /\ i \in 0 .. Width[v]
        /\ Size(c) = BlockSizes(v)[i] /\ Size(c) \in Nat \ {0} /\ c.prefixlen \in 0 .. Width[v]
    BY SizeType
  <2>2. /\ j \in 0 .. Width[v] /\ d.prefixlen \in 0 .. Width[v]
        /\ Size(d) = BlockSizes(v)[j] /\ Size(d) \in Nat \ {0}
    BY <1>1, SizeType
  <2>3. j < i
    BY <1>1, <2>1, <2>2
  <2> HIDE DEF v, i, j
  <2>4. PICK m \in Nat : m >= 2 /\ Size(c) = Size(d) * m
    <3>1. \E m \in Nat : m >= 2 /\ BlockSizes(v)[i] = BlockSizes(v)[j] * m
      BY <2>1, <2>2, <2>3, BlockMultiples
    <3> QED BY <2>1, <2>2, <3>1
  <2>5. Size(d) * 2 <= Size(d) * m
    BY <2>2, <2>4, MulMonotone
  <2> QED BY <2>1, <2>2, <2>4, <2>5
<1>2. ASSUME a.prefixlen = b.prefixlen PROVE Size(a) = Size(b)
  BY <1>2 DEF Size
<1>3. /\ a.prefixlen \in Nat /\ b.prefixlen \in Nat /\ Size(a) \in Nat /\ Size(b) \in Nat
  BY SizeType
<1> QED BY <1>1, <1>2, <1>3

\* Two intervals share a number.
Meet(sa, ea, sb, eb) == \E x \in Nat : sa <= x /\ x <= ea /\ sb <= x /\ x <= eb

\* The addresses of a family from one to another.
Addressed(v, first, last) == {v} \X (first .. last)

\* Intervals of a family's addresses, as sets.
ComparedByEnds(va, sa, ea, vb, sb, eb) ==
    /\ Addressed(vb, sb, eb) \subseteq Addressed(va, sa, ea) <=> va = vb /\ sa <= sb /\ eb <= ea
    /\ Addressed(va, sa, ea) \cap Addressed(vb, sb, eb) # {} <=> va = vb /\ Meet(sa, ea, sb, eb)

\* Inclusion and intersection of two families' intervals, by where they end.
LEMMA TaggedIntervals ==
    ASSUME NEW va, NEW vb, NEW sa \in Nat, NEW sb \in Nat, NEW ea \in Nat, NEW eb \in Nat,
           sa <= ea, sb <= eb
    PROVE  ComparedByEnds(va, sa, ea, vb, sb, eb)
<1>1. <<vb, sb>> \in {vb} \X (sb .. eb) /\ <<vb, eb>> \in {vb} \X (sb .. eb)
  OBVIOUS
<1>2. ASSUME {vb} \X (sb .. eb) \subseteq {va} \X (sa .. ea) PROVE va = vb /\ sa <= sb /\ eb <= ea
  <2>1. <<vb, sb>> \in {va} \X (sa .. ea) /\ <<vb, eb>> \in {va} \X (sa .. ea)
    BY <1>1, <1>2
  <2> QED BY <2>1
<1>3. ASSUME va = vb, sa <= sb, eb <= ea PROVE {vb} \X (sb .. eb) \subseteq {va} \X (sa .. ea)
  <2>1. sb .. eb \subseteq sa .. ea
    BY <1>3
  <2> QED BY <1>3, <2>1
<1>4. ASSUME ({va} \X (sa .. ea)) \cap ({vb} \X (sb .. eb)) # {}
      PROVE  va = vb /\ \E x \in Nat : sa <= x /\ x <= ea /\ sb <= x /\ x <= eb
  <2>1. PICK z : z \in {va} \X (sa .. ea) /\ z \in {vb} \X (sb .. eb)
    BY <1>4
  <2>2. z[1] = va /\ z[1] = vb /\ z[2] \in sa .. ea /\ z[2] \in sb .. eb
    BY <2>1
  <2> QED BY <2>2
<1>5. ASSUME va = vb, NEW x \in Nat, sa <= x, x <= ea, sb <= x, x <= eb
      PROVE  ({va} \X (sa .. ea)) \cap ({vb} \X (sb .. eb)) # {}
  <2>1. <<va, x>> \in {va} \X (sa .. ea) /\ <<va, x>> \in {vb} \X (sb .. eb)
    BY <1>5
  <2> QED BY <2>1
<1> QED BY <1>2, <1>3, <1>4, <1>5 DEF ComparedByEnds, Meet, Addressed

\* Blocks as sets of addresses.
LEMMA BlocksAsSets ==
    ASSUME NEW a \in PrefixInputs, NEW b \in PrefixInputs
    PROVE  /\ Addresses(b) \subseteq Addresses(a) <=>
                a.version = b.version /\ Start(a) <= Start(b) /\ End(b) <= End(a)
           /\ Addresses(a) \cap Addresses(b) # {} <=>
                a.version = b.version /\ Meet(Start(a), End(a), Start(b), End(b))
<1> DEFINE va == a.version
           vb == b.version
           sa == Start(a)
           sb == Start(b)
           ea == End(a)
           eb == End(b)
<1>1. /\ sa \in Nat /\ ea \in Nat /\ sa <= ea
      /\ sb \in Nat /\ eb \in Nat /\ sb <= eb
  BY SizeType
<1>2. Addresses(a) = Addressed(va, sa, ea) /\ Addresses(b) = Addressed(vb, sb, eb)
  BY AddressesAreBlock DEF Addressed
<1> HIDE DEF va, vb, sa, sb, ea, eb
<1>4. ComparedByEnds(va, sa, ea, vb, sb, eb)
  BY <1>1, TaggedIntervals
<1>5. /\ Addresses(b) \subseteq Addresses(a) <=> va = vb /\ sa <= sb /\ eb <= ea
      /\ Addresses(a) \cap Addresses(b) # {} <=> va = vb /\ Meet(sa, ea, sb, eb)
  BY <1>2, <1>4, Zenon DEF ComparedByEnds
<1> QED BY <1>5, Zenon DEF va, vb, sa, sb, ea, eb

\* Each comparison is that of the sets of addresses.
LEMMA ComparedAsSets ==
    ASSUME NEW a \in PrefixInputs, NEW b \in PrefixInputs
    PROVE  /\ prefix_contains(a, b) <=> Addresses(b) \subseteq Addresses(a)
           /\ is_sub_prefix(a, b) <=>
                Addresses(b) \subseteq Addresses(a) /\ Addresses(a) # Addresses(b)
           /\ prefixes_overlap(a, b) <=> Addresses(a) \cap Addresses(b) # {}
<1> DEFINE A == Addresses(a)
           B == Addresses(b)
<1>1. /\ B \subseteq A <=> a.version = b.version /\ Start(a) <= Start(b) /\ End(b) <= End(a)
      /\ A \subseteq B <=> b.version = a.version /\ Start(b) <= Start(a) /\ End(a) <= End(b)
      /\ A = B <=> a.version = b.version /\ Start(a) = Start(b) /\ End(a) = End(b)
      /\ A \cap B # {} <=> a.version = b.version /\ Meet(Start(a), End(a), Start(b), End(b))
  <2>1. /\ B \subseteq A <=> a.version = b.version /\ Start(a) <= Start(b) /\ End(b) <= End(a)
        /\ A \cap B # {} <=> a.version = b.version /\ Meet(Start(a), End(a), Start(b), End(b))
    BY BlocksAsSets
  <2>2. A \subseteq B <=> b.version = a.version /\ Start(b) <= Start(a) /\ End(a) <= End(b)
    BY BlocksAsSets
  <2>3. /\ Start(a) \in Nat /\ End(a) \in Nat /\ Start(b) \in Nat /\ End(b) \in Nat
    BY SizeType
  <2>4. A = B <=> A \subseteq B /\ B \subseteq A
    OBVIOUS
  <2> HIDE DEF A, B
  <2> QED BY <2>1, <2>2, <2>3, <2>4
<1>2. /\ Start(a) \in Nat /\ End(a) \in Nat /\ Start(a) <= End(a)
      /\ Start(b) \in Nat /\ End(b) \in Nat /\ Start(b) <= End(b)
      /\ Size(a) \in Nat /\ Size(b) \in Nat /\ a.prefixlen \in Nat /\ b.prefixlen \in Nat
  BY SizeType
<1>3. /\ prefix_contains(a, b) <=>
            a.version = b.version /\ Start(a) <= Start(b) /\ End(b) <= End(a)
      /\ prefix_contains(b, a) <=>
            b.version = a.version /\ Start(b) <= Start(a) /\ End(a) <= End(b)
      /\ is_sub_prefix(a, b) <=>
            a.version = b.version /\ a.prefixlen < b.prefixlen /\ prefix_contains(a, b)
  <2>1. ASSUME NEW c \in PrefixInputs, NEW d \in PrefixInputs
        PROVE  prefix_contains(c, d) <=>
                    c.version = d.version /\ Start(c) <= Start(d) /\ End(d) <= End(c)
    <3>1. /\ parse_prefix(c).version = c.version /\ parse_prefix(d).version = d.version
          /\ parse_prefix(c).network_address = Start(c)
          /\ parse_prefix(d).network_address = Start(d)
          /\ broadcast_address(parse_prefix(c)) = End(c)
          /\ broadcast_address(parse_prefix(d)) = End(d)
      BY ParsedIsBlock
    <3>2. Start(c) \in Nat /\ Start(d) \in Nat
      BY SizeType
    <3> QED BY <3>1, <3>2 DEF prefix_contains
  <2>2. /\ parse_prefix(a).version = a.version /\ parse_prefix(b).version = b.version
        /\ parse_prefix(a).prefixlen = a.prefixlen /\ parse_prefix(b).prefixlen = b.prefixlen
    BY ParsedIsBlock
  <2>3. is_sub_prefix(a, b) <=>
            a.version = b.version /\ b.prefixlen > a.prefixlen /\ prefix_contains(a, b)
    BY <2>2 DEF is_sub_prefix
  <2> QED BY <1>2, <2>1, <2>3
<1> HIDE DEF A, B
<1>4. prefix_contains(a, b) <=> B \subseteq A
  BY <1>1, <1>3
<1>5. is_sub_prefix(a, b) <=> B \subseteq A /\ A # B
  <2>1. ASSUME a.version = b.version, Start(a) <= Start(b), End(b) <= End(a)
        PROVE  ~(Start(a) = Start(b) /\ End(a) = End(b)) <=> a.prefixlen < b.prefixlen
    <3>1. End(a) = Start(a) + Size(a) - 1 /\ End(b) = Start(b) + Size(b) - 1
      BY DEF End
    <3>2. ~(Start(a) = Start(b) /\ End(a) = End(b)) <=> Size(b) < Size(a)
      BY <1>2, <2>1, <3>1
    <3>3. Size(b) < Size(a) <=> a.prefixlen < b.prefixlen
      BY <2>1, BlocksShrink
    <3> QED BY <3>2, <3>3
  <2> QED BY <1>1, <1>3, <1>4, <2>1
<1>6. prefixes_overlap(a, b) <=> A \cap B # {}
  <2>1. prefixes_overlap(a, b) <=> prefix_contains(a, b) \/ prefix_contains(b, a)
    BY DEF prefixes_overlap
  <2>2. ASSUME prefix_contains(a, b)
        PROVE  a.version = b.version /\ Meet(Start(a), End(a), Start(b), End(b))
    <3>1. a.version = b.version /\ Start(a) <= Start(b) /\ End(b) <= End(a)
      BY <1>3, <2>2
    <3>2. Start(b) <= End(a)
      BY <1>2, <3>1
    <3> QED BY <1>2, <3>1, <3>2 DEF Meet
  <2>3. ASSUME prefix_contains(b, a)
        PROVE  a.version = b.version /\ Meet(Start(a), End(a), Start(b), End(b))
    <3>1. a.version = b.version /\ Start(b) <= Start(a) /\ End(a) <= End(b)
      BY <1>3, <2>3
    <3>2. Start(a) <= End(b)
      BY <1>2, <3>1
    <3> QED BY <1>2, <3>1, <3>2 DEF Meet
  <2>4. ASSUME a.version = b.version, Meet(Start(a), End(a), Start(b), End(b))
        PROVE  prefix_contains(a, b) \/ prefix_contains(b, a)
    <3>0. PICK x \in Nat : Start(a) <= x /\ x <= End(a) /\ Start(b) <= x /\ x <= End(b)
      BY <2>4 DEF Meet
    <3>1. CASE a.prefixlen <= b.prefixlen
      BY <1>3, <2>4, <3>0, <3>1, BlocksNest
    <3>2. CASE b.prefixlen <= a.prefixlen
      BY <1>3, <2>4, <3>0, <3>2, BlocksNest
    <3> QED BY <1>2, <3>1, <3>2
  <2> QED BY <1>1, <2>1, <2>2, <2>3, <2>4
<1> QED BY <1>4, <1>5, <1>6 DEF A, B

\* Which prefixes a step that leaves a comparison behind has compared.
LEMMA CompareDone ==
    ASSUME Next, call'.op = "compare"
    PROVE  \E a \in PrefixInputs, b \in PrefixInputs : Compare(a, b)
<1>1. ASSUME NEW bgp, NEW tr, NEW reached, Evaluate(bgp, tr, reached) PROVE FALSE
  BY <1>1 DEF Evaluate
<1>2. ASSUME NEW raw, Parse(raw) PROVE FALSE
  BY <1>2 DEF Parse
<1>3. ASSUME NEW answers, CheckExpiry(answers) PROVE FALSE
  BY <1>3 DEF CheckExpiry
<1> QED BY <1>1, <1>2, <1>3 DEF Next

\* Whatever the widths of the families and the prefixes, as they may be written.
THEOREM ComparisonsAreOfSets == Spec => []PrefixesAreSets
<1>1. Init => PrefixesAreSets
  <2>1. Init => call.op # "compare"
    BY DEF Init
  <2> QED BY <2>1 DEF PrefixesAreSets
<1>2. PrefixesAreSets /\ [Next]_call => PrefixesAreSets'
  <2> SUFFICES ASSUME PrefixesAreSets, [Next]_call, call'.op = "compare" PROVE PrefixesAreSets'
    BY DEF PrefixesAreSets
  <2>1. CASE Next
    <3>1. PICK a \in PrefixInputs, b \in PrefixInputs : Compare(a, b)
      BY <2>1, CompareDone
    <3>2. /\ call'.a = a /\ call'.b = b
          /\ call'.contains = prefix_contains(a, b)
          /\ call'.sub = is_sub_prefix(a, b)
          /\ call'.overlap = prefixes_overlap(a, b)
      BY <3>1 DEF Compare
    <3>3. /\ call'.contains <=> Addresses(b) \subseteq Addresses(a)
          /\ call'.sub <=> Addresses(b) \subseteq Addresses(a) /\ Addresses(a) # Addresses(b)
          /\ call'.overlap <=> Addresses(a) \cap Addresses(b) # {}
      BY <3>2, ComparedAsSets
    <3> QED BY <3>2, <3>3 DEF PrefixesAreSets
  <2>2. CASE UNCHANGED call
    BY <2>2 DEF PrefixesAreSets
  <2> QED BY <2>1, <2>2
<1> QED BY <1>1, <1>2, PTL DEF Spec

-----------------------------------------------------------------------------
(* _check_roa_expiry.                                                      *)

\* What get_roas_for_prefix does with one entry, and the lists it has after each.
ListStep(roas, roa, prefix) == IF roa.prefix = prefix THEN Append(roas, roa) ELSE roas

Lists(path, answer, prefix, S) ==
    /\ path \in [0 .. Len(answer.roas) -> Seq(S)]
    /\ path[0] = <<>>
    /\ \A k \in 1 .. Len(answer.roas) : path[k] = ListStep(path[k - 1], answer.roas[k], prefix)

\* get_roas_for_prefix goes through the entries in their order.
LEMMA ListSteps ==
    ASSUME NEW S, NEW answer, answer.roas \in Seq(S), answer.kind # "failed", NEW prefix
    PROVE  \E path : /\ Lists(path, answer, prefix, S)
                     /\ get_roas_for_prefix(answer, prefix) = path[Len(answer.roas)]
<1> DEFINE seq == answer.roas
           A == Seq(S)
           N == Len(seq)
           f == [p \in A \X (1 .. N) |-> ListStep(p[1], seq[p[2]], prefix)]
           Is(it) == it = [s \in SUBSET DOMAIN seq |->
                IF s = {} THEN <<>> ELSE ListStep(it[s \ {Max(s)}], seq[Max(s)], prefix)]
<1>1. f \in [A \X (1 .. N) -> A]
  BY DEF ListStep
<1>2. N \in Nat /\ DOMAIN seq = 1 .. N /\ <<>> \in A
  OBVIOUS
<1>3. PICK h : FoldsTo(h, N, A, <<>>, f)
  <2> HIDE DEF f, A, N
  <2> QED BY <1>1, <1>2, FoldExists
<1>4. ASSUME NEW s \in SUBSET (1 .. N), s # {}, NEW a \in A
      PROVE  f[<<a, Max(s)>>] = ListStep(a, seq[Max(s)], prefix)
  <2>1. Max(s) \in 1 .. N
    BY <1>2, <1>4, MaxInside
  <2> HIDE DEF A, N, seq
  <2> QED BY <1>4, <2>1
<1>5. Is(h)
  <2>1. h \in [SUBSET DOMAIN seq -> A]
    BY <1>2, <1>3 DEF FoldsTo
  <2>2. ASSUME NEW s \in SUBSET DOMAIN seq
        PROVE  h[s] = IF s = {} THEN <<>> ELSE ListStep(h[s \ {Max(s)}], seq[Max(s)], prefix)
    <3>1. s \in SUBSET (1 .. N) /\ h[s \ {Max(s)}] \in A
      BY <1>2, <1>3 DEF FoldsTo
    <3>2. h[s] = IF s = {} THEN <<>> ELSE f[<<h[s \ {Max(s)}], Max(s)>>]
      <4> HIDE DEF f
      <4> QED BY <1>3, <3>1 DEF FoldsTo
    <3> HIDE DEF f, A, N, seq
    <3> QED BY <1>4, <3>1, <3>2
  <2> HIDE DEF A, seq
  <2> QED BY <2>1, <2>2
<1> DEFINE iter == CHOOSE it : Is(it)
<1>6. Is(iter)
  <2> HIDE DEF Is
  <2> QED BY <1>5
<1>7. get_roas_for_prefix(answer, prefix) = iter[1 .. N]
  <2>1. get_roas_for_prefix(answer, prefix) = iter[DOMAIN seq]
    BY DEF get_roas_for_prefix, FoldLeft, MapThenFoldSet, ListStep
  <2> HIDE DEF iter
  <2> QED BY <1>2, <2>1
<1> HIDE DEF iter
<1>8. Recurses(iter, N, A, <<>>, f)
  <2>1. iter[{}] = <<>>
    BY <1>6
  <2>2. ASSUME NEW s \in SUBSET (1 .. N), s # {}, iter[s \ {Max(s)}] \in A
        PROVE  iter[s] = f[<<iter[s \ {Max(s)}], Max(s)>>]
    <3>1. iter[s] = ListStep(iter[s \ {Max(s)}], seq[Max(s)], prefix)
      BY <1>2, <1>6, <2>2
    <3> HIDE DEF f, A, N, seq
    <3> QED BY <1>4, <2>2, <3>1
  <2> HIDE DEF f, A, N
  <2> QED BY <2>1, <2>2 DEF Recurses
<1> DEFINE path == [k \in 0 .. N |-> iter[1 .. k]]
<1>9. StepsAlong(path, N, A, <<>>, f)
  <2> HIDE DEF f, A, N
  <2> QED BY <1>1, <1>2, <1>8, FoldUnfolds
<1>10. path[N] = iter[1 .. N]
  BY <1>2
<1> HIDE DEF path
<1>11. ASSUME NEW k \in 1 .. N
       PROVE  path[k] = ListStep(path[k - 1], seq[k], prefix)
  <2>1. path[k] = f[<<path[k - 1], k>>]
    <3> HIDE DEF f
    <3> QED BY <1>2, <1>9 DEF StepsAlong
  <2>2. path[k - 1] \in A
    <3>1. path \in [0 .. N -> A] /\ k - 1 \in 0 .. N
      <4> HIDE DEF f, A
      <4> QED BY <1>9 DEF StepsAlong
    <3> HIDE DEF A, N
    <3> QED BY <3>1
  <2> HIDE DEF A, N, seq
  <2> QED BY <2>1, <2>2
<1>12. Lists(path, answer, prefix, S)
  <2> HIDE DEF f
  <2> QED BY <1>9, <1>11 DEF StepsAlong, Lists
<1> QED BY <1>7, <1>10, <1>12

\* The list is that of the entries written like the prefix.
LEMMA ListedROAs ==
    ASSUME NEW S, NEW answer, answer.roas \in Seq(S), answer.kind # "failed", NEW prefix
    PROVE  LET roas == get_roas_for_prefix(answer, prefix)
           IN  /\ roas \in Seq(S)
               /\ Range(roas) = {roa \in Range(answer.roas) : roa.prefix = prefix}
<1> DEFINE seq == answer.roas
           N == Len(seq)
<1>1. PICK path : Lists(path, answer, prefix, S) /\ get_roas_for_prefix(answer, prefix) = path[N]
  BY ListSteps
<1> DEFINE Q(k) == Range(path[k]) = {roa \in {seq[j] : j \in 1 .. k} : roa.prefix = prefix}
           T == {k \in Nat : k <= N => Q(k)}
<1>2. 0 \in T
  <2>1. path[0] = <<>> /\ Range(<<>>) = {} /\ {seq[j] : j \in 1 .. 0} = {}
    BY <1>1 DEF Lists, Range
  <2> QED BY <2>1
<1>3. ASSUME NEW k \in T PROVE k + 1 \in T
  <2>1. SUFFICES ASSUME k + 1 <= N PROVE Q(k + 1)
    OBVIOUS
  <2>2. k \in Nat /\ k \in 0 .. N /\ k + 1 \in 1 .. N /\ (k + 1) - 1 = k /\ Q(k)
    BY <2>1
  <2> DEFINE a == path[k]
             x == seq[k + 1]
             b == path[k + 1]
  <2>3. a \in Seq(S) /\ b = ListStep(a, x, prefix) /\ x \in S
    BY <1>1, <2>2 DEF Lists
  <2>4. {seq[j] : j \in 1 .. (k + 1)} = {seq[j] : j \in 1 .. k} \cup {x}
    BY <2>2
  <2>5. Range(b) = IF x.prefix = prefix THEN Range(a) \cup {x} ELSE Range(a)
    <3> HIDE DEF a, b, x
    <3>1. CASE b = Append(a, x)
      <4>1. Range(b) = Range(a) \cup {x}
        BY <2>3, <3>1 DEF Range
      <4>2. x.prefix # prefix => b = a
        BY <2>3 DEF ListStep
      <4> QED BY <2>3, <3>1, <4>1, <4>2 DEF ListStep
    <3> QED BY <2>3, <3>1 DEF ListStep
  <2> HIDE DEF x, a, b
  <2>6. Range(b) = {roa \in {seq[j] : j \in 1 .. k} \cup {x} : roa.prefix = prefix}
    BY <2>2, <2>5 DEF a
  <2> QED BY <2>4, <2>6 DEF b, x
<1>4. T = Nat
  <2>1. T \in SUBSET Nat
    OBVIOUS
  <2> HIDE DEF T
  <2> QED BY <1>2, <1>3, <2>1, InductiveSet
<1>5. N \in Nat /\ N \in 0 .. N /\ {seq[j] : j \in 1 .. N} = Range(seq)
  BY DEF Range
<1>6. Q(N)
  BY <1>4, <1>5
<1>7. path[N] \in Seq(S)
  BY <1>1, <1>5 DEF Lists
<1> HIDE DEF T
<1> QED BY <1>1, <1>5, <1>6, <1>7

\* The first threshold reached is one of the configuration's, if any of them is reached.
LEMMA ThresholdReached ==
    ASSUME NEW days \in Int
    PROVE  /\ Threshold(days, Thresholds) \in Nat
           /\ Threshold(days, Thresholds) # 0 <=> \E t \in Range(Thresholds) : days <= t
<1> DEFINE reached == {i \in DOMAIN Thresholds : days <= Thresholds[i]}
<1>1. Thresholds \in Seq(Nat \ {0}) /\ DOMAIN Thresholds \subseteq Nat
      /\ \A i \in DOMAIN Thresholds : Thresholds[i] \in Nat \ {0}
  <2>1. Thresholds \in Seq(Nat \ {0})
    BY PathAssumption
  <2> QED BY <2>1
<1>2. reached # {} <=> \E t \in Range(Thresholds) : days <= t
  BY DEF Range
<1>3. reached # {} => Min(reached) \in reached
  BY <1>1, MinInside
<1>4. Threshold(days, Thresholds) = IF reached = {} THEN 0 ELSE Thresholds[Min(reached)]
  BY DEF Threshold
<1>5. reached # {} => Thresholds[Min(reached)] \in Nat \ {0}
  BY <1>1, <1>3
<1> HIDE DEF reached
<1> QED BY <1>2, <1>4, <1>5

Keys == Range(MonitoredByROA) \X Holders

ROAs ==
    [prefix : {"p", "q", "covering"}, asn : Holders, not_after : Expiries \cup {NoDate, BadDate}]

Passes ==
    [gauge : [Keys -> Expiries \cup {NoDate}], warned : SUBSET (Keys \X Nat), aborted : BOOLEAN]

\* The days left of those of some ROAs that are for a prefix and AS.
DaysOf(listed, key) ==
    {days \in Expiries : \E roa \in listed :
                            <<roa.prefix, roa.asn>> = key /\ roa.not_after = days}

\* A pass shows ROAs: no key's are hidden.
Warned(pass, key) == \E w \in pass.warned : w[1] = key

Urgent(days) == \E d \in days : \E t \in Range(Thresholds) : d <= t

ShowsKey(pass, days, key) ==
    /\ IF days = {} THEN pass.gauge[key] = NoDate ELSE pass.gauge[key] \in days
    /\ Warned(pass, key) <=> Urgent(days)

Shows(pass, listed) == \A key \in Keys : ShowsKey(pass, DaysOf(listed, key), key)

\* What one ROA adds to a pass.
LEMMA OneROA ==
    ASSUME NEW pass \in Passes, NEW listed, Shows(pass, listed),
           NEW roa \in ROAs, roa.prefix \in Range(MonitoredByROA),
           NEW next, next = CheckROA(pass, roa, Thresholds)
    PROVE  next \in Passes /\ next.aborted = pass.aborted /\ Shows(next, listed \cup {roa})
<1> DEFINE key0 == <<roa.prefix, roa.asn>>
           d0 == roa.not_after
           t0 == Threshold(d0, Thresholds)
<1>1. key0 \in Keys /\ d0 \in Expiries \cup {NoDate, BadDate}
  BY DEF Keys, ROAs
<1>2. Expiries \subseteq Int /\ NoDate \notin Expiries /\ BadDate \notin Expiries
  BY PathAssumption
<1>3. ASSUME NEW key \in Keys
      PROVE  DaysOf(listed \cup {roa}, key) =
                IF key = key0 /\ d0 \in Expiries THEN DaysOf(listed, key) \cup {d0}
                ELSE DaysOf(listed, key)
  BY DEF DaysOf
<1>4. CASE d0 \notin Expiries
  <2>1. next = pass
    BY <1>1, <1>4 DEF CheckROA
  <2>2. \A key \in Keys : DaysOf(listed \cup {roa}, key) = DaysOf(listed, key)
    BY <1>3, <1>4
  <2> QED BY <2>1, <2>2 DEF Shows
<1>5. CASE d0 \in Expiries
  <2>1. /\ t0 \in Nat
        /\ t0 # 0 <=> Urgent({d0})
    BY <1>2, <1>5, ThresholdReached DEF Urgent
  <2>2. next = ShowROA(pass, roa, Thresholds)
    BY <1>2, <1>5 DEF CheckROA
  <2> HIDE DEF key0, d0, t0
  <2>3. next = [pass EXCEPT !.gauge[key0] = d0,
                            !.warned = IF t0 = 0 THEN @ ELSE @ \cup {<<key0, t0>>}]
    BY <2>2 DEF ShowROA, key0, d0, t0
  <2>4. /\ pass.gauge \in [Keys -> Expiries \cup {NoDate}]
        /\ pass.warned \in SUBSET (Keys \X Nat)
        /\ pass.aborted \in BOOLEAN
        /\ pass = [gauge |-> pass.gauge, warned |-> pass.warned, aborted |-> pass.aborted]
    BY DEF Passes
  <2>5. /\ next = [gauge |-> next.gauge, warned |-> next.warned, aborted |-> next.aborted]
        /\ next.gauge = [pass.gauge EXCEPT ![key0] = d0]
        /\ next.warned = IF t0 = 0 THEN pass.warned ELSE pass.warned \cup {<<key0, t0>>}
        /\ next.aborted = pass.aborted
    BY <2>3, <2>4
  <2>6. /\ next.gauge \in [Keys -> Expiries \cup {NoDate}]
        /\ next.warned \in SUBSET (Keys \X Nat)
    BY <1>1, <1>5, <2>1, <2>4, <2>5
  <2>7. next \in Passes
    BY <2>4, <2>5, <2>6 DEF Passes
  <2>8. ASSUME NEW key \in Keys PROVE ShowsKey(next, DaysOf(listed \cup {roa}, key), key)
    <3> DEFINE days == DaysOf(listed, key)
    <3>1. ShowsKey(pass, days, key)
      BY DEF Shows
    <3>2. CASE key # key0
      <4>1. next.gauge[key] = pass.gauge[key]
        BY <2>4, <2>5, <3>2
      <4>2. Warned(next, key) <=> Warned(pass, key)
        BY <2>5, <3>2 DEF Warned
      <4>3. DaysOf(listed \cup {roa}, key) = days
        BY <1>3, <3>2
      <4> QED BY <3>1, <4>1, <4>2, <4>3 DEF ShowsKey
    <3>3. CASE key = key0
      <4>1. next.gauge[key] = d0
        BY <2>4, <2>5, <3>3
      <4>2. Warned(next, key) <=> Warned(pass, key) \/ t0 # 0
        <5> DEFINE w0 == <<key0, t0>>
        <5>1. w0[1] = key
          BY <3>3
        <5> HIDE DEF w0
        <5>2. CASE t0 = 0
          BY <2>5, <5>2 DEF Warned
        <5>3. CASE t0 # 0
          <6>1. next.warned = pass.warned \cup {w0}
            BY <2>5, <5>3 DEF w0
          <6> QED BY <5>1, <5>3, <6>1 DEF Warned
        <5> QED BY <5>2, <5>3
      <4>3. DaysOf(listed \cup {roa}, key) = days \cup {d0}
        BY <1>3, <1>5, <3>3 DEF d0, key0
      <4>4. Urgent(days \cup {d0}) <=> Urgent(days) \/ Urgent({d0})
        BY DEF Urgent
      <4> HIDE DEF days
      <4> QED BY <2>1, <3>1, <4>1, <4>2, <4>3, <4>4 DEF ShowsKey
    <3> QED BY <3>2, <3>3
  <2> QED BY <2>5, <2>7, <2>8 DEF Shows
<1> QED BY <1>4, <1>5

Monitored == {roa \in ROAs : roa.prefix \in Range(MonitoredByROA)}

\* The passes after each ROA of a list.
Checks(path, first, roas) ==
    /\ path \in [0 .. Len(roas) -> Passes]
    /\ path[0] = first
    /\ \A k \in 1 .. Len(roas) : path[k] = CheckROA(path[k - 1], roas[k], Thresholds)

\* A ROA leaves a pass a pass, whatever was shown before.
LEMMA CheckROAType ==
    ASSUME NEW pass \in Passes, NEW roa \in Monitored
    PROVE  CheckROA(pass, roa, Thresholds) \in Passes
<1>1. CASE roa.not_after \in {NoDate, BadDate}
  BY <1>1 DEF CheckROA
<1>2. CASE roa.not_after \notin {NoDate, BadDate}
  <2> DEFINE key0 == <<roa.prefix, roa.asn>>
             d0 == roa.not_after
             t0 == Threshold(d0, Thresholds)
             next == ShowROA(pass, roa, Thresholds)
  <2>1. key0 \in Keys /\ d0 \in Expiries
    BY <1>2 DEF Keys, ROAs, Monitored
  <2>2. t0 \in Nat
    BY <2>1, PathAssumption, ThresholdReached
  <2> HIDE DEF key0, d0, t0
  <2>3. next = [pass EXCEPT !.gauge[key0] = d0,
                            !.warned = IF t0 = 0 THEN @ ELSE @ \cup {<<key0, t0>>}]
    BY DEF ShowROA, key0, d0, t0
  <2>4. /\ pass.gauge \in [Keys -> Expiries \cup {NoDate}]
        /\ pass.warned \in SUBSET (Keys \X Nat)
        /\ pass.aborted \in BOOLEAN
        /\ pass = [gauge |-> pass.gauge, warned |-> pass.warned, aborted |-> pass.aborted]
    BY DEF Passes
  <2> HIDE DEF next
  <2>5. /\ next = [gauge |-> next.gauge, warned |-> next.warned, aborted |-> next.aborted]
        /\ next.gauge = [pass.gauge EXCEPT ![key0] = d0]
        /\ next.warned = IF t0 = 0 THEN pass.warned ELSE pass.warned \cup {<<key0, t0>>}
        /\ next.aborted = pass.aborted
    BY <2>3, <2>4
  <2>6. /\ next.gauge \in [Keys -> Expiries \cup {NoDate}]
        /\ next.warned \in SUBSET (Keys \X Nat)
    BY <2>1, <2>2, <2>4, <2>5
  <2>7. next \in Passes
    BY <2>4, <2>5, <2>6 DEF Passes
  <2> QED BY <1>2, <2>7 DEF CheckROA, next
<1> QED BY <1>1, <1>2

\* The loop of _check_roa_expiry goes through the ROAs of a prefix in their order.
LEMMA CheckSteps ==
    ASSUME NEW pass \in Passes, pass.aborted = FALSE, NEW prefix, NEW answer,
           answer.kind # "raises", get_roas_for_prefix(answer, prefix) \in Seq(Monitored)
    PROVE  LET roas == get_roas_for_prefix(answer, prefix)
           IN  \E path : /\ Checks(path, pass, roas)
                         /\ CheckPrefix(pass, prefix, answer, Thresholds) = path[Len(roas)]
<1> DEFINE seq == get_roas_for_prefix(answer, prefix)
           A == Passes
           N == Len(seq)
           f == [p \in A \X (1 .. N) |-> CheckROA(p[1], seq[p[2]], Thresholds)]
           Is(it) == it = [s \in SUBSET DOMAIN seq |->
                IF s = {} THEN pass ELSE CheckROA(it[s \ {Max(s)}], seq[Max(s)], Thresholds)]
<1>1. f \in [A \X (1 .. N) -> A]
  <2>1. ASSUME NEW a \in A, NEW k \in 1 .. N PROVE CheckROA(a, seq[k], Thresholds) \in A
    <3>1. seq[k] \in Monitored
      OBVIOUS
    <3> QED BY <3>1, CheckROAType
  <2> HIDE DEF A, seq
  <2> QED BY <2>1
<1>2. N \in Nat /\ DOMAIN seq = 1 .. N /\ pass \in A
  <2> HIDE DEF A
  <2> QED BY DEF A
<1>3. PICK h : FoldsTo(h, N, A, pass, f)
  <2> HIDE DEF f, A, N
  <2> QED BY <1>1, <1>2, FoldExists
<1>4. ASSUME NEW s \in SUBSET (1 .. N), s # {}, NEW a \in A
      PROVE  f[<<a, Max(s)>>] = CheckROA(a, seq[Max(s)], Thresholds)
  <2>1. Max(s) \in 1 .. N
    BY <1>2, <1>4, MaxInside
  <2> HIDE DEF A, N, seq
  <2> QED BY <1>4, <2>1
<1>5. Is(h)
  <2>1. h \in [SUBSET DOMAIN seq -> A]
    BY <1>2, <1>3 DEF FoldsTo
  <2>2. ASSUME NEW s \in SUBSET DOMAIN seq
        PROVE  h[s] = IF s = {} THEN pass ELSE CheckROA(h[s \ {Max(s)}], seq[Max(s)], Thresholds)
    <3>1. s \in SUBSET (1 .. N) /\ h[s \ {Max(s)}] \in A
      BY <1>2, <1>3 DEF FoldsTo
    <3>2. h[s] = IF s = {} THEN pass ELSE f[<<h[s \ {Max(s)}], Max(s)>>]
      <4> HIDE DEF f
      <4> QED BY <1>3, <3>1 DEF FoldsTo
    <3> HIDE DEF f, A, N, seq
    <3> QED BY <1>4, <3>1, <3>2
  <2> HIDE DEF A, seq
  <2> QED BY <2>1, <2>2
<1> DEFINE iter == CHOOSE it : Is(it)
<1>6. Is(iter)
  <2> HIDE DEF Is
  <2> QED BY <1>5
<1>7. CheckPrefix(pass, prefix, answer, Thresholds) = iter[1 .. N]
  <2>1. CheckPrefix(pass, prefix, answer, Thresholds)
            = FoldLeft(LAMBDA before, roa : CheckROA(before, roa, Thresholds), pass, seq)
    <3> HIDE DEF seq
    <3> QED BY DEF CheckPrefix, seq
  <2>2. FoldLeft(LAMBDA before, roa : CheckROA(before, roa, Thresholds), pass, seq)
            = iter[DOMAIN seq]
    <3> HIDE DEF seq
    <3> QED BY DEF FoldLeft, MapThenFoldSet
  <2> HIDE DEF iter
  <2> QED BY <1>2, <2>1, <2>2
<1> HIDE DEF iter
<1>8. Recurses(iter, N, A, pass, f)
  <2>1. iter[{}] = pass
    BY <1>6
  <2>2. ASSUME NEW s \in SUBSET (1 .. N), s # {}, iter[s \ {Max(s)}] \in A
        PROVE  iter[s] = f[<<iter[s \ {Max(s)}], Max(s)>>]
    <3>1. iter[s] = CheckROA(iter[s \ {Max(s)}], seq[Max(s)], Thresholds)
      BY <1>2, <1>6, <2>2
    <3> HIDE DEF f, A, N, seq
    <3> QED BY <1>4, <2>2, <3>1
  <2> HIDE DEF f, A, N
  <2> QED BY <2>1, <2>2 DEF Recurses
<1> DEFINE path == [k \in 0 .. N |-> iter[1 .. k]]
<1>9. StepsAlong(path, N, A, pass, f)
  <2> HIDE DEF f, A, N
  <2> QED BY <1>1, <1>2, <1>8, FoldUnfolds
<1>10. path[N] = iter[1 .. N]
  BY <1>2
<1> HIDE DEF path
<1>11. ASSUME NEW k \in 1 .. N
       PROVE  path[k] = CheckROA(path[k - 1], seq[k], Thresholds)
  <2>1. path[k] = f[<<path[k - 1], k>>]
    <3> HIDE DEF f
    <3> QED BY <1>2, <1>9 DEF StepsAlong
  <2>2. path[k - 1] \in A
    <3>1. path \in [0 .. N -> A] /\ k - 1 \in 0 .. N
      <4> HIDE DEF f, A
      <4> QED BY <1>9 DEF StepsAlong
    <3> HIDE DEF A, N
    <3> QED BY <3>1
  <2> HIDE DEF A, N, seq
  <2> QED BY <2>1, <2>2
<1>12. Checks(path, pass, seq)
  <2> HIDE DEF f, seq
  <2> QED BY <1>9, <1>11 DEF StepsAlong, Checks
<1> QED BY <1>7, <1>10, <1>12

\* What the ROAs of a list add to a pass.
LEMMA ROAsShown ==
    ASSUME NEW first \in Passes, NEW listed, Shows(first, listed), NEW roas \in Seq(Monitored),
           NEW path, Checks(path, first, roas), NEW last, last = path[Len(roas)]
    PROVE  last \in Passes /\ last.aborted = first.aborted /\ Shows(last, listed \cup Range(roas))
<1> DEFINE N == Len(roas)
           Q(k) == /\ path[k].aborted = first.aborted
                   /\ Shows(path[k], listed \cup {roas[j] : j \in 1 .. k})
           T == {k \in Nat : k <= N => Q(k)}
<1>1. 0 \in T
  <2>1. path[0] = first /\ listed \cup {roas[j] : j \in 1 .. 0} = listed
    BY DEF Checks
  <2> QED BY <2>1
<1>2. ASSUME NEW k \in T PROVE k + 1 \in T
  <2>1. SUFFICES ASSUME k + 1 <= N PROVE Q(k + 1)
    OBVIOUS
  <2>2. k \in Nat /\ k \in 0 .. N /\ k + 1 \in 1 .. N /\ (k + 1) - 1 = k /\ Q(k)
    BY <2>1
  <2> DEFINE so == listed \cup {roas[j] : j \in 1 .. k}
             roa == roas[k + 1]
  <2>3. path[k] \in Passes /\ path[k + 1] = CheckROA(path[k], roa, Thresholds)
    BY <2>2 DEF Checks
  <2>4. roa \in ROAs /\ roa.prefix \in Range(MonitoredByROA)
    <3>1. roas[k + 1] \in Monitored
      BY <2>2
    <3> QED BY <3>1 DEF Monitored
  <2>5. listed \cup {roas[j] : j \in 1 .. (k + 1)} = so \cup {roa}
    BY <2>2
  <2>6. path[k + 1].aborted = path[k].aborted /\ Shows(path[k + 1], so \cup {roa})
    <3>1. Shows(path[k], so)
      BY <2>2
    <3> DEFINE a == path[k]
               b == path[k + 1]
    <3>2. a \in Passes /\ b = CheckROA(a, roa, Thresholds) /\ Shows(a, so)
      BY <2>3, <3>1
    <3> HIDE DEF so, roa, a, b
    <3>3. b.aborted = a.aborted /\ Shows(b, so \cup {roa})
      BY <2>4, <3>2, OneROA
    <3> QED BY <3>3 DEF a, b
  <2> QED BY <2>2, <2>5, <2>6
<1>3. T = Nat
  <2>1. T \in SUBSET Nat
    OBVIOUS
  <2> HIDE DEF T
  <2> QED BY <1>1, <1>2, <2>1, InductiveSet
<1>4. N \in Nat /\ N \in 0 .. N /\ {roas[j] : j \in 1 .. N} = Range(roas)
  BY DEF Range
<1>5. Q(N)
  <2>1. N \in T
    BY <1>3, <1>4
  <2> HIDE DEF Q
  <2> QED BY <2>1
<1>6. path[N] \in Passes
  BY <1>4 DEF Checks
<1> HIDE DEF T
<1> QED BY <1>4, <1>5, <1>6

\* The entries of an answer that are written like a prefix.
OfPrefix(answer, prefix) == {roa \in Range(answer.roas) : roa.prefix = prefix}

\* The prefixes whose ROAs are monitored.
LEMMA MonitoredNames == MonitoredByROA = <<"p", "q">> /\ Range(MonitoredByROA) = {"p", "q"}
<1>1. DOMAIN <<"p", "q">> = {1, 2}
  OBVIOUS
<1> QED BY <1>1 DEF MonitoredByROA, Range

\* What Routinator may answer for a prefix.
LEMMA AnswersTyped ==
    ASSUME NEW prefix \in {"p", "q"}, NEW answer \in RoutinatorAnswers(prefix)
    PROVE  /\ answer.roas \in Seq(ROAs)
           /\ \A roa \in Range(answer.roas) : roa.prefix \in {prefix, "covering"}
           /\ answer.kind # "listed" => answer.roas = <<>>
           /\ answer.kind \in {"failed", "raises", "listed"}
<1>1. CASE answer \in [kind : {"failed", "raises"}, roas : {<<>>}]
  <2>1. answer.roas = <<>> /\ answer.kind \in {"failed", "raises"}
    BY <1>1
  <2>2. <<>> \in Seq(ROAs) /\ Range(<<>>) = {}
    BY DEF Range
  <2> QED BY <2>1, <2>2
<1>2. CASE answer \in [kind : {"listed"},
                     roas : UNION {[1..n -> ListedFor(prefix)] : n \in 0..MaxROAs}]
  <2>1. /\ answer.kind = "listed"
        /\ answer.roas \in UNION {[1..n -> ListedFor(prefix)] : n \in 0..MaxROAs}
    BY <1>2
  <2>2. PICK n \in 0 .. MaxROAs : answer.roas \in [1 .. n -> ListedFor(prefix)]
    BY <2>1
  <2>3. n \in Nat
    BY PathAssumption
  <2>4. ASSUME NEW roa \in ListedFor(prefix)
        PROVE  roa \in ROAs /\ roa.prefix \in {prefix, "covering"}
    <3>1. CASE roa \in [prefix : {prefix}, asn : Holders,
                        not_after : Expiries \cup {NoDate, BadDate}]
      BY <3>1 DEF ROAs
    <3>2. CASE roa \in [prefix : {"covering"}, asn : Holders, not_after : Expiries]
      BY <3>2 DEF ROAs
    <3> QED BY <3>1, <3>2 DEF ListedFor
  <2>5. answer.roas \in Seq(ListedFor(prefix))
    BY <2>2, <2>3
  <2>6. answer.roas \in Seq(ROAs)
    BY <2>2, <2>3, <2>4
  <2>7. \A roa \in Range(answer.roas) : roa \in ListedFor(prefix)
    BY <2>2 DEF Range
  <2> QED BY <2>1, <2>4, <2>6, <2>7
<1> QED BY <1>1, <1>2 DEF RoutinatorAnswers

\* What one prefix adds to a pass: nothing after an exception, and else all that the
\* answer for it has.
LEMMA OnePrefix ==
    ASSUME NEW pass \in Passes, NEW listed, Shows(pass, listed), NEW prefix \in {"p", "q"},
           NEW answer \in RoutinatorAnswers(prefix),
           NEW next, next = CheckPrefix(pass, prefix, answer, Thresholds)
    PROVE  /\ next \in Passes
           /\ next.aborted <=> pass.aborted \/ answer.kind = "raises"
           /\ Shows(next, IF pass.aborted THEN listed ELSE listed \cup OfPrefix(answer, prefix))
<1>1. /\ answer.roas \in Seq(ROAs)
      /\ answer.kind # "listed" => answer.roas = <<>>
      /\ answer.kind \in {"failed", "raises", "listed"}
  BY AnswersTyped
<1>2. pass.aborted \in BOOLEAN
  BY DEF Passes
<1>3. CASE pass.aborted
  <2>1. next = pass
    BY <1>3 DEF CheckPrefix
  <2> QED BY <1>3, <2>1
<1>4. CASE ~pass.aborted /\ answer.kind = "raises"
  <2>1. next = [pass EXCEPT !.aborted = TRUE]
    BY <1>4 DEF CheckPrefix
  <2>2. /\ next \in Passes /\ next.aborted = TRUE
        /\ next.gauge = pass.gauge /\ next.warned = pass.warned
    BY <2>1 DEF Passes
  <2>3. Shows(next, listed)
    <3>1. ASSUME NEW key \in Keys PROVE ShowsKey(next, DaysOf(listed, key), key)
      <4>1. ShowsKey(pass, DaysOf(listed, key), key)
        BY DEF Shows
      <4> QED BY <2>2, <4>1 DEF ShowsKey, Warned
    <3> QED BY <3>1 DEF Shows
  <2>4. OfPrefix(answer, prefix) = {}
    <3>1. Range(<<>>) = {}
      BY DEF Range
    <3> QED BY <1>1, <1>4, <3>1 DEF OfPrefix
  <2>5. listed \cup OfPrefix(answer, prefix) = listed
    BY <2>4
  <2> QED BY <1>4, <2>2, <2>3, <2>5
<1>5. CASE ~pass.aborted /\ answer.kind # "raises"
  <2> DEFINE roas == get_roas_for_prefix(answer, prefix)
  <2>1. /\ roas \in Seq(ROAs)
        /\ Range(roas) = OfPrefix(answer, prefix)
    <3>1. CASE answer.kind = "failed"
      <4>1. roas = <<>> /\ answer.roas = <<>>
        BY <1>1, <3>1 DEF get_roas_for_prefix
      <4>2. Range(<<>>) = {} /\ <<>> \in Seq(ROAs)
        BY DEF Range
      <4>3. OfPrefix(answer, prefix) = {}
        BY <4>1, <4>2 DEF OfPrefix
      <4> QED BY <4>1, <4>2, <4>3
    <3>2. CASE answer.kind # "failed"
      BY <1>1, <3>2, ListedROAs DEF OfPrefix
    <3> QED BY <3>1, <3>2
  <2>2. roas \in Seq(Monitored)
    <3>1. ASSUME NEW i \in 1 .. Len(roas) PROVE roas[i] \in Monitored
      <4>1. roas[i] \in ROAs /\ roas[i] \in Range(roas)
        <5> HIDE DEF roas
        <5> QED BY <2>1 DEF Range
      <4>2. roas[i].prefix = prefix
        BY <2>1, <4>1 DEF OfPrefix
      <4> QED BY <4>1, <4>2, MonitoredNames DEF Monitored
    <3> HIDE DEF roas
    <3> QED BY <2>1, <3>1
  <2>3. pass.aborted = FALSE
    BY <1>2, <1>5
  <2>4. PICK path : Checks(path, pass, roas) /\ next = path[Len(roas)]
    BY <1>5, <2>2, <2>3, CheckSteps
  <2>5. next \in Passes /\ next.aborted = pass.aborted /\ Shows(next, listed \cup Range(roas))
    <3> HIDE DEF roas
    <3> QED BY <2>2, <2>4, ROAsShown
  <2> HIDE DEF roas
  <2> QED BY <1>5, <2>1, <2>3, <2>5
<1> QED BY <1>3, <1>4, <1>5

\* The passes that show some ROAs.
Showing == {a \in Passes : \E listed \in SUBSET ROAs : Shows(a, listed)}

\* The loop of one prefix leaves a pass that shows some ROAs.
LEMMA PrefixKeepsShowing ==
    ASSUME NEW a \in Showing, NEW prefix \in {"p", "q"}, NEW answer \in RoutinatorAnswers(prefix)
    PROVE  CheckPrefix(a, prefix, answer, Thresholds) \in Showing
<1>1. PICK listed \in SUBSET ROAs : Shows(a, listed)
  BY DEF Showing
<1>2. a \in Passes
  BY DEF Showing
<1>3. OfPrefix(answer, prefix) \in SUBSET ROAs
  <2>1. answer.roas \in Seq(ROAs)
    BY AnswersTyped
  <2> QED BY <2>1 DEF OfPrefix, Range
<1> DEFINE next == CheckPrefix(a, prefix, answer, Thresholds)
           more == IF a.aborted THEN listed ELSE listed \cup OfPrefix(answer, prefix)
<1>4. next \in Passes /\ Shows(next, more)
  BY <1>1, <1>2, OnePrefix
<1>5. more \in SUBSET ROAs
  BY <1>3
<1> HIDE DEF next, more
<1> QED BY <1>4, <1>5 DEF Showing, next

\* The pass over the two prefixes, in turn.
LEMMA PassSteps ==
    ASSUME NEW first \in RoutinatorAnswers("p"), NEW second \in RoutinatorAnswers("q"),
           NEW answers, answers = <<first, second>>,
           NEW start, start = [gauge |-> NoneShown, warned |-> {}, aborted |-> FALSE]
    PROVE  /\ start \in Passes /\ Shows(start, {})
           /\ check_roa_expiry(NoneShown, MonitoredByROA, answers, Thresholds)
                = CheckPrefix(CheckPrefix(start, "p", first, Thresholds), "q", second, Thresholds)
<1> DEFINE seq == [i \in DOMAIN MonitoredByROA |-> i]
           A == Showing
           Step(a, i) == CheckPrefix(a, MonitoredByROA[i], answers[i], Thresholds)
           f == [p \in A \X (1 .. 2) |-> Step(p[1], p[2])]
           Is(it) == it = [s \in SUBSET DOMAIN seq |->
                IF s = {} THEN start ELSE Step(it[s \ {Max(s)}], seq[Max(s)])]
<1>1. start \in Passes /\ Shows(start, {})
  <2>1. start \in Passes
    BY DEF Passes, NoneShown, Keys
  <2>2. ASSUME NEW key \in Keys PROVE ShowsKey(start, DaysOf({}, key), key)
    <3>1. DaysOf({}, key) = {}
      BY DEF DaysOf
    <3>2. start.gauge[key] = NoDate
      BY DEF Keys, NoneShown
    <3> QED BY <3>1, <3>2 DEF ShowsKey, Warned, Urgent
  <2> QED BY <2>1, <2>2 DEF Shows
<1>2. /\ DOMAIN MonitoredByROA = 1 .. 2
      /\ MonitoredByROA[1] = "p" /\ MonitoredByROA[2] = "q"
      /\ answers[1] = first /\ answers[2] = second
  BY MonitoredNames
<1>3. DOMAIN seq = 1 .. 2 /\ \A i \in 1 .. 2 : seq[i] = i
  BY <1>2
<1>4. f \in [A \X (1 .. 2) -> A] /\ start \in A
  <2>1. ASSUME NEW a \in A, NEW i \in 1 .. 2 PROVE Step(a, i) \in A
    <3>1. CASE i = 1
      BY <1>2, <3>1, PrefixKeepsShowing
    <3>2. CASE i = 2
      BY <1>2, <3>2, PrefixKeepsShowing
    <3> QED BY <3>1, <3>2
  <2>2. start \in A
    BY <1>1 DEF Showing
  <2> HIDE DEF A, Step
  <2> QED BY <2>1, <2>2
<1>5. PICK h : FoldsTo(h, 2, A, start, f)
  <2> HIDE DEF f, A
  <2> QED BY <1>4, FoldExists
<1>6. ASSUME NEW s \in SUBSET (1 .. 2), s # {}, NEW a \in A
      PROVE  f[<<a, Max(s)>>] = Step(a, seq[Max(s)])
  <2>1. Max(s) \in 1 .. 2
    BY <1>6, MaxInside
  <2>2. seq[Max(s)] = Max(s)
    BY <1>3, <2>1
  <2> HIDE DEF A, seq, Step
  <2> QED BY <1>6, <2>1, <2>2
<1>7. Is(h)
  <2>1. h \in [SUBSET DOMAIN seq -> A]
    BY <1>3, <1>5 DEF FoldsTo
  <2>2. ASSUME NEW s \in SUBSET DOMAIN seq
        PROVE  h[s] = IF s = {} THEN start ELSE Step(h[s \ {Max(s)}], seq[Max(s)])
    <3>1. s \in SUBSET (1 .. 2) /\ h[s \ {Max(s)}] \in A
      BY <1>3, <1>5 DEF FoldsTo
    <3>2. h[s] = IF s = {} THEN start ELSE f[<<h[s \ {Max(s)}], Max(s)>>]
      <4> HIDE DEF f
      <4> QED BY <1>5, <3>1 DEF FoldsTo
    <3> HIDE DEF f, A, seq, Step
    <3> QED BY <1>6, <3>1, <3>2
  <2> HIDE DEF A, seq, Step
  <2> QED BY <2>1, <2>2
<1> DEFINE iter == CHOOSE it : Is(it)
<1>8. Is(iter)
  <2> HIDE DEF Is
  <2> QED BY <1>7
<1>9. check_roa_expiry(NoneShown, MonitoredByROA, answers, Thresholds) = iter[1 .. 2]
  <2>1. check_roa_expiry(NoneShown, MonitoredByROA, answers, Thresholds) = iter[DOMAIN seq]
    BY DEF check_roa_expiry, FoldLeft, MapThenFoldSet
  <2> HIDE DEF iter
  <2> QED BY <1>3, <2>1
<1> HIDE DEF iter
<1>10. Recurses(iter, 2, A, start, f)
  <2>1. iter[{}] = start
    BY <1>8
  <2>2. ASSUME NEW s \in SUBSET (1 .. 2), s # {}, iter[s \ {Max(s)}] \in A
        PROVE  iter[s] = f[<<iter[s \ {Max(s)}], Max(s)>>]
    <3>1. iter[s] = Step(iter[s \ {Max(s)}], seq[Max(s)])
      BY <1>3, <1>8, <2>2
    <3> HIDE DEF f, A, seq, Step
    <3> QED BY <1>6, <2>2, <3>1
  <2> HIDE DEF f, A
  <2> QED BY <2>1, <2>2 DEF Recurses
<1> DEFINE path == [k \in 0 .. 2 |-> iter[1 .. k]]
<1>11. StepsAlong(path, 2, A, start, f)
  <2> HIDE DEF f, A
  <2> QED BY <1>4, <1>10, FoldUnfolds
<1>12. path[2] = iter[1 .. 2]
  OBVIOUS
<1> HIDE DEF path
<1>13. /\ path \in [0 .. 2 -> A] /\ path[0] = start
       /\ path[1] = f[<<path[0], 1>>] /\ path[2] = f[<<path[1], 2>>]
  <2>1. 1 \in 1 .. 2 /\ 2 \in 1 .. 2 /\ 1 - 1 = 0 /\ 2 - 1 = 1
    OBVIOUS
  <2>2. /\ path \in [0 .. 2 -> A] /\ path[0] = start
        /\ path[1] = f[<<path[1 - 1], 1>>] /\ path[2] = f[<<path[2 - 1], 2>>]
    <3> HIDE DEF f, A
    <3> QED BY <1>11, <2>1 DEF StepsAlong
  <2> HIDE DEF f, A
  <2> QED BY <2>1, <2>2
<1>14. path[1] = Step(path[0], 1) /\ path[2] = Step(path[1], 2)
  <2>1. path[0] \in A /\ path[1] \in A
    <3>1. 0 \in 0 .. 2 /\ 1 \in 0 .. 2
      OBVIOUS
    <3> HIDE DEF f, A
    <3> QED BY <1>13, <3>1
  <2>2. f[<<path[0], 1>>] = Step(path[0], 1) /\ f[<<path[1], 2>>] = Step(path[1], 2)
    <3>1. ASSUME NEW a \in A, NEW i \in 1 .. 2 PROVE f[<<a, i>>] = Step(a, i)
      <4> HIDE DEF A, Step
      <4> QED OBVIOUS
    <3>2. 1 \in 1 .. 2 /\ 2 \in 1 .. 2
      OBVIOUS
    <3> HIDE DEF f, A, Step
    <3> QED BY <2>1, <3>1, <3>2
  <2> HIDE DEF f, A, Step
  <2> QED BY <1>13, <2>2
<1> QED BY <1>1, <1>2, <1>9, <1>12, <1>13, <1>14

\* What was listed before an exception.
ListedBefore(first, second) ==
    IF first.kind = "raises" THEN OfPrefix(first, "p")
    ELSE OfPrefix(first, "p") \cup OfPrefix(second, "q")

\* A pass shows what Routinator listed before an exception.
LEMMA PassShows ==
    ASSUME NEW first \in RoutinatorAnswers("p"), NEW second \in RoutinatorAnswers("q"),
           NEW pass,
           pass = check_roa_expiry(NoneShown, MonitoredByROA, <<first, second>>, Thresholds)
    PROVE  pass \in Passes /\ Shows(pass, ListedBefore(first, second))
<1> DEFINE start == [gauge |-> NoneShown, warned |-> {}, aborted |-> FALSE]
           middle == CheckPrefix(start, "p", first, Thresholds)
<1>1. /\ start \in Passes /\ Shows(start, {})
      /\ pass = CheckPrefix(middle, "q", second, Thresholds)
  BY PassSteps
<1>2. start.aborted = FALSE
  OBVIOUS
<1> HIDE DEF start
<1>3. /\ middle \in Passes
      /\ middle.aborted <=> first.kind = "raises"
      /\ Shows(middle, OfPrefix(first, "p"))
  <2>1. /\ middle \in Passes
        /\ middle.aborted <=> start.aborted \/ first.kind = "raises"
        /\ Shows(middle, IF start.aborted THEN {} ELSE {} \cup OfPrefix(first, "p"))
    BY <1>1, OnePrefix
  <2>2. (IF start.aborted THEN {} ELSE {} \cup OfPrefix(first, "p")) = OfPrefix(first, "p")
    BY <1>2
  <2> HIDE DEF middle
  <2> QED BY <1>2, <2>1, <2>2
<1> HIDE DEF middle
<1>4. /\ pass \in Passes
      /\ Shows(pass, IF middle.aborted THEN OfPrefix(first, "p")
                     ELSE OfPrefix(first, "p") \cup OfPrefix(second, "q"))
  BY <1>1, <1>3, OnePrefix
<1>5. (IF middle.aborted THEN OfPrefix(first, "p")
       ELSE OfPrefix(first, "p") \cup OfPrefix(second, "q")) = ListedBefore(first, second)
  BY <1>3 DEF ListedBefore
<1> QED BY <1>4, <1>5

\* The days that the invariant reads from the answers are those of the ROAs listed.
LEMMA DaysAgree ==
    ASSUME NEW first \in RoutinatorAnswers("p"), NEW second \in RoutinatorAnswers("q"),
           NEW answers, answers = <<first, second>>, NEW key \in Keys
    PROVE  {days \in Expiries :
                \E i \in DOMAIN answers :
                    /\ \A j \in 1..i : answers[j].kind # "raises"
                    /\ \E roa \in Range(answers[i].roas) :
                        /\ <<roa.prefix, roa.asn>> = key
                        /\ roa.not_after = days}
             = DaysOf(ListedBefore(first, second), key)
<1> DEFINE Has(answer, days) ==
                \E roa \in Range(answer.roas) :
                    <<roa.prefix, roa.asn>> = key /\ roa.not_after = days
           In(listed, days) ==
                \E roa \in listed : <<roa.prefix, roa.asn>> = key /\ roa.not_after = days
           Before(i) == \A j \in 1 .. i : answers[j].kind # "raises"
<1>1. DOMAIN answers = {1, 2} /\ answers[1] = first /\ answers[2] = second
  OBVIOUS
<1>2. /\ Before(1) <=> first.kind # "raises"
      /\ Before(2) <=> first.kind # "raises" /\ second.kind # "raises"
  <2>1. 1 .. 1 = {1} /\ 1 .. 2 = {1, 2}
    OBVIOUS
  <2> QED BY <1>1, <2>1
<1>3. key[1] \in {"p", "q"} /\ key = <<key[1], key[2]>>
  BY MonitoredNames DEF Keys
<1>4. ASSUME NEW days
      PROVE  /\ Has(first, days) <=> In(OfPrefix(first, "p"), days)
             /\ Has(second, days) <=> In(OfPrefix(second, "q"), days)
  <2>1. ASSUME NEW roa \in Range(first.roas), <<roa.prefix, roa.asn>> = key
        PROVE  roa.prefix = "p"
    <3>1. roa.prefix \in {"p", "covering"}
      BY AnswersTyped
    <3>2. roa.prefix = key[1]
      BY <2>1, <1>3
    <3> QED BY <1>3, <3>1, <3>2
  <2>2. ASSUME NEW roa \in Range(second.roas), <<roa.prefix, roa.asn>> = key
        PROVE  roa.prefix = "q"
    <3>1. roa.prefix \in {"q", "covering"}
      BY AnswersTyped
    <3>2. roa.prefix = key[1]
      BY <2>2, <1>3
    <3> QED BY <1>3, <3>1, <3>2
  <2> QED BY <2>1, <2>2 DEF OfPrefix
<1>5. /\ first.kind = "raises" => first.roas = <<>>
      /\ second.kind = "raises" => second.roas = <<>>
  BY AnswersTyped
<1>6. Range(<<>>) = {}
  BY DEF Range
<1>7. ASSUME NEW days
      PROVE  (\E i \in DOMAIN answers : Before(i) /\ Has(answers[i], days))
                <=> In(ListedBefore(first, second), days)
  <2>1. (\E i \in DOMAIN answers : Before(i) /\ Has(answers[i], days))
            <=> (Before(1) /\ Has(first, days)) \/ (Before(2) /\ Has(second, days))
    <3> HIDE DEF Before, Has
    <3> QED BY <1>1
  <2>2. /\ first.kind = "raises" => ~Has(first, days)
        /\ second.kind = "raises" => ~Has(second, days)
    BY <1>5, <1>6
  <2>3. In(ListedBefore(first, second), days)
            <=> In(OfPrefix(first, "p"), days)
                \/ (first.kind # "raises" /\ In(OfPrefix(second, "q"), days))
    BY DEF ListedBefore
  <2> HIDE DEF Before, Has, In
  <2> QED BY <1>2, <1>4, <2>1, <2>2, <2>3
<1> QED BY <1>7 DEF DaysOf

\* Which answers a step that leaves a pass behind has gone through.
LEMMA RoasChecked ==
    ASSUME Next, call'.op = "roas"
    PROVE  \E first \in RoutinatorAnswers("p"), second \in RoutinatorAnswers("q") :
                CheckExpiry(<<first, second>>)
<1>1. ASSUME NEW a, NEW b, Compare(a, b) PROVE FALSE
  BY <1>1 DEF Compare
<1>2. ASSUME NEW raw, Parse(raw) PROVE FALSE
  BY <1>2 DEF Parse
<1>3. ASSUME NEW bgp, NEW tr, NEW reached, Evaluate(bgp, tr, reached) PROVE FALSE
  BY <1>3 DEF Evaluate
<1> QED BY <1>1, <1>2, <1>3 DEF Next

\* Whatever Routinator lists or fails to list, a pass shows the expiry of every ROA that
\* it could read.
THEOREM ExpiriesAreShown == Spec => []ExpiriesShown
<1>1. Init => ExpiriesShown
  <2>1. Init => call.op # "roas"
    BY DEF Init
  <2> QED BY <2>1 DEF ExpiriesShown
<1>2. ExpiriesShown /\ [Next]_call => ExpiriesShown'
  <2> SUFFICES ASSUME ExpiriesShown, [Next]_call, call'.op = "roas" PROVE ExpiriesShown'
    BY DEF ExpiriesShown
  <2>1. CASE Next
    <3>1. PICK first \in RoutinatorAnswers("p"), second \in RoutinatorAnswers("q") :
                CheckExpiry(<<first, second>>)
      BY <2>1, RoasChecked
    <3> DEFINE answers == <<first, second>>
    <3>2. /\ call'.answers = answers
          /\ call'.pass = check_roa_expiry(NoneShown, MonitoredByROA, answers, Thresholds)
      BY <3>1 DEF CheckExpiry
    <3>3. call'.pass \in Passes /\ Shows(call'.pass, ListedBefore(first, second))
      BY <3>2, PassShows
    <3>4. DOMAIN call'.pass.gauge = Keys
      BY <3>3 DEF Passes
    <3>5. ASSUME NEW key \in Keys
          PROVE  LET days == DaysListed(key)'
                 IN  /\ IF days = {} THEN call'.pass.gauge[key] = NoDate
                        ELSE call'.pass.gauge[key] \in days
                     /\ (\E w \in call'.pass.warned : w[1] = key)
                        <=> \E d \in days : \E t \in Range(Thresholds) : d <= t
      <4>1. DaysListed(key)' = DaysOf(ListedBefore(first, second), key)
        <5>1. DaysListed(key)' =
                {days \in Expiries :
                    \E i \in DOMAIN answers :
                        /\ \A j \in 1..i : answers[j].kind # "raises"
                        /\ \E roa \in Range(answers[i].roas) :
                            /\ <<roa.prefix, roa.asn>> = key
                            /\ roa.not_after = days}
          <6> HIDE DEF answers
          <6> QED BY <3>2 DEF DaysListed
        <5> QED BY <5>1, DaysAgree
      <4>2. ShowsKey(call'.pass, DaysOf(ListedBefore(first, second), key), key)
        BY <3>3 DEF Shows
      <4> QED BY <4>1, <4>2 DEF ShowsKey, Warned, Urgent
    <3> QED BY <3>4, <3>5, Zenon DEF ExpiriesShown
  <2>2. CASE UNCHANGED call
    BY <2>2 DEF ExpiriesShown, DaysListed
  <2> QED BY <2>1, <2>2
<1> QED BY <1>1, <1>2, PTL DEF Spec

-----------------------------------------------------------------------------
(* buildASPath beside parse_as_path.                                       *)

\* buildASPath and parse_as_path recurse alike over a walk and over the attribute that
\* has the same numbers, with Junk for those that are not known.
LEMMA SameFold ==
    ASSUME NEW n \in Nat, NEW asns \in [1 .. n -> Numbers \cup {0}]
    PROVE  buildASPath([i \in DOMAIN asns |-> [asn |-> asns[i]]])
            = parse_as_path([i \in DOMAIN asns |-> IF asns[i] = 0 THEN Junk ELSE asns[i]])
<1> DEFINE hops == [i \in DOMAIN asns |-> [asn |-> asns[i]]]
           raw == [i \in DOMAIN asns |-> IF asns[i] = 0 THEN Junk ELSE asns[i]]
           Built(it) == it = [s \in SUBSET DOMAIN hops |->
                IF s = {} THEN <<>>
                ELSE IF hops[Max(s)].asn # 0
                        /\ (it[s \ {Max(s)}] = <<>> \/ Last(it[s \ {Max(s)}]) # hops[Max(s)].asn)
                     THEN Append(it[s \ {Max(s)}], hops[Max(s)].asn) ELSE it[s \ {Max(s)}]]
           Parsed(it) == it = [s \in SUBSET DOMAIN raw |->
                IF s = {} THEN <<>> ELSE ParseStep(it[s \ {Max(s)}], raw[Max(s)])]
<1>1. DOMAIN hops = 1 .. n /\ DOMAIN raw = 1 .. n
  OBVIOUS
<1>2. ASSUME NEW s \in SUBSET (1 .. n), s # {}, NEW path
      PROVE  (IF hops[Max(s)].asn # 0 /\ (path = <<>> \/ Last(path) # hops[Max(s)].asn)
              THEN Append(path, hops[Max(s)].asn) ELSE path)
             = ParseStep(path, raw[Max(s)])
  <2>1. Max(s) \in 1 .. n
    BY <1>2, MaxInside
  <2>2. PICK i \in 1 .. n : i = Max(s)
    BY <2>1
  <2>3. CASE asns[i] = 0
    BY <2>2, <2>3 DEF ParseStep, isdigit
  <2>4. CASE asns[i] # 0
    <3>1. asns[i] \in Numbers /\ asns[i] # Junk
      BY <2>4, CanariesAssumption
    <3> QED BY <2>2, <2>4, <3>1 DEF ParseStep, isdigit, Last
  <2> QED BY <2>3, <2>4
<1>3. ASSUME NEW it PROVE Built(it) <=> Parsed(it)
  <2>1. ASSUME NEW s \in SUBSET (1 .. n)
        PROVE  (IF s = {} THEN <<>>
                ELSE IF hops[Max(s)].asn # 0
                        /\ (it[s \ {Max(s)}] = <<>> \/ Last(it[s \ {Max(s)}]) # hops[Max(s)].asn)
                     THEN Append(it[s \ {Max(s)}], hops[Max(s)].asn) ELSE it[s \ {Max(s)}])
               = IF s = {} THEN <<>> ELSE ParseStep(it[s \ {Max(s)}], raw[Max(s)])
    <3> HIDE DEF hops, raw
    <3> QED BY <1>2
  <2> HIDE DEF hops, raw
  <2> QED BY <1>1, <2>1
<1>4. (CHOOSE it : Built(it)) = (CHOOSE it : Parsed(it))
  <2> HIDE DEF Built, Parsed
  <2> QED BY <1>3
<1>5. buildASPath(hops) = (CHOOSE it : Built(it))[DOMAIN hops]
  <2> HIDE DEF hops
  <2> QED BY DEF buildASPath, FoldLeft, MapThenFoldSet
<1>6. parse_as_path(raw) = (CHOOSE it : Parsed(it))[DOMAIN raw]
  <2> HIDE DEF raw
  <2> QED BY DEF parse_as_path, FoldLeft, MapThenFoldSet, ParseStep
<1> HIDE DEF Built, Parsed
<1> QED BY <1>1, <1>4, <1>5, <1>6

\* A walk over hops is a function from their positions.
LEMMA PathDone ==
    ASSUME CanaryNext, test'.canary = "path"
    PROVE  \E n \in 0 .. MaxHops : \E asns \in [1 .. n -> Numbers \cup {0}] : PathTest(asns)
<1>1. ASSUME NEW site, NEW cfg, HTTPTest(site, cfg) PROVE FALSE
  BY <1>1 DEF HTTPTest
<1>2. ASSUME NEW sent, NEW lost, MTRHop(sent, lost) PROVE FALSE
  BY <1>2 DEF MTRHop
<1>3. ASSUME NEW probes, ScamperHop(probes) PROVE FALSE
  BY <1>3 DEF ScamperHop
<1>4. ASSUME NEW resolvers, NEW system, NEW cfg, DNSTest(resolvers, system, cfg) PROVE FALSE
  BY <1>4 DEF DNSTest
<1>5. ASSUME NEW by, NEW cfg, NEW accepted, Validation(by, cfg, accepted) PROVE FALSE
  BY <1>5 DEF Validation
<1> QED BY <1>1, <1>2, <1>3, <1>4, <1>5 DEF CanaryNext

\* Whatever the walk, the agent and the BGP analyzer make the same path of it.
THEOREM PathsAlike == CanarySpec => []PathsNormalisedAlike
<1>1. CanaryInit => PathsNormalisedAlike
  BY DEF CanaryInit, PathsNormalisedAlike
<1>2. PathsNormalisedAlike /\ [CanaryNext]_test => PathsNormalisedAlike'
  <2> SUFFICES ASSUME PathsNormalisedAlike, [CanaryNext]_test, test'.canary = "path"
               PROVE  PathsNormalisedAlike'
    BY DEF PathsNormalisedAlike
  <2>1. CASE CanaryNext
    <3>0. PICK n \in 0 .. MaxHops : \E asns \in [1 .. n -> Numbers \cup {0}] : PathTest(asns)
      BY <2>1, PathDone
    <3>1. PICK asns \in [1 .. n -> Numbers \cup {0}] : PathTest(asns)
      BY <3>0
    <3>2. n \in Nat
      BY CanariesAssumption
    <3>3. /\ test'.asns = asns
          /\ test'.path = buildASPath([i \in DOMAIN asns |-> [asn |-> asns[i]]])
      BY <3>1 DEF PathTest
    <3>4. buildASPath([i \in DOMAIN asns |-> [asn |-> asns[i]]])
            = parse_as_path([i \in DOMAIN asns |-> IF asns[i] = 0 THEN Junk ELSE asns[i]])
      BY <3>2, SameFold
    <3> QED BY <3>3, <3>4 DEF PathsNormalisedAlike
  <2>2. CASE UNCHANGED test
    BY <2>2 DEF PathsNormalisedAlike
  <2> QED BY <2>1, <2>2
<1> QED BY <1>1, <1>2, PTL DEF CanarySpec

-----------------------------------------------------------------------------
(* The DNS canary.                                                         *)

\* The times at which resolvers answer add up.
LEMMA AnsweredAtSteps ==
    ASSUME NEW S, \A r \in S : r.delay \in Nat, NEW resolvers \in Seq(S)
    PROVE  LET at == AnsweredAt(resolvers)
           IN  /\ at \in [0 .. Len(resolvers) -> Nat]
               /\ at[0] = 0
               /\ \A i \in 1 .. Len(resolvers) : at[i] = at[i - 1] + resolvers[i].delay
<1> DEFINE N == Len(resolvers)
           f == [p \in Nat \X (1 .. N) |-> p[1] + resolvers[p[2]].delay]
           Is(at) == at = [i \in 0 .. N |-> IF i = 0 THEN 0 ELSE at[i - 1] + resolvers[i].delay]
<1>1. f \in [Nat \X (1 .. N) -> Nat] /\ N \in Nat
  <2>1. \A k \in 1 .. N : resolvers[k].delay \in Nat
    OBVIOUS
  <2>2. ASSUME NEW p \in Nat \X (1 .. N) PROVE p[1] + resolvers[p[2]].delay \in Nat
    BY <2>1
  <2> QED BY <2>2
<1>2. PICK path : StepsAlong(path, N, Nat, 0, f)
  <2> HIDE DEF f, N
  <2> QED BY <1>1, StepsExist
<1>3. path \in [0 .. N -> Nat] /\ path[0] = 0
  <2> HIDE DEF f
  <2> QED BY <1>2 DEF StepsAlong
<1>4. ASSUME NEW i \in 1 .. N PROVE path[i] = path[i - 1] + resolvers[i].delay
  <2>1. path[i] = f[<<path[i - 1], i>>]
    <3> HIDE DEF f
    <3> QED BY <1>2 DEF StepsAlong
  <2>2. path[i - 1] \in Nat
    BY <1>3
  <2> QED BY <2>1, <2>2
<1>5. Is(path)
  BY <1>3, <1>4
<1> DEFINE at == CHOOSE it : Is(it)
<1>6. Is(at)
  <2> HIDE DEF Is
  <2> QED BY <1>5
<1>7. AnsweredAt(resolvers) = at
  BY DEF AnsweredAt
<1> HIDE DEF at
<1>8. at[0] = 0 /\ \A i \in 1 .. N : at[i] = at[i - 1] + resolvers[i].delay
  <2>1. \A i \in 0 .. N : at[i] = IF i = 0 THEN 0 ELSE at[i - 1] + resolvers[i].delay
    BY <1>6
  <2>2. 0 \in 0 .. N /\ \A i \in 1 .. N : i \in 0 .. N /\ i # 0
    OBVIOUS
  <2> QED BY <2>1, <2>2
<1> DEFINE T == {i \in Nat : i <= N => at[i] \in Nat}
<1>9. T = Nat
  <2>1. T \in SUBSET Nat /\ 0 \in T
    BY <1>8
  <2>2. ASSUME NEW i \in T PROVE i + 1 \in T
    <3>1. SUFFICES ASSUME i + 1 <= N PROVE at[i + 1] \in Nat
      OBVIOUS
    <3>2. i \in Nat /\ i + 1 \in 1 .. N /\ (i + 1) - 1 = i /\ at[i] \in Nat
      BY <3>1
    <3>3. at[i + 1] = at[i] + resolvers[i + 1].delay
      BY <1>8, <3>2
    <3>4. resolvers[i + 1].delay \in Nat
      <4>1. resolvers[i + 1] \in S
        BY <3>2
      <4> QED BY <4>1
    <3> QED BY <3>2, <3>3, <3>4
  <2> HIDE DEF T
  <2> QED BY <2>1, <2>2, InductiveSet
<1>10. at \in [0 .. N -> Nat]
  <2>1. \A i \in 0 .. N : at[i] \in Nat
    BY <1>9
  <2>2. at = [i \in 0 .. N |-> at[i]]
    BY <1>6
  <2> HIDE DEF T, Is
  <2> QED BY <2>1, <2>2
<1> QED BY <1>7, <1>8, <1>10

\* What queryInTurn does with one resolver, and the results it has after each.
QueryStep(results, r, cfg, deadline) ==
    Append(results, queryResolver(IF results = <<>> THEN 0 ELSE Last(results).at, r, cfg, deadline))

QueriesFrom(S, cfg, deadline) == {queryResolver(asked, r, cfg, deadline) : asked \in Nat, r \in S}

AsksInTurn(path, resolvers, S, cfg, deadline) ==
    /\ path \in [0 .. Len(resolvers) -> Seq(QueriesFrom(S, cfg, deadline))]
    /\ path[0] = <<>>
    /\ \A k \in 1 .. Len(resolvers) :
        path[k] = QueryStep(path[k - 1], resolvers[k], cfg, deadline)

\* The time at which a query is over.
LEMMA QueryTimes ==
    ASSUME NEW S, \A r \in S : r.delay \in Nat, NEW deadline \in Nat, NEW cfg,
           NEW x \in QueriesFrom(S, cfg, deadline)
    PROVE  x.at \in Nat
<1>1. PICK asked \in Nat, r \in S : x = queryResolver(asked, r, cfg, deadline)
  BY DEF QueriesFrom
<1>2. x.at = lookup(asked, r, RecordType(cfg), deadline).at
  BY <1>1 DEF queryResolver
<1>3. r.delay \in Nat
  OBVIOUS
<1> QED BY <1>2, <1>3 DEF lookup

\* Execute asks the resolvers in their order.
LEMMA QuerySteps ==
    ASSUME NEW S, \A r \in S : r.delay \in Nat, NEW resolvers \in Seq(S),
           NEW cfg, NEW deadline \in Nat
    PROVE  \E path : /\ AsksInTurn(path, resolvers, S, cfg, deadline)
                     /\ queryInTurn(resolvers, cfg, deadline) = path[Len(resolvers)]
<1> DEFINE A == Seq(QueriesFrom(S, cfg, deadline))
           N == Len(resolvers)
           f == [p \in A \X (1 .. N) |-> QueryStep(p[1], resolvers[p[2]], cfg, deadline)]
           Is(it) == it = [s \in SUBSET DOMAIN resolvers |->
                IF s = {} THEN <<>>
                ELSE QueryStep(it[s \ {Max(s)}], resolvers[Max(s)], cfg, deadline)]
<1>1. f \in [A \X (1 .. N) -> A]
  <2>1. ASSUME NEW a \in A, NEW k \in 1 .. N
        PROVE  QueryStep(a, resolvers[k], cfg, deadline) \in A
    <3> DEFINE asked == IF a = <<>> THEN 0 ELSE Last(a).at
    <3>1. asked \in Nat
      <4>1. CASE a # <<>>
        <5>1. Last(a) \in QueriesFrom(S, cfg, deadline)
          BY <4>1 DEF Last
        <5> QED BY <4>1, <5>1, QueryTimes
      <4> QED BY <4>1
    <3>2. queryResolver(asked, resolvers[k], cfg, deadline) \in QueriesFrom(S, cfg, deadline)
      <4> HIDE DEF asked
      <4> QED BY <3>1 DEF QueriesFrom
    <3> HIDE DEF asked
    <3> QED BY <3>2 DEF QueryStep, asked
  <2> QED BY <2>1
<1>2. N \in Nat /\ DOMAIN resolvers = 1 .. N /\ <<>> \in A
  OBVIOUS
<1>3. PICK h : FoldsTo(h, N, A, <<>>, f)
  <2> HIDE DEF f, A, N
  <2> QED BY <1>1, <1>2, FoldExists
<1>4. ASSUME NEW s \in SUBSET (1 .. N), s # {}, NEW a \in A
      PROVE  f[<<a, Max(s)>>] = QueryStep(a, resolvers[Max(s)], cfg, deadline)
  <2>1. Max(s) \in 1 .. N
    BY <1>2, <1>4, MaxInside
  <2> HIDE DEF A, N
  <2> QED BY <1>4, <2>1
<1>5. Is(h)
  <2>1. h \in [SUBSET DOMAIN resolvers -> A]
    BY <1>2, <1>3 DEF FoldsTo
  <2>2. ASSUME NEW s \in SUBSET DOMAIN resolvers
        PROVE  h[s] = IF s = {} THEN <<>>
                      ELSE QueryStep(h[s \ {Max(s)}], resolvers[Max(s)], cfg, deadline)
    <3>1. s \in SUBSET (1 .. N) /\ h[s \ {Max(s)}] \in A
      BY <1>2, <1>3 DEF FoldsTo
    <3>2. h[s] = IF s = {} THEN <<>> ELSE f[<<h[s \ {Max(s)}], Max(s)>>]
      <4> HIDE DEF f
      <4> QED BY <1>3, <3>1 DEF FoldsTo
    <3> HIDE DEF f, A, N
    <3> QED BY <1>4, <3>1, <3>2
  <2> HIDE DEF A
  <2> QED BY <2>1, <2>2
<1> DEFINE iter == CHOOSE it : Is(it)
<1>6. Is(iter)
  <2> HIDE DEF Is
  <2> QED BY <1>5
<1>7. queryInTurn(resolvers, cfg, deadline) = iter[1 .. N]
  <2>1. queryInTurn(resolvers, cfg, deadline) = iter[DOMAIN resolvers]
    BY DEF queryInTurn, FoldLeft, MapThenFoldSet, QueryStep
  <2> HIDE DEF iter
  <2> QED BY <1>2, <2>1
<1> HIDE DEF iter
<1>8. Recurses(iter, N, A, <<>>, f)
  <2>1. iter[{}] = <<>>
    BY <1>6
  <2>2. ASSUME NEW s \in SUBSET (1 .. N), s # {}, iter[s \ {Max(s)}] \in A
        PROVE  iter[s] = f[<<iter[s \ {Max(s)}], Max(s)>>]
    <3>1. iter[s] = QueryStep(iter[s \ {Max(s)}], resolvers[Max(s)], cfg, deadline)
      BY <1>2, <1>6, <2>2
    <3> HIDE DEF f, A, N
    <3> QED BY <1>4, <2>2, <3>1
  <2> HIDE DEF f, A, N
  <2> QED BY <2>1, <2>2 DEF Recurses
<1> DEFINE path == [k \in 0 .. N |-> iter[1 .. k]]
<1>9. StepsAlong(path, N, A, <<>>, f)
  <2> HIDE DEF f, A, N
  <2> QED BY <1>1, <1>2, <1>8, FoldUnfolds
<1>10. path[N] = iter[1 .. N]
  BY <1>2
<1> HIDE DEF path
<1>11. ASSUME NEW k \in 1 .. N
       PROVE  path[k] = QueryStep(path[k - 1], resolvers[k], cfg, deadline)
  <2>1. path[k] = f[<<path[k - 1], k>>]
    <3> HIDE DEF f
    <3> QED BY <1>2, <1>9 DEF StepsAlong
  <2>2. path[k - 1] \in A
    <3>1. path \in [0 .. N -> A] /\ k - 1 \in 0 .. N
      <4> HIDE DEF f, A
      <4> QED BY <1>9 DEF StepsAlong
    <3> HIDE DEF A, N
    <3> QED BY <3>1
  <2> HIDE DEF A, N
  <2> QED BY <2>1, <2>2
<1>12. AsksInTurn(path, resolvers, S, cfg, deadline)
  <2> HIDE DEF f
  <2> QED BY <1>9, <1>11 DEF StepsAlong, AsksInTurn
<1> QED BY <1>7, <1>10, <1>12

\* Each resolver is asked when the one before it is done.
AskedAfter(results, k) == IF k = 1 THEN 0 ELSE results[k - 1].at

\* The query of each resolver starts where that of the one before it ended.
LEMMA InTurn ==
    ASSUME NEW S, \A r \in S : r.delay \in Nat, NEW resolvers \in Seq(S),
           NEW cfg, NEW deadline \in Nat
    PROVE  LET results == queryInTurn(resolvers, cfg, deadline)
           IN  /\ results \in Seq(QueriesFrom(S, cfg, deadline))
               /\ Len(results) = Len(resolvers)
               /\ \A k \in 1 .. Len(resolvers) :
                    results[k] = queryResolver(AskedAfter(results, k), resolvers[k], cfg, deadline)
<1> DEFINE N == Len(resolvers)
           A == QueriesFrom(S, cfg, deadline)
<1>1. PICK path : /\ AsksInTurn(path, resolvers, S, cfg, deadline)
                  /\ queryInTurn(resolvers, cfg, deadline) = path[N]
  BY QuerySteps
<1> DEFINE Answered(k) ==
                /\ Len(path[k]) = k
                /\ \A j \in 1 .. k : path[k][j] =
                        queryResolver(AskedAfter(path[k], j), resolvers[j], cfg, deadline)
           T == {k \in Nat : k <= N => Answered(k)}
<1>2. 0 \in T
  <2>1. path[0] = <<>>
    BY <1>1 DEF AsksInTurn
  <2> QED BY <2>1
<1>3. ASSUME NEW k \in T PROVE k + 1 \in T
  <2>1. SUFFICES ASSUME k + 1 <= N PROVE Answered(k + 1)
    OBVIOUS
  <2>2. k \in Nat /\ k \in 0 .. N /\ k + 1 \in 1 .. N /\ (k + 1) - 1 = k /\ Answered(k)
    BY <2>1
  <2> DEFINE a == path[k]
             x == queryResolver(IF a = <<>> THEN 0 ELSE Last(a).at, resolvers[k + 1], cfg, deadline)
  <2>3. a \in Seq(A)
    BY <1>1, <2>2 DEF AsksInTurn
  <2>4. path[k + 1] = Append(a, x)
    BY <1>1, <2>2 DEF AsksInTurn, QueryStep
  <2> HIDE DEF a
  <2>5. Len(a) = k
    BY <2>2 DEF a
  <2>6. x = queryResolver(AskedAfter(a, k + 1), resolvers[k + 1], cfg, deadline)
    <3>1. a = <<>> <=> k + 1 = 1
      BY <2>2, <2>3, <2>5
    <3>2. (IF a = <<>> THEN 0 ELSE Last(a).at) = AskedAfter(a, k + 1)
      BY <2>2, <2>5, <3>1 DEF AskedAfter, Last
    <3> QED BY <3>2
  <2> HIDE DEF x
  <2> DEFINE b == path[k + 1]
  <2>7. Len(b) = k + 1 /\ b[k + 1] = x /\ \A j \in 1 .. k : b[j] = a[j]
    BY <2>3, <2>4, <2>5
  <2> HIDE DEF b
  <2>8. ASSUME NEW j \in 1 .. (k + 1) PROVE AskedAfter(b, j) = AskedAfter(a, j)
    <3>1. j # 1 => j - 1 \in 1 .. k
      BY <2>2
    <3> QED BY <2>7, <3>1 DEF AskedAfter
  <2>9. ASSUME NEW j \in 1 .. (k + 1)
        PROVE  b[j] = queryResolver(AskedAfter(b, j), resolvers[j], cfg, deadline)
    <3>1. CASE j = k + 1
      BY <2>6, <2>7, <2>8, <3>1
    <3>2. CASE j \in 1 .. k
      <4>1. a[j] = queryResolver(AskedAfter(a, j), resolvers[j], cfg, deadline)
        BY <2>2, <3>2 DEF a
      <4> QED BY <2>7, <2>8, <3>2, <4>1
    <3> QED BY <2>2, <3>1, <3>2
  <2> QED BY <2>7, <2>9 DEF b
<1>4. T = Nat
  <2>1. T \in SUBSET Nat
    OBVIOUS
  <2> HIDE DEF T
  <2> QED BY <1>2, <1>3, <2>1, InductiveSet
<1>5. N \in Nat /\ N \in 0 .. N
  OBVIOUS
<1>6. Answered(N)
  BY <1>4, <1>5
<1>7. path[N] \in Seq(A)
  BY <1>1, <1>5 DEF AsksInTurn
<1> HIDE DEF T
<1> QED BY <1>1, <1>6, <1>7

\* One resolver's part of the verdict: it answers in time and without error, and holds
\* each expected value in the family asked for.
HoldsExpected(r, type, expected) ==
    /\ r.err = ""
    /\ \A v \in expected :
        /\ v \in r.values
        /\ type \in {"A", "AAAA"} => (v.family = "v4" <=> type = "A")

QueryVerdict(x, r, asked, cfg, deadline) ==
    IF RecordType(cfg) \in RecordTypes \ {"SOA"}
    THEN /\ x.at = IF asked + r.delay < deadline THEN asked + r.delay ELSE deadline
         /\ x.success <=>
            asked + r.delay < deadline /\ HoldsExpected(r, RecordType(cfg), cfg.expected)
    ELSE x.at = asked /\ ~x.success

\* What one query answers, in terms of the resolver and of the time left.
LEMMA OneQuery ==
    ASSUME NEW r, r.delay \in Nat, NEW asked \in Nat, NEW deadline \in Nat, NEW cfg,
           \A v \in cfg.expected : v.family \in Families,
           NEW x, x = queryResolver(asked, r, cfg, deadline)
    PROVE  QueryVerdict(x, r, asked, cfg, deadline)
<1> USE DEF QueryVerdict
<1> DEFINE type == RecordType(cfg)
<1> DEFINE answer == lookup(asked, r, type, deadline)
<1>1. x.at = answer.at
  BY DEF queryResolver
<1>2. x.success <=> answer.err = "" /\ cfg.expected \subseteq answer.resolved
  BY DEF queryResolver, validateContent
<1>3. CASE type \notin RecordTypes \ {"SOA"}
  <2>1. answer.at = asked /\ answer.err # ""
    BY <1>3 DEF lookup
  <2> HIDE DEF answer
  <2> QED BY <1>1, <1>2, <1>3, <2>1
<1>4. CASE type \in RecordTypes \ {"SOA"} /\ asked + r.delay >= deadline
  <2>1. answer.at = deadline /\ answer.err # ""
    BY <1>4 DEF lookup, TooLate
  <2>2. ~(asked + r.delay < deadline)
    BY <1>4
  <2> HIDE DEF answer
  <2> QED BY <1>1, <1>2, <1>4, <2>1, <2>2
<1>5. CASE type \in RecordTypes \ {"SOA"} /\ asked + r.delay < deadline
  <2>1. ~TooLate(asked, r, deadline)
    BY <1>5 DEF TooLate
  <2>2. /\ answer.at = asked + r.delay /\ answer.err = r.err
        /\ answer.resolved = IF r.err = "" THEN Kept(type, r.values) ELSE {}
    BY <1>5, <2>1 DEF lookup
  <2>3. ASSUME NEW v \in cfg.expected
        PROVE  v \in Kept(type, r.values) <=>
                /\ v \in r.values
                /\ type \in {"A", "AAAA"} => (v.family = "v4" <=> type = "A")
    <3>1. v.family \in {"v4", "v6"}
      BY DEF Families
    <3> HIDE DEF type
    <3>2. CASE type = "A"
      BY <3>1, <3>2 DEF Kept
    <3>3. CASE type = "AAAA"
      BY <3>1, <3>3 DEF Kept
    <3>4. CASE type \notin {"A", "AAAA"}
      BY <3>4 DEF Kept
    <3> QED BY <3>2, <3>3, <3>4
  <2> HIDE DEF answer
  <2>4. (answer.err = "" /\ cfg.expected \subseteq answer.resolved)
            <=> HoldsExpected(r, type, cfg.expected)
    <3>1. CASE r.err = ""
      BY <2>2, <2>3, <3>1 DEF HoldsExpected
    <3>2. CASE r.err # ""
      BY <2>2, <3>2 DEF HoldsExpected
    <3> QED BY <3>1, <3>2
  <2>5. x.success <=> HoldsExpected(r, type, cfg.expected)
    BY <1>2, <2>4, Zenon
  <2>6. x.at = asked + r.delay
    BY <1>1, <2>2
  <2> QED BY <1>5, <2>5, <2>6
<1>6. asked + r.delay >= deadline \/ asked + r.delay < deadline
  OBVIOUS
<1> QED BY <1>3, <1>4, <1>5, <1>6

\* The verdict about resolvers asked in turn, in terms of each of them.
LEMMA VerdictInTurn ==
    ASSUME NEW S, \A r \in S : r.delay \in Nat, NEW resolvers \in Seq(S), resolvers # <<>>,
           NEW cfg, \A v \in cfg.expected : v.family \in Families, NEW deadline \in Nat
    PROVE  LET results == queryInTurn(resolvers, cfg, deadline)
               type == RecordType(cfg)
           IN  /\ DOMAIN results = DOMAIN resolvers
               /\ \A i \in DOMAIN resolvers : results[i].at <= deadline
               /\ (\A i \in DOMAIN results : results[i].success) <=>
                    /\ type \in RecordTypes \ {"SOA"}
                    /\ \A i \in DOMAIN resolvers :
                        /\ AnsweredAt(resolvers)[i] < deadline
                        /\ HoldsExpected(resolvers[i], type, cfg.expected)
<1> DEFINE N == Len(resolvers)
           results == queryInTurn(resolvers, cfg, deadline)
           type == RecordType(cfg)
           at == AnsweredAt(resolvers)
<1>1. /\ results \in Seq(QueriesFrom(S, cfg, deadline)) /\ Len(results) = N
      /\ \A k \in 1 .. N :
            results[k] = queryResolver(AskedAfter(results, k), resolvers[k], cfg, deadline)
  BY InTurn
<1>2. /\ at \in [0 .. N -> Nat] /\ at[0] = 0
      /\ \A i \in 1 .. N : at[i] = at[i - 1] + resolvers[i].delay
  BY AnsweredAtSteps
<1> HIDE DEF results, at, type
<1>3. N \in Nat /\ N # 0 /\ DOMAIN resolvers = 1 .. N /\ DOMAIN results = 1 .. N
      /\ \A k \in 1 .. N : resolvers[k] \in S
  BY <1>1
<1> HIDE DEF N
<1>4. CASE type \in RecordTypes \ {"SOA"}
  <2> DEFINE T == {k \in Nat : k + 1 <= N =>
                        AskedAfter(results, k + 1) = IF at[k] < deadline THEN at[k] ELSE deadline}
  <2>1. ASSUME NEW k \in 1 .. N,
               AskedAfter(results, k) = IF at[k - 1] < deadline THEN at[k - 1] ELSE deadline
        PROVE  /\ results[k].at = IF at[k] < deadline THEN at[k] ELSE deadline
               /\ results[k].success <=>
                    at[k] < deadline /\ HoldsExpected(resolvers[k], type, cfg.expected)
    <3> DEFINE asked == AskedAfter(results, k)
               d == resolvers[k].delay
    <3>1. at[k - 1] \in Nat /\ at[k] = at[k - 1] + d
      <4>1. k - 1 \in 0 .. N
        BY <1>3
      <4> QED BY <1>2, <4>1
    <3>2. d \in Nat
      BY <1>3
    <3>3. asked \in Nat
      BY <2>1, <3>1
    <3> HIDE DEF d
    <3>4. /\ asked + d < deadline <=> at[k] < deadline
          /\ asked + d < deadline => asked + d = at[k]
      <4>1. CASE at[k - 1] < deadline
        BY <2>1, <3>1, <4>1
      <4>2. CASE ~(at[k - 1] < deadline)
        <5>1. asked = deadline
          BY <2>1, <4>2
        <5> HIDE DEF asked
        <5> QED BY <3>1, <3>2, <4>2, <5>1
      <4> QED BY <4>1, <4>2
    <3> HIDE DEF asked
    <3>5. /\ results[k].at = IF asked + d < deadline THEN asked + d ELSE deadline
          /\ results[k].success <=>
                asked + d < deadline /\ HoldsExpected(resolvers[k], type, cfg.expected)
      <4>1. results[k] = queryResolver(asked, resolvers[k], cfg, deadline)
        BY <1>1 DEF asked
      <4>2. resolvers[k].delay \in Nat
        BY <3>2 DEF d
      <4>3. QueryVerdict(results[k], resolvers[k], asked, cfg, deadline)
        BY <3>3, <4>1, <4>2, OneQuery
      <4> QED BY <1>4, <4>3 DEF d, type, QueryVerdict
    <3>6. results[k].at = IF at[k] < deadline THEN at[k] ELSE deadline
      BY <3>4, <3>5
    <3> QED BY <3>4, <3>5, <3>6
  <2>2. 0 \in T
    BY <1>2 DEF AskedAfter
  <2>3. ASSUME NEW k \in T PROVE k + 1 \in T
    <3>1. SUFFICES ASSUME (k + 1) + 1 <= N
                   PROVE  AskedAfter(results, (k + 1) + 1)
                            = IF at[k + 1] < deadline THEN at[k + 1] ELSE deadline
      OBVIOUS
    <3>2. k + 1 \in 1 .. N /\ (k + 1) - 1 = k /\ (k + 1) + 1 # 1 /\ ((k + 1) + 1) - 1 = k + 1
      BY <1>3, <3>1
    <3>3. AskedAfter(results, k + 1) = IF at[k] < deadline THEN at[k] ELSE deadline
      BY <1>3, <3>1
    <3>4. results[k + 1].at = IF at[k + 1] < deadline THEN at[k + 1] ELSE deadline
      <4> HIDE DEF T
      <4> QED BY <2>1, <3>2, <3>3
    <3> QED BY <3>2, <3>4 DEF AskedAfter
  <2>4. T = Nat
    <3>1. T \in SUBSET Nat
      OBVIOUS
    <3> HIDE DEF T
    <3> QED BY <2>2, <2>3, <3>1, InductiveSet
  <2>5. ASSUME NEW k \in 1 .. N
        PROVE  AskedAfter(results, k) = IF at[k - 1] < deadline THEN at[k - 1] ELSE deadline
    <3>1. k - 1 \in T /\ (k - 1) + 1 = k /\ k <= N
      BY <1>3, <2>4
    <3> QED BY <3>1
  <2> HIDE DEF T
  <2>6. ASSUME NEW k \in 1 .. N
        PROVE  /\ results[k].at = IF at[k] < deadline THEN at[k] ELSE deadline
               /\ results[k].success <=>
                    at[k] < deadline /\ HoldsExpected(resolvers[k], type, cfg.expected)
    BY <2>1, <2>5
  <2>7. ASSUME NEW k \in 1 .. N PROVE results[k].at <= deadline
    <3>1. at[k] \in Nat
      BY <1>2, <1>3
    <3> QED BY <2>6, <3>1
  <2> QED BY <1>3, <1>4, <2>6, <2>7 DEF results, at, type
<1>5. CASE type \notin RecordTypes \ {"SOA"}
  <2> DEFINE T == {k \in Nat : k + 1 <= N => AskedAfter(results, k + 1) = 0}
  <2>1. ASSUME NEW k \in 1 .. N, AskedAfter(results, k) = 0
        PROVE  results[k].at = 0 /\ ~results[k].success
    <3>1. results[k] = queryResolver(0, resolvers[k], cfg, deadline) /\ resolvers[k].delay \in Nat
      BY <1>1, <1>3, <2>1
    <3>2. QueryVerdict(results[k], resolvers[k], 0, cfg, deadline)
      BY <3>1, OneQuery
    <3> QED BY <1>5, <3>2 DEF type, QueryVerdict
  <2>2. 0 \in T
    BY DEF AskedAfter
  <2>3. ASSUME NEW k \in T PROVE k + 1 \in T
    <3>1. SUFFICES ASSUME (k + 1) + 1 <= N PROVE AskedAfter(results, (k + 1) + 1) = 0
      OBVIOUS
    <3>2. k + 1 \in 1 .. N /\ (k + 1) + 1 # 1 /\ ((k + 1) + 1) - 1 = k + 1
      BY <1>3, <3>1
    <3>3. AskedAfter(results, k + 1) = 0
      BY <1>3, <3>1
    <3>4. results[k + 1].at = 0
      BY <2>1, <3>2, <3>3
    <3> QED BY <3>2, <3>4 DEF AskedAfter
  <2>4. T = Nat
    <3>1. T \in SUBSET Nat
      OBVIOUS
    <3> HIDE DEF T
    <3> QED BY <2>2, <2>3, <3>1, InductiveSet
  <2>5. ASSUME NEW k \in 1 .. N PROVE AskedAfter(results, k) = 0
    <3>1. k - 1 \in T /\ (k - 1) + 1 = k /\ k <= N
      BY <1>3, <2>4
    <3> QED BY <3>1
  <2> HIDE DEF T
  <2>6. ASSUME NEW k \in 1 .. N PROVE results[k].at = 0 /\ ~results[k].success
    BY <2>1, <2>5
  <2>7. 1 \in 1 .. N
    BY <1>3
  <2>8. \A k \in 1 .. N : results[k].at <= deadline
    BY <2>6, <1>3
  <2> QED BY <1>3, <1>5, <2>6, <2>7, <2>8 DEF results, at, type
<1> QED BY <1>4, <1>5

\* Which test a step that leaves a verdict behind has run.
LEMMA DNSDone ==
    ASSUME CanaryNext, test'.canary = "dns"
    PROVE  \E n \in 0 .. MaxResolvers : \E resolvers \in [1 .. n -> Resolvers], cfg \in DNSConfigs :
            \E system : /\ n = 0 => system \in Resolvers
                        /\ DNSTest(resolvers, system, cfg)
<1>1. ASSUME NEW site, NEW cfg, HTTPTest(site, cfg) PROVE FALSE
  BY <1>1 DEF HTTPTest
<1>2. ASSUME NEW sent, NEW lost, MTRHop(sent, lost) PROVE FALSE
  BY <1>2 DEF MTRHop
<1>3. ASSUME NEW probes, ScamperHop(probes) PROVE FALSE
  BY <1>3 DEF ScamperHop
<1>4. ASSUME NEW asns, PathTest(asns) PROVE FALSE
  BY <1>4 DEF PathTest
<1>5. ASSUME NEW by, NEW cfg, NEW accepted, Validation(by, cfg, accepted) PROVE FALSE
  BY <1>5 DEF Validation
<1>6. \E n \in 0 .. MaxResolvers : \E resolvers \in [1 .. n -> Resolvers], cfg \in DNSConfigs :
        \E system \in IF n = 0 THEN Resolvers ELSE {[delay |-> 0, err |-> "", values |-> Values]} :
            DNSTest(resolvers, system, cfg)
  BY <1>1, <1>2, <1>3, <1>4, <1>5 DEF CanaryNext
<1> QED BY <1>6

\* The resolvers and the expected values of a test.
LEMMA DNSInputs ==
    /\ \A r \in Resolvers : r.delay \in Nat
    /\ \A cfg \in DNSConfigs : \A v \in cfg.expected : v.family \in Families
<1>1. \A r \in Resolvers : r.delay \in Nat
  <2>1. Deadline \in Nat
    BY CanariesAssumption
  <2>2. ASSUME NEW r \in Resolvers PROVE r.delay \in 0 .. Deadline \/ r.delay = 1
    BY DEF Resolvers
  <2> QED BY <2>1, <2>2
<1>2. \A cfg \in DNSConfigs : \A v \in cfg.expected : v.family \in Families
  BY CanariesAssumption DEF DNSConfigs
<1> QED BY <1>1, <1>2

\* Whatever resolvers a test has, how long each takes and whatever it holds, the verdict
\* is the one that asking them in turn under one deadline justifies, and it is
\* there by the deadline.
THEOREM DNSVerdictRight == CanarySpec => []DNSVerdict
<1>1. CanaryInit => DNSVerdict
  <2>1. CanaryInit => test.canary # "dns"
    BY DEF CanaryInit
  <2> QED BY <2>1 DEF DNSVerdict
<1>2. DNSVerdict /\ [CanaryNext]_test => DNSVerdict'
  <2> SUFFICES ASSUME DNSVerdict, [CanaryNext]_test, test'.canary = "dns"
               PROVE  DNSVerdict'
    BY DEF DNSVerdict
  <2>1. CASE CanaryNext
    <3>0. PICK n \in 0 .. MaxResolvers :
            \E resolvers \in [1 .. n -> Resolvers], cfg \in DNSConfigs : \E system :
                (n = 0 => system \in Resolvers) /\ DNSTest(resolvers, system, cfg)
      BY <2>1, DNSDone
    <3>r. PICK resolvers \in [1 .. n -> Resolvers], cfg \in DNSConfigs :
            \E system : (n = 0 => system \in Resolvers) /\ DNSTest(resolvers, system, cfg)
      BY <3>0
    <3>1. PICK system : (n = 0 => system \in Resolvers) /\ DNSTest(resolvers, system, cfg)
      BY <3>r
    <3> DEFINE asked == IF resolvers = <<>> THEN <<system>> ELSE resolvers
               results == queryInTurn(asked, cfg, Deadline)
               type == RecordType(cfg)
    <3>2. n \in Nat /\ Deadline \in Nat
      BY CanariesAssumption
    <3>3. asked \in Seq(Resolvers) /\ asked # <<>>
      BY <3>1, <3>2
    <3>4. /\ \A r \in Resolvers : r.delay \in Nat
          /\ \A v \in cfg.expected : v.family \in Families
      BY DNSInputs
    <3>5. /\ test'.cfg = cfg /\ test'.outcome.asked = asked /\ test'.outcome.resolvers = results
          /\ test'.outcome.success = \A i \in DOMAIN results : results[i].success
      BY <3>1 DEF DNSTest, dnsExecute
    <3>6. test'.outcome.success <=> \A i \in DOMAIN results : results[i].success
      BY <3>5
    <3> HIDE DEF asked
    <3>7. /\ DOMAIN results = DOMAIN asked
          /\ \A i \in DOMAIN asked : results[i].at <= Deadline
          /\ (\A i \in DOMAIN results : results[i].success) <=>
                /\ type \in RecordTypes \ {"SOA"}
                /\ \A i \in DOMAIN asked :
                    /\ AnsweredAt(asked)[i] < Deadline
                    /\ HoldsExpected(asked[i], type, cfg.expected)
      BY <3>2, <3>3, <3>4, VerdictInTurn
    <3> HIDE DEF results, type
    <3>8. test'.outcome.success <=>
            /\ type \in RecordTypes \ {"SOA"}
            /\ \A i \in DOMAIN asked :
                /\ AnsweredAt(asked)[i] < Deadline
                /\ asked[i].err = ""
                /\ \A v \in cfg.expected :
                    /\ v \in asked[i].values
                    /\ type \in {"A", "AAAA"} => (v.family = "v4" <=> type = "A")
      BY <3>6, <3>7 DEF HoldsExpected
    <3> QED BY <3>5, <3>7, <3>8 DEF DNSVerdict, type
  <2>2. CASE UNCHANGED test
    BY <2>2 DEF DNSVerdict
  <2> QED BY <2>1, <2>2
<1> QED BY <1>1, <1>2, PTL DEF CanarySpec

-----------------------------------------------------------------------------
(* The HTTP canary.                                                        *)

\* Which test a step that leaves an HTTP verdict behind has run.
LEMMA HTTPDone ==
    ASSUME CanaryNext, test'.canary = "http"
    PROVE  \E site \in Sites, cfg \in HTTPConfigs : httpValidate(cfg) /\ HTTPTest(site, cfg)
<1>1. ASSUME NEW resolvers, NEW system, NEW cfg, DNSTest(resolvers, system, cfg) PROVE FALSE
  BY <1>1 DEF DNSTest
<1>2. ASSUME NEW sent, NEW lost, MTRHop(sent, lost) PROVE FALSE
  BY <1>2 DEF MTRHop
<1>3. ASSUME NEW probes, ScamperHop(probes) PROVE FALSE
  BY <1>3 DEF ScamperHop
<1>4. ASSUME NEW asns, PathTest(asns) PROVE FALSE
  BY <1>4 DEF PathTest
<1>5. ASSUME NEW by, NEW cfg, NEW accepted, Validation(by, cfg, accepted) PROVE FALSE
  BY <1>5 DEF Validation
<1> QED BY <1>1, <1>2, <1>3, <1>4, <1>5 DEF CanaryNext

\* What Execute answers, for the defaults it puts in the place of what is missing.
LEMMA HTTPOutcome ==
    ASSUME NEW site \in Sites, NEW cfg \in HTTPConfigs, httpValidate(cfg)
    PROVE  LET follows == cfg.followRedirects # "no"
               reached == IF follows \/ site.redirects = 0 THEN site.answer ELSE site.redirect
           IN  httpExecute(site, cfg).success <=>
                /\ ~site.fails
                /\ follows =>
                    site.redirects <= IF cfg.maxRedirects = 0 THEN 10 ELSE cfg.maxRedirects
                /\ reached.status = IF cfg.expectedStatus = 0 THEN 200 ELSE cfg.expectedStatus
                /\ cfg.contentMatch => cfg.method # "HEAD" /\ reached.contains
                /\ cfg.regex = "valid" => reached.matches
<1> DEFINE c == withDefaults(cfg)
           limit == IF cfg.maxRedirects = 0 THEN 10 ELSE cfg.maxRedirects
           stops == cfg.followRedirects = "no" /\ site.redirects > 0
           last == IF stops THEN site.redirect ELSE site.answer
           m == doRequest(site, c)
<1>1. /\ cfg.maxRedirects \in Nat /\ site.redirects \in Nat /\ limit \in Nat
      /\ cfg.regex \in {"none", "valid"}
  <2>1. cfg.maxRedirects \in RedirectLimits /\ site.redirects \in Redirects
        /\ cfg.regex \in {"none", "valid", "invalid"}
    BY DEF HTTPConfigs, Sites
  <2> QED BY <2>1, CanariesAssumption DEF httpValidate
<1>2. /\ c.method = IF cfg.method = "" THEN "GET" ELSE cfg.method
      /\ c.expectedStatus = IF cfg.expectedStatus = 0 THEN 200 ELSE cfg.expectedStatus
      /\ c.maxRedirects = limit
      /\ c.regex = cfg.regex
      /\ c.contentMatch = cfg.contentMatch
      /\ c.followRedirects = (cfg.followRedirects # "no")
  BY DEF withDefaults, HTTPConfigs
<1>3. c.followRedirects <=> cfg.followRedirects # "no"
  BY <1>2
<1> HIDE DEF c
<1>4. (~c.followRedirects /\ site.redirects > 0) <=> stops
  BY <1>3
<1>5. (\E n \in 1 .. site.redirects : Exceeds(c, n)) <=> site.redirects > limit
  <2>1. ASSUME NEW n \in 1 .. site.redirects PROVE Exceeds(c, n) <=> n > limit
    BY <1>2 DEF Exceeds
  <2>2. ASSUME site.redirects > limit PROVE site.redirects \in 1 .. site.redirects
    BY <1>1, <2>2
  <2>3. ASSUME NEW n \in 1 .. site.redirects, n > limit PROVE site.redirects > limit
    BY <1>1, <2>3
  <2> QED BY <2>1, <2>2, <2>3
<1>6. contentMatched(c, last) <=>
        /\ cfg.contentMatch => cfg.method # "HEAD" /\ last.contains
        /\ cfg.regex = "valid" => last.matches
  <2>1. c.method # "HEAD" <=> cfg.method # "HEAD"
    BY <1>2
  <2> HIDE DEF last
  <2> QED BY <1>1, <1>2, <2>1 DEF contentMatched
<1>7. (IF ~c.followRedirects /\ site.redirects > 0 THEN site.redirect ELSE site.answer) = last
  BY <1>4
<1>8. /\ m.statusCode = last.status
      /\ m.contentMatched = contentMatched(c, last)
  <2> HIDE DEF last
  <2> QED BY <1>7 DEF doRequest
<1>9. m.failed <=> site.fails \/ (~stops /\ site.redirects > limit)
  <2>1. m.failed = (site.fails \/ (~(~c.followRedirects /\ site.redirects > 0)
                                    /\ \E n \in 1 .. site.redirects : Exceeds(c, n)))
    BY DEF doRequest
  <2> HIDE DEF m, limit, stops
  <2> QED BY <1>4, <1>5, <2>1, Zenon
<1>10. httpExecute(site, cfg).success =
        (~m.failed /\ m.statusCode = c.expectedStatus /\ m.contentMatched)
  <2> HIDE DEF m
  <2> QED BY DEF httpExecute, m, c
<1> HIDE DEF m
<1>11. httpExecute(site, cfg).success <=>
        /\ ~(site.fails \/ (~stops /\ site.redirects > limit))
        /\ last.status = IF cfg.expectedStatus = 0 THEN 200 ELSE cfg.expectedStatus
        /\ cfg.contentMatch => cfg.method # "HEAD" /\ last.contains
        /\ cfg.regex = "valid" => last.matches
  <2> HIDE DEF last, stops, limit
  <2>1. m.contentMatched <=>
        /\ cfg.contentMatch => cfg.method # "HEAD" /\ last.contains
        /\ cfg.regex = "valid" => last.matches
    BY <1>6, <1>8, Zenon
  <2>2. m.statusCode = c.expectedStatus <=>
            last.status = IF cfg.expectedStatus = 0 THEN 200 ELSE cfg.expectedStatus
    BY <1>2, <1>8
  <2> QED BY <1>9, <1>10, <2>1, <2>2, Zenon
<1>12. last = IF cfg.followRedirects # "no" \/ site.redirects = 0 THEN site.answer
              ELSE site.redirect
  BY <1>1
<1>13. ~(~stops /\ site.redirects > limit) <=>
            (cfg.followRedirects # "no" => site.redirects <= limit)
  BY <1>1
<1> HIDE DEF last, stops, limit
<1> QED BY <1>11, <1>12, <1>13, Zenon DEF limit

\* Whatever a site does with a request, and whatever the test's limits, its verdict is
\* about the answer that following the redirects reaches.
THEOREM HTTPVerdictRight == CanarySpec => []HTTPVerdict
<1>1. CanaryInit => HTTPVerdict
  <2>1. CanaryInit => test.canary # "http"
    BY DEF CanaryInit
  <2> QED BY <2>1 DEF HTTPVerdict
<1>2. HTTPVerdict /\ [CanaryNext]_test => HTTPVerdict'
  <2> SUFFICES ASSUME HTTPVerdict, [CanaryNext]_test, test'.canary = "http"
               PROVE  HTTPVerdict'
    BY DEF HTTPVerdict
  <2>1. CASE CanaryNext
    <3>1. PICK site \in Sites, cfg \in HTTPConfigs : httpValidate(cfg) /\ HTTPTest(site, cfg)
      BY <2>1, HTTPDone
    <3>2. test'.cfg = cfg /\ test'.site = site /\ test'.outcome = httpExecute(site, cfg)
      BY <3>1 DEF HTTPTest
    <3> QED BY <3>1, <3>2, HTTPOutcome DEF HTTPVerdict
  <2>2. CASE UNCHANGED test
    BY <2>2 DEF HTTPVerdict
  <2> QED BY <2>1, <2>2
<1> QED BY <1>1, <1>2, PTL DEF CanarySpec

-----------------------------------------------------------------------------
(* The traceroute canary: parseMTRJSON and parseScamperJSON.               *)

\* The probes that received counts back from mtr's rounded percentage are those
\* received, while mtr sends a hop fewer than a thousand.
THEOREM ReceivedIsExact ==
    ASSUME NEW sent \in 1 .. 999, NEW lost \in 0 .. sent
    PROVE  received(sent, LossReported(sent, lost)) = sent - lost
<1> DEFINE n == 2 * sent
           loss == (2000 * lost + sent) \div n
           m == n * loss
<1>1. n \in Nat \ {0} /\ 2000 * lost + sent \in Nat
  OBVIOUS
<1>2. loss \in Nat /\ m <= 2000 * lost + sent /\ 2000 * lost + sent < m + n /\ m \in Nat
  BY <1>1
<1>3. 2 * sent * loss = m /\ LossReported(sent, lost) = loss
  BY <1>1, <1>2 DEF LossReported
<1> HIDE DEF loss, m
<1>4. received(sent, LossReported(sent, lost)) = sent - (m + 1000) \div 2000
  <2>1. received(sent, loss) = sent - (2 * sent * loss + 1000) \div 2000
    BY DEF received
  <2> QED BY <1>3, <2>1
<1>5. (m + 1000) \div 2000 = lost
  BY <1>1, <1>2
<1> QED BY <1>4, <1>5

\* What the probes of a hop say of it, from the numbers made of them.
LEMMA RTTsFit ==
    ASSUME NEW n \in Nat, NEW probes \in [1 .. n -> Probes], Replies(probes) # {}
    PROVE  /\ RTTMin(probes) <= RTTMax(probes)
           /\ RTTMax(probes) = Max({probes[i].rtt : i \in Replies(probes)})
           /\ probes[1].reply => RTTMin(probes) = Min({probes[i].rtt : i \in Replies(probes)})
<1> DEFINE s == {probes[i].rtt : i \in Replies(probes)}
           t == {probes[i].rtt : i \in Replies(probes) \cup {1}}
<1>1. /\ MaxProbes \in Nat /\ 1 \in 1 .. n
      /\ Replies(probes) \subseteq 1 .. n
      /\ \A i \in 1 .. n : probes[i].rtt \in 0 .. MaxProbes
  <2>1. MaxProbes \in Nat
    BY CanariesAssumption
  <2>2. Replies(probes) \subseteq 1 .. n
    BY DEF Replies
  <2>3. \A i \in 1 .. n : probes[i] \in Probes
    OBVIOUS
  <2> QED BY <2>1, <2>2, <2>3 DEF Probes
<1>2. /\ s \in SUBSET (0 .. MaxProbes) /\ s # {}
      /\ t \in SUBSET Nat /\ t # {} /\ s \subseteq t
      /\ s \cup {0} \in SUBSET (0 .. MaxProbes)
  BY <1>1
<1>3. probes[1].reply => s = t
  BY <1>1 DEF Replies
<1>4. RTTMin(probes) = Min(t) /\ RTTMax(probes) = Max(s \cup {0})
  BY DEF RTTMin, RTTMax
<1> HIDE DEF s, t
<1>5. Max(s) \in s /\ \A x \in s : x <= Max(s)
  BY <1>1, <1>2, GreatestElement
<1>6. Max(s \cup {0}) \in s \cup {0} /\ \A x \in s \cup {0} : x <= Max(s \cup {0})
  <2>1. s \cup {0} # {}
    OBVIOUS
  <2> QED BY <1>1, <1>2, <2>1, GreatestElement
<1>7. Min(t) \in t /\ \A x \in t : Min(t) <= x
  BY <1>2, MinInside
<1>8. Max(s \cup {0}) = Max(s)
  <2>1. Max(s \cup {0}) \in Nat /\ Max(s) \in Nat
    <3>1. Max(s) \in 0 .. MaxProbes
      BY <1>2, <1>5
    <3>2. Max(s \cup {0}) \in 0 .. MaxProbes
      BY <1>2, <1>6
    <3> QED BY <1>1, <3>1, <3>2
  <2>2. Max(s) <= Max(s \cup {0})
    BY <1>5, <1>6
  <2>3. Max(s \cup {0}) <= Max(s)
    BY <1>5, <1>6, <2>1
  <2> QED BY <2>1, <2>2, <2>3
<1>9. Min(t) <= Max(s)
  BY <1>2, <1>5, <1>7
<1> QED BY <1>3, <1>4, <1>8, <1>9 DEF s

\* Which hop a step that leaves one behind has read.
LEMMA HopRead ==
    ASSUME CanaryNext
    PROVE  /\ test'.canary = "mtr" =>
                \E sent \in 1 .. MaxSent : \E lost \in 0 .. sent : MTRHop(sent, lost)
           /\ test'.canary = "scamper" =>
                \E n \in 1 .. MaxProbes : \E probes \in [1 .. n -> Probes] : ScamperHop(probes)
<1>1. ASSUME NEW resolvers, NEW system, NEW cfg, DNSTest(resolvers, system, cfg)
      PROVE  test'.canary \notin {"mtr", "scamper"}
  BY <1>1 DEF DNSTest
<1>2. ASSUME NEW site, NEW cfg, HTTPTest(site, cfg) PROVE test'.canary \notin {"mtr", "scamper"}
  BY <1>2 DEF HTTPTest
<1>3. ASSUME NEW sent, NEW lost, MTRHop(sent, lost) PROVE test'.canary = "mtr"
  BY <1>3 DEF MTRHop
<1>4. ASSUME NEW probes, ScamperHop(probes) PROVE test'.canary = "scamper"
  BY <1>4 DEF ScamperHop
<1>5. ASSUME NEW asns, PathTest(asns) PROVE test'.canary \notin {"mtr", "scamper"}
  BY <1>5 DEF PathTest
<1>6. ASSUME NEW by, NEW cfg, NEW accepted, Validation(by, cfg, accepted)
      PROVE  test'.canary \notin {"mtr", "scamper"}
  BY <1>6 DEF Validation
<1> QED BY <1>1, <1>2, <1>3, <1>4, <1>5, <1>6 DEF CanaryNext

\* Whatever probes a hop answered, its numbers are about them.
THEOREM HopsAddUp == CanarySpec => []HopStatistics
<1>1. CanaryInit => HopStatistics
  <2>1. CanaryInit => test.canary # "mtr" /\ test.canary # "scamper"
    BY DEF CanaryInit
  <2> QED BY <2>1 DEF HopStatistics
<1>2. HopStatistics /\ [CanaryNext]_test => HopStatistics'
  <2> SUFFICES ASSUME HopStatistics, [CanaryNext]_test PROVE HopStatistics'
    OBVIOUS
  <2>1. CASE CanaryNext
    <3>1. ASSUME test'.canary = "mtr" PROVE test'.hop.received = test'.sent - test'.lost
      <4>0. PICK sent \in 1 .. MaxSent : \E lost \in 0 .. sent : MTRHop(sent, lost)
        BY <2>1, <3>1, HopRead
      <4>1. PICK lost \in 0 .. sent : MTRHop(sent, lost)
        BY <4>0
      <4>2. sent \in 1 .. 999
        BY CanariesAssumption
      <4>3. /\ test'.sent = sent /\ test'.lost = lost
            /\ test'.hop.received = received(sent, LossReported(sent, lost))
        BY <4>1 DEF MTRHop, parseMTRJSON
      <4> QED BY <4>2, <4>3, ReceivedIsExact
    <3>2. ASSUME test'.canary = "scamper", test'.hop.received > 0
          PROVE  LET RTTs == {test'.probes[i].rtt :
                                    i \in {j \in DOMAIN test'.probes : test'.probes[j].reply}}
                 IN  /\ test'.hop.rttMin <= test'.hop.rttMax
                     /\ test'.hop.rttMax = Max(RTTs)
                     /\ test'.probes[1].reply => test'.hop.rttMin = Min(RTTs)
      <4>0. PICK n \in 1 .. MaxProbes : \E probes \in [1 .. n -> Probes] : ScamperHop(probes)
        BY <2>1, <3>2, HopRead
      <4>1. PICK probes \in [1 .. n -> Probes] : ScamperHop(probes)
        BY <4>0
      <4>2. /\ test'.probes = probes
            /\ test'.hop.received = Cardinality(Replies(probes))
            /\ test'.hop.rttMin = IF Replies(probes) = {} THEN 0 ELSE RTTMin(probes)
            /\ test'.hop.rttMax = IF Replies(probes) = {} THEN 0 ELSE RTTMax(probes)
        BY <4>1 DEF ScamperHop, parseScamperJSON
      <4>3. Replies(probes) # {}
        <5>1. Cardinality({}) = 0
          BY FS_EmptySet
        <5>2. Cardinality(Replies(probes)) # 0
          BY <3>2, <4>2
        <5> QED BY <5>1, <5>2
      <4>4. n \in Nat
        BY CanariesAssumption
      <4>5. /\ RTTMin(probes) <= RTTMax(probes)
            /\ RTTMax(probes) = Max({probes[i].rtt : i \in Replies(probes)})
            /\ probes[1].reply => RTTMin(probes) = Min({probes[i].rtt : i \in Replies(probes)})
        BY <4>3, <4>4, RTTsFit
      <4> QED BY <4>2, <4>3, <4>5 DEF Replies
    <3> QED BY <3>1, <3>2, Zenon DEF HopStatistics
  <2>2. CASE UNCHANGED test
    BY <2>2 DEF HopStatistics
  <2> QED BY <2>1, <2>2
<1> QED BY <1>1, <1>2, PTL DEF CanarySpec

-----------------------------------------------------------------------------
(* What Validate accepts.                                                  *)

\* Which configuration a step that leaves a validation behind has validated.
LEMMA ValidationDone ==
    ASSUME CanaryNext, test'.canary = "validate"
    PROVE  \/ \E cfg \in DNSConfigs : Validation("dns", cfg, dnsValidate(cfg))
           \/ \E cfg \in HTTPConfigs : Validation("http", cfg, httpValidate(cfg))
           \/ \E cfg \in TracerouteConfigs : Validation("traceroute", cfg, trValidate(cfg))
<1>1. ASSUME NEW resolvers, NEW system, NEW cfg, DNSTest(resolvers, system, cfg) PROVE FALSE
  BY <1>1 DEF DNSTest
<1>2. ASSUME NEW site, NEW cfg, HTTPTest(site, cfg) PROVE FALSE
  BY <1>2 DEF HTTPTest
<1>3. ASSUME NEW sent, NEW lost, MTRHop(sent, lost) PROVE FALSE
  BY <1>3 DEF MTRHop
<1>4. ASSUME NEW probes, ScamperHop(probes) PROVE FALSE
  BY <1>4 DEF ScamperHop
<1>5. ASSUME NEW asns, PathTest(asns) PROVE FALSE
  BY <1>5 DEF PathTest
<1> QED BY <1>1, <1>2, <1>3, <1>4, <1>5 DEF CanaryNext

\* A resolver that holds just what a test expects, and answers at once, makes it
\* succeed, whatever of one family the test expects.
LEMMA DNSCanSucceed ==
    ASSUME NEW cfg \in DNSConfigs, dnsValidate(cfg), RecordType(cfg) # "SOA",
           Kept(RecordType(cfg), cfg.expected) = cfg.expected
    PROVE  \E r \in Resolvers : dnsExecute(<<r>>, r, cfg, Deadline).success
<1> DEFINE r == [delay |-> 0, err |-> "", values |-> cfg.expected]
           type == RecordType(cfg)
           asked == <<r>>
<1>1. cfg.expected \in SUBSET Values /\ cfg.recordType \in {"", "A", "AAAA", "CNAME", "SOA", "PTR"}
  BY DEF DNSConfigs
<1>2. Deadline \in Nat /\ Deadline > 0
  BY CanariesAssumption
<1>3. r \in Resolvers /\ r.delay = 0 /\ r.values = cfg.expected /\ r.err = ""
  <2>1. 0 \in 0 .. Deadline
    BY <1>2
  <2>2. r \in [delay : 0 .. Deadline, err : {""}, values : SUBSET Values]
    BY <1>1, <2>1
  <2> HIDE DEF r
  <2>3. r \in Resolvers
    BY <2>2, Zenon DEF Resolvers
  <2> QED BY <2>3 DEF r
<1>4. type \in RecordTypes \ {"SOA"}
  BY <1>1 DEF RecordType, dnsValidate, RecordTypes
<1>5. HoldsExpected(r, type, cfg.expected)
  <2>1. ASSUME NEW v \in cfg.expected
        PROVE  type \in {"A", "AAAA"} => (v.family = "v4" <=> type = "A")
    <3>1. CASE type = "A"
      BY <3>1 DEF Kept
    <3>2. CASE type = "AAAA"
      <4>1. v \in Kept(type, cfg.expected)
        OBVIOUS
      <4>2. v.family = "v6"
        BY <3>2, <4>1 DEF Kept
      <4> QED BY <3>2, <4>2
    <3> QED BY <3>1, <3>2
  <2> HIDE DEF type
  <2> QED BY <2>1 DEF HoldsExpected
<1>6. asked \in Seq(Resolvers) /\ asked # <<>> /\ DOMAIN asked = {1} /\ asked[1] = r
  <2> HIDE DEF r
  <2>0. r \in Resolvers
    BY <1>3
  <2>1. <<r>> \in Seq(Resolvers) /\ Len(<<r>>) = 1 /\ <<r>>[1] = r
    BY <2>0
  <2>2. <<r>> # <<>>
    OBVIOUS
  <2>3. DOMAIN <<r>> = 1 .. 1
    OBVIOUS
  <2>4. 1 .. 1 = {1}
    OBVIOUS
  <2> QED BY <2>1, <2>2, <2>3, <2>4
<1>7. AnsweredAt(asked)[1] = 0
  <2>1. AnsweredAt(asked)[0] = 0 /\ AnsweredAt(asked)[1] = AnsweredAt(asked)[0] + asked[1].delay
    <3>1. Len(asked) = 1
      OBVIOUS
    <3> DEFINE at == AnsweredAt(asked)
    <3> HIDE DEF asked, r
    <3>2. /\ at[0] = 0
          /\ \A i \in 1 .. Len(asked) : at[i] = at[i - 1] + asked[i].delay
      BY <1>6, DNSInputs, AnsweredAtSteps
    <3>3. 1 \in 1 .. Len(asked) /\ 1 - 1 = 0
      BY <3>1
    <3> HIDE DEF at
    <3>4. at[0] = 0 /\ at[1] = at[0] + asked[1].delay
      BY <3>2, <3>3
    <3> QED BY <3>4 DEF at
  <2>2. asked[1].delay = 0
    <3> HIDE DEF r
    <3> QED BY <1>3, <1>6
  <2> HIDE DEF asked
  <2> QED BY <2>1, <2>2
<1> DEFINE results == queryInTurn(asked, cfg, Deadline)
<1>8. \A i \in DOMAIN results : results[i].success
  <2>1. \A v \in cfg.expected : v.family \in Families
    BY DNSInputs
  <2> HIDE DEF asked, type, r
  <2> QED BY <1>2, <1>4, <1>5, <1>6, <1>7, <2>1, DNSInputs, VerdictInTurn DEF type
<1>9. dnsExecute(<<r>>, r, cfg, Deadline).success = \A i \in DOMAIN results : results[i].success
  <2>1. asked # <<>>
    BY <1>6
  <2> HIDE DEF r
  <2> QED BY <2>1 DEF dnsExecute
<1> HIDE DEF r, results
<1> QED BY <1>3, <1>8, <1>9

\* A site that answers at once, with the status and the content expected, makes a test
\* of it succeed, but for a text that the body of a HEAD cannot hold.
LEMMA HTTPCanSucceed ==
    ASSUME NEW cfg \in HTTPConfigs, httpValidate(cfg), ~(cfg.method = "HEAD" /\ cfg.contentMatch)
    PROVE  \E site \in Sites : httpExecute(site, cfg).success
<1> DEFINE status == IF cfg.expectedStatus = 0 THEN 200 ELSE cfg.expectedStatus
           answer == [status |-> status, contains |-> TRUE, matches |-> TRUE]
           moved == [status |-> 301, contains |-> TRUE, matches |-> TRUE]
           site == [redirects |-> 0, redirect |-> moved, answer |-> answer, fails |-> FALSE]
           limit == IF cfg.maxRedirects = 0 THEN 10 ELSE cfg.maxRedirects
<1>1. site \in Sites
  <2>1. status \in {200, 301, 500}
    BY DEF HTTPConfigs
  <2>2. answer \in Answers /\ moved \in Answers
    BY <2>1 DEF Answers
  <2>3. 0 \in Redirects
    BY CanariesAssumption
  <2> HIDE DEF answer
  <2> QED BY <2>2, <2>3 DEF Sites
<1>2. 0 <= limit
  <2>1. cfg.maxRedirects \in Nat
    BY CanariesAssumption DEF HTTPConfigs
  <2> QED BY <2>1
<1>3. /\ site.fails = FALSE /\ site.redirects = 0 /\ site.answer = answer
      /\ answer.status = status /\ answer.contains = TRUE /\ answer.matches = TRUE
  OBVIOUS
<1> HIDE DEF site, answer
<1>4. httpExecute(site, cfg).success
  BY <1>1, <1>2, <1>3, HTTPOutcome
<1> QED BY <1>1, <1>4

\* Either tool's report of a hop at the target makes a test succeed.
LEMMA TracerouteCanSucceed ==
    ASSUME NEW config \in TracerouteConfigs, trValidate(config)
    PROVE  LET cfg == mergeDefaults(config)
               hop == [host |-> [kind |-> "address", ip |-> "target"], sent |-> 1, loss |-> 0,
                       probes |-> <<[reply |-> TRUE, rtt |-> 1]>>]
           IN  /\ trExecute(config, FALSE, <<hop>>, {"target"}).reached
               /\ cfg.protocol.name \in Protocols
               /\ cfg.protocol.lower => buildMTRArgs(cfg) = buildScamperArgs(cfg)
<1> DEFINE cfg == mergeDefaults(config)
           hop == [host |-> [kind |-> "address", ip |-> "target"], sent |-> 1, loss |-> 0,
                   probes |-> <<[reply |-> TRUE, rtt |-> 1]>>]
           hops == IF cfg.backend = "mtr" THEN parseMTRJSON(<<hop>>) ELSE parseScamperJSON(<<hop>>)
<1>1. /\ cfg.backend \in {"mtr", "scamper"}
      /\ cfg.protocol.name \in Protocols
  BY DEF TracerouteConfigs, mergeDefaults, trValidate, Backends, Protocols
<1>2. cfg.protocol.lower => buildMTRArgs(cfg) = buildScamperArgs(cfg)
  BY DEF buildMTRArgs, buildScamperArgs
<1> HIDE DEF cfg
<1>3. DOMAIN hops = {1} /\ hops[1].ip = "target"
  BY DEF parseMTRJSON, parseScamperJSON, hopIP
<1> HIDE DEF hops
<1>4. {i \in DOMAIN hops : hops[i].ip # NoIP} = {1}
  BY <1>3 DEF NoIP
<1>5. Max({1}) = 1
  <2>1. 1 \in Nat /\ {1} \in SUBSET (1 .. 1) /\ 1 \in {1}
    OBVIOUS
  <2> QED BY <2>1, MaxIsBound
<1>6. didReachTarget(hops, {"target"})
  BY <1>3, <1>4, <1>5 DEF didReachTarget
<1>7. trExecute(config, FALSE, <<hop>>, {"target"}).reached = didReachTarget(hops, {"target"})
  <2> HIDE DEF hop
  <2> QED BY <1>1 DEF trExecute, Backends, cfg, hops
<1> HIDE DEF hop
<1> QED BY <1>1, <1>2, <1>6, <1>7 DEF cfg, hop

\* Nothing that is accepted is bound to fail, but for the named exceptions.
THEOREM AcceptedSucceeds == CanarySpec => []AcceptedCanSucceed
<1>1. CanaryInit => AcceptedCanSucceed
  <2>1. CanaryInit => test.canary # "validate"
    BY DEF CanaryInit
  <2> QED BY <2>1 DEF AcceptedCanSucceed
<1>2. AcceptedCanSucceed /\ [CanaryNext]_test => AcceptedCanSucceed'
  <2> SUFFICES ASSUME AcceptedCanSucceed, [CanaryNext]_test,
                      test'.canary = "validate", test'.accepted
               PROVE  AcceptedCanSucceed'
    BY DEF AcceptedCanSucceed
  <2>1. CASE CanaryNext
    <3>1. CASE \E cfg \in DNSConfigs : Validation("dns", cfg, dnsValidate(cfg))
      <4>1. PICK cfg \in DNSConfigs : Validation("dns", cfg, dnsValidate(cfg))
        BY <3>1
      <4>2. test'.by = "dns" /\ test'.cfg = cfg /\ test'.accepted = dnsValidate(cfg)
        BY <4>1 DEF Validation
      <4> QED BY <4>2, DNSCanSucceed DEF AcceptedCanSucceed
    <3>2. CASE \E cfg \in HTTPConfigs : Validation("http", cfg, httpValidate(cfg))
      <4>1. PICK cfg \in HTTPConfigs : Validation("http", cfg, httpValidate(cfg))
        BY <3>2
      <4>2. test'.by = "http" /\ test'.cfg = cfg /\ test'.accepted = httpValidate(cfg)
        BY <4>1 DEF Validation
      <4> QED BY <4>2, HTTPCanSucceed DEF AcceptedCanSucceed
    <3>3. CASE \E cfg \in TracerouteConfigs : Validation("traceroute", cfg, trValidate(cfg))
      <4>1. PICK cfg \in TracerouteConfigs : Validation("traceroute", cfg, trValidate(cfg))
        BY <3>3
      <4>2. test'.by = "traceroute" /\ test'.cfg = cfg /\ test'.accepted = trValidate(cfg)
        BY <4>1 DEF Validation
      <4> QED BY <4>2, TracerouteCanSucceed DEF AcceptedCanSucceed
    <3> QED BY <2>1, <3>1, <3>2, <3>3, ValidationDone
  <2>2. CASE UNCHANGED test
    BY <2>2 DEF AcceptedCanSucceed
  <2> QED BY <2>1, <2>2
<1> QED BY <1>1, <1>2, PTL DEF CanarySpec

-----------------------------------------------------------------------------
(* The rate limiter admits no more, and refuses no sooner, than its rate,    *)
(* for every rate, interval and burst.                                      *)

\* More time has passed, no fewer intervals.
LEMMA DivMonotone ==
    ASSUME NEW a \in Nat, NEW b \in Nat, NEW d \in Nat \ {0}, a <= b
    PROVE  a \div d <= b \div d
  BY DivBounds, DivLargest

\* Intervals side by side hold no fewer refills than the time they span.
LEMMA DivSum ==
    ASSUME NEW a \in Nat, NEW b \in Nat, NEW d \in Nat \ {0}
    PROVE  a \div d + b \div d <= (a + b) \div d
<1> DEFINE p == a \div d
           q == b \div d
<1>1. p \in Nat /\ q \in Nat /\ d * p <= a /\ d * q <= b
  BY DivBounds
<1> HIDE DEF p, q
<1>2. d * (p + q) = d * p + d * q
  BY <1>1
<1>3. d * (p + q) <= a + b
  BY <1>1, <1>2
<1>4. p + q <= (a + b) \div d
  BY <1>1, <1>3, DivLargest
<1> QED BY <1>4 DEF p, q

\* One more interval is one more refill.
LEMMA DivNext ==
    ASSUME NEW a \in Nat, NEW b \in Nat, NEW d \in Nat \ {0}, b <= a + d
    PROVE  b \div d <= a \div d + 1
<1> DEFINE q == b \div d
<1>1. q \in Nat /\ d * q <= b
  BY DivBounds
<1> HIDE DEF q
<1>2. d * (q - 1) = d * q - d
  BY <1>1
<1>3. d * (q - 1) <= a
  BY <1>1, <1>2
<1>4. q - 1 <= a \div d
  BY <1>1, <1>3, DivLargest
<1>5. a \div d \in Nat
  BY DivBounds
<1>6. q <= a \div d + 1
  BY <1>1, <1>4, <1>5
<1> QED BY <1>6 DEF q

-----------------------------------------------------------------------------
(* The invariant.                                                          *)

LimiterTypeOK ==
    /\ now \in Nat /\ lastRefill \in Nat /\ lastRefill <= now
    /\ known \in BOOLEAN
    /\ tokens \in Nat /\ tokens <= Burst
    /\ sinceRefill \in Nat
    /\ windowStart \in Nat \cup {-1} /\ windowStart <= now
    /\ inWindow \in Nat
    /\ windowStart = -1 => inWindow = 0

\* Whole intervals that ended, at time t, since the window opened, and the one under way.
Intervals(t) == (t - windowStart) \div Interval + 1

\* A bucket was refilled with at least one interval's rate since sinceRefill was 0.
RefillSpent == known => tokens + sinceRefill >= AtMostBurst(Rate)

\* What was admitted in the window and what still can be without a refill.
WindowBound ==
    known /\ windowStart # -1 =>
        /\ lastRefill <= windowStart => inWindow + tokens <= Burst
        /\ lastRefill > windowStart =>
                inWindow + tokens <= Burst + Rate * Intervals(lastRefill)

\* A bucket that admitted in the window without a refill was fresh when it opened.
FreshWhenOpened ==
    known /\ inWindow > 0 /\ lastRefill <= windowStart => windowStart - lastRefill < Interval

\* By the time a client is forgotten the refills make up for all of its burst.
ForgottenBound ==
    ~known /\ inWindow > 0 => now > windowStart /\ inWindow <= Rate * Intervals(now)

LimiterInv ==
    LimiterTypeOK /\ RefillSpent /\ WindowBound /\ FreshWhenOpened /\ ForgottenBound

\* A refill's rate is at least one interval's, up to the burst.
LEMMA AvailableBounds ==
    ASSUME LimiterTypeOK
    PROVE  /\ Refills \in Nat
           /\ Available \in Nat /\ Available <= Burst
           /\ Refills = 0 => Available = tokens /\ now - lastRefill < Interval
           /\ Refills > 0 => /\ Available >= 1
                             /\ Available >= AtMostBurst(Rate)
                             /\ Available <= tokens + Rate * Refills
                             /\ now - lastRefill >= Interval
<1> DEFINE k == (now - lastRefill) \div Interval
<1>1. now - lastRefill \in Nat /\ Interval \in Nat \ {0} /\ Rate \in Nat \ {0} /\ Burst \in Nat \ {0}
  BY LimiterAssumption DEF LimiterTypeOK
<1>2. /\ k \in Nat /\ Interval * k <= now - lastRefill
      /\ now - lastRefill < Interval * k + Interval
  BY <1>1, DivBounds
<1>3. Refills = k
  BY DEF Refills
<1> HIDE DEF k
<1>4. CASE k = 0
  BY <1>1, <1>2, <1>3, <1>4 DEF Available, LimiterTypeOK
<1>5. CASE k > 0
  <2>1. Rate * 1 <= Rate * k /\ Interval * 1 <= Interval * k
    BY <1>1, <1>2, <1>5, MulMonotone
  <2>2. k * Rate = Rate * k /\ Rate * k \in Nat
    BY <1>1, <1>2
  <2> DEFINE m == Rate * k
  <2>3. Rate <= m /\ m \in Nat /\ Interval <= now - lastRefill
    BY <1>1, <1>2, <2>1, <2>2
  <2>4. Available = AtMostBurst(tokens + m)
    BY <1>3, <1>5, <2>2 DEF Available
  <2> HIDE DEF m
  <2>5. /\ Available \in Nat /\ Available <= Burst /\ Available >= 1
        /\ Available >= AtMostBurst(Rate) /\ Available <= tokens + m
    BY <1>1, <2>3, <2>4 DEF AtMostBurst, LimiterTypeOK
  <2> QED BY <1>2, <1>3, <1>5, <2>3, <2>5 DEF m
<1> QED BY <1>2, <1>4, <1>5

\* A refused request found a bucket younger than the interval and spent.
LEMMA RefuseChangesNothing ==
    ASSUME LimiterTypeOK, Refuse
    PROVE  UNCHANGED limiterVars
<1>1. Refills = 0 /\ Available = tokens
  BY AvailableBounds DEF Refuse, LimiterTypeOK
<1> QED BY <1>1 DEF Refuse, Refilled, limiterVars, bucket

\* A refill brings no more than the intervals that passed since the window opened.
LEMMA RefillInWindow ==
    ASSUME LimiterTypeOK, WindowBound, FreshWhenOpened, known, windowStart # -1,
           now > windowStart, inWindow > 0, Refills > 0
    PROVE  inWindow + Available <= Burst + Rate * Intervals(now)
<1> DEFINE k == (now - lastRefill) \div Interval
           g == (now - windowStart) \div Interval
<1>1. /\ Interval \in Nat \ {0} /\ Rate \in Nat \ {0} /\ Burst \in Nat
      /\ now - lastRefill \in Nat /\ now - windowStart \in Nat
  BY LimiterAssumption DEF LimiterTypeOK
<1>2. k \in Nat /\ g \in Nat
  BY <1>1, DivBounds
<1>3. Available <= tokens + Rate * k /\ Available \in Nat
  BY AvailableBounds DEF Refills
<1>4. Intervals(now) = g + 1
  BY DEF Intervals
<1>5. CASE lastRefill <= windowStart
  <2>1. inWindow + tokens <= Burst /\ windowStart - lastRefill < Interval
    BY <1>5 DEF WindowBound, FreshWhenOpened
  <2>2. now - lastRefill <= (now - windowStart) + Interval
    BY <1>1, <2>1 DEF LimiterTypeOK
  <2>3. k <= g + 1
    BY <1>1, <2>2, DivNext
  <2> HIDE DEF k, g
  <2>4. Rate * k <= Rate * (g + 1) /\ Rate * k \in Nat /\ Rate * (g + 1) \in Nat
    BY <1>1, <1>2, <2>3, MulMonotone
  <2> DEFINE x == Rate * k
             y == Rate * (g + 1)
  <2>5. x <= y /\ x \in Nat /\ y \in Nat /\ Available <= tokens + x
    BY <1>3, <2>4
  <2> HIDE DEF x, y
  <2>6. inWindow + Available <= Burst + y
    BY <1>1, <1>3, <2>1, <2>5 DEF LimiterTypeOK
  <2> QED BY <1>4, <2>6 DEF y
<1>6. CASE lastRefill > windowStart
  <2> DEFINE h == (lastRefill - windowStart) \div Interval
  <2>1. inWindow + tokens <= Burst + Rate * (h + 1)
    BY <1>6 DEF WindowBound, Intervals
  <2>2. lastRefill - windowStart \in Nat
        /\ (now - lastRefill) + (lastRefill - windowStart) = now - windowStart
    BY <1>1, <1>6 DEF LimiterTypeOK
  <2>3. k + h <= g /\ h \in Nat
    BY <1>1, <2>2, DivSum, DivBounds
  <2> HIDE DEF k, g, h
  <2>4. /\ Rate * (k + (h + 1)) <= Rate * (g + 1)
        /\ Rate * (k + (h + 1)) = Rate * k + Rate * (h + 1)
        /\ Rate * k \in Nat /\ Rate * (h + 1) \in Nat /\ Rate * (g + 1) \in Nat
    BY <1>1, <1>2, <2>3, MulMonotone
  <2> DEFINE x == Rate * k
             y == Rate * (g + 1)
             z == Rate * (h + 1)
  <2>5. /\ x + z <= y /\ x \in Nat /\ y \in Nat /\ z \in Nat
        /\ Available <= tokens + x /\ inWindow + tokens <= Burst + z
    BY <1>3, <2>1, <2>4
  <2> HIDE DEF x, y, z
  <2>6. inWindow + Available <= Burst + y
    BY <1>1, <1>3, <2>5 DEF LimiterTypeOK
  <2> QED BY <1>4, <2>6 DEF y
<1> QED BY <1>1, <1>5, <1>6 DEF LimiterTypeOK

\* A client that is forgotten has had, in the window, no more than its refills.
LEMMA ForgottenInWindow ==
    ASSUME LimiterTypeOK, WindowBound, FreshWhenOpened, Cleanup, inWindow > 0
    PROVE  now > windowStart /\ inWindow <= Rate * Intervals(now)
<1> DEFINE c == Cutoff \div Interval
           g == (now - windowStart) \div Interval
<1>1. /\ Interval \in Nat \ {0} /\ Rate \in Nat \ {0} /\ Burst \in Nat \ {0} /\ Cutoff \in Nat
      /\ windowStart \in Nat /\ now - windowStart \in Nat /\ now \in Nat /\ lastRefill \in Nat
      /\ known /\ lastRefill < now - Cutoff /\ tokens \in Nat /\ inWindow \in Nat
  BY LimiterAssumption DEF LimiterTypeOK, Cleanup
<1>2. Burst <= Rate * c
  BY LimiterAssumption
<1>3. c \in Nat /\ g \in Nat /\ Interval * c <= Cutoff
  BY <1>1, DivBounds
<1>4. c >= 1 /\ Cutoff >= Interval
  <2>1. c # 0
    <3> SUFFICES ASSUME c = 0 PROVE FALSE
      OBVIOUS
    <3>1. Rate * c = 0
      BY <1>1
    <3> QED BY <1>1, <1>2, <3>1
  <2> HIDE DEF c
  <2>2. Interval * 1 <= Interval * c
    BY <1>1, <1>3, <2>1, MulMonotone
  <2> DEFINE m == Interval * c
  <2>3. m \in Int /\ Interval <= m /\ m <= Cutoff
    BY <1>1, <1>3, <2>2
  <2> HIDE DEF m
  <2> QED BY <1>1, <1>3, <2>1, <2>3
<1>5. Intervals(now) = g + 1
  BY DEF Intervals
<1>6. CASE lastRefill <= windowStart
  <2>1. inWindow + tokens <= Burst /\ windowStart - lastRefill < Interval
    BY <1>1, <1>6 DEF WindowBound, FreshWhenOpened
  <2>2. now > windowStart /\ Cutoff <= (now - windowStart) + Interval
    BY <1>1, <1>4, <2>1
  <2>3. c <= g + 1
    BY <1>1, <2>2, DivNext
  <2> HIDE DEF c, g
  <2>4. Rate * c <= Rate * (g + 1) /\ Rate * c \in Nat /\ Rate * (g + 1) \in Nat
    BY <1>1, <1>3, <2>3, MulMonotone
  <2> DEFINE x == Rate * c
             y == Rate * (g + 1)
  <2>5. x <= y /\ x \in Nat /\ y \in Nat /\ Burst <= x
    BY <1>2, <2>4
  <2> HIDE DEF x, y
  <2>6. inWindow <= y
    BY <1>1, <2>1, <2>5
  <2> QED BY <1>5, <2>2, <2>6 DEF y
<1>7. CASE lastRefill > windowStart
  <2> DEFINE h == (lastRefill - windowStart) \div Interval
  <2>1. inWindow + tokens <= Burst + Rate * (h + 1)
    BY <1>1, <1>7 DEF WindowBound, Intervals
  <2>2. lastRefill - windowStart \in Nat
        /\ Cutoff + (lastRefill - windowStart) <= now - windowStart
        /\ Cutoff + (lastRefill - windowStart) \in Nat
    BY <1>1, <1>7
  <2>3. c + h <= (Cutoff + (lastRefill - windowStart)) \div Interval /\ h \in Nat
    BY <1>1, <2>2, DivSum, DivBounds
  <2>4. (Cutoff + (lastRefill - windowStart)) \div Interval <= g
    BY <1>1, <2>2, DivMonotone
  <2>5. (Cutoff + (lastRefill - windowStart)) \div Interval \in Nat
    BY <1>1, <2>2, DivBounds
  <2>6. c + h <= g
    <3> DEFINE n == (Cutoff + (lastRefill - windowStart)) \div Interval
    <3>1. c + h <= n /\ n <= g /\ n \in Nat
      BY <2>3, <2>4, <2>5
    <3> HIDE DEF n, c, g, h
    <3> QED BY <1>3, <2>3, <3>1
  <2> HIDE DEF c, g, h
  <2>7. /\ Rate * (c + (h + 1)) <= Rate * (g + 1)
        /\ Rate * (c + (h + 1)) = Rate * c + Rate * (h + 1)
        /\ Rate * c \in Nat /\ Rate * (h + 1) \in Nat /\ Rate * (g + 1) \in Nat
    BY <1>1, <1>3, <2>3, <2>6, MulMonotone
  <2> DEFINE x == Rate * c
             y == Rate * (g + 1)
             z == Rate * (h + 1)
  <2>8. x + z <= y /\ x \in Nat /\ y \in Nat /\ z \in Nat /\ Burst <= x /\ inWindow + tokens <= Burst + z
    BY <1>2, <2>1, <2>7
  <2> HIDE DEF x, y, z
  <2>9. inWindow <= y
    BY <1>1, <2>8
  <2> QED BY <1>1, <1>5, <1>7, <2>9 DEF y
<1> QED BY <1>1, <1>6, <1>7

\* What Intervals is worth, and that it only grows, once a window is open.
LEMMA IntervalsGrow ==
    ASSUME NEW s \in Nat, NEW t \in Nat, windowStart \in Nat, windowStart <= s, s <= t
    PROVE  Rate * Intervals(s) \in Nat /\ Rate * Intervals(s) <= Rate * Intervals(t)
           /\ Rate * Intervals(t) \in Nat
<1>1. s - windowStart \in Nat /\ t - windowStart \in Nat /\ Interval \in Nat \ {0} /\ Rate \in Nat
  BY LimiterAssumption
<1>2. (s - windowStart) \div Interval <= (t - windowStart) \div Interval
  BY <1>1, DivMonotone
<1>3. (s - windowStart) \div Interval \in Nat /\ (t - windowStart) \div Interval \in Nat
  BY <1>1, DivBounds
<1>4. Intervals(s) \in Nat /\ Intervals(t) \in Nat /\ Intervals(s) <= Intervals(t)
  BY <1>2, <1>3 DEF Intervals
<1> QED BY <1>1, <1>4, MulMonotone

\* A limiter that has seen nobody has admitted nothing.
LEMMA LimiterInitially == LimiterInit => LimiterInv
<1> SUFFICES ASSUME LimiterInit PROVE LimiterInv
  OBVIOUS
<1>1. Burst \in Nat
  BY LimiterAssumption
<1>2. LimiterTypeOK
  <2>1. known \in BOOLEAN /\ windowStart = -1
    BY DEF LimiterInit
  <2>2. now = 0 /\ lastRefill = 0 /\ tokens = 0 /\ sinceRefill = 0 /\ inWindow = 0
    BY DEF LimiterInit
  <2> QED BY <1>1, <2>1, <2>2 DEF LimiterTypeOK
<1>3. RefillSpent /\ WindowBound /\ FreshWhenOpened
  BY DEF LimiterInit, RefillSpent, WindowBound, FreshWhenOpened
<1>4. ForgottenBound
  BY DEF LimiterInit, ForgottenBound
<1> QED BY <1>2, <1>3, <1>4 DEF LimiterInv

\* A new client: all that was admitted before is made up for by the refills.
LEMMA NewVisitorKeeps == LimiterInv /\ NewVisitor => LimiterInv'
<1> SUFFICES ASSUME LimiterInv, NewVisitor PROVE LimiterInv'
  OBVIOUS
<1>1. /\ Burst \in Nat \ {0} /\ Rate \in Nat \ {0} /\ Interval \in Nat \ {0}
      /\ LimiterTypeOK /\ ForgottenBound /\ ~known /\ known'
      /\ tokens' = Burst - 1 /\ lastRefill' = now /\ sinceRefill' = 1
      /\ now' = now /\ windowStart' = windowStart
      /\ inWindow' = IF windowStart = -1 THEN inWindow ELSE inWindow + 1
  BY LimiterAssumption DEF LimiterInv, NewVisitor, Admitted
<1>2. LimiterTypeOK'
  BY <1>1 DEF LimiterTypeOK
<1>3. RefillSpent'
  BY <1>1 DEF RefillSpent, AtMostBurst
<1>4. WindowBound'
  <2> SUFFICES ASSUME windowStart # -1
               PROVE  /\ now <= windowStart => inWindow + 1 + (Burst - 1) <= Burst
                      /\ now > windowStart =>
                            inWindow + 1 + (Burst - 1) <= Burst + Rate * Intervals(now)
    BY <1>1 DEF WindowBound, Intervals
  <2>1. Rate * Intervals(now) \in Nat
    BY <1>1, IntervalsGrow DEF LimiterTypeOK
  <2> DEFINE r == Rate * Intervals(now)
  <2>2. r \in Nat /\ (inWindow > 0 => now > windowStart /\ inWindow <= r)
    BY <1>1, <2>1 DEF ForgottenBound
  <2> HIDE DEF r
  <2>3. /\ now <= windowStart => inWindow + 1 + (Burst - 1) <= Burst
        /\ now > windowStart => inWindow + 1 + (Burst - 1) <= Burst + r
    BY <1>1, <2>2 DEF LimiterTypeOK
  <2> QED BY <2>3 DEF r
<1>5. FreshWhenOpened' /\ ForgottenBound'
  BY <1>1 DEF FreshWhenOpened, ForgottenBound, LimiterTypeOK
<1> QED BY <1>2, <1>3, <1>4, <1>5 DEF LimiterInv

\* An admission spends what the refill, if there is one, has brought.
LEMMA AllowKeeps == LimiterInv /\ Allow => LimiterInv'
<1> SUFFICES ASSUME LimiterInv, Allow PROVE LimiterInv'
  OBVIOUS
<1>1. /\ Burst \in Nat \ {0} /\ Rate \in Nat \ {0} /\ Interval \in Nat \ {0}
      /\ LimiterTypeOK /\ WindowBound /\ FreshWhenOpened /\ RefillSpent
      /\ known /\ known' /\ Available > 0 /\ tokens' = Available - 1
      /\ lastRefill' = IF Refills > 0 THEN now ELSE lastRefill
      /\ sinceRefill' = IF Refills > 0 THEN 1 ELSE sinceRefill + 1
      /\ now' = now /\ windowStart' = windowStart
      /\ inWindow' = IF windowStart = -1 THEN inWindow ELSE inWindow + 1
  BY LimiterAssumption DEF LimiterInv, Allow, Admitted, Refilled
<1>2. /\ Refills \in Nat /\ Available \in Nat /\ Available <= Burst
      /\ Refills = 0 => Available = tokens /\ now - lastRefill < Interval
      /\ Refills > 0 => Available >= AtMostBurst(Rate) /\ now - lastRefill >= Interval
  BY <1>1, AvailableBounds
<1>3. LimiterTypeOK'
  BY <1>1, <1>2 DEF LimiterTypeOK
<1>4. RefillSpent'
  BY <1>1, <1>2 DEF RefillSpent, AtMostBurst, LimiterTypeOK
<1>5. WindowBound'
  <2>1. CASE Refills = 0
    BY <1>1, <1>2, <2>1 DEF WindowBound, Intervals, LimiterTypeOK
  <2>2. CASE Refills > 0
    <3> SUFFICES ASSUME windowStart # -1
                 PROVE  /\ now <= windowStart => inWindow + 1 + (Available - 1) <= Burst
                        /\ now > windowStart =>
                            inWindow + 1 + (Available - 1) <= Burst + Rate * Intervals(now)
      BY <1>1, <2>2 DEF WindowBound, Intervals
    <3> DEFINE r == Rate * Intervals(now)
    <3>1. r \in Nat
      BY <1>1, IntervalsGrow DEF LimiterTypeOK
    <3>2. now > windowStart /\ inWindow > 0 => inWindow + Available <= Burst + r
      BY <1>1, <2>2, RefillInWindow
    <3> HIDE DEF r
    <3>3. now <= windowStart => inWindow = 0
      BY <1>1, <1>2, <2>2 DEF FreshWhenOpened, LimiterTypeOK
    <3>4. /\ now <= windowStart => inWindow + 1 + (Available - 1) <= Burst
          /\ now > windowStart => inWindow + 1 + (Available - 1) <= Burst + r
      BY <1>1, <1>2, <3>1, <3>2, <3>3 DEF LimiterTypeOK
    <3> QED BY <3>4 DEF r
  <2> QED BY <1>2, <2>1, <2>2
<1>6. FreshWhenOpened' /\ ForgottenBound'
  BY <1>1, <1>2 DEF FreshWhenOpened, ForgottenBound, LimiterTypeOK
<1> QED BY <1>3, <1>4, <1>5, <1>6 DEF LimiterInv

\* What a window admitted stays bounded when cleanupLoop forgets its visitor.
LEMMA CleanupKeeps == LimiterInv /\ Cleanup => LimiterInv'
<1> SUFFICES ASSUME LimiterInv, Cleanup PROVE LimiterInv'
  OBVIOUS
<1>1. /\ LimiterTypeOK /\ WindowBound /\ FreshWhenOpened
      /\ ~known' /\ known' \in BOOLEAN /\ UNCHANGED <<now, tokens, lastRefill, sinceRefill, windowStart, inWindow>>
  BY DEF LimiterInv, Cleanup
<1>2. LimiterTypeOK' /\ RefillSpent' /\ WindowBound' /\ FreshWhenOpened'
  BY <1>1 DEF LimiterTypeOK, RefillSpent, WindowBound, FreshWhenOpened
<1>3. ForgottenBound'
  BY <1>1, ForgottenInWindow DEF ForgottenBound, Intervals
<1> QED BY <1>2, <1>3 DEF LimiterInv

\* Time and the opening of a window leave the bucket alone.
LEMMA TimeKeeps == LimiterInv /\ (TimePasses \/ OpenWindow) => LimiterInv'
<1> SUFFICES ASSUME LimiterInv PROVE TimePasses \/ OpenWindow => LimiterInv'
  OBVIOUS
<1> USE DEF LimiterInv, bucket
<1>1. ASSUME TimePasses PROVE LimiterInv'
  <2>1. now' \in Nat /\ now < now' /\ UNCHANGED <<known, tokens, lastRefill, sinceRefill, windowStart, inWindow>>
    BY <1>1, LimiterAssumption DEF TimePasses, LimiterTypeOK
  <2>2. LimiterTypeOK' /\ RefillSpent' /\ WindowBound' /\ FreshWhenOpened'
    BY <2>1 DEF LimiterTypeOK, RefillSpent, WindowBound, FreshWhenOpened, Intervals
  <2>3. ForgottenBound'
    <3> SUFFICES ASSUME ~known, inWindow > 0
                 PROVE  now' > windowStart /\ inWindow <= Rate * Intervals(now')
      BY <2>1 DEF ForgottenBound, Intervals
    <3>1. now > windowStart /\ inWindow <= Rate * Intervals(now) /\ windowStart \in Nat
      BY DEF ForgottenBound, LimiterTypeOK
    <3>2. /\ Rate * Intervals(now) <= Rate * Intervals(now')
          /\ Rate * Intervals(now) \in Nat /\ Rate * Intervals(now') \in Nat
      BY <2>1, <3>1, IntervalsGrow DEF LimiterTypeOK
    <3> DEFINE x == Rate * Intervals(now)
               y == Rate * Intervals(now')
    <3>3. inWindow <= x /\ x <= y /\ x \in Nat /\ y \in Nat
      BY <3>1, <3>2
    <3> HIDE DEF x, y
    <3>4. now' > windowStart /\ inWindow <= y
      BY <2>1, <3>1, <3>3 DEF LimiterTypeOK
    <3> QED BY <3>4 DEF y
  <2> QED BY <2>2, <2>3
<1>2. ASSUME OpenWindow PROVE LimiterInv'
  <2>1. windowStart' = now /\ inWindow = 0 /\ UNCHANGED <<now, known, tokens, lastRefill, sinceRefill, inWindow>>
    BY <1>2 DEF OpenWindow, LimiterTypeOK
  <2> QED BY <2>1 DEF LimiterTypeOK, RefillSpent, WindowBound, FreshWhenOpened, ForgottenBound
<1> QED BY <1>1, <1>2

\* Every step of the limiter keeps the invariant.
LEMMA LimiterStep == LimiterInv /\ [LimiterNext]_limiterVars => LimiterInv'
<1> SUFFICES ASSUME LimiterInv, [LimiterNext]_limiterVars PROVE LimiterInv'
  OBVIOUS
<1>1. CASE UNCHANGED limiterVars
  BY <1>1 DEF limiterVars, bucket, LimiterInv, LimiterTypeOK, RefillSpent, WindowBound,
        FreshWhenOpened, ForgottenBound, Intervals
<1>2. CASE TimePasses \/ OpenWindow
  BY <1>2, TimeKeeps
<1>3. CASE NewVisitor
  BY <1>3, NewVisitorKeeps
<1>4. CASE Allow
  BY <1>4, AllowKeeps
<1>5. CASE Refuse
  BY <1>1, <1>5, RefuseChangesNothing DEF LimiterInv
<1>6. CASE Cleanup
  BY <1>6, CleanupKeeps
<1> QED BY <1>1, <1>2, <1>3, <1>4, <1>5, <1>6 DEF LimiterNext

\* So it holds in every reachable state.
LEMMA LimiterInvariant == LimiterSpec => []LimiterInv
  BY LimiterInitially, LimiterStep, PTL DEF LimiterSpec

-----------------------------------------------------------------------------

\* In no window does allow let more requests through than the burst and the
\* refills that fit into the window, one more for the refill under way.
THEOREM LimiterAdmitsWithinRate == LimiterSpec => []AdmittedWithinRate
<1>1. LimiterInv => AdmittedWithinRate
  <2> SUFFICES ASSUME LimiterInv, windowStart # -1
               PROVE  inWindow <= Burst + Rate * Intervals(now)
    BY DEF AdmittedWithinRate, Intervals
  <2>1. LimiterTypeOK /\ WindowBound /\ ForgottenBound /\ windowStart \in Nat /\ Burst \in Nat
    BY LimiterAssumption DEF LimiterInv, LimiterTypeOK
  <2> DEFINE r == Rate * Intervals(now)
  <2>2. r \in Nat
    BY <2>1, IntervalsGrow DEF LimiterTypeOK
  <2>3. CASE known /\ lastRefill > windowStart
    <3> DEFINE x == Rate * Intervals(lastRefill)
    <3>1. x <= r /\ x \in Nat
      BY <2>1, <2>3, IntervalsGrow DEF LimiterTypeOK
    <3>2. inWindow + tokens <= Burst + x
      BY <2>1, <2>3 DEF WindowBound
    <3> HIDE DEF r, x
    <3>3. inWindow <= Burst + r
      BY <2>1, <2>2, <3>1, <3>2 DEF LimiterTypeOK
    <3> QED BY <3>3 DEF r
  <2>4. CASE known /\ ~(lastRefill > windowStart)
    <3>1. inWindow + tokens <= Burst
      BY <2>1, <2>4 DEF WindowBound, LimiterTypeOK
    <3> HIDE DEF r
    <3>2. inWindow <= Burst + r
      BY <2>1, <2>2, <3>1 DEF LimiterTypeOK
    <3> QED BY <3>2 DEF r
  <2>5. CASE ~known
    <3>1. inWindow > 0 => inWindow <= r
      BY <2>1, <2>5 DEF ForgottenBound
    <3> HIDE DEF r
    <3>2. inWindow <= Burst + r
      BY <2>1, <2>2, <3>1 DEF LimiterTypeOK
    <3> QED BY <3>2 DEF r
  <2> QED BY <2>3, <2>4, <2>5
<1> QED BY <1>1, LimiterInvariant, PTL

\* allow refuses a request only if as many as one refill brings, or the whole
\* burst, were let through in the interval before it.
THEOREM LimiterRefusesOnlyAtRate == LimiterSpec => []RefusedOnlyAtRate
<1>1. LimiterInv => RefusedOnlyAtRate
  <2> SUFFICES ASSUME LimiterInv, known, Available <= 0
               PROVE  now - lastRefill < Interval /\ sinceRefill >= AtMostBurst(Rate)
    BY DEF RefusedOnlyAtRate
  <2>1. LimiterTypeOK /\ RefillSpent
    BY DEF LimiterInv
  <2>2. Refills = 0 /\ tokens = 0 /\ now - lastRefill < Interval
    BY <2>1, AvailableBounds DEF LimiterTypeOK
  <2> QED BY <2>1, <2>2 DEF RefillSpent, LimiterTypeOK
<1> QED BY <1>1, LimiterInvariant, PTL
=============================================================================
