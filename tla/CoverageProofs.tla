--------------------------- MODULE CoverageProofs ---------------------------
(***************************************************************************)
(* What holds of Coverage for every profile, whatever its length, and for  *)
(* every pair of thresholds: the counts are those of the profile, the      *)
(* gates are monotone, and what is shown agrees with the verdict.          *)
(***************************************************************************)
EXTENDS Coverage, FoldLemmas

Count == {c \in [covered : Nat, total : Nat] : c.covered <= c.total}

TypeOK ==
  /\ DOMAIN perPkg \subseteq Imports
  /\ perPkg \in [DOMAIN perPkg -> Count]
  /\ blocks \in Seq(Blocks)

-----------------------------------------------------------------------------
(* Products and quotients of natural numbers. *)
LEMMA Products ==
  ASSUME NEW a \in Nat, NEW b \in Nat, NEW k \in Nat
  PROVE  /\ k * a \in Nat /\ k * a = a * k
         /\ k * (a + b) = k * a + k * b
         /\ a <= b => k * a <= k * b
         /\ a < b /\ k > 0 => k * a < k * b
  OBVIOUS

(* Division by a positive number, as the inequalities it stands for. *)
LEMMA Quotient ==
  ASSUME NEW a \in Nat, NEW d \in Nat, d > 0
  PROVE  /\ a \div d \in Nat
         /\ d * (a \div d) <= a
         /\ a < d * ((a \div d) + 1)
  OBVIOUS

(* A percentage is the nearest number of hundredths. *)
LEMMA PercentageIsNearest ==
  ASSUME NEW c \in Nat, NEW n \in Nat, n > 0
  PROVE  /\ Percentage(c, n) \in Nat
         /\ 2 * (n * Percentage(c, n)) <= 20000 * c + n
         /\ 20000 * c + n < 2 * (n * (Percentage(c, n) + 1))
  <1> DEFINE q == Percentage(c, n)
  <1>1. q = (20000 * c + n) \div (2 * n) /\ 20000 * c + n \in Nat /\ 2 * n \in Nat /\ 2 * n > 0
    BY DEF Percentage
  <1>2. q \in Nat /\ (2 * n) * q <= 20000 * c + n /\ 20000 * c + n < (2 * n) * (q + 1)
    BY <1>1, Quotient
  <1> HIDE DEF q
  <1>3. (2 * n) * q = 2 * (n * q) /\ (2 * n) * (q + 1) = 2 * (n * (q + 1))
    BY <1>2
  <1> QED BY <1>2, <1>3 DEF q

-----------------------------------------------------------------------------
(* The statements of a profile, read block by block. *)
StmtsStep(T) ==
  [p \in Nat \X Blocks |-> IF p[2] \in T THEN p[1] + p[2].stmts ELSE p[1]]

(* The sum over a sequence of blocks is a fold. *)
LEMMA StmtsFolded ==
  ASSUME NEW seq \in Seq(Blocks), NEW T
  PROVE  Folded(Stmts(seq, T), Nat, 0, StmtsStep(T), seq)
  <1> DEFINE V == Nat
             I == SUBSET DOMAIN seq
             step == StmtsStep(T)
             Folds(f) == f = [s \in I |->
                           IF s = {} THEN 0
                           ELSE IF seq[Max(s)] \in T
                                THEN f[s \ {Max(s)}] + seq[Max(s)].stmts
                                ELSE f[s \ {Max(s)}]]
             F == CHOOSE f : Folds(f)
  <1>1. /\ step \in [V \X Blocks -> V] /\ 0 \in V
        /\ \A n \in V, b \in Blocks : step[<<n, b>>] = IF b \in T THEN n + b.stmts ELSE n
    <2>1. \A b \in Blocks : b.stmts \in Nat
      BY CoverageAssumption DEF Blocks
    <2> QED BY <2>1 DEF StmtsStep
  <1>2. \A s \in I : s # {} => seq[Max(s)] \in Blocks /\ s \ {Max(s)} \in I
    BY LastElement
  <1> HIDE DEF step, V
  <1>3. PICK G \in [I -> V] : IsFoldLeft(G, 0, step, seq)
    BY <1>1, FoldLeftExists
  <1>4. Folds(G)
    <2>1. \A s \in I : s # {} =>
            step[<<G[s \ {Max(s)}], seq[Max(s)]>>] =
              IF seq[Max(s)] \in T THEN G[s \ {Max(s)}] + seq[Max(s)].stmts
              ELSE G[s \ {Max(s)}]
      BY <1>1, <1>2
    <2> QED BY <1>3, <2>1 DEF IsFoldLeft
  <1>5. Folds(F)
    BY <1>4
  <1>6. Stmts(seq, T) = F[DOMAIN seq]
    BY DEF Stmts, FoldLeft, MapThenFoldSet
  <1> HIDE DEF F
  <1>7. /\ F[{}] = 0
        /\ \A s \in I : s # {} /\ F[s \ {Max(s)}] \in V =>
             F[s] = step[<<F[s \ {Max(s)}], seq[Max(s)]>>]
    BY <1>1, <1>2, <1>5
  <1>8. Folded(F[DOMAIN seq], V, 0, step, seq)
    BY <1>1, <1>7, FoldLeftFolded
  <1> QED BY <1>6, <1>8 DEF step, V

(* The statements of no blocks, and of one block more. *)
LEMMA StmtsOfNone == ASSUME NEW T PROVE Stmts(<<>>, T) = 0
  <1>1. <<>> \in Seq(Blocks)
    OBVIOUS
  <1> QED BY <1>1, StmtsFolded, FoldedOfNone

(* A block more adds its statements to the sums it belongs to. *)
LEMMA StmtsOfMore ==
  ASSUME NEW seq \in Seq(Blocks), NEW b \in Blocks, NEW T
  PROVE  Stmts(Append(seq, b), T) = Stmts(seq, T) + (IF b \in T THEN b.stmts ELSE 0)
  <1>1. Append(seq, b) \in Seq(Blocks)
    BY AppendProperties
  <1>2. /\ Folded(Stmts(seq, T), Nat, 0, StmtsStep(T), seq)
        /\ Folded(Stmts(Append(seq, b), T), Nat, 0, StmtsStep(T), Append(seq, b))
    BY <1>1, StmtsFolded
  <1>3. /\ Stmts(seq, T) \in Nat
        /\ Stmts(Append(seq, b), T) = StmtsStep(T)[<<Stmts(seq, T), b>>]
    BY <1>2, FoldedOfMore
  <1> QED BY <1>3 DEF StmtsStep

-----------------------------------------------------------------------------
(* What is read and added up stays well-formed. *)
LEMMA CountedBlock ==
  ASSUME TypeOK, NEW imp \in Imports, NEW n \in NumStmts, NEW hit \in BOOLEAN,
         Block(imp, n, hit)
  PROVE  /\ [imp |-> imp, stmts |-> n, hit |-> hit] \in Blocks /\ n \in Nat
         /\ counts(imp) \in Count
         /\ DOMAIN perPkg' = DOMAIN perPkg \cup {imp}
         /\ \A p \in DOMAIN perPkg \ {imp} : perPkg'[p] = perPkg[p]
         /\ perPkg'[imp].total = counts(imp).total + n
         /\ perPkg'[imp].covered = counts(imp).covered + (IF hit THEN n ELSE 0)
         /\ perPkg'[imp] \in Count
         /\ TypeOK'
  <1>1. [imp |-> imp, stmts |-> n, hit |-> hit] \in Blocks /\ n \in Nat
    BY CoverageAssumption DEF Blocks
  <1>2. counts(imp) \in Count
    BY DEF TypeOK, counts, Count
  <1>3. perPkg' = [p \in DOMAIN perPkg \cup {imp} |->
                     IF p = imp THEN addBlock(counts(imp), n, hit) ELSE perPkg[p]]
    BY DEF Block
  <1>4. /\ addBlock(counts(imp), n, hit) \in Count
        /\ addBlock(counts(imp), n, hit).total = counts(imp).total + n
        /\ addBlock(counts(imp), n, hit).covered = counts(imp).covered + (IF hit THEN n ELSE 0)
    BY <1>1, <1>2 DEF addBlock, Count
  <1>5. blocks' \in Seq(Blocks)
    BY <1>1, AppendProperties DEF Block, TypeOK
  <1>6. TypeOK'
    BY <1>3, <1>4, <1>5 DEF TypeOK
  <1> QED BY <1>1, <1>2, <1>3, <1>4, <1>6

(* Every step reads one block. *)
LEMMA Steps ==
  ASSUME Next
  PROVE  \E imp \in Imports, n \in NumStmts, hit \in BOOLEAN : Block(imp, n, hit)
  BY DEF Next, CoveredBlock, UncoveredBlock

(* The counts are natural numbers, covered at most total. *)
LEMMA CoverageTypeCorrect == Spec => []TypeOK
  <1>1. Init => TypeOK
    BY DEF Init, TypeOK
  <1>2. TypeOK /\ [Next]_vars => TypeOK'
    <2> SUFFICES ASSUME TypeOK, [Next]_vars PROVE TypeOK'
      OBVIOUS
    <2>1. CASE Next
      BY <2>1, Steps, CountedBlock
    <2>2. CASE UNCHANGED vars
      BY <2>2 DEF vars, TypeOK
    <2> QED BY <2>1, <2>2
  <1> QED BY <1>1, <1>2, PTL DEF Spec

(* The totals of the result: numbers, of which no more is covered than there is. *)
LEMMA Totals ==
  ASSUME TypeOK
  PROVE  /\ Result(perPkg).TotalStatements \in Nat
         /\ Result(perPkg).CoveredStatements \in Nat
         /\ Result(perPkg).CoveredStatements <= Result(perPkg).TotalStatements
         /\ \A p \in DOMAIN perPkg : /\ perPkg[p].total \in Nat
                                     /\ perPkg[p].covered \in Nat
                                     /\ perPkg[p].covered <= perPkg[p].total
  <1> DEFINE D == DOMAIN perPkg
             c == [p \in D |-> perPkg[p].covered]
             t == [p \in D |-> perPkg[p].total]
  <1>1. \A p \in D : /\ perPkg[p].total \in Nat /\ perPkg[p].covered \in Nat
                     /\ perPkg[p].covered <= perPkg[p].total
    BY DEF TypeOK, Count
  <1>2. IsFiniteSet(D) /\ c \in [D -> Nat] /\ t \in [D -> Nat] /\ \A p \in D : c[p] <= t[p]
    BY <1>1, CoverageAssumption, FS_Subset DEF TypeOK
  <1>3. Result(perPkg).CoveredStatements = SumFunction(c) /\ Result(perPkg).TotalStatements = SumFunction(t)
    BY DEF Result
  <1> HIDE DEF c, t
  <1>4. SumFunction(c) \in Nat /\ SumFunction(t) \in Nat /\ SumFunction(c) <= SumFunction(t)
    BY <1>2, SumType, SumOrdered
  <1> QED BY <1>1, <1>3, <1>4

(* A block adds to the totals what it adds to its package. *)
LEMMA TotalsOfMore ==
  ASSUME TypeOK, NEW imp \in Imports, NEW n \in NumStmts, NEW hit \in BOOLEAN,
         Block(imp, n, hit)
  PROVE  /\ Result(perPkg').TotalStatements = Result(perPkg).TotalStatements + n
         /\ Result(perPkg').CoveredStatements =
              Result(perPkg).CoveredStatements + (IF hit THEN n ELSE 0)
  <1> DEFINE D == DOMAIN perPkg
             E == D \cup {imp}
             k == IF hit THEN n ELSE 0
             c == [p \in D |-> perPkg[p].covered]
             t == [p \in D |-> perPkg[p].total]
             c1 == [p \in E |-> perPkg'[p].covered]
             t1 == [p \in E |-> perPkg'[p].total]
  <1>1. /\ n \in Nat /\ k \in Nat /\ DOMAIN perPkg' = E
        /\ \A p \in D \ {imp} : perPkg'[p] = perPkg[p]
        /\ perPkg'[imp].total = counts(imp).total + n
        /\ perPkg'[imp].covered = counts(imp).covered + k
        /\ TypeOK'
    BY CountedBlock
  <1>2. IsFiniteSet(D)
    BY CoverageAssumption, FS_Subset DEF TypeOK
  <1>3. c \in [D -> Nat] /\ t \in [D -> Nat]
    BY DEF TypeOK, Count
  <1>4. c1 \in [E -> Nat] /\ t1 \in [E -> Nat]
    BY <1>1 DEF TypeOK, Count
  <1>5. /\ \A p \in D \ {imp} : c1[p] = c[p] /\ t1[p] = t[p]
        /\ c1[imp] = (IF imp \in D THEN c[imp] ELSE 0) + k
        /\ t1[imp] = (IF imp \in D THEN t[imp] ELSE 0) + n
    BY <1>1 DEF counts
  <1>6. /\ Result(perPkg).CoveredStatements = SumFunction(c)
        /\ Result(perPkg).TotalStatements = SumFunction(t)
        /\ Result(perPkg').CoveredStatements = SumFunction(c1)
        /\ Result(perPkg').TotalStatements = SumFunction(t1)
    BY <1>1 DEF Result
  <1> HIDE DEF c, t, c1, t1, k, D
  <1>7. SumFunction(c1) = SumFunction(c) + k
    BY <1>1, <1>2, <1>3, <1>4, <1>5, SumOfUpdated
  <1>8. SumFunction(t1) = SumFunction(t) + n
    BY <1>1, <1>2, <1>3, <1>4, <1>5, SumOfUpdated
  <1> QED BY <1>6, <1>7, <1>8 DEF k

-----------------------------------------------------------------------------
(* The counts of every package, met or not, are those of its blocks. *)
Hit   == {b \in Blocks : b.hit}
In(p) == {b \in Blocks : b.imp = p}

CountsInv ==
  /\ Result(perPkg).TotalStatements = Stmts(blocks, Blocks)
  /\ Result(perPkg).CoveredStatements = Stmts(blocks, Hit)
  /\ \A p \in Imports : /\ counts(p).total = Stmts(blocks, In(p))
                        /\ counts(p).covered = Stmts(blocks, In(p) \cap Hit)

(* Reading a block keeps the counts exact. *)
LEMMA CountsStep ==
  ASSUME TypeOK, CountsInv, NEW imp \in Imports, NEW n \in NumStmts, NEW hit \in BOOLEAN,
         Block(imp, n, hit)
  PROVE  CountsInv'
  <1> DEFINE b == [imp |-> imp, stmts |-> n, hit |-> hit]
  <1>1. b \in Blocks /\ n \in Nat /\ blocks' = Append(blocks, b) /\ blocks \in Seq(Blocks)
    <2>1. b \in Blocks /\ n \in Nat
      BY CountedBlock
    <2> QED BY <2>1 DEF Block, TypeOK
  <1>2. \A T : Stmts(blocks', T) = Stmts(blocks, T) + (IF b \in T THEN n ELSE 0)
    BY <1>1, StmtsOfMore
  <1>3. /\ b \in Hit <=> hit
        /\ \A p \in Imports : b \in In(p) <=> p = imp
    BY <1>1 DEF Hit, In
  <1>4. Result(perPkg').TotalStatements = Stmts(blocks', Blocks)
    BY <1>1, <1>2, TotalsOfMore DEF CountsInv
  <1>5. Result(perPkg').CoveredStatements = Stmts(blocks', Hit)
    BY <1>1, <1>2, <1>3, TotalsOfMore DEF CountsInv
  <1>6. /\ DOMAIN perPkg' = DOMAIN perPkg \cup {imp}
        /\ \A q \in DOMAIN perPkg \ {imp} : perPkg'[q] = perPkg[q]
        /\ perPkg'[imp].total = counts(imp).total + n
        /\ perPkg'[imp].covered = counts(imp).covered + (IF hit THEN n ELSE 0)
        /\ counts(imp) \in Count
    BY CountedBlock
  <1>7. ASSUME NEW p \in Imports
        PROVE  /\ counts(p)'.total = Stmts(blocks', In(p))
               /\ counts(p)'.covered = Stmts(blocks', In(p) \cap Hit)
    <2>1. /\ Stmts(blocks', In(p)) = counts(p).total + (IF p = imp THEN n ELSE 0)
          /\ Stmts(blocks', In(p) \cap Hit) =
               counts(p).covered + (IF p = imp /\ hit THEN n ELSE 0)
      BY <1>2, <1>3 DEF CountsInv
    <2>2. CASE p = imp
      <3>1. counts(p)' = perPkg'[imp]
        BY <1>6, <2>2 DEF counts
      <3>2. counts(imp).covered \in Nat /\ counts(imp).total \in Nat
        BY <1>6 DEF Count
      <3> QED BY <1>1, <1>6, <2>1, <2>2, <3>1, <3>2
    <2>3. CASE p # imp
      <3>1. counts(p)' = counts(p)
        BY <1>6, <2>3 DEF counts
      <3>2. counts(p).total \in Nat /\ counts(p).covered \in Nat
        BY DEF counts, TypeOK, Count
      <3> QED BY <2>1, <2>3, <3>1, <3>2
    <2> QED BY <2>2, <2>3
  <1> HIDE DEF b
  <1> QED BY <1>4, <1>5, <1>7 DEF CountsInv

(* The counts are those of the profile as a whole, whatever the order of its
   blocks and however the files of a package are spread over it. *)
THEOREM CountsAreExact == Spec => []CountsExact
  <1>1. Init => CountsInv
    <2> SUFFICES ASSUME Init PROVE CountsInv
      OBVIOUS
    <2>1. DOMAIN perPkg = {} /\ \A T : Stmts(blocks, T) = 0
      BY StmtsOfNone DEF Init
    <2>2. \A p : counts(p) = [covered |-> 0, total |-> 0]
      BY <2>1 DEF counts
    <2>3. Result(perPkg).TotalStatements = 0 /\ Result(perPkg).CoveredStatements = 0
      <3> DEFINE c == [p \in DOMAIN perPkg |-> perPkg[p].covered]
                 t == [p \in DOMAIN perPkg |-> perPkg[p].total]
      <3>1. c \in [{} -> Nat] /\ t \in [{} -> Nat] /\ IsFiniteSet({})
        BY <2>1, FS_EmptySet
      <3>2. SumFunction(c) = 0 /\ SumFunction(t) = 0
        <4> HIDE DEF c, t
        <4> QED BY <3>1, SumType
      <3> QED BY <3>2 DEF Result
    <2> QED BY <2>1, <2>2, <2>3 DEF CountsInv
  <1>2. TypeOK /\ CountsInv /\ [Next]_vars => CountsInv'
    <2> SUFFICES ASSUME TypeOK, CountsInv, [Next]_vars PROVE CountsInv'
      OBVIOUS
    <2>1. CASE Next
      BY <2>1, Steps, CountsStep
    <2>2. CASE UNCHANGED vars
      BY <2>2 DEF vars, CountsInv, counts
    <2> QED BY <2>1, <2>2
  <1>3. TypeOK /\ CountsInv => CountsExact
    BY DEF TypeOK, CountsInv, CountsExact, counts, Hit, In
  <1> QED BY <1>1, <1>2, <1>3, CoverageTypeCorrect, PTL DEF Spec

-----------------------------------------------------------------------------
(* The comparison of a coverage with a threshold. *)
LEMMA Threshold ==
  ASSUME NEW th \in Percent
  PROVE  /\ th \in Nat /\ th <= Hundred /\ th # NaN /\ (Less(0, th) <=> 0 < th)
         /\ Hundred \in Nat /\ Hundred > 0
  <1>1. Hundred \in Nat /\ Hundred > 0
    BY GatesAssumption DEF Hundred
  <1>2. th \in Nat /\ th <= Hundred
    BY <1>1 DEF Percent
  <1>3. th # NaN /\ 0 # NaN
    BY <1>2, GatesAssumption
  <1> QED BY <1>1, <1>2, <1>3 DEF Less

(* A threshold times a number of statements. *)
LEMMA ThresholdTimes ==
  ASSUME NEW th \in Percent, NEW n \in Nat
  PROVE  th * n \in Nat /\ th * n <= Hundred * n /\ Hundred * n \in Nat
  <1>1. th \in Nat /\ th <= Hundred /\ Hundred \in Nat
    BY Threshold
  <1>2. n * th = th * n /\ n * Hundred = Hundred * n /\ n * th <= n * Hundred
    BY <1>1, Products
  <1>3. n * th \in Nat /\ n * Hundred \in Nat
    BY <1>1, Products
  <1> QED BY <1>2, <1>3

(* A threshold with a product that is rounded up is neither 0 nor 100 percent. *)
LEMMA RoundedUp ==
  ASSUME NEW th \in Percent, NEW n \in Nat, <<th, n>> \in RoundsUp
  PROVE  th > 0 /\ th < Hundred
  <1>1. th \in Nat /\ th <= Hundred /\ th % (100 * Fine) # 0
    BY GatesAssumption, Threshold
  <1> DEFINE d == 100 * Fine
  <1>2. d \in Nat /\ d > 0 /\ Hundred = 100 * d
    BY GatesAssumption DEF Hundred
  <1> HIDE DEF d
  <1>3. 0 % d = 0 /\ (100 * d) % d = 0
    BY <1>2
  <1>4. th % d # 0
    BY <1>1 DEF d
  <1> QED BY <1>1, <1>2, <1>3, <1>4

(* What it is to be below a threshold, and not to be. *)
LEMMA IsBelow ==
  ASSUME NEW c \in Nat, NEW n \in Nat, NEW th \in Percent, belowThreshold(c, n, th)
  PROVE  /\ Hundred * c <= th * n
         /\ Hundred * c = th * n => th > 0 /\ th < Hundred /\ <<th, n>> \in RoundsUp
  <1>1. th * n \in Nat /\ Hundred * c \in Nat
    BY ThresholdTimes
  <1> QED BY <1>1, RoundedUp DEF belowThreshold

(* And what is not below reaches the threshold. *)
LEMMA IsNotBelow ==
  ASSUME NEW c \in Nat, NEW n \in Nat, NEW th \in Percent, ~belowThreshold(c, n, th)
  PROVE  n # 0 => th * n <= Hundred * c
  <1>1. th * n \in Nat /\ Hundred * c \in Nat
    BY ThresholdTimes
  <1> QED BY <1>1, Threshold DEF belowThreshold

(* k statements more, all covered, or none. *)
LEMMA MoreCovered ==
  ASSUME NEW c \in Nat, NEW n \in Nat, NEW k \in Nat, NEW th \in Percent, c <= n,
         ~belowThreshold(c, n, th)
  PROVE  ~belowThreshold(c + k, n + k, th)
  <1>1. CASE k = 0
    BY <1>1
  <1>2. CASE k > 0
    <2> SUFFICES ASSUME belowThreshold(c + k, n + k, th) PROVE FALSE
      OBVIOUS
    <2>1. th \in Nat /\ th <= Hundred /\ Hundred \in Nat
      BY Threshold
    <2>2. th * n <= Hundred * c
      <3>1. CASE n = 0
        BY <2>1, <3>1, ThresholdTimes
      <3>2. CASE n # 0
        BY <3>2, IsNotBelow
      <3> QED BY <3>1, <3>2
    <2>3. th * (n + k) = th * n + th * k /\ Hundred * (c + k) = Hundred * c + Hundred * k
      BY <2>1, Products
    <2>4. th * k <= Hundred * k /\ (th < Hundred => th * k < Hundred * k)
      <3>1. k * th = th * k /\ k * Hundred = Hundred * k
        BY <2>1, Products
      <3>2. th < Hundred => k * th < k * Hundred
        BY <1>2, <2>1, Products
      <3> QED BY <3>1, <3>2, ThresholdTimes
    <2>5. /\ Hundred * (c + k) <= th * (n + k)
          /\ Hundred * (c + k) = th * (n + k) => th < Hundred
      <3> DEFINE d == c + k
                 m == n + k
      <3>1. d \in Nat /\ m \in Nat /\ belowThreshold(d, m, th)
        OBVIOUS
      <3> HIDE DEF d, m
      <3>2. Hundred * d <= th * m /\ (Hundred * d = th * m => th < Hundred)
        BY <3>1, IsBelow
      <3> QED BY <3>2 DEF d, m
    <2> DEFINE u == th * n
               v == th * k
               x == Hundred * c
               y == Hundred * k
    <2>6. u \in Nat /\ v \in Nat /\ x \in Nat /\ y \in Nat
      BY ThresholdTimes
    <2>7. /\ u <= x /\ v <= y /\ (th < Hundred => v < y)
          /\ x + y <= u + v /\ (x + y = u + v => th < Hundred)
      BY <2>2, <2>3, <2>4, <2>5
    <2> HIDE DEF u, v, x, y
    <2> QED BY <2>6, <2>7
  <1> QED BY <1>1, <1>2

(* k statements more, none of them covered. *)
LEMMA MoreUncovered ==
  ASSUME NEW c \in Nat, NEW n \in Nat, NEW k \in Nat, NEW th \in Percent,
         \/ belowThreshold(c, n, th)
         \/ c = 0 /\ n = 0 /\ th > 0 /\ k > 0
  PROVE  belowThreshold(c, n + k, th)
  <1>1. CASE k = 0
    BY <1>1
  <1>2. CASE k > 0
    <2>1. th > 0 /\ Hundred * c <= th * n
      <3>1. th \in Nat /\ th * n \in Nat /\ (th = 0 => th * n = 0)
        BY Threshold, ThresholdTimes
      <3>2. CASE belowThreshold(c, n, th)
        <4>1. Hundred * c <= th * n /\ (Hundred * c = th * n => th > 0)
          BY <3>2, IsBelow
        <4>2. Hundred * c \in Nat
          BY ThresholdTimes
        <4> HIDE DEF Hundred
        <4> QED BY <3>1, <4>1, <4>2
      <3>3. CASE c = 0 /\ n = 0 /\ th > 0 /\ k > 0
        <4>1. Hundred * c = 0
          BY <3>3, Threshold
        <4> QED BY <3>1, <3>3, <4>1
      <3> QED BY <3>2, <3>3
    <2>2. th \in Nat /\ th * n \in Nat /\ th # NaN
      BY Threshold, ThresholdTimes
    <2>3. th * (n + k) = th * n + th * k /\ th * k > 0 /\ th * k \in Nat
      <3>1. th * (n + k) = th * n + th * k /\ th * k \in Nat
        BY <2>2, Products
      <3>2. th * 0 < th * k /\ th * 0 = 0
        BY <1>2, <2>1, <2>2, Products
      <3> QED BY <3>1, <3>2
    <2>4. Hundred * c < th * (n + k)
      <3> DEFINE u == th * n
                 v == th * k
                 x == Hundred * c
      <3>1. /\ u \in Nat /\ v \in Nat /\ v > 0 /\ th * (n + k) = u + v
            /\ x \in Nat /\ x <= u
        BY <2>1, <2>2, <2>3, ThresholdTimes
      <3> HIDE DEF u, v, x
      <3>2. x < u + v
        BY <3>1
      <3> QED BY <3>1, <3>2 DEF x
    <2> QED BY <1>2, <2>2, <2>4 DEF belowThreshold
  <1> QED BY <1>1, <1>2

-----------------------------------------------------------------------------
(* What a block does to the gates. *)
LEMMA GateStep ==
  ASSUME TypeOK, NEW imp \in Imports, NEW n \in NumStmts, NEW hit \in BOOLEAN,
         Block(imp, n, hit)
  PROVE  /\ hit /\ GateNow = ExitSuccess => GateNow' = ExitSuccess
         /\ ~hit /\ GateNow # ExitSuccess => GateNow' # ExitSuccess
  <1> DEFINE r == Result(perPkg)
             r1 == Result(perPkg')
             c == r.CoveredStatements
             t == r.TotalStatements
             k == IF hit THEN n ELSE 0
             th == CoverageThreshold
             pth == PackageThreshold
  <1>1. th \in Percent /\ pth \in Percent /\ n \in Nat /\ k \in Nat
    BY CoverageAssumption
  <1>2. c \in Nat /\ t \in Nat /\ c <= t
    BY Totals
  <1>3. r1.TotalStatements = t + n /\ r1.CoveredStatements = c + k
    BY TotalsOfMore
  <1>4. /\ counts(imp) \in Count
        /\ DOMAIN perPkg' = DOMAIN perPkg \cup {imp}
        /\ \A p \in DOMAIN perPkg \ {imp} : perPkg'[p] = perPkg[p]
        /\ perPkg'[imp].total = counts(imp).total + n
        /\ perPkg'[imp].covered = counts(imp).covered + k
    BY CountedBlock
  <1>5. /\ counts(imp).total \in Nat /\ counts(imp).covered \in Nat
        /\ counts(imp).covered <= counts(imp).total
    BY <1>4 DEF Count
  <1>6. /\ GateNow = Gate(r, th, pth, Excluded)
        /\ GateNow' = Gate(r1, th, pth, Excluded)
        /\ r.Packages = perPkg /\ r1.Packages = perPkg'
    BY DEF GateNow, Result
  <1> HIDE DEF r, r1, c, t, th, pth, k
  <1>7. r.CoveredStatements = c /\ r.TotalStatements = t
    BY DEF c, t
  <1>8. th \in Nat /\ pth \in Nat /\ (Less(0, th) <=> 0 < th) /\ (Less(0, pth) <=> 0 < pth)
    BY <1>1, Threshold
  <1>9. ASSUME hit, GateNow = ExitSuccess PROVE GateNow' = ExitSuccess
    <2>1. k = n /\ ~totalGateFails(r, th) /\ ~packageGateFails(r, pth, Excluded)
      BY <1>6, <1>9 DEF k, Gate, ExitSuccess, ExitTotalCoverage, ExitPackageCoverage
    <2>2. ~totalGateFails(r1, th)
      <3>1. ~belowThreshold(c, t, th)
        BY <1>2, <1>7, <2>1 DEF totalGateFails, HasData, belowThreshold
      <3>2. ~belowThreshold(c + n, t + n, th)
        BY <1>1, <1>2, <3>1, MoreCovered
      <3>3. CASE t + n > 0
        BY <1>3, <2>1, <3>2, <3>3 DEF totalGateFails, HasData
      <3>4. CASE ~(t + n > 0)
        <4>1. t = 0 /\ n = 0
          BY <1>1, <1>2, <3>4
        <4> QED BY <1>3, <1>7, <2>1, <4>1 DEF totalGateFails, HasData
      <3> QED BY <3>3, <3>4
    <2>3. ~packageGateFails(r1, pth, Excluded)
      <3> SUFFICES ASSUME Less(0, pth), NEW p \in DOMAIN perPkg' \ Excluded,
                          belowThreshold(perPkg'[p].covered, perPkg'[p].total, pth),
                          ~NA(perPkg'[p])
                   PROVE  FALSE
        BY <1>6 DEF packageGateFails
      <3>1. CASE p # imp
        BY <1>4, <1>6, <2>1, <3>1 DEF packageGateFails
      <3>2. CASE p = imp
        <4>1. ~belowThreshold(counts(imp).covered, counts(imp).total, pth)
          <5>1. CASE imp \in DOMAIN perPkg
            <6>1. counts(imp) = perPkg[imp]
              BY <5>1 DEF counts
            <6> QED BY <1>6, <2>1, <3>2, <5>1, <6>1 DEF packageGateFails, belowThreshold, NA
          <5>2. CASE imp \notin DOMAIN perPkg
            <6>1. counts(imp).total = 0
              BY <5>2 DEF counts
            <6> QED BY <6>1 DEF belowThreshold
          <5> QED BY <5>1, <5>2
        <4>2. ~belowThreshold(counts(imp).covered + n, counts(imp).total + n, pth)
          BY <1>1, <1>5, <4>1, MoreCovered
        <4> QED BY <1>4, <2>1, <3>2, <4>2
      <3> QED BY <3>1, <3>2
    <2> QED BY <1>6, <2>2, <2>3 DEF Gate
  <1>10. ASSUME ~hit, GateNow # ExitSuccess PROVE GateNow' # ExitSuccess
    <2>1. k = 0 /\ (totalGateFails(r, th) \/ packageGateFails(r, pth, Excluded))
      BY <1>6, <1>10 DEF k, Gate
    <2>2. CASE totalGateFails(r, th)
      <3>1. totalGateFails(r1, th)
        <4>1. c + k = c
          BY <1>2, <2>1
        <4>2. CASE t + n > 0
          <5>1. \/ belowThreshold(c, t, th)
                \/ c = 0 /\ t = 0 /\ th > 0 /\ n > 0
            BY <1>1, <1>2, <1>7, <1>8, <2>2, <4>2 DEF totalGateFails, HasData
          <5>2. belowThreshold(c, t + n, th)
            BY <1>1, <1>2, <5>1, MoreUncovered
          <5> QED BY <1>3, <4>1, <4>2, <5>2 DEF totalGateFails, HasData
        <4>3. CASE ~(t + n > 0)
          <5>1. t = 0 /\ n = 0
            BY <1>1, <1>2, <4>3
          <5> QED BY <1>3, <1>7, <2>2, <5>1 DEF totalGateFails, HasData
        <4> QED BY <4>2, <4>3
      <3> QED BY <1>6, <3>1 DEF Gate, ExitTotalCoverage, ExitSuccess
    <2>3. CASE packageGateFails(r, pth, Excluded)
      <3>1. PICK p \in DOMAIN perPkg \ Excluded :
               ~NA(perPkg[p]) /\ belowThreshold(perPkg[p].covered, perPkg[p].total, pth)
        BY <1>6, <2>3 DEF packageGateFails
      <3>2. Less(0, pth)
        BY <2>3 DEF packageGateFails
      <3>3. ~NA(perPkg'[p]) /\ belowThreshold(perPkg'[p].covered, perPkg'[p].total, pth)
        <4>1. CASE p # imp
          BY <1>4, <3>1, <4>1
        <4>2. CASE p = imp
          <5>1. counts(imp) = perPkg[imp]
            BY <4>2 DEF counts
          <5>2. counts(imp).total # 0 /\ belowThreshold(counts(imp).covered, counts(imp).total, pth)
            BY <3>1, <4>2, <5>1 DEF NA
          <5>3. belowThreshold(counts(imp).covered, counts(imp).total + n, pth)
            BY <1>1, <1>5, <5>2, MoreUncovered
          <5>4. counts(imp).covered + k = counts(imp).covered /\ counts(imp).total + n # 0
            BY <1>1, <1>5, <2>1, <5>2
          <5> QED BY <1>4, <4>2, <5>3, <5>4 DEF NA
        <4> QED BY <4>1, <4>2
      <3>4. packageGateFails(r1, pth, Excluded)
        <4>1. p \in DOMAIN r1.Packages \ Excluded
          BY <1>4, <1>6
        <4> QED BY <1>6, <3>2, <3>3, <4>1 DEF packageGateFails
      <3> QED BY <1>6, <3>4 DEF Gate, ExitTotalCoverage, ExitPackageCoverage, ExitSuccess
    <2> QED BY <2>1, <2>2, <2>3
  <1> QED BY <1>9, <1>10

(* Covering more never makes a passing gate fail, and adding code that no test
   reaches never makes a failing gate pass. *)
THEOREM GatesAreMonotone == Spec => GateMonotone
  <1>1. TypeOK =>
          \A imp \in Imports, n \in NumStmts :
            /\ CoveredBlock(imp, n) /\ GateNow = ExitSuccess => GateNow' = ExitSuccess
            /\ UncoveredBlock(imp, n) /\ GateNow # ExitSuccess => GateNow' # ExitSuccess
    BY GateStep DEF CoveredBlock, UncoveredBlock
  <1> QED BY <1>1, CoverageTypeCorrect, PTL DEF GateMonotone

-----------------------------------------------------------------------------
(* A threshold is printed as a nearest number of hundredths; as the higher one
   of two if its products come out too large. *)
LEMMA ShownThreshold ==
  ASSUME NEW th \in Percent, NEW s \in formatThreshold(th)
  PROVE  /\ s \in Nat
         /\ 2 * (Fine * s) <= 2 * th + Fine
         /\ 2 * th <= 2 * (Fine * s) + Fine
         /\ 2 * th = 2 * (Fine * s) + Fine => \A n : <<th, n>> \notin RoundsUp
  <1> DEFINE a  == 2 * th + Fine
             d  == 2 * Fine
             up == a \div d
  <1>1. a \in Nat /\ d \in Nat /\ d > 0 /\ th \in Nat /\ Fine \in Nat /\ Fine > 0
    BY Threshold, GatesAssumption
  <1>2. s = up \/ (a % d = 0 /\ s = up - 1 /\ \A pair \in RoundsUp : pair[1] # th)
    BY DEF formatThreshold
  <1> HIDE DEF a, d
  <1>3. up \in Nat /\ d * up <= a /\ a < d * (up + 1)
    BY <1>1, Quotient
  <1>4. a % d = 0 => a = d * up
    BY <1>1
  <1> HIDE DEF up
  <1>5. d * (up + 1) = d * up + d
    BY <1>1, <1>3
  <1>6. d * up = 2 * (Fine * up) /\ Fine * up \in Nat
    BY <1>1, <1>3, Products DEF d
  <1>7. CASE s = up
    <2> DEFINE w == Fine * up
    <2>1. w \in Nat /\ 2 * w <= 2 * th + Fine /\ 2 * th + Fine < 2 * w + 2 * Fine
      BY <1>3, <1>5, <1>6 DEF a, d
    <2> HIDE DEF w
    <2>2. 2 * th < 2 * w + Fine
      BY <1>1, <2>1
    <2> QED BY <1>1, <1>3, <1>7, <2>1, <2>2 DEF w
  <1>8. CASE a % d = 0 /\ s = up - 1 /\ \A pair \in RoundsUp : pair[1] # th
    <2>1. up > 0
      <3>1. d * 0 = 0 /\ a > 0
        BY <1>1 DEF a
      <3> QED BY <1>3, <1>4, <1>8, <3>1
    <2>2. s \in Nat /\ up = s + 1
      BY <1>3, <1>8, <2>1
    <2>3. Fine * up = Fine * s + Fine /\ Fine * s \in Nat
      BY <1>1, <2>2
    <2> DEFINE w == Fine * s
    <2>4. w \in Nat /\ 2 * th + Fine = 2 * w + 2 * Fine
      <3>1. 2 * th + Fine = 2 * (Fine * up)
        BY <1>4, <1>6, <1>8 DEF a
      <3>2. Fine * up = w + Fine /\ w \in Nat
        BY <2>3
      <3> HIDE DEF w
      <3> QED BY <1>1, <3>1, <3>2
    <2> HIDE DEF w
    <2>5. 2 * th = 2 * w + Fine
      BY <1>1, <2>4
    <2>6. \A n : <<th, n>> \notin RoundsUp
      BY <1>8
    <2>7. 2 * w <= 2 * th + Fine
      BY <1>1, <2>4, <2>5
    <2>8. 2 * th <= 2 * w + Fine
      BY <1>1, <2>4, <2>5
    <2> QED BY <2>2, <2>6, <2>7, <2>8 DEF w
  <1> QED BY <1>2, <1>7, <1>8

(* A coverage shown below what a threshold is printed as is below it, and what
   is below it is not shown above. *)
LEMMA ShownBelow ==
  ASSUME NEW c \in Nat, NEW n \in Nat, n > 0, NEW th \in Percent,
         NEW s \in formatThreshold(th)
  PROVE  /\ Percentage(c, n) < s => belowThreshold(c, n, th)
         /\ belowThreshold(c, n, th) => Percentage(c, n) <= s
  <1> DEFINE q == Percentage(c, n)
             f == Fine * n
             x == Fine * c
             y == th * n
  <1>1. /\ q \in Nat
        /\ 2 * (n * q) <= 20000 * c + n
        /\ 20000 * c + n < 2 * (n * (q + 1))
    BY PercentageIsNearest
  <1>2. th \in Nat /\ th # NaN /\ Fine \in Nat /\ Fine > 0 /\ y \in Nat
    BY Threshold, ThresholdTimes, GatesAssumption
  <1>3. /\ s \in Nat
        /\ 2 * (Fine * s) <= 2 * th + Fine
        /\ 2 * th <= 2 * (Fine * s) + Fine
        /\ 2 * th = 2 * (Fine * s) + Fine => <<th, n>> \notin RoundsUp
    BY ShownThreshold
  <1>4. f \in Nat /\ f > 0 /\ x \in Nat /\ Hundred * c = 10000 * x
    <2>1. Fine * n \in Nat /\ Fine * c \in Nat /\ Fine * 0 < Fine * n /\ Fine * 0 = 0
      BY <1>2, Products
    <2>2. (10000 * Fine) * c = 10000 * (Fine * c)
      BY <1>2
    <2> QED BY <2>1, <2>2 DEF Hundred
  <1> HIDE DEF q
  <1> DEFINE z == f * s
  <1>5. z \in Nat /\ 2 * z <= 2 * y + f /\ 2 * y <= 2 * z + f
    <2> DEFINE w == Fine * s
    <2>1. w \in Nat /\ 2 * w <= 2 * th + Fine /\ 2 * th <= 2 * w + Fine
      BY <1>2, <1>3, Products
    <2>2. z = n * w
      BY <1>2, <1>3
    <2> HIDE DEF w
    <2>3. n * (2 * w) <= n * (2 * th + Fine) /\ n * (2 * th) <= n * (2 * w + Fine)
      <3>1. 2 * w \in Nat /\ 2 * th + Fine \in Nat /\ 2 * th \in Nat /\ 2 * w + Fine \in Nat
        BY <1>2, <2>1
      <3> QED BY <2>1, <3>1, Products
    <2>4. /\ n * (2 * w) = 2 * (n * w) /\ n * (2 * th) = 2 * (th * n)
          /\ n * (2 * w + Fine) = 2 * (n * w) + Fine * n
          /\ n * (2 * th + Fine) = 2 * (th * n) + Fine * n
          /\ n * w \in Nat
      BY <1>2, <2>1
    <2> QED BY <2>2, <2>3, <2>4
  <1>6. ASSUME 2 * y = 2 * z + f PROVE <<th, n>> \notin RoundsUp
    <2> SUFFICES 2 * th = 2 * (Fine * s) + Fine
      BY <1>3
    <2> DEFINE w == Fine * s
               e == 2 * w + Fine
    <2>1. w \in Nat /\ e \in Nat /\ 2 * th \in Nat
      BY <1>2, <1>3, Products
    <2>2. n * (2 * th) = 2 * (th * n) /\ n * e = 2 * z + f
      BY <1>2, <1>3
    <2> HIDE DEF e, w
    <2>3. n * (2 * th) = n * e
      BY <1>6, <2>2
    <2>4. 2 * th = e
      <3>1. 2 * th < e => n * (2 * th) < n * e
        BY <2>1, Products
      <3>2. e < 2 * th => n * e < n * (2 * th)
        BY <2>1, Products
      <3>3. n * e \in Nat
        BY <2>1, Products
      <3> QED BY <2>1, <2>3, <3>1, <3>2, <3>3
    <2> QED BY <2>4 DEF e, w
  <1>7. ASSUME q < s PROVE belowThreshold(c, n, th)
    <2>1. n * (q + 1) <= n * s /\ n * (q + 1) \in Nat /\ n * s \in Nat
      <3>1. q + 1 \in Nat /\ q + 1 <= s
        BY <1>1, <1>3, <1>7
      <3> QED BY <1>3, <3>1, Products
    <2>2. 20000 * c + n < 2 * (n * s)
      BY <1>1, <2>1
    <2>3. Fine * (20000 * c + n) < Fine * (2 * (n * s))
      <3>1. 20000 * c + n \in Nat /\ 2 * (n * s) \in Nat
        BY <2>1
      <3> QED BY <1>2, <2>2, <3>1, Products
    <2>4. Fine * (20000 * c + n) = 20000 * x + f /\ Fine * (2 * (n * s)) = 2 * z
      <3>1. Fine * (20000 * c + n) = 20000 * (Fine * c) + Fine * n
        BY <1>2
      <3>2. Fine * (2 * (n * s)) = 2 * ((Fine * n) * s)
        BY <1>2, <1>3
      <3> QED BY <3>1, <3>2
    <2>5. Hundred * c < y
      <3>1. 20000 * x + f < 2 * z
        BY <2>3, <2>4
      <3> HIDE DEF x, y, z, f
      <3>2. 10000 * x < y
        BY <1>2, <1>4, <1>5, <3>1
      <3> QED BY <1>4, <3>2
    <2> QED BY <1>2, <2>5 DEF belowThreshold
  <1>8. ASSUME belowThreshold(c, n, th) PROVE q <= s
    <2> SUFFICES ASSUME s < q PROVE FALSE
      BY <1>1, <1>3
    <2>1. n * (s + 1) <= n * q /\ n * (s + 1) = n * s + n /\ n * s \in Nat /\ n * q \in Nat
      <3>1. s + 1 \in Nat /\ s + 1 <= q
        BY <1>1, <1>3
      <3>2. n * (s + 1) <= n * q /\ n * s \in Nat /\ n * q \in Nat
        BY <1>1, <1>3, <3>1, Products
      <3>3. n * (s + 1) = n * s + n
        BY <1>3
      <3> QED BY <3>2, <3>3
    <2>2. 2 * (n * s) + n <= 20000 * c
      BY <1>1, <2>1
    <2>3. Fine * (2 * (n * s) + n) <= Fine * (20000 * c)
      <3>1. 2 * (n * s) + n \in Nat /\ 20000 * c \in Nat
        BY <2>1
      <3> QED BY <1>2, <2>2, <3>1, Products
    <2>4. Fine * (20000 * c) = 20000 * x /\ Fine * (2 * (n * s) + n) = 2 * z + f
      <3>1. Fine * (20000 * c) = 20000 * (Fine * c)
        BY <1>2
      <3>2. Fine * (2 * (n * s) + n) = 2 * ((Fine * n) * s) + Fine * n
        BY <1>2, <1>3
      <3> QED BY <3>1, <3>2
    <2>5. /\ 10000 * x <= y
          /\ 10000 * x = y => <<th, n>> \in RoundsUp
      BY <1>4, <1>8, IsBelow
    <2>6. 2 * z + f <= 20000 * x
      BY <2>3, <2>4
    <2> HIDE DEF x, y, z, f
    <2>7. 10000 * x = y /\ 2 * y = 2 * z + f
      BY <1>2, <1>4, <1>5, <2>5, <2>6
    <2> QED BY <1>6, <2>5, <2>7
  <1> QED BY <1>7, <1>8 DEF q

(* What is shown agrees with the verdict although only the verdict is exact:
   for every threshold and every way its printed form may be rounded, a total
   or a package shown below its threshold fails the gate, and what fails is
   shown at its threshold at most. *)
THEOREM DisplayIsHonest == Spec => []DisplayAgrees
  <1>1. ASSUME TypeOK PROVE DisplayAgrees
    <2> DEFINE r == Result(perPkg)
               c == r.CoveredStatements
               n == r.TotalStatements
               shown(pc) == Percentage(pc.covered, pc.total)
               total == Percentage(c, n)
               judged == {p \in DOMAIN perPkg \ Excluded : ~NA(perPkg[p])}
               th == CoverageThreshold
               pth == PackageThreshold
    <2>1. th \in Percent /\ pth \in Percent
      BY CoverageAssumption
    <2>2. c \in Nat /\ n \in Nat
      BY <1>1, Totals
    <2>3. GateNow = Gate(r, th, pth, Excluded) /\ r.Packages = perPkg
      BY DEF GateNow, Result
    <2>4. ASSUME NEW p \in judged, NEW s \in formatThreshold(pth)
          PROVE  /\ shown(perPkg[p]) < s =>
                      belowThreshold(perPkg[p].covered, perPkg[p].total, pth)
                 /\ belowThreshold(perPkg[p].covered, perPkg[p].total, pth) =>
                      shown(perPkg[p]) <= s
                 /\ shown(perPkg[p]) \in Nat
      <3> DEFINE pc == perPkg[p].covered
                 pt == perPkg[p].total
      <3>1. pc \in Nat /\ pt \in Nat /\ pt > 0
        BY <1>1, Totals DEF NA
      <3> HIDE DEF pc, pt, judged
      <3>2. /\ Percentage(pc, pt) < s => belowThreshold(pc, pt, pth)
            /\ belowThreshold(pc, pt, pth) => Percentage(pc, pt) <= s
            /\ Percentage(pc, pt) \in Nat
        BY <2>1, <3>1, ShownBelow, PercentageIsNearest
      <3> QED BY <3>2 DEF pc, pt
    <2> HIDE DEF c, n, th, pth, r
    <2>5. r.CoveredStatements = c /\ r.TotalStatements = n
      BY DEF c, n
    <2>6. th \in Nat /\ pth \in Nat /\ (Less(0, th) <=> 0 < th) /\ (Less(0, pth) <=> 0 < pth)
      BY <2>1, Threshold
    <2>7. ASSUME NEW t \in Percent, NEW s \in formatThreshold(t)
          PROVE  s \in Nat /\ (s > 0 => t > 0)
      <3>1. s \in Nat /\ 2 * (Fine * s) <= 2 * t + Fine /\ Fine \in Nat /\ Fine > 0 /\ t \in Nat
        BY ShownThreshold, Threshold, GatesAssumption
      <3>2. s > 0 => Fine * 1 <= Fine * s /\ Fine * s \in Nat
        BY <3>1, Products
      <3> QED BY <3>1, <3>2
    <2>8. ASSUME NEW s \in formatThreshold(th)
          PROVE  /\ total < s => totalGateFails(r, th)
                 /\ totalGateFails(r, th) => total <= s
      <3>1. CASE n = 0
        <4>1. total = 0 /\ (totalGateFails(r, th) <=> 0 < th)
          BY <2>5, <2>6, <3>1 DEF totalGateFails, HasData, Percentage
        <4> QED BY <2>1, <2>7, <4>1
      <3>2. CASE n > 0
        BY <2>1, <2>2, <2>5, <3>2, ShownBelow DEF totalGateFails, HasData
      <3> QED BY <2>2, <3>1, <3>2
    <2>9. packageGateFails(r, pth, Excluded) <=>
            /\ 0 < pth
            /\ \E p \in judged : belowThreshold(perPkg[p].covered, perPkg[p].total, pth)
      BY <2>3, <2>6 DEF packageGateFails
    <2> HIDE DEF judged, shown, total
    <2>10. ASSUME NEW s \in formatThreshold(th)
           PROVE  /\ total < s => GateNow = ExitTotalCoverage
                  /\ GateNow = ExitTotalCoverage => total <= s
      <3>1. GateNow = ExitTotalCoverage <=> totalGateFails(r, th)
        BY <2>3 DEF Gate, ExitTotalCoverage, ExitPackageCoverage, ExitSuccess
      <3> QED BY <2>8, <3>1
    <2>11. ASSUME NEW s \in formatThreshold(pth), NEW p \in judged, shown(perPkg[p]) < s
           PROVE  GateNow \in {ExitTotalCoverage, ExitPackageCoverage}
      <3>1. s \in Nat /\ (s > 0 => pth > 0) /\ shown(perPkg[p]) \in Nat
        BY <2>1, <2>4, <2>7
      <3>2. packageGateFails(r, pth, Excluded)
        BY <2>4, <2>9, <2>11, <3>1
      <3> QED BY <2>3, <3>2 DEF Gate
    <2>12. ASSUME NEW s \in formatThreshold(pth), GateNow = ExitPackageCoverage
           PROVE  \E p \in judged : shown(perPkg[p]) <= s
      <3>1. packageGateFails(r, pth, Excluded)
        BY <2>3, <2>12 DEF Gate, ExitTotalCoverage, ExitPackageCoverage, ExitSuccess
      <3> QED BY <2>4, <2>9, <3>1
    <2> QED BY <2>10, <2>11, <2>12 DEF DisplayAgrees, c, n, th, pth, r, judged, shown, total
  <1> QED BY <1>1, CoverageTypeCorrect, PTL

-----------------------------------------------------------------------------
(* The badge of h hundredths: a colour that starts at h or below and the
   highest of those, and the tenths nearest to h. *)
LEMMA BadgeColor ==
  ASSUME NEW h \in Nat
  PROVE  /\ coverageColor(h) \in Colors
         /\ 100 * coverageColor(h) <= h
         /\ \A d \in Colors : 100 * d <= h => d <= coverageColor(h)
  <1> DEFINE P(c) == c * 100 <= h /\ \A d \in Colors : d * 100 <= h => d <= c
  <1>1. \E c \in Colors : P(c)
    <2>1. CASE 9000 <= h
      BY <2>1 DEF Colors
    <2>2. CASE 8000 <= h /\ h < 9000
      BY <2>2 DEF Colors
    <2>3. CASE 7000 <= h /\ h < 8000
      BY <2>3 DEF Colors
    <2>4. CASE 6000 <= h /\ h < 7000
      BY <2>4 DEF Colors
    <2>5. CASE 5000 <= h /\ h < 6000
      BY <2>5 DEF Colors
    <2>6. CASE h < 5000
      BY <2>6 DEF Colors
    <2> QED BY <2>1, <2>2, <2>3, <2>4, <2>5, <2>6
  <1>2. coverageColor(h) \in Colors /\ P(coverageColor(h))
    BY <1>1 DEF coverageColor
  <1>3. \A d \in Colors : d \in Nat /\ d * 100 = 100 * d
    BY DEF Colors
  <1> QED BY <1>2, <1>3

(* The value on a badge is within half a tenth of the percentage. *)
LEMMA BadgeText ==
  ASSUME NEW h \in Nat
  PROVE  /\ formatPct(h) # {}
         /\ \A t \in formatPct(h) : t \in Nat /\ 10 * t - h \in -5..5
  <1>1. CASE h % 10 = 5
    BY <1>1 DEF formatPct
  <1>2. CASE h % 10 # 5
    BY <1>2 DEF formatPct
  <1> QED BY <1>1, <1>2

(* The badge is no worse than the coverage and flatters it by rounding only:
   its colour is that of the exact percentage, or starts less than half a
   hundredth above it, and its text, rounded twice, is off by at most 0.055.
   Without statements it is "unknown". *)
THEOREM BadgeIsHonest == Spec => []BadgeHonest
  <1>1. ASSUME TypeOK PROVE BadgeHonest
    <2> DEFINE r == Result(perPkg)
               c == r.CoveredStatements
               n == r.TotalStatements
               h == Percentage(c, n)
               badge == SVG(HasData(r), h)
    <2>1. c \in Nat /\ n \in Nat /\ (HasData(r) <=> n > 0)
      BY <1>1, Totals DEF HasData
    <2> HIDE DEF c, n, r
    <2>2. CASE n = 0
      BY <2>1, <2>2 DEF BadgeHonest, SVG, c, n, r
    <2>3. CASE n > 0
      <3>1. h \in Nat /\ 2 * (n * h) <= 20000 * c + n /\ 20000 * c + n < 2 * (n * (h + 1))
        BY <2>1, <2>3, PercentageIsNearest
      <3> HIDE DEF h
      <3>2. badge = [value |-> formatPct(h), color |-> coverageColor(h)]
        BY <2>1, <2>3 DEF SVG
      <3>3. badge.value = formatPct(h) /\ badge.color = coverageColor(h) /\ badge # unknown
        BY <3>1, <3>2, BadgeText DEF unknown
      <3> HIDE DEF badge
      <3>4. badge.color \in Nat /\ 100 * badge.color <= h
        BY <3>1, <3>3, BadgeColor DEF Colors
      <3>5. n * (h + 1) = n * h + n /\ n * h \in Nat
        <4>1. n * (h + 1) = n * h + n * 1 /\ n * h \in Nat
          BY <2>1, <3>1, Products
        <4> QED BY <2>1, <4>1
      <3>6. ASSUME NEW d \in Colors, 100 * c >= d * n PROVE badge.color >= d
        <4>1. d \in Nat /\ d * n \in Nat
          BY <2>1, Products DEF Colors
        <4>2. 100 * d <= h
          <5> SUFFICES ASSUME h < 100 * d PROVE FALSE
            BY <3>1, <4>1
          <5>1. n * (h + 1) <= n * (100 * d) /\ n * (100 * d) = 100 * (d * n)
            <6>1. h + 1 \in Nat /\ 100 * d \in Nat /\ h + 1 <= 100 * d
              BY <3>1, <4>1
            <6>2. n * (100 * d) = 100 * (d * n)
              BY <2>1, <4>1
            <6> QED BY <2>1, <6>1, <6>2, Products
          <5> DEFINE u == n * (h + 1)
                     v == d * n
          <5>2. u \in Nat /\ v \in Nat /\ u <= 100 * v /\ 20000 * c + n < 2 * u /\ v <= 100 * c
            BY <2>1, <3>1, <3>5, <3>6, <4>1, <5>1
          <5> HIDE DEF u, v
          <5> QED BY <2>1, <5>2
        <4> QED BY <3>1, <3>3, <3>4, <4>1, <4>2, BadgeColor
      <3>7. badge.color * 100 * 2 * n <= 20000 * c + n
        <4>1. n * (100 * badge.color) <= n * h
          BY <2>1, <3>1, <3>4, Products
        <4>2. badge.color * 100 * 2 * n = 2 * (n * (100 * badge.color)) /\ n * (100 * badge.color) \in Nat
          BY <2>1, <3>4
        <4> DEFINE u == n * (100 * badge.color)
                   v == n * h
        <4>3. u \in Nat /\ v \in Nat /\ u <= v /\ 2 * v <= 20000 * c + n
          BY <3>1, <3>5, <4>1, <4>2
        <4> HIDE DEF u, v
        <4>4. 2 * u <= 20000 * c + n
          BY <2>1, <4>3
        <4> QED BY <4>2, <4>4 DEF u
      <3>8. ASSUME NEW t \in badge.value
            PROVE  2 * (10 * t * n - 10000 * c) \in (-11 * n)..(11 * n)
        <4>1. t \in Nat /\ 10 * t - h \in -5..5
          BY <3>1, <3>3, BadgeText
        <4> DEFINE e == 10 * t - h
                   u == n * h
                   v == n * e
                   w == 10 * t * n
        <4>2. e \in Int /\ -5 <= e /\ e <= 5 /\ 10 * t = h + e
          BY <3>1, <4>1
        <4> HIDE DEF e
        <4>3. v \in Int /\ v <= 5 * n /\ -5 * n <= v
          BY <2>1, <4>2
        <4>4. w = u + v
          <5>1. 10 * t * n = (h + e) * n
            BY <4>2
          <5>2. (h + e) * n = n * h + n * e
            BY <2>1, <3>1, <4>2
          <5> QED BY <5>1, <5>2
        <4>5. u \in Nat /\ 2 * u <= 20000 * c + n /\ 20000 * c + n < 2 * (u + n)
          BY <3>1, <3>5
        <4> HIDE DEF u, v, w
        <4>6. 2 * (w - 10000 * c) \in (-11 * n)..(11 * n)
          BY <2>1, <4>3, <4>4, <4>5
        <4> QED BY <4>6 DEF w
      <3> QED BY <2>3, <3>3, <3>6, <3>7, <3>8 DEF BadgeHonest, badge, h, c, n, r
    <2> QED BY <2>1, <2>2, <2>3
  <1> QED BY <1>1, CoverageTypeCorrect, PTL

=============================================================================
