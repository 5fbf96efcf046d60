------------------------ MODULE ScopeOverlapProofs ------------------------
(***************************************************************************)
(* The overlap test is exact, and normalizeScopes refuses exactly the      *)
(* paths that leave the repository, for locators of every depth over every *)
(* set of names.                                                           *)
(***************************************************************************)
EXTENDS MCScopeOverlap, FiniteSetTheorems, SequenceTheorems, WellFoundedInduction, TLAPS

\* A prefix agrees with the longer locator segment by segment, and nothing
\* else is a prefix.
LEMMA PrefixBySegment ==
    ASSUME NEW s \in Locators, NEW t \in Locators
    PROVE  PathContains(s, t) <=>
               /\ Len(s) <= Len(t)
               /\ \A n \in 1..Len(s) : s[n] = t[n]
<1>1. SubSeq(s, 1, Len(s)) = s
  BY DEF Locators
<1>2. ASSUME Len(s) <= Len(t)
      PROVE  /\ Len(SubSeq(t, 1, Len(s))) = Len(s)
             /\ SubSeq(t, 1, Len(s)) \in Seq(Segments)
             /\ \A n \in 1..Len(s) : SubSeq(t, 1, Len(s))[n] = t[n]
  BY <1>2 DEF Locators
<1>3. ASSUME Len(s) <= Len(t), \A n \in 1..Len(s) : s[n] = t[n]
      PROVE  s = SubSeq(t, 1, Len(s))
  BY <1>2, <1>3 DEF Locators
<1>. QED
  BY <1>1, <1>2, <1>3 DEF PathContains, IsPrefix

\* A directory contains itself.
LEMMA PrefixReflexive ==
    ASSUME NEW s \in Locators
    PROVE  PathContains(s, s)
BY PrefixBySegment DEF Locators

\* Two directories that contain one file are nested.
LEMMA PrefixesOfOneFile ==
    ASSUME NEW s \in Locators, NEW t \in Locators, NEW file \in Locators,
           PathContains(s, file), PathContains(t, file)
    PROVE  PathContains(s, t) \/ PathContains(t, s)
<1>1. /\ \A n \in 1..Len(s) : s[n] = file[n]
      /\ \A n \in 1..Len(t) : t[n] = file[n]
  BY PrefixBySegment
<1>2. Len(s) \in Nat /\ Len(t) \in Nat
  BY DEF Locators
<1>3. CASE Len(s) <= Len(t)
  BY <1>1, <1>2, <1>3, PrefixBySegment
<1>4. CASE Len(t) <= Len(s)
  BY <1>1, <1>2, <1>4, PrefixBySegment
<1>. QED
  BY <1>2, <1>3, <1>4

\* A scope lets its holder edit at least the locator it names.
LEMMA CoversItsLocator ==
    ASSUME NEW scope \in Scope
    PROVE  scope.locator \in Locators /\ Covers(scope, scope.locator)
BY PrefixReflexive DEF Covers, Scope, Kinds

\* scopesOverlap answers yes exactly when some file of the repository lies in
\* both scopes: it neither lets two agents into one file nor keeps them out of
\* disjoint parts.
THEOREM OverlapIsExact ==
    ASSUME NEW left \in Scope, NEW right \in Scope
    PROVE  ScopesOverlap(left, right) <=> ShareFile(left, right, Locators)
<1>. DEFINE shared(file) == Covers(left, file) /\ Covers(right, file)
<1>1. /\ left.kind \in Kinds /\ right.kind \in Kinds
      /\ left.locator \in Locators /\ right.locator \in Locators
  BY DEF Scope
<1>2. ASSUME ScopesOverlap(left, right)
      PROVE  shared(left.locator) \/ shared(right.locator)
  BY <1>1, <1>2, CoversItsLocator DEF ScopesOverlap, Covers, Kinds
<1>3. ASSUME NEW file \in Locators, shared(file)
      PROVE  ScopesOverlap(left, right)
  BY <1>1, <1>3, PrefixesOfOneFile DEF ScopesOverlap, Covers, Kinds
<1>. QED
  BY <1>1, <1>2, <1>3 DEF ShareFile

\* Which of two scopes asks and which one holds makes no difference, so the
\* order in which two agents declare the same scopes does not matter either.
THEOREM BlockingIsSymmetric ==
    ASSUME NEW left \in Scope, NEW right \in Scope
    PROVE  Blocking(left, right) <=> Blocking(right, left)
BY DEF Blocking, ScopesOverlap

-----------------------------------------------------------------------------
(* Induction over the segments of a path, by the least segment that fails. *)

LEMMA LeastNatural ==
    ASSUME NEW T, T \subseteq Nat, T # {}
    PROVE  \E n \in T : \A m \in T : n <= m
<1>. DEFINE Less == {q \in Nat \X Nat : q[1] < q[2]}
<1>1. IsWellFoundedOn(Less, Nat)
  <2>1. Less = OpToRel(<, Nat)
    BY DEF OpToRel
  <2>. QED
    BY <2>1, NatLessThanWellFounded
<1>2. \A m, n \in Nat : m < n => <<m, n>> \in Less
  OBVIOUS
<1>. HIDE DEF Less
<1>3. PICK n \in T : \A m \in T : ~(<<m, n>> \in Less)
  BY <1>1, WFMin
<1>4. n \in Nat /\ \A m \in T : ~(m < n)
  BY <1>2, <1>3
<1>. QED
  BY <1>4

\* What holds at the start and goes on from each number to the next up to N holds up to N.
LEMMA UpTo ==
    ASSUME NEW N \in Nat, NEW S, 0 \in S, \A n \in 0..N : n \in S /\ n < N => n + 1 \in S
    PROVE  0..N \subseteq S
<1>. SUFFICES ASSUME (0..N) \ S # {} PROVE FALSE
  OBVIOUS
<1>. DEFINE T == (0..N) \ S
<1>0. T \subseteq Nat /\ T # {}
  OBVIOUS
<1>. HIDE DEF T
<1>1. PICK n \in T : \A m \in T : n <= m
  BY <1>0, LeastNatural
<1>. USE DEF T
<1>2. n # 0 /\ n - 1 \in 0..N /\ n - 1 < N /\ n - 1 \notin (0..N) \ S
  BY <1>1
<1>. QED
  BY <1>1, <1>2

\* path.Clean takes its steps one after the other.
IsCleaned(f, segments, m) ==
    f = [n \in 0..m |-> IF n = 0 THEN <<>> ELSE CleanSegment(f[n - 1], segments[n])]

LEMMA CleanedStep ==
    ASSUME NEW Names, NEW segments \in Seq(Names)
    PROVE  /\ Cleaned(segments)[0] = <<>>
           /\ \A n \in 0..Len(segments) : n < Len(segments) =>
                Cleaned(segments)[n + 1] = CleanSegment(Cleaned(segments)[n], segments[n + 1])
<1>. DEFINE N == Len(segments)
            S == {m \in Nat : \E f : IsCleaned(f, segments, m)}
<1>1. N \in Nat
  OBVIOUS
<1>2. 0 \in S
  <2>1. IsCleaned([n \in 0..0 |-> <<>>], segments, 0)
    BY DEF IsCleaned
  <2>. QED
    BY <2>1
<1>3. ASSUME NEW m \in Nat, NEW g, IsCleaned(g, segments, m) PROVE m + 1 \in S
  <2>. DEFINE h == [n \in 0..(m + 1) |-> IF n = m + 1 THEN CleanSegment(g[m], segments[m + 1]) ELSE g[n]]
  <2>1. ASSUME NEW n \in 0..(m + 1)
        PROVE  h[n] = IF n = 0 THEN <<>> ELSE CleanSegment(h[n - 1], segments[n])
    <3>1. CASE n = m + 1
      <4>1. h[n - 1] = g[m] /\ h[n] = CleanSegment(g[m], segments[m + 1])
        BY <3>1
      <4>. QED
        BY <3>1, <4>1
    <3>2. CASE n # m + 1
      <4>1. h[n] = g[n] /\ (n # 0 => h[n - 1] = g[n - 1])
        BY <3>2
      <4>2. g[n] = IF n = 0 THEN <<>> ELSE CleanSegment(g[n - 1], segments[n])
        BY <1>3, <3>2 DEF IsCleaned
      <4>. QED
        BY <4>1, <4>2
    <3>. QED
      BY <3>1, <3>2
  <2>2. IsCleaned(h, segments, m + 1)
    BY <2>1 DEF IsCleaned
  <2>. HIDE DEF h
  <2>. QED
    BY <2>2
<1>4. N \in S
  <2>1. \A n \in 0..N : n \in S /\ n < N => n + 1 \in S
    BY <1>3
  <2>. HIDE DEF S
  <2>2. 0..N \subseteq S
    BY <1>1, <1>2, <2>1, UpTo
  <2>. QED
    BY <1>1, <2>2
<1>5. Cleaned(segments) = CHOOSE f : IsCleaned(f, segments, N)
  BY DEF Cleaned, IsCleaned
<1>6. IsCleaned(Cleaned(segments), segments, N)
  BY <1>4, <1>5
<1>7. \A n \in 0..N : Cleaned(segments)[n] = IF n = 0 THEN <<>> ELSE CleanSegment(Cleaned(segments)[n - 1], segments[n])
  BY <1>6 DEF IsCleaned
<1>8. ASSUME NEW n \in 0..N, n < N PROVE Cleaned(segments)[n + 1] = CleanSegment(Cleaned(segments)[n], segments[n + 1])
  BY <1>7, <1>8
<1>. QED
  BY <1>7, <1>8

-----------------------------------------------------------------------------
(* What path.Clean leaves of a path. *)

RawNames == Segments \cup {"..", "."}

\* Each name goes one level down, each ".." one up.
LEMMA ClimbStep ==
    ASSUME NEW segments \in Seq(RawNames), NEW n \in 0..Len(segments)
    PROVE  /\ Climb(segments, n) \in Int
           /\ Climb(segments, 0) = 0
           /\ n < Len(segments) =>
                Climb(segments, n + 1) = Climb(segments, n)
                    + (IF segments[n + 1] \in Segments THEN 1 ELSE IF segments[n + 1] = ".." THEN -1 ELSE 0)
<1>. DEFINE Down(m) == {i \in 1..m : segments[i] \in Segments}
            Up(m) == {i \in 1..m : segments[i] = ".."}
<1>1. \A m \in Nat : /\ IsFiniteSet(Down(m)) /\ IsFiniteSet(Up(m))
                     /\ Cardinality(Down(m)) \in Nat /\ Cardinality(Up(m)) \in Nat
  <2>1. SUFFICES ASSUME NEW m \in Nat PROVE IsFiniteSet(Down(m)) /\ IsFiniteSet(Up(m))
    BY FS_CardinalityType
  <2>2. IsFiniteSet(1..m)
    BY FS_Interval
  <2>. QED
    BY <2>2, FS_Subset
<1>2. Climb(segments, n) \in Int
  <2>1. Climb(segments, n) = Cardinality(Down(n)) - Cardinality(Up(n)) /\ n \in Nat
    BY DEF Climb
  <2>. HIDE DEF Down, Up
  <2>. QED
    BY <1>1, <2>1
<1>3. Climb(segments, 0) = 0
  <2>1. Down(0) = {} /\ Up(0) = {}
    OBVIOUS
  <2>. QED
    BY <2>1, FS_EmptySet DEF Climb
<1>4. ASSUME n < Len(segments)
      PROVE  Climb(segments, n + 1) = Climb(segments, n)
               + (IF segments[n + 1] \in Segments THEN 1 ELSE IF segments[n + 1] = ".." THEN -1 ELSE 0)
  <2>1. 1..(n + 1) = (1..n) \cup {n + 1} /\ n \in Nat
    OBVIOUS
  <2>2. /\ segments[n + 1] \in Segments => Down(n + 1) = Down(n) \cup {n + 1} /\ Up(n + 1) = Up(n)
        /\ segments[n + 1] = ".." => Down(n + 1) = Down(n) /\ Up(n + 1) = Up(n) \cup {n + 1}
        /\ segments[n + 1] \notin Segments \cup {".."} => Down(n + 1) = Down(n) /\ Up(n + 1) = Up(n)
    BY <2>1, ScopeAssumption
  <2>3. n + 1 \notin Down(n) /\ n + 1 \notin Up(n)
    OBVIOUS
  <2>4. /\ Cardinality(Down(n) \cup {n + 1}) = Cardinality(Down(n)) + 1
        /\ Cardinality(Up(n) \cup {n + 1}) = Cardinality(Up(n)) + 1
    BY <1>1, <2>1, <2>3, FS_AddElement
  <2>5. Cardinality(Down(n)) \in Nat /\ Cardinality(Up(n)) \in Nat
    BY <1>1, <2>1
  <2>6. /\ Climb(segments, n) = Cardinality(Down(n)) - Cardinality(Up(n))
        /\ Climb(segments, n + 1) = Cardinality(Down(n + 1)) - Cardinality(Up(n + 1))
    BY DEF Climb
  <2>. HIDE DEF Down, Up
  <2>7. CASE segments[n + 1] \in Segments
    <3>1. Cardinality(Down(n + 1)) = Cardinality(Down(n)) + 1 /\ Up(n + 1) = Up(n)
      BY <2>2, <2>4, <2>7
    <3>2. Climb(segments, n + 1) = Climb(segments, n) + 1
      BY <2>5, <2>6, <3>1
    <3>. QED
      BY <2>7, <3>2
  <2>8. CASE segments[n + 1] = ".."
    <3>1. Down(n + 1) = Down(n) /\ Cardinality(Up(n + 1)) = Cardinality(Up(n)) + 1
      BY <2>2, <2>4, <2>8
    <3>2. Climb(segments, n + 1) = Climb(segments, n) - 1
      BY <2>5, <2>6, <3>1
    <3>. QED
      BY <1>2, <2>8, <3>2, ScopeAssumption
  <2>9. CASE segments[n + 1] \notin Segments \cup {".."}
    BY <2>2, <2>5, <2>6, <2>9
  <2>. QED
    BY <2>7, <2>8, <2>9
<1>. QED
  BY <1>2, <1>3, <1>4

LEMMA Shortened ==
    ASSUME NEW S, NEW s \in Seq(S), NEW k \in Nat, k <= Len(s)
    PROVE  /\ SubSeq(s, 1, k) \in Seq(S) /\ Len(SubSeq(s, 1, k)) = k
           /\ \A i \in 1..k : SubSeq(s, 1, k)[i] = s[i]
OBVIOUS

\* Below the root, what is left is as deep as the path has climbed down; once above
\* it, the path begins with "..".
LeftOf(segments, n) ==
    LET done == Cleaned(segments)[n]
    IN /\ done \in Seq(Segments \cup {".."}) /\ Len(done) <= n
       /\ (\A m \in 0..n : Climb(segments, m) >= 0) => done \in Seq(Segments) /\ Len(done) = Climb(segments, n)
       /\ (\E m \in 0..n : Climb(segments, m) < 0) => done # <<>> /\ done[1] = ".."

LEMMA LeftOfNext ==
    ASSUME NEW segments \in Seq(RawNames), NEW n \in 0..Len(segments), n < Len(segments), LeftOf(segments, n)
    PROVE  LeftOf(segments, n + 1)
<1>. DEFINE done == Cleaned(segments)[n]
            next == Cleaned(segments)[n + 1]
            name == segments[n + 1]
            Names == Segments \cup {".."}
            here == Climb(segments, n)
            there == Climb(segments, n + 1)
<1>1. next = CleanSegment(done, name)
  BY CleanedStep
<1>2. /\ name \in RawNames /\ here \in Int /\ there \in Int
      /\ there = here + (IF name \in Segments THEN 1 ELSE IF name = ".." THEN -1 ELSE 0)
  BY ClimbStep
<1>3. /\ done \in Seq(Names) /\ Len(done) <= n
      /\ (\A m \in 0..n : Climb(segments, m) >= 0) => done \in Seq(Segments) /\ Len(done) = here
      /\ (\E m \in 0..n : Climb(segments, m) < 0) => done # <<>> /\ done[1] = ".."
  BY DEF LeftOf
<1>4. 0..(n + 1) = (0..n) \cup {n + 1} /\ n \in Nat
  OBVIOUS
<1>5. (\A m \in 0..n : Climb(segments, m) >= 0) \/ (\E m \in 0..n : Climb(segments, m) < 0)
  <2>1. ASSUME NEW m \in 0..n PROVE Climb(segments, m) \in Int
    <3>1. m \in 0..Len(segments)
      BY <1>4
    <3>. QED
      BY <3>1, ClimbStep
  <2>. QED
    BY <2>1
<1>6. /\ (\A m \in 0..(n + 1) : Climb(segments, m) >= 0) => (\A m \in 0..n : Climb(segments, m) >= 0) /\ there >= 0
      /\ (\E m \in 0..(n + 1) : Climb(segments, m) < 0) => (\E m \in 0..n : Climb(segments, m) < 0) \/ there < 0
  BY <1>4
<1>7. SUFFICES /\ next \in Seq(Names) /\ Len(next) <= n + 1
               /\ (\A m \in 0..n : Climb(segments, m) >= 0) /\ there >= 0 => next \in Seq(Segments) /\ Len(next) = there
               /\ (\E m \in 0..n : Climb(segments, m) < 0) \/ there < 0 => next # <<>> /\ next[1] = ".."
  BY <1>6 DEF LeftOf
<1>8. ".." \notin Segments /\ "." \notin Segments
  BY ScopeAssumption
<1>. HIDE DEF done, next, name, here, there
<1>9. (\A m \in 0..n : Climb(segments, m) >= 0) => here >= 0
  BY <1>4 DEF here
<1>10. CASE name = "."
  <2>1. next = done /\ there = here
    BY <1>1, <1>2, <1>8, <1>10 DEF CleanSegment
  <2>. QED
    BY <1>3, <1>4, <1>5, <1>9, <2>1
<1>11. CASE name = ".." /\ done # <<>> /\ Last(done) # ".."
  <2>1. next = SubSeq(done, 1, Len(done) - 1) /\ there = here - 1
    BY <1>1, <1>2, <1>8, <1>11 DEF CleanSegment, Front
  <2>2. Len(done) >= 1 /\ done[Len(done)] # ".."
    BY <1>3, <1>11 DEF Last
  <2>3. next \in Seq(Names) /\ Len(next) = Len(done) - 1
        /\ \A i \in 1..(Len(done) - 1) : next[i] = done[i]
    <3>1. Len(done) - 1 \in Nat /\ Len(done) - 1 <= Len(done) /\ done \in Seq(Names)
      BY <1>3, <2>2
    <3>. QED
      BY <2>1, <3>1, Shortened
  <2>4. done \in Seq(Segments) => next \in Seq(Segments)
    BY <2>1, <2>2
  <2>5. done[1] = ".." => Len(done) >= 2
    BY <1>3, <2>2
  <2>6. done[1] = ".." => next # <<>> /\ next[1] = ".."
    BY <1>3, <2>3, <2>5
  <2>7. done \in Seq(Segments) => done[1] # ".."
    BY <1>8, <2>2
  <2>. QED
    BY <1>2, <1>3, <1>4, <1>5, <2>1, <2>2, <2>3, <2>4, <2>6
<1>12. CASE name = ".." /\ ~(done # <<>> /\ Last(done) # "..")
  <2>1. next = Append(done, "..") /\ there = here - 1
    BY <1>1, <1>2, <1>8, <1>12 DEF CleanSegment
  <2>2. next \in Seq(Names) /\ Len(next) = Len(done) + 1 /\ next # <<>>
        /\ (done # <<>> => next[1] = done[1]) /\ (done = <<>> => next[1] = "..")
    BY <1>3, <2>1
  <2>3. ASSUME \A m \in 0..n : Climb(segments, m) >= 0 PROVE done = <<>> /\ here = 0
    <3>1. done \in Seq(Segments) /\ Len(done) = here
      BY <1>3, <2>3
    <3>2. CASE done = <<>>
      BY <3>1, <3>2
    <3>3. CASE done # <<>>
      BY <1>8, <1>12, <3>1, <3>3 DEF Last
    <3>. QED
      BY <3>2, <3>3
  <2>. QED
    BY <1>2, <1>3, <1>4, <1>5, <2>1, <2>2, <2>3
<1>13. CASE name \in Segments
  <2>1. next = Append(done, name) /\ there = here + 1
    BY <1>1, <1>2, <1>8, <1>13 DEF CleanSegment
  <2>2. next \in Seq(Names) /\ Len(next) = Len(done) + 1 /\ next # <<>>
        /\ (done # <<>> => next[1] = done[1]) /\ (done \in Seq(Segments) => next \in Seq(Segments))
    BY <1>3, <1>13, <2>1
  <2>. QED
    BY <1>2, <1>3, <1>4, <1>5, <1>9, <2>1, <2>2
<1>. QED
  BY <1>2, <1>10, <1>11, <1>12, <1>13 DEF RawNames

LEMMA LeftOfAll ==
    ASSUME NEW segments \in Seq(RawNames)
    PROVE  \A n \in 0..Len(segments) : LeftOf(segments, n)
<1>. DEFINE S == {n \in 0..Len(segments) : LeftOf(segments, n)}
<1>1. LeftOf(segments, 0)
  <2>1. Cleaned(segments)[0] = <<>> /\ Climb(segments, 0) = 0
    BY CleanedStep, ClimbStep
  <2>. QED
    BY <2>1 DEF LeftOf
<1>2. 0 \in S /\ Len(segments) \in Nat
  BY <1>1
<1>3. \A n \in 0..Len(segments) : n \in S /\ n < Len(segments) => n + 1 \in S
  BY LeftOfNext
<1>. HIDE DEF S
<1>4. 0..Len(segments) \subseteq S
  BY <1>2, <1>3, UpTo
<1>. QED
  BY <1>4 DEF S

\* normalizeScopes lets a path through exactly when it never climbs above the root
\* and does not end at it, and what it makes of it has only names left.
LEMMA ValidExactly ==
    ASSUME NEW raw, raw.segments \in Seq(RawNames)
    PROVE  /\ ValidLocator(raw) <=> ~raw.absolute /\ StaysBelowRoot(raw.segments)
           /\ ValidLocator(raw) => /\ Clean(raw.segments) \in Seq(Segments) /\ Clean(raw.segments) # <<>>
                                   /\ Len(Clean(raw.segments)) <= Len(raw.segments)
<1>. DEFINE segments == raw.segments
            N == Len(segments)
            clean == Clean(segments)
<1>1. N \in Nat /\ clean = Cleaned(segments)[N] /\ LeftOf(segments, N)
  BY LeftOfAll DEF Clean
<1>2. /\ clean \in Seq(Segments \cup {".."}) /\ Len(clean) <= N
      /\ (\A m \in 0..N : Climb(segments, m) >= 0) => clean \in Seq(Segments) /\ Len(clean) = Climb(segments, N)
      /\ (\E m \in 0..N : Climb(segments, m) < 0) => clean # <<>> /\ clean[1] = ".."
  BY <1>1 DEF LeftOf
<1>3. \A m \in 0..N : Climb(segments, m) \in Int /\ Climb(segments, 0) = 0
  BY ClimbStep
<1>4. ".." \notin Segments
  BY ScopeAssumption
<1>. HIDE DEF clean
<1>5. ASSUME ValidLocator(raw)
      PROVE  /\ ~raw.absolute /\ clean \in Seq(Segments) /\ clean # <<>>
             /\ \A m \in 1..N : Climb(segments, m) >= 0
             /\ Climb(segments, N) > 0
  <2>1. ~raw.absolute /\ clean # <<>> /\ Head(clean) # ".."
    BY <1>5 DEF ValidLocator, clean
  <2>2. Head(clean) = clean[1]
    BY <1>2, <2>1
  <2>3. \A m \in 0..N : Climb(segments, m) >= 0
    BY <1>2, <1>3, <2>1, <2>2
  <2>4. clean \in Seq(Segments) /\ Len(clean) = Climb(segments, N)
    BY <1>2, <2>3
  <2>5. Len(clean) > 0
    BY <2>1, <2>4
  <2>. QED
    BY <2>1, <2>3, <2>4, <2>5
<1>6. ASSUME ~raw.absolute, \A m \in 1..N : Climb(segments, m) >= 0, Climb(segments, N) > 0
      PROVE  ValidLocator(raw)
  <2>1. \A m \in 0..N : Climb(segments, m) >= 0
    BY <1>1, <1>3, <1>6
  <2>2. clean \in Seq(Segments) /\ Len(clean) > 0
    BY <1>2, <1>6, <2>1
  <2>3. clean # <<>> /\ Head(clean) \in Segments
    BY <2>2
  <2>4. segments # <<>>
    BY <1>3, <1>6
  <2>. QED
    BY <1>4, <1>6, <2>3, <2>4 DEF ValidLocator, clean
<1>7. StaysBelowRoot(segments) <=> (\A m \in 1..N : Climb(segments, m) >= 0) /\ Climb(segments, N) > 0
  BY DEF StaysBelowRoot
<1>. QED
  BY <1>2, <1>5, <1>6, <1>7 DEF clean

-----------------------------------------------------------------------------
(* The requests of MCScopeOverlap. *)

RawScope == [kind : Kinds, mode : Modes, absolute : BOOLEAN, segments : RawLocators]

RequestInv ==
    /\ raws \in Seq(RawScope)
    /\ scopes = {} \/ scopes = NormalizeScopes(raws)

LEMMA RawLocatorsAreSequences ==
    /\ \A segments \in RawLocators : segments \in Seq(RawNames) /\ Len(segments) <= MaxDepth
    /\ \A segments \in Seq(Segments) : Len(segments) <= MaxDepth => segments \in CleanLocators
    /\ CleanLocators \subseteq RawLocators
    /\ CleanLocators \subseteq Locators
<1>. USE DepthAssumption
<1>1. ASSUME NEW segments \in RawLocators PROVE segments \in Seq(RawNames) /\ Len(segments) <= MaxDepth
  <2>1. PICK n \in 0..MaxDepth : segments \in [1..n -> RawNames]
    BY DEF RawLocators, RawNames
  <2>2. segments \in Seq(RawNames)
    BY <2>1, SeqDef
  <2>. QED
    BY <2>1, <2>2
<1>2. ASSUME NEW segments \in Seq(Segments), Len(segments) <= MaxDepth PROVE segments \in CleanLocators
  <2>1. Len(segments) \in 0..MaxDepth /\ segments \in [1..Len(segments) -> Segments]
    BY <1>2
  <2>. QED
    BY <2>1 DEF CleanLocators
<1>3. ASSUME NEW segments \in CleanLocators PROVE segments \in RawLocators /\ segments \in Locators
  <2>1. PICK n \in 0..MaxDepth : segments \in [1..n -> Segments]
    BY DEF CleanLocators
  <2>2. segments \in [1..n -> Segments \cup {"..", "."}]
    BY <2>1
  <2>3. segments \in Seq(Segments)
    BY <2>1, SeqDef
  <2>. QED
    BY <2>2, <2>3 DEF RawLocators, Locators
<1>. QED
  BY <1>1, <1>2, <1>3

LEMMA RequestsAreTyped == Spec => []RequestInv
<1>1. Init => RequestInv
  BY DEF Init, RequestInv
<1>2. RequestInv /\ [Next]_vars => RequestInv'
  <2>. SUFFICES ASSUME RequestInv, [Next]_vars PROVE RequestInv'
    OBVIOUS
  <2>1. CASE Declare
    <3>1. PICK raw \in RawScope : raws' = <<raw>> \/ raws' = Append(raws, raw)
      BY <2>1, RawLocatorsAreSequences DEF Declare, RawScope
    <3>2. raws \in Seq(RawScope) /\ scopes' = {}
      BY <2>1 DEF RequestInv, Declare
    <3>3. <<raw>> \in Seq(RawScope)
      BY <3>1, Z3
    <3>4. Append(raws, raw) \in Seq(RawScope)
      BY <3>1, <3>2, AppendProperties
    <3>. QED
      BY <3>1, <3>2, <3>3, <3>4 DEF RequestInv
  <2>2. CASE Normalize
    BY <2>2 DEF RequestInv, Normalize
  <2>3. CASE UNCHANGED vars
    BY <2>3 DEF RequestInv, vars
  <2>. QED
    BY <2>1, <2>2, <2>3 DEF Next
<1>. QED
  BY <1>1, <1>2, PTL DEF Spec

LEMMA NormalizedIsClean ==
    ASSUME NEW raw \in RawScope, ValidRaw(raw)
    PROVE  /\ Normalized(raw) \in [kind : Kinds, locator : CleanLocators, mode : Modes]
           /\ Normalized(raw).locator = <<>> <=> Normalized(raw).kind = "repository"
<1>1. /\ raw.kind \in Kinds /\ raw.mode \in Modes /\ raw.segments \in RawLocators
      /\ raw.segments \in Seq(RawNames) /\ Len(raw.segments) <= MaxDepth
  BY RawLocatorsAreSequences DEF RawScope
<1>2. CASE raw.kind = "repository"
  <2>1. <<>> \in Seq(Segments) /\ Len(<<>>) = 0 /\ 0 <= MaxDepth
    BY DepthAssumption
  <2>2. <<>> \in CleanLocators
    BY <2>1, RawLocatorsAreSequences
  <2>. QED
    BY <1>1, <1>2, <2>2 DEF Normalized
<1>3. CASE raw.kind # "repository"
  <2>1. Clean(raw.segments) \in Seq(Segments) /\ Clean(raw.segments) # <<>>
        /\ Len(Clean(raw.segments)) <= Len(raw.segments)
    BY <1>1, <1>3, ValidExactly DEF ValidRaw
  <2>2. Clean(raw.segments) \in CleanLocators
    BY <1>1, <2>1, RawLocatorsAreSequences, DepthAssumption
  <2>. QED
    BY <1>1, <1>3, <2>1, <2>2 DEF Normalized
<1>. QED
  BY <1>2, <1>3

LEMMA CleanScopes ==
    RequestInv => NormalizedScopesAreClean
<1>. SUFFICES ASSUME RequestInv, NEW s \in scopes
              PROVE  /\ s \in [kind : Kinds, locator : CleanLocators, mode : Modes]
                     /\ s.locator = <<>> <=> s.kind = "repository"
  BY DEF NormalizedScopesAreClean
<1>1. s \in NormalizeScopes(raws)
  BY DEF RequestInv
<1>2. PICK raw \in ToSet(raws) : ValidRaw(raw) /\ s = Normalized(raw)
  BY <1>1 DEF NormalizeScopes
<1>3. raw \in RawScope
  BY DEF ToSet, RequestInv
<1>. QED
  BY <1>2, <1>3, NormalizedIsClean

\* Whatever normalizeScopes lets through names a place in the repository by names only,
\* and only the repository kind names the root.
THEOREM ScopesAreClean == Spec => []NormalizedScopesAreClean
BY RequestsAreTyped, CleanScopes, PTL

\* normalizeScopes refuses exactly the paths that are absolute, climb above the root of
\* the repository at some point, or end at the root.
THEOREM EscapesAreRefused == Spec => []RefusesExactlyEscapes
<1>1. RequestInv => RefusesExactlyEscapes
  <2>. SUFFICES ASSUME RequestInv, NEW raw \in ToSet(raws), raw.kind # "repository"
                PROVE  ValidRaw(raw) <=> ~raw.absolute /\ StaysBelowRoot(raw.segments)
    BY DEF RefusesExactlyEscapes
  <2>1. raw \in RawScope
    BY DEF ToSet, RequestInv
  <2>2. raw.segments \in Seq(RawNames)
    BY <2>1, RawLocatorsAreSequences DEF RawScope
  <2>. QED
    BY <2>2, ValidExactly DEF ValidRaw
<1>. QED
  BY <1>1, RequestsAreTyped, PTL

\* Two scopes of one request overlap exactly when some file lies in both.
THEOREM OverlapIsOneFile == Spec => []OverlapIsSharedFile
<1>1. NormalizedScopesAreClean => OverlapIsSharedFile
  <2>. SUFFICES ASSUME NormalizedScopesAreClean, NEW left \in scopes, NEW right \in scopes
                PROVE  ScopesOverlap(left, right) <=> ShareFile(left, right, CleanLocators)
    BY DEF OverlapIsSharedFile
  <2>1. /\ left \in [kind : Kinds, locator : CleanLocators, mode : Modes]
        /\ right \in [kind : Kinds, locator : CleanLocators, mode : Modes]
    BY DEF NormalizedScopesAreClean
  <2>2. left \in Scope /\ right \in Scope
    BY <2>1, RawLocatorsAreSequences DEF Scope
  <2>3. ASSUME ShareFile(left, right, CleanLocators) PROVE ScopesOverlap(left, right)
    BY <2>2, <2>3, OverlapIsExact, RawLocatorsAreSequences DEF ShareFile
  <2>4. ASSUME ScopesOverlap(left, right) PROVE ShareFile(left, right, CleanLocators)
    <3>1. \/ Covers(left, left.locator) /\ Covers(right, left.locator)
          \/ Covers(left, right.locator) /\ Covers(right, right.locator)
      BY <2>2, <2>4, CoversItsLocator DEF ScopesOverlap, Covers, Kinds, Scope
    <3>. QED
      BY <2>1, <3>1 DEF ShareFile
  <2>. QED
    BY <2>3, <2>4
<1>. QED
  BY <1>1, RequestsAreTyped, CleanScopes, PTL
=============================================================================
