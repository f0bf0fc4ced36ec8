-------------------------- MODULE Preparation_proofs --------------------------
(***************************************************************************)
(* Proofs about what a run needs before it can start: its configuration    *)
(* (Generation) and its borgmatic (Toolchain).                             *)
(*                                                                         *)
(* ArchiveNames, for any pattern and format: the walk of the pattern over  *)
(* the segments of a format misses no name that the pattern claims, and    *)
(* finds none that it does not claim.                                      *)
(*                                                                         *)
(* Generation, for any groups, formats and repositories: a group is kept   *)
(* or refused, once and for one reason, no two groups that are kept prune  *)
(* each other's archives, and whoever is refused for an overlap claims     *)
(* those of a group that runs or is on a cycle of such claims.             *)
(*                                                                         *)
(* Toolchain, for any processes, versions and generations: "current" is    *)
(* always a complete and tested install, a build in progress is never      *)
(* removed, and a running borgmatic keeps its generation.  The first and   *)
(* the last are about links: a copied "current" promises nothing (Copy).   *)
(* The last rests on ExecIsPrompt, which is in the guards of the passes.   *)
(***************************************************************************)
EXTENDS Generation, Toolchain, SequenceTheorems, FiniteSetTheorems, WellFoundedInduction, TLAPS

-----------------------------------------------------------------------------
(* Induction, of sets, and functions defined by recursion. *)

LEMMA Least ==
  ASSUME NEW S, S \subseteq Nat, S # {}
  PROVE  \E m \in S : \A k \in S : m <= k
<1>1. PICK m \in S : \A k \in S : <<k, m>> \notin OpToRel(<, Nat)
  BY WFMin, NatLessThanWellFounded, Zenon
<1>2. ASSUME NEW k \in S PROVE m <= k
  <2>1. <<k, m>> \in Nat \X Nat
    OBVIOUS
  <2>2. k < m => <<k, m>> \in OpToRel(<, Nat)
    BY <2>1, Zenon DEF OpToRel
  <2>3. ~(k < m)
    BY <2>2, <1>1, Zenon
  <2> QED BY <2>3
<1> QED BY <1>2

LEMMA Greatest ==
  ASSUME NEW n \in Nat, NEW S, S \subseteq 0 .. n, S # {}
  PROVE  \E m \in S : \A k \in S : k <= m
<1> DEFINE below == {n - s : s \in S}
<1>1. below \subseteq Nat /\ below # {}
  <2>1. \A s \in S : n - s \in below /\ n - s \in Nat
    OBVIOUS
  <2>2. PICK s \in S : TRUE
    OBVIOUS
  <2> QED BY <2>1, <2>2
<1> HIDE DEF below
<1>2. PICK b \in below : \A k \in below : b <= k
  BY <1>1, Least
<1>3. PICK m \in S : b = n - m
  BY DEF below
<1>4. \A k \in S : n - k \in below
  BY DEF below
<1>5. ASSUME NEW k \in S PROVE k <= m
  BY <1>2, <1>3, <1>4
<1> QED BY <1>5

\* What holds of 0, and of the successor of what it holds of, holds up to N.
LEMMA Upwards ==
  ASSUME NEW N \in Nat, NEW P, 0 \in P, \A k \in 0 .. N : k \in P /\ k < N => k + 1 \in P
  PROVE  0 .. N \subseteq P
<1> SUFFICES ASSUME (0 .. N) \ P # {} PROVE FALSE
  OBVIOUS
<1>1. PICK m \in (0 .. N) \ P : \A k \in (0 .. N) \ P : m <= k
  <2>1. (0 .. N) \ P \subseteq Nat
    OBVIOUS
  <2> QED BY <2>1, Least
<1>2. m - 1 \in 0 .. N /\ m - 1 < N /\ m - 1 + 1 = m
  BY <1>1
<1>3. m - 1 \in P
  BY <1>1, <1>2
<1> QED BY <1>1, <1>2, <1>3

\* And from N downwards, of what holds of all that is above.
LEMMA Downwards ==
  ASSUME NEW N \in Nat, NEW P,
         \A k \in 1 .. N : (\A j \in k + 1 .. N : j \in P) => k \in P
  PROVE  1 .. N \subseteq P
<1> SUFFICES ASSUME (1 .. N) \ P # {} PROVE FALSE
  OBVIOUS
<1>1. PICK m \in (1 .. N) \ P : \A k \in (1 .. N) \ P : k <= m
  <2>1. (1 .. N) \ P \subseteq 0 .. N
    OBVIOUS
  <2> QED BY <2>1, Greatest
<1>2. \A j \in m + 1 .. N : j \in P
  BY <1>1
<1> QED BY <1>1, <1>2

\* A function that takes a step from each number to the next one.
Ascends(g, N, S, b, F) ==
  g \in [0 .. N -> S] /\ g[0] = b /\ \A k \in 1 .. N : g[k] = F[k][g[k - 1]]

LEMMA RecursionUp ==
  ASSUME NEW N \in Nat, NEW S, NEW b \in S, NEW F \in [1 .. N -> [S -> S]]
  PROVE  \E g : Ascends(g, N, S, b, F)
<1> DEFINE Good(n) == \E g \in [0 .. N -> S] : g[0] = b /\ \A k \in 1 .. n : g[k] = F[k][g[k - 1]]
           P == {n \in 0 .. N : Good(n)}
<1>1. 0 \in P
  <2> DEFINE g == [k \in 0 .. N |-> b]
  <2>1. g \in [0 .. N -> S] /\ g[0] = b
    OBVIOUS
  <2> HIDE DEF g
  <2>2. Good(0)
    BY <2>1
  <2> QED BY <2>2
<1>2. ASSUME NEW n \in 0 .. N, n \in P, n < N PROVE n + 1 \in P
  <2>1. PICK g \in [0 .. N -> S] : g[0] = b /\ \A k \in 1 .. n : g[k] = F[k][g[k - 1]]
    BY <1>2
  <2> DEFINE h == [g EXCEPT ![n + 1] = F[n + 1][g[n]]]
  <2>2. n + 1 \in 1 .. N /\ F[n + 1] \in [S -> S] /\ g[n] \in S
    BY <1>2, <2>1
  <2>3. h \in [0 .. N -> S] /\ h[0] = b
    BY <2>1, <2>2
  <2>4. ASSUME NEW k \in 1 .. n + 1 PROVE h[k] = F[k][h[k - 1]]
    <3>1. h[k - 1] = g[k - 1]
      BY <2>1, <2>2
    <3>2. k # n + 1 => h[k] = g[k] /\ k \in 1 .. n
      BY <2>1, <2>2
    <3>3. k = n + 1 => h[k] = F[k][g[k - 1]]
      BY <2>1, <2>2
    <3> HIDE DEF h
    <3>4. CASE k = n + 1
      BY <3>1, <3>3, <3>4
    <3>5. CASE k # n + 1
      BY <2>1, <3>1, <3>2, <3>5
    <3> QED BY <3>4, <3>5
  <2>5. Good(n + 1)
    BY <2>3, <2>4
  <2>6. n + 1 \in 0 .. N
    BY <1>2
  <2> HIDE DEF Good
  <2> QED BY <2>5, <2>6
<1> HIDE DEF P
<1>3. 0 .. N \subseteq P
  BY <1>1, <1>2, Upwards
<1>4. N \in P
  BY <1>3
<1> QED BY <1>4 DEF P, Ascends

\* A function that takes a step to each number from a greater one.
IsNext(next, N) == next \in [1 .. N -> 1 .. N + 1] /\ \A i \in 1 .. N : i < next[i]

Descends(g, N, S, b, F, next) ==
  g \in [1 .. N + 1 -> S] /\ g[N + 1] = b /\ \A i \in 1 .. N : g[i] = F[i][g[next[i]]]

LEMMA RecursionDown ==
  ASSUME NEW N \in Nat, NEW S, NEW b \in S, NEW F \in [1 .. N -> [S -> S]],
         NEW next, IsNext(next, N)
  PROVE  \E g : Descends(g, N, S, b, F, next)
<1> USE DEF IsNext
<1> DEFINE Good(n) == \E g \in [1 .. N + 1 -> S] :
                        g[N + 1] = b /\ \A i \in N + 1 - n .. N : g[i] = F[i][g[next[i]]]
           P == {n \in 0 .. N : Good(n)}
<1>1. 0 \in P
  <2> DEFINE g == [k \in 1 .. N + 1 |-> b]
  <2>1. g \in [1 .. N + 1 -> S] /\ g[N + 1] = b
    OBVIOUS
  <2>2. N + 1 - 0 .. N = {}
    OBVIOUS
  <2> HIDE DEF g
  <2>3. Good(0)
    BY <2>1, <2>2
  <2> QED BY <2>3
<1>2. ASSUME NEW n \in 0 .. N, n \in P, n < N PROVE n + 1 \in P
  <2>1. PICK g \in [1 .. N + 1 -> S] :
          g[N + 1] = b /\ \A i \in N + 1 - n .. N : g[i] = F[i][g[next[i]]]
    BY <1>2
  <2> DEFINE m == N - n
             h == [g EXCEPT ![m] = F[m][g[next[m]]]]
  <2>2. m \in 1 .. N /\ F[m] \in [S -> S] /\ next[m] \in 1 .. N + 1 /\ g[next[m]] \in S
    BY <1>2, <2>1
  <2>3. h \in [1 .. N + 1 -> S] /\ h[N + 1] = b
    BY <2>1, <2>2
  <2>4. ASSUME NEW i \in m .. N PROVE h[i] = F[i][h[next[i]]]
    <3>1. i \in 1 .. N /\ next[i] \in 1 .. N + 1 /\ next[i] # m
      BY <2>2
    <3>2. h[next[i]] = g[next[i]]
      BY <2>1, <2>2, <3>1
    <3>3. i # m => h[i] = g[i] /\ i \in N + 1 - n .. N
      BY <2>1, <2>2
    <3>4. i = m => h[i] = F[i][g[next[i]]]
      BY <2>1, <2>2
    <3> HIDE DEF h
    <3>5. CASE i = m
      BY <3>2, <3>4, <3>5
    <3>6. CASE i # m
      BY <2>1, <3>2, <3>3, <3>6
    <3> QED BY <3>5, <3>6
  <2>5. N + 1 - (n + 1) = m
    OBVIOUS
  <2>6. Good(n + 1)
    <3> HIDE DEF h, m
    <3>1. \A i \in N + 1 - (n + 1) .. N : h[i] = F[i][h[next[i]]]
      BY <2>4, <2>5
    <3> QED BY <2>3, <3>1
  <2>7. n + 1 \in 0 .. N
    BY <1>2
  <2> HIDE DEF Good
  <2> QED BY <2>6, <2>7
<1> HIDE DEF P
<1>3. 0 .. N \subseteq P
  BY <1>1, <1>2, Upwards
<1>4. PICK g \in [1 .. N + 1 -> S] :
          g[N + 1] = b /\ \A i \in N + 1 - N .. N : g[i] = F[i][g[next[i]]]
  BY <1>3 DEF P
<1>5. N + 1 - N = 1
  OBVIOUS
<1> QED BY <1>4, <1>5 DEF Descends

-----------------------------------------------------------------------------
(* Patterns. *)

\* An element ends after it begins, and within the pattern; a star is one.
LEMMA CharClassAfter ==
  ASSUME NEW U, NEW p \in Seq(U), NEW i \in 1 .. Len(p)
  PROVE  CharClass(p, i).after \in {0} \cup (i + 1 .. Len(p) + 1)
<1> DEFINE M == Len(p)
           negated == i < Len(p) /\ p[i + 1] \in {"!", "^"}
           start == IF negated THEN i + 2 ELSE i + 1
           Scan[j \in start .. Len(p) + 1] ==
             IF j > Len(p) THEN [set |-> {}, after |-> 0]
             ELSE IF p[j] = "]" /\ j > start THEN [set |-> {}, after |-> j + 1]
             ELSE IF IsRange(p, j)
               THEN [Scan[j + 3] EXCEPT !.set = @ \cup Span(p[j], p[j + 2])]
               ELSE [Scan[j + 1] EXCEPT !.set = @ \cup {p[j]}]
<1>1. CharClass(p, i) = IF negated THEN [Scan[start] EXCEPT !.set = Chars \ @] ELSE Scan[start]
  BY DEF CharClass
<1>2. M \in Nat /\ start \in i + 1 .. M + 1
  BY LenProperties
<1> DEFINE S == [set : SUBSET (Chars \cup U), after : Nat]
           none == [set |-> {}, after |-> 0]
           next == [j \in 1 .. M |-> IF IsRange(p, j) THEN j + 3 ELSE j + 1]
           F == [j \in 1 .. M |-> [v \in S |->
                  IF p[j] = "]" /\ j > start THEN [set |-> {}, after |-> j + 1]
                  ELSE IF IsRange(p, j) THEN [v EXCEPT !.set = @ \cup Span(p[j], p[j + 2])]
                  ELSE [v EXCEPT !.set = @ \cup {p[j]}]]]
<1>3. next \in [1 .. M -> 1 .. M + 1] /\ \A j \in 1 .. M : j < next[j]
  BY <1>2 DEF IsRange
<1>4. none \in S
  OBVIOUS
<1>5. F \in [1 .. M -> [S -> S]]
  <2>1. ASSUME NEW j \in 1 .. M PROVE p[j] \in U
    BY ElementOfSeq
  <2>2. \A lo, hi : Span(lo, hi) \subseteq Chars
    BY DEF Span
  <2>3. ASSUME NEW v \in S, NEW T, T \subseteq Chars \cup U PROVE [v EXCEPT !.set = @ \cup T] \in S
    BY <2>3
  <2>4. ASSUME NEW j \in 1 .. M, NEW v \in S PROVE F[j][v] \in S
    <3>1. [set |-> {}, after |-> j + 1] \in S
      OBVIOUS
    <3>2. [v EXCEPT !.set = @ \cup Span(p[j], p[j + 2])] \in S
      BY <2>2, <2>3
    <3>3. [v EXCEPT !.set = @ \cup {p[j]}] \in S
      BY <2>1, <2>3
    <3> QED BY <3>1, <3>2, <3>3
  <2> QED BY <2>4
<1> HIDE DEF S, F, next, none, M
<1>6. PICK g \in [1 .. M + 1 -> S] :
        g[M + 1] = none /\ \A j \in 1 .. M : g[j] = F[j][g[next[j]]]
  <2>1. IsNext(next, M)
    BY <1>3 DEF IsNext
  <2>2. PICK g : Descends(g, M, S, none, F, next)
    BY <1>2, <1>4, <1>5, <2>1, RecursionDown
  <2> QED BY <2>2 DEF Descends
<1> DEFINE h == [j \in start .. M + 1 |-> g[j]]
<1> HIDE DEF negated, start, Scan
<1>7. h = [j \in start .. Len(p) + 1 |->
             IF j > Len(p) THEN [set |-> {}, after |-> 0]
             ELSE IF p[j] = "]" /\ j > start THEN [set |-> {}, after |-> j + 1]
             ELSE IF IsRange(p, j)
               THEN [h[j + 3] EXCEPT !.set = @ \cup Span(p[j], p[j + 2])]
               ELSE [h[j + 1] EXCEPT !.set = @ \cup {p[j]}]]
  <2>1. ASSUME NEW j \in start .. M + 1, j > M PROVE h[j] = none
    BY <1>2, <1>6, <2>1
  <2>2. ASSUME NEW j \in start .. M + 1, ~(j > M)
        PROVE  h[j] = IF p[j] = "]" /\ j > start THEN [set |-> {}, after |-> j + 1]
                      ELSE IF IsRange(p, j)
                        THEN [h[j + 3] EXCEPT !.set = @ \cup Span(p[j], p[j + 2])]
                        ELSE [h[j + 1] EXCEPT !.set = @ \cup {p[j]}]
    <3>1. j \in 1 .. M /\ next[j] \in start .. M + 1 /\ g[next[j]] \in S
      BY <1>2, <1>3, <1>6, <2>2
    <3>2. h[j] = F[j][h[next[j]]] /\ h[next[j]] \in S
      BY <1>6, <3>1
    <3> HIDE DEF h
    <3>3. F[j][h[next[j]]] =
            IF p[j] = "]" /\ j > start THEN [set |-> {}, after |-> j + 1]
            ELSE IF IsRange(p, j) THEN [h[next[j]] EXCEPT !.set = @ \cup Span(p[j], p[j + 2])]
            ELSE [h[next[j]] EXCEPT !.set = @ \cup {p[j]}]
      BY <3>1, <3>2 DEF F
    <3>4. next[j] = IF IsRange(p, j) THEN j + 3 ELSE j + 1
      BY <3>1 DEF next
    <3> QED BY <3>2, <3>3, <3>4
  <2> QED BY <2>1, <2>2 DEF none, M
<1>8. Scan = [j \in start .. Len(p) + 1 |->
             IF j > Len(p) THEN [set |-> {}, after |-> 0]
             ELSE IF p[j] = "]" /\ j > start THEN [set |-> {}, after |-> j + 1]
             ELSE IF IsRange(p, j)
               THEN [Scan[j + 3] EXCEPT !.set = @ \cup Span(p[j], p[j + 2])]
               ELSE [Scan[j + 1] EXCEPT !.set = @ \cup {p[j]}]]
  <2> HIDE DEF h
  <2> QED BY <1>7, Zenon DEF Scan
<1> DEFINE P == {j \in Nat : j >= start /\ j <= M + 1 => Scan[j].after \in {0} \cup (i + 1 .. M + 1)}
<1>9. ASSUME NEW j \in 1 .. M + 1, \A k \in j + 1 .. M + 1 : k \in P PROVE j \in P
  <2> SUFFICES ASSUME j >= start PROVE Scan[j].after \in {0} \cup (i + 1 .. M + 1)
    BY <1>2
  <2>1. j \in start .. Len(p) + 1 /\ M = Len(p)
    BY <1>2 DEF M
  <2>2. Scan[j] = IF j > Len(p) THEN [set |-> {}, after |-> 0]
             ELSE IF p[j] = "]" /\ j > start THEN [set |-> {}, after |-> j + 1]
             ELSE IF IsRange(p, j)
               THEN [Scan[j + 3] EXCEPT !.set = @ \cup Span(p[j], p[j + 2])]
               ELSE [Scan[j + 1] EXCEPT !.set = @ \cup {p[j]}]
    BY <1>8, <2>1
  <2>3. CASE j > Len(p)
    BY <2>2, <2>3
  <2>4. CASE j <= Len(p) /\ p[j] = "]" /\ j > start
    BY <1>2, <2>1, <2>2, <2>4
  <2>5. CASE j <= Len(p) /\ ~(p[j] = "]" /\ j > start) /\ IsRange(p, j)
    <3>1. j + 3 \in j + 1 .. M + 1 /\ j + 3 >= start
      BY <1>2, <2>1, <2>5 DEF IsRange
    <3>2. Scan[j + 3].after \in {0} \cup (i + 1 .. M + 1)
      BY <1>9, <3>1
    <3>3. Scan[j].after = Scan[j + 3].after
      BY <2>2, <2>5
    <3> QED BY <3>2, <3>3
  <2>6. CASE j <= Len(p) /\ ~(p[j] = "]" /\ j > start) /\ ~IsRange(p, j)
    <3>1. j + 1 \in j + 1 .. M + 1 /\ j + 1 >= start
      BY <1>2, <2>1, <2>6
    <3>2. Scan[j + 1].after \in {0} \cup (i + 1 .. M + 1)
      BY <1>9, <3>1
    <3>3. Scan[j].after = Scan[j + 1].after
      BY <2>2, <2>6
    <3> QED BY <3>2, <3>3
  <2> QED BY <1>2, <2>1, <2>3, <2>4, <2>5, <2>6
<1> HIDE DEF P
<1>10. 1 .. M + 1 \subseteq P
  <2>1. M + 1 \in Nat
    BY <1>2
  <2> QED BY <2>1, <1>9, Downwards, Zenon
<1>11. Scan[start].after \in {0} \cup (i + 1 .. M + 1)
  BY <1>2, <1>10 DEF P
<1> QED BY <1>1, <1>11 DEF M

LEMMA ElementAfter ==
  ASSUME NEW U, NEW p \in Seq(U), NEW i \in 1 .. Len(p)
  PROVE  /\ PatternElement(p, i).after \in i + 1 .. Len(p) + 1
         /\ p[i] = "*" => PatternElement(p, i).after = i + 1
<1>1. Len(p) \in Nat
  BY LenProperties
<1>2. CharClass(p, i).after \in {0} \cup (i + 1 .. Len(p) + 1)
  BY CharClassAfter
<1> QED BY <1>1, <1>2 DEF PatternElement

\* The boundaries from a position on: itself and those from the next one on.
LEMMA BoundariesFrom ==
  ASSUME NEW U, NEW p \in Seq(U)
  PROVE  /\ Boundaries(p, Len(p) + 1) = {Len(p) + 1}
         /\ \A i \in 1 .. Len(p) :
              Boundaries(p, i) = {i} \cup Boundaries(p, PatternElement(p, i).after)
<1> DEFINE M == Len(p)
           S == SUBSET (1 .. M + 1)
           next == [i \in 1 .. M |-> PatternElement(p, i).after]
           F == [i \in 1 .. M |-> [T \in S |-> {i} \cup T]]
           To[j \in 1 .. Len(p) + 1] ==
             IF j = Len(p) + 1 THEN {j} ELSE {j} \cup To[PatternElement(p, j).after]
<1>1. \A i : Boundaries(p, i) = To[i]
  BY DEF Boundaries
<1>2. M \in Nat
  BY LenProperties
<1>3. next \in [1 .. M -> 1 .. M + 1] /\ \A i \in 1 .. M : i < next[i]
  BY <1>2, ElementAfter
<1>4. {M + 1} \in S
  BY <1>2
<1>5. F \in [1 .. M -> [S -> S]]
  BY <1>2
<1> HIDE DEF S, M, To
<1>6. PICK g \in [1 .. M + 1 -> S] :
        g[M + 1] = {M + 1} /\ \A i \in 1 .. M : g[i] = F[i][g[next[i]]]
  <2> HIDE DEF F, next
  <2>1. IsNext(next, M)
    BY <1>3 DEF IsNext
  <2>2. PICK g : Descends(g, M, S, {M + 1}, F, next)
    BY <1>2, <1>4, <1>5, <2>1, RecursionDown
  <2> QED BY <2>2 DEF Descends
<1>7. g = [j \in 1 .. Len(p) + 1 |->
             IF j = Len(p) + 1 THEN {j} ELSE {j} \cup g[PatternElement(p, j).after]]
  <2>1. ASSUME NEW j \in 1 .. M + 1, j # M + 1 PROVE g[j] = {j} \cup g[PatternElement(p, j).after]
    <3>1. j \in 1 .. M /\ next[j] = PatternElement(p, j).after /\ next[j] \in 1 .. M + 1
      BY <1>2, <1>3, <2>1
    <3> QED BY <1>6, <3>1
  <2> QED BY <1>6, <2>1 DEF M
<1>8. To = [j \in 1 .. Len(p) + 1 |->
             IF j = Len(p) + 1 THEN {j} ELSE {j} \cup To[PatternElement(p, j).after]]
  BY <1>7, Zenon DEF To
<1>9. Len(p) + 1 \in 1 .. Len(p) + 1 /\ \A i \in 1 .. Len(p) : i \in 1 .. Len(p) + 1 /\ i # Len(p) + 1
  BY <1>2 DEF M
<1>10. To[Len(p) + 1] = {Len(p) + 1}
  BY <1>8, <1>9
<1>11. ASSUME NEW i \in 1 .. Len(p) PROVE To[i] = {i} \cup To[PatternElement(p, i).after]
  BY <1>8, <1>9
<1> QED BY <1>1, <1>10, <1>11

Onward(p, i) == PatternElement(p, i).after

\* They lie in the pattern, lead to each other, and none is between an element's
\* two ends.
Bounded(p, i) ==
  /\ i \in Boundaries(p, i) /\ Boundaries(p, i) \subseteq i .. Len(p) + 1
  /\ \A s \in Boundaries(p, i) : s <= Len(p) => Onward(p, s) \in Boundaries(p, i)
  /\ \A a, b \in Boundaries(p, i) : a <= b => b \in Boundaries(p, a)

LEMMA BoundariesBounded ==
  ASSUME NEW U, NEW p \in Seq(U), NEW i \in 1 .. Len(p) + 1
  PROVE  Bounded(p, i)
<1> DEFINE M == Len(p)
           P == {k \in 1 .. M + 1 : Bounded(p, k)}
<1>1. M \in Nat
  BY LenProperties
<1>2. ASSUME NEW k \in 1 .. M + 1, \A j \in k + 1 .. M + 1 : j \in P PROVE k \in P
  <2>1. CASE k = M + 1
    <3>1. Boundaries(p, k) = {k}
      BY <2>1, BoundariesFrom
    <3> QED BY <1>1, <2>1, <3>1 DEF Bounded
  <2>2. CASE k # M + 1
    <3> DEFINE n == Onward(p, k)
    <3>1. k \in 1 .. M /\ n \in k + 1 .. M + 1
      <4>1. k \in 1 .. M
        BY <1>1, <2>2
      <4> QED BY <4>1, ElementAfter DEF Onward
    <3>2. Boundaries(p, k) = {k} \cup Boundaries(p, n)
      BY <3>1, BoundariesFrom DEF Onward
    <3>3. Bounded(p, n)
      BY <1>2, <3>1
    <3> HIDE DEF n
    <3>4. k \in Boundaries(p, k) /\ Boundaries(p, k) \subseteq k .. M + 1
      BY <1>1, <3>1, <3>2, <3>3 DEF Bounded
    <3>5. ASSUME NEW s \in Boundaries(p, k), s <= M PROVE Onward(p, s) \in Boundaries(p, k)
      <4>1. CASE s = k
        BY <3>2, <3>3, <4>1 DEF Bounded, n
      <4>2. CASE s # k
        BY <3>2, <3>3, <3>5, <4>2 DEF Bounded
      <4> QED BY <4>1, <4>2
    <3>6. ASSUME NEW a \in Boundaries(p, k), NEW b \in Boundaries(p, k), a <= b
          PROVE  b \in Boundaries(p, a)
      <4>1. CASE a = k
        BY <4>1
      <4>2. CASE a # k
        <5>1. a \in Boundaries(p, n) /\ a \in n .. M + 1
          BY <3>2, <3>3, <4>2 DEF Bounded
        <5>2. b # k
          BY <1>1, <3>1, <3>4, <3>6, <5>1
        <5>3. b \in Boundaries(p, n)
          BY <3>2, <5>2
        <5> QED BY <3>3, <3>6, <5>1, <5>3 DEF Bounded
      <4> QED BY <4>1, <4>2
    <3>7. Bounded(p, k)
      BY <3>4, <3>5, <3>6 DEF Bounded
    <3> QED BY <3>7
  <2> QED BY <2>1, <2>2
<1> HIDE DEF P, M
<1>3. 1 .. M + 1 \subseteq P
  <2>1. M + 1 \in Nat
    BY <1>1
  <2> QED BY <2>1, <1>2, Downwards, Zenon
<1> QED BY <1>3 DEF P, M

-----------------------------------------------------------------------------
(* The states of the match: boundaries, and none at a star alone. *)

StarClosed(p, Q) == \A s \in Q : s <= Len(p) /\ p[s] = "*" => s + 1 \in Q

Live(p, Q) == Q \subseteq Boundaries(p, 1) /\ StarClosed(p, Q)

LEMMA BoundariesLive ==
  ASSUME NEW U, NEW p \in Seq(U)
  PROVE  /\ Boundaries(p, 1) \subseteq 1 .. Len(p) + 1 /\ 1 \in Boundaries(p, 1)
         /\ \A e \in Boundaries(p, 1) : Live(p, Boundaries(p, e))
<1>1. Len(p) \in Nat
  BY LenProperties
<1>2. Bounded(p, 1)
  BY <1>1, BoundariesBounded
<1>3. ASSUME NEW e \in Boundaries(p, 1) PROVE Live(p, Boundaries(p, e))
  <2>1. e \in 1 .. Len(p) + 1
    BY <1>2 DEF Bounded
  <2>2. Bounded(p, e)
    BY <2>1, BoundariesBounded
  <2>3. ASSUME NEW s \in Boundaries(p, e), s <= Len(p), p[s] = "*" PROVE s + 1 \in Boundaries(p, e)
    <3>1. s \in 1 .. Len(p)
      BY <1>1, <2>1, <2>2, <2>3 DEF Bounded
    <3>2. Onward(p, s) = s + 1
      BY <2>3, <3>1, ElementAfter DEF Onward
    <3> QED BY <2>2, <2>3, <3>2 DEF Bounded
  <2>4. Boundaries(p, e) \subseteq Boundaries(p, 1)
    <3> DEFINE P == {k \in 1 .. Len(p) + 1 :
                       k \in Boundaries(p, 1) => Boundaries(p, k) \subseteq Boundaries(p, 1)}
    <3>1. ASSUME NEW k \in 1 .. Len(p) + 1, \A j \in k + 1 .. Len(p) + 1 : j \in P PROVE k \in P
      <4> SUFFICES ASSUME k \in Boundaries(p, 1) PROVE Boundaries(p, k) \subseteq Boundaries(p, 1)
        OBVIOUS
      <4>1. CASE k = Len(p) + 1
        BY <4>1, BoundariesFrom
      <4>2. CASE k # Len(p) + 1
        <5>1. k \in 1 .. Len(p) /\ k <= Len(p)
          BY <1>1, <4>2
        <5>2. Onward(p, k) \in k + 1 .. Len(p) + 1 /\ Onward(p, k) \in Boundaries(p, 1)
          BY <1>2, <5>1, ElementAfter DEF Onward, Bounded
        <5>3. Boundaries(p, Onward(p, k)) \subseteq Boundaries(p, 1)
          BY <3>1, <5>2
        <5>4. Boundaries(p, k) = {k} \cup Boundaries(p, Onward(p, k))
          BY <5>1, BoundariesFrom DEF Onward
        <5> QED BY <5>3, <5>4
      <4> QED BY <4>1, <4>2
    <3> HIDE DEF P
    <3>2. 1 .. Len(p) + 1 \subseteq P
      <4>1. Len(p) + 1 \in Nat
        BY <1>1
      <4> QED BY <3>1, <4>1, Downwards, Zenon
    <3> QED BY <2>1, <3>2 DEF P
  <2> QED BY <2>3, <2>4 DEF Live, StarClosed
<1> QED BY <1>2, <1>3 DEF Bounded

\* A closure is live if what it closes are boundaries.
LEMMA ClosureLive ==
  ASSUME NEW U, NEW p \in Seq(U), NEW Q, Q \subseteq Boundaries(p, 1)
  PROVE  Q \subseteq StarClosure(p, Q) /\ Live(p, StarClosure(p, Q))
<1>1. Len(p) \in Nat /\ Boundaries(p, 1) \subseteq 1 .. Len(p) + 1
  BY LenProperties, BoundariesLive
<1>2. Live(p, Boundaries(p, 1))
  BY BoundariesLive
<1>3. ASSUME NEW s \in Q PROVE s \in StarClosure(p, Q)
  <2>1. s \in 1 .. Len(p) + 1 /\ s .. s - 1 = {}
    BY <1>1
  <2> QED BY <2>1 DEF StarClosure
<1>4. ASSUME NEW k \in StarClosure(p, Q) PROVE k \in Boundaries(p, 1)
  <2>1. PICK s \in Q : s <= k /\ \A j \in s .. k - 1 : p[j] = "*"
    BY DEF StarClosure
  <2>2. s \in 1 .. Len(p) + 1 /\ k \in 1 .. Len(p) + 1
    BY <1>1 DEF StarClosure
  <2> DEFINE P == {d \in Nat : d <= k - s => s + d \in Boundaries(p, 1)}
  <2>3. 0 \in P
    BY <2>2
  <2>4. ASSUME NEW d \in 0 .. k - s, d \in P, d < k - s PROVE d + 1 \in P
    <3>1. s + d \in s .. k - 1 /\ s + d <= Len(p) /\ s + d \in Boundaries(p, 1)
      BY <1>1, <2>1, <2>2, <2>4
    <3>2. s + d + 1 \in Boundaries(p, 1)
      BY <1>2, <2>1, <3>1 DEF Live, StarClosed
    <3> QED BY <2>2, <3>2
  <2> HIDE DEF P
  <2>5. 0 .. k - s \subseteq P
    <3>1. k - s \in Nat
      BY <2>1, <2>2
    <3> QED BY <2>3, <2>4, <3>1, Upwards, Zenon
  <2>6. k - s \in 0 .. k - s /\ s + (k - s) = k
    BY <2>1, <2>2
  <2> QED BY <2>5, <2>6 DEF P
<1>5. ASSUME NEW k \in StarClosure(p, Q), k <= Len(p), p[k] = "*" PROVE k + 1 \in StarClosure(p, Q)
  <2>1. PICK s \in Q : s <= k /\ \A j \in s .. k - 1 : p[j] = "*"
    BY DEF StarClosure
  <2>2. s \in 1 .. Len(p) + 1 /\ k \in 1 .. Len(p) + 1 /\ k + 1 \in 1 .. Len(p) + 1
    BY <1>1, <1>5 DEF StarClosure
  <2>3. s <= k + 1 /\ \A j \in s .. k + 1 - 1 : p[j] = "*"
    BY <1>5, <2>1, <2>2
  <2> QED BY <2>2, <2>3 DEF StarClosure
<1> QED BY <1>3, <1>4, <1>5 DEF Live, StarClosed

\* One step keeps them.
LEMMA StepLive ==
  ASSUME NEW U, NEW p \in Seq(U), NEW Q, Live(p, Q), NEW offered
  PROVE  /\ Live(p, Step(p, Q, offered))
         /\ \A s \in Q : s <= Len(p) /\ p[s] = "*" => s \in Step(p, Q, offered)
         /\ \A s \in Q : s <= Len(p) /\ p[s] # "*" /\ PatternElement(p, s).set \cap offered # {} =>
              Onward(p, s) \in Step(p, Q, offered)
<1> DEFINE live == Q \ {Len(p) + 1}
           stay == {s \in live : p[s] = "*"}
           move == {Onward(p, s) :
                      s \in {s \in live : p[s] # "*" /\ PatternElement(p, s).set \cap offered # {}}}
<1>1. Len(p) \in Nat /\ Boundaries(p, 1) \subseteq 1 .. Len(p) + 1
  BY LenProperties, BoundariesLive
<1>2. Bounded(p, 1)
  BY <1>1, BoundariesBounded
<1>3. Step(p, Q, offered) = StarClosure(p, stay \cup move)
  BY DEF Step, Onward
<1>4. stay \cup move \subseteq Boundaries(p, 1)
  <2>1. \A s \in live : s \in Boundaries(p, 1) /\ s <= Len(p)
    BY <1>1 DEF Live
  <2> QED BY <1>2, <2>1 DEF Bounded
<1>5. \A s \in Q : s <= Len(p) => s \in live
  BY <1>1
<1>6. stay \cup move \subseteq Step(p, Q, offered) /\ Live(p, Step(p, Q, offered))
  <2> HIDE DEF stay, move
  <2> QED BY <1>3, <1>4, ClosureLive
<1> QED BY <1>5, <1>6

-----------------------------------------------------------------------------
(* What the pattern claims, from a position of it and of the name on. *)

LEMMA TailsFrom ==
  ASSUME NEW U, NEW p \in Seq(U), NEW V, NEW name \in Seq(V)
  PROVE  /\ Tails(p, name) \in [1 .. Len(p) + 1 -> SUBSET (1 .. Len(name) + 1)]
         /\ Tails(p, name)[Len(p) + 1] = {Len(name) + 1}
         /\ \A i \in 1 .. Len(p) :
              /\ p[i] = "*" => Tails(p, name)[i] = UNION {1 .. j : j \in Tails(p, name)[i + 1]}
              /\ p[i] # "*" =>
                   Tails(p, name)[i] =
                     {j - 1 : j \in {j \in Tails(p, name)[Onward(p, i)] \ {1} :
                                       name[j - 1] \in PatternElement(p, i).set}}
<1> DEFINE M == Len(p)
           S == SUBSET (1 .. Len(name) + 1)
           next == [i \in 1 .. M |-> Onward(p, i)]
           Back(T, i) == {j - 1 : j \in {j \in T \ {1} : name[j - 1] \in PatternElement(p, i).set}}
           F == [i \in 1 .. M |-> [T \in S |->
                  IF p[i] = "*" THEN UNION {1 .. j : j \in T} ELSE Back(T, i)]]
           From[i \in 1 .. Len(p) + 1] ==
             IF i = Len(p) + 1 THEN {Len(name) + 1}
             ELSE IF p[i] = "*" THEN UNION {1 .. j : j \in From[i + 1]}
                  ELSE LET element == PatternElement(p, i)
                       IN {j - 1 : j \in {j \in From[element.after] \ {1} : name[j - 1] \in element.set}}
<1>1. Tails(p, name) = From
  BY DEF Tails
<1>2. M \in Nat /\ Len(name) \in Nat
  BY LenProperties
<1>3. ASSUME NEW i \in 1 .. M
      PROVE  /\ Onward(p, i) \in i + 1 .. M + 1
             /\ p[i] = "*" => Onward(p, i) = i + 1
             /\ next[i] = Onward(p, i)
  BY ElementAfter DEF Onward
<1>4. IsNext(next, M)
  <2> HIDE DEF next
  <2>1. ASSUME NEW i \in 1 .. M PROVE next[i] \in 1 .. M + 1 /\ i < next[i]
    BY <1>2, <1>3
  <2>2. next = [i \in 1 .. M |-> Onward(p, i)]
    BY DEF next
  <2> QED BY <2>1, <2>2 DEF IsNext
<1>5. F \in [1 .. M -> [S -> S]]
  <2>1. ASSUME NEW T \in S, NEW i \in 1 .. M PROVE UNION {1 .. j : j \in T} \in S /\ Back(T, i) \in S
    <3>1. \A j \in T : 1 .. j \subseteq 1 .. Len(name) + 1
      BY <1>2
    <3>2. \A j \in T \ {1} : j - 1 \in 1 .. Len(name) + 1
      BY <1>2
    <3> QED BY <3>1, <3>2
  <2> HIDE DEF Back
  <2> QED BY <2>1
<1>6. {Len(name) + 1} \in S
  BY <1>2
<1> HIDE DEF S, M, From, F, Back
<1>7. PICK g : Descends(g, M, S, {Len(name) + 1}, F, next)
  <2> HIDE DEF next
  <2> QED BY <1>2, <1>4, <1>5, <1>6, RecursionDown
<1>8. ASSUME NEW i \in 1 .. M
      PROVE  /\ g[Onward(p, i)] \in S
             /\ g[i] = IF p[i] = "*" THEN UNION {1 .. j : j \in g[i + 1]} ELSE Back(g[Onward(p, i)], i)
  <2>1. g[i] = F[i][g[next[i]]] /\ g[next[i]] \in S
    BY <1>2, <1>3, <1>7 DEF Descends
  <2>2. g[i] = F[i][g[Onward(p, i)]] /\ g[Onward(p, i)] \in S
    BY <1>3, <2>1
  <2> HIDE DEF next
  <2> QED BY <1>3, <2>2 DEF F
<1>9. g = [i \in 1 .. Len(p) + 1 |->
             IF i = Len(p) + 1 THEN {Len(name) + 1}
             ELSE IF p[i] = "*" THEN UNION {1 .. j : j \in g[i + 1]}
                  ELSE LET element == PatternElement(p, i)
                       IN {j - 1 : j \in {j \in g[element.after] \ {1} : name[j - 1] \in element.set}}]
  <2>1. ASSUME NEW i \in 1 .. M + 1, i # M + 1 PROVE i \in 1 .. M
    BY <1>2, <2>1
  <2>2. ASSUME NEW i \in 1 .. M + 1, i # M + 1, p[i] # "*"
        PROVE  g[i] = LET element == PatternElement(p, i)
                      IN {j - 1 : j \in {j \in g[element.after] \ {1} : name[j - 1] \in element.set}}
    <3>1. g[i] = Back(g[Onward(p, i)], i)
      BY <1>8, <2>1, <2>2
    <3> QED BY <3>1 DEF Back, Onward
  <2>3. ASSUME NEW i \in 1 .. M + 1, i # M + 1, p[i] = "*"
        PROVE  g[i] = UNION {1 .. j : j \in g[i + 1]}
    BY <1>8, <2>1, <2>3
  <2>4. g = [i \in 1 .. M + 1 |-> g[i]] /\ g[M + 1] = {Len(name) + 1}
    BY <1>7 DEF Descends
  <2> QED BY <2>2, <2>3, <2>4, Zenon DEF M
<1>10. From = [i \in 1 .. Len(p) + 1 |->
             IF i = Len(p) + 1 THEN {Len(name) + 1}
             ELSE IF p[i] = "*" THEN UNION {1 .. j : j \in From[i + 1]}
                  ELSE LET element == PatternElement(p, i)
                       IN {j - 1 : j \in {j \in From[element.after] \ {1} : name[j - 1] \in element.set}}]
  BY <1>9, Zenon DEF From
<1>11. Len(p) + 1 \in 1 .. Len(p) + 1 /\ \A i \in 1 .. Len(p) : i \in 1 .. Len(p) + 1 /\ i # Len(p) + 1
  BY <1>2 DEF M
<1>12. From[Len(p) + 1] = {Len(name) + 1}
  BY <1>10, <1>11, Zenon
<1>13. ASSUME NEW i \in 1 .. Len(p), p[i] = "*" PROVE From[i] = UNION {1 .. j : j \in From[i + 1]}
  BY <1>10, <1>11, <1>13, Zenon
<1>14. ASSUME NEW i \in 1 .. Len(p), p[i] # "*"
       PROVE  From[i] = {j - 1 : j \in {j \in From[Onward(p, i)] \ {1} :
                                         name[j - 1] \in PatternElement(p, i).set}}
  <2>1. From[i] = LET element == PatternElement(p, i)
                  IN {j - 1 : j \in {j \in From[element.after] \ {1} : name[j - 1] \in element.set}}
    BY <1>10, <1>11, <1>14, Zenon
  <2> QED BY <2>1 DEF Onward
<1> DEFINE P == {i \in Nat : From[i] \in S}
<1>15. ASSUME NEW i \in 1 .. M + 1, \A j \in i + 1 .. M + 1 : j \in P PROVE i \in P
  <2>1. CASE i = M + 1
    <3>1. i = Len(p) + 1 /\ i \in Nat
      BY <1>2, <2>1 DEF M
    <3>2. From[i] = {Len(name) + 1}
      BY <1>12, <3>1
    <3> QED BY <1>6, <3>1, <3>2
  <2>2. CASE i # M + 1
    <3>1. i \in 1 .. M /\ i \in 1 .. Len(p) /\ i + 1 \in i + 1 .. M + 1
      BY <1>2, <2>2 DEF M
    <3>2. From[i + 1] \in S /\ From[Onward(p, i)] \in S
      BY <1>3, <1>15, <3>1
    <3>3. CASE p[i] = "*"
      <4>1. \A j \in From[i + 1] : 1 .. j \subseteq 1 .. Len(name) + 1
        BY <1>2, <3>2 DEF S
      <4> QED BY <1>13, <3>1, <3>3, <4>1 DEF S
    <3>4. CASE p[i] # "*"
      <4>1. \A j \in From[Onward(p, i)] \ {1} : j - 1 \in 1 .. Len(name) + 1
        BY <1>2, <3>2 DEF S
      <4> QED BY <1>14, <3>1, <3>4, <4>1 DEF S
    <3> QED BY <3>3, <3>4
  <2> QED BY <2>1, <2>2
<1> HIDE DEF P
<1>16. 1 .. M + 1 \subseteq P
  <2>1. M + 1 \in Nat
    BY <1>2
  <2> QED BY <2>1, <1>15, Downwards, Zenon
<1>17. From \in [1 .. Len(p) + 1 -> S]
  <2>1. \A i \in 1 .. Len(p) + 1 : From[i] \in S
    BY <1>16 DEF P, M
  <2>2. From = [i \in 1 .. Len(p) + 1 |-> From[i]]
    BY <1>10, Zenon
  <2> QED BY <2>1, <2>2
<1> QED BY <1>1, <1>12, <1>13, <1>14, <1>17 DEF S

\* Where states read the name on from j.
Reads(p, name, Q, j) == \E s \in Q : j \in Tails(p, name)[s]

\* The greatest of them either takes the next character, or is a star that does;
\* at the end of the name, it is the end of the pattern.
LEMMA ChainStep ==
  ASSUME NEW U, NEW p \in Seq(U), NEW V, NEW name \in Seq(V),
         NEW Q, Live(p, Q), NEW j, Reads(p, name, Q, j)
  PROVE  /\ j \in 1 .. Len(name) + 1
         /\ j = Len(name) + 1 => Len(p) + 1 \in Q
         /\ j <= Len(name) =>
              \E s \in Q :
                /\ s <= Len(p)
                /\ \/ p[s] = "*" /\ j + 1 \in Tails(p, name)[s]
                   \/ /\ p[s] # "*" /\ name[j] \in PatternElement(p, s).set
                      /\ j + 1 \in Tails(p, name)[Onward(p, s)]
<1> DEFINE T == Tails(p, name)
<1>1. Len(p) \in Nat /\ Len(name) \in Nat /\ Q \subseteq 1 .. Len(p) + 1
  BY LenProperties, BoundariesLive DEF Live
<1>2. T \in [1 .. Len(p) + 1 -> SUBSET (1 .. Len(name) + 1)] /\ T[Len(p) + 1] = {Len(name) + 1}
  BY TailsFrom
<1>3. \A i \in 1 .. Len(p) : p[i] = "*" => T[i] = UNION {1 .. k : k \in T[i + 1]}
  BY TailsFrom
<1>4. \A i \in 1 .. Len(p) : p[i] # "*" =>
        T[i] = {k - 1 : k \in {k \in T[Onward(p, i)] \ {1} : name[k - 1] \in PatternElement(p, i).set}}
  BY TailsFrom
<1>5. \A i \in 1 .. Len(p) : Onward(p, i) \in 1 .. Len(p) + 1
  BY <1>1, ElementAfter DEF Onward
<1> DEFINE R == {s \in Q : j \in T[s]}
<1>6. PICK s \in R : \A t \in R : t <= s
  <2>1. R # {}
    BY DEF Reads
  <2>2. R \subseteq Q
    OBVIOUS
  <2> HIDE DEF R
  <2>3. R \subseteq 0 .. Len(p) + 1 /\ Len(p) + 1 \in Nat
    BY <1>1, <2>2
  <2> QED BY <2>1, <2>3, Greatest
<1> HIDE DEF T
<1>7. s \in Q /\ s \in 1 .. Len(p) + 1 /\ j \in T[s] /\ j \in 1 .. Len(name) + 1
  BY <1>1, <1>2, <1>6
<1>8. CASE s = Len(p) + 1
  <2>1. j = Len(name) + 1
    BY <1>2, <1>7, <1>8
  <2> QED BY <1>1, <1>7, <1>8, <2>1
<1>9. CASE s # Len(p) + 1 /\ p[s] = "*"
  <2>1. s \in 1 .. Len(p) /\ s + 1 \in Q
    BY <1>1, <1>7, <1>9 DEF Live, StarClosed
  <2>2. j \notin T[s + 1]
    <3>1. s + 1 \notin R
      BY <1>1, <1>6, <1>7
    <3> QED BY <2>1, <3>1
  <2>3. PICK k \in T[s + 1] : j \in 1 .. k
    BY <1>3, <1>7, <1>9, <2>1
  <2>4. k \in 1 .. Len(name) + 1
    BY <1>1, <1>2, <2>1, <2>3
  <2>5. j + 1 \in 1 .. k /\ j <= Len(name)
    BY <1>1, <1>7, <2>2, <2>3, <2>4
  <2>6. j + 1 \in T[s]
    BY <1>3, <1>9, <2>1, <2>3, <2>5
  <2> QED BY <1>1, <1>7, <1>9, <2>1, <2>5, <2>6 DEF T
<1>10. CASE s # Len(p) + 1 /\ p[s] # "*"
  <2>1. s \in 1 .. Len(p)
    BY <1>1, <1>7, <1>10
  <2>2. PICK k \in T[Onward(p, s)] \ {1} : name[k - 1] \in PatternElement(p, s).set /\ j = k - 1
    BY <1>4, <1>7, <1>10, <2>1
  <2>3. k \in 1 .. Len(name) + 1 /\ k = j + 1 /\ j <= Len(name)
    BY <1>1, <1>2, <1>5, <1>7, <2>1, <2>2
  <2> QED BY <1>1, <1>7, <1>10, <2>1, <2>2, <2>3 DEF T
<1> QED BY <1>8, <1>9, <1>10

\* So a step on the next character reads on, and so does every boundary that
\* follows a state, from anywhere.
LEMMA StepReads ==
  ASSUME NEW U, NEW p \in Seq(U), NEW V, NEW name \in Seq(V),
         NEW Q, Live(p, Q), NEW j, Reads(p, name, Q, j), j <= Len(name),
         NEW offered, name[j] \in offered
  PROVE  Reads(p, name, Step(p, Q, offered), j + 1)
<1>1. PICK s \in Q :
        /\ s <= Len(p)
        /\ \/ p[s] = "*" /\ j + 1 \in Tails(p, name)[s]
           \/ /\ p[s] # "*" /\ name[j] \in PatternElement(p, s).set
              /\ j + 1 \in Tails(p, name)[Onward(p, s)]
  BY ChainStep
<1>2. CASE p[s] = "*"
  BY <1>1, <1>2, StepLive DEF Reads
<1>3. CASE p[s] # "*"
  <2>1. Onward(p, s) \in Step(p, Q, offered)
    <3>1. PatternElement(p, s).set \cap offered # {}
      BY <1>1, <1>3
    <3> QED BY <1>1, <1>3, <3>1, StepLive
  <2> QED BY <1>1, <1>3, <2>1 DEF Reads
<1> QED BY <1>2, <1>3

LEMMA BoundariesRead ==
  ASSUME NEW U, NEW p \in Seq(U), NEW V, NEW name \in Seq(V),
         NEW e \in Boundaries(p, 1), NEW j, Reads(p, name, Boundaries(p, e), j),
         NEW k \in j .. Len(name) + 1
  PROVE  Reads(p, name, Boundaries(p, e), k)
<1> DEFINE Q == Boundaries(p, e)
           P == {d \in Nat : j + d <= Len(name) + 1 => Reads(p, name, Q, j + d)}
<1>1. Len(p) \in Nat /\ Len(name) \in Nat /\ e \in 1 .. Len(p) + 1 /\ Live(p, Q)
  BY LenProperties, BoundariesLive
<1>2. Bounded(p, e)
  BY <1>1, BoundariesBounded
<1> HIDE DEF Q
<1>3. j \in 1 .. Len(name) + 1
  BY <1>1, ChainStep DEF Q
<1>4. 0 \in P
  BY <1>3 DEF Q
<1>5. ASSUME NEW d \in 0 .. Len(name), d \in P, d < Len(name) PROVE d + 1 \in P
  <2> SUFFICES ASSUME j + d + 1 <= Len(name) + 1 PROVE Reads(p, name, Q, j + d + 1)
    BY <1>3
  <2>1. j + d <= Len(name) /\ Reads(p, name, Q, j + d)
    BY <1>1, <1>3, <1>5
  <2>2. PICK s \in Q :
          /\ s <= Len(p)
          /\ \/ p[s] = "*" /\ j + d + 1 \in Tails(p, name)[s]
             \/ /\ p[s] # "*" /\ name[j + d] \in PatternElement(p, s).set
                /\ j + d + 1 \in Tails(p, name)[Onward(p, s)]
    BY <1>1, <2>1, ChainStep
  <2>3. Onward(p, s) \in Q
    BY <1>2, <2>2 DEF Bounded, Q
  <2> QED BY <2>2, <2>3 DEF Reads
<1> HIDE DEF P
<1>6. 0 .. Len(name) \subseteq P
  BY <1>1, <1>4, <1>5, Upwards
<1>7. k - j \in 0 .. Len(name) /\ j + (k - j) = k /\ k <= Len(name) + 1
  BY <1>1, <1>3
<1> QED BY <1>6, <1>7 DEF P, Q

-----------------------------------------------------------------------------
(* Segments: a name is read to its end. *)

LEMMA ConsumeSteps ==
  ASSUME NEW U, NEW p \in Seq(U), NEW Q, Live(p, Q), NEW offers, NEW W, offers \in Seq(W)
  PROVE  \E A :
           /\ A \in [0 .. Len(offers) -> {R \in SUBSET (1 .. Len(p) + 1) : Live(p, R)}]
           /\ A[0] = Q /\ \A k \in 1 .. Len(offers) : A[k] = Step(p, A[k - 1], offers[k])
           /\ Consume(p, Q, offers) = A[Len(offers)]
<1> DEFINE N == Len(offers)
           S == {R \in SUBSET (1 .. Len(p) + 1) : Live(p, R)}
           F == [k \in 1 .. N |-> [R \in S |-> Step(p, R, offers[k])]]
           After[k \in 0 .. Len(offers)] ==
             IF k = 0 THEN Q ELSE Step(p, After[k - 1], offers[k])
<1>1. Consume(p, Q, offers) = After[N]
  BY DEF Consume
<1>2. N \in Nat /\ Len(p) \in Nat
  BY LenProperties
<1>3. \A R : Live(p, R) => R \in S
  BY BoundariesLive DEF Live
<1>4. F \in [1 .. N -> [S -> S]]
  <2>1. \A R \in S : \A o : Step(p, R, o) \in S
    BY <1>3, StepLive
  <2> HIDE DEF S
  <2> QED BY <2>1
<1> HIDE DEF S, F, After
<1>5. PICK g : Ascends(g, N, S, Q, F)
  BY <1>2, <1>3, <1>4, RecursionUp
<1> HIDE DEF N
<1>6. ASSUME NEW k \in 1 .. N PROVE g[k] = Step(p, g[k - 1], offers[k])
  <2>1. g[k] = F[k][g[k - 1]] /\ g[k - 1] \in S
    BY <1>2, <1>5 DEF Ascends
  <2> QED BY <2>1 DEF F
<1>7. g = [k \in 0 .. Len(offers) |-> IF k = 0 THEN Q ELSE Step(p, g[k - 1], offers[k])]
  <2>1. \A k \in 0 .. N : k # 0 => k \in 1 .. N
    BY <1>2
  <2>2. g = [k \in 0 .. N |-> g[k]] /\ g[0] = Q
    BY <1>5 DEF Ascends
  <2> QED BY <1>6, <2>1, <2>2, Zenon DEF N
<1>8. After = [k \in 0 .. Len(offers) |-> IF k = 0 THEN Q ELSE Step(p, After[k - 1], offers[k])]
  BY <1>7, Zenon DEF After
<1>9. ASSUME NEW k \in 1 .. N PROVE After[k] = Step(p, After[k - 1], offers[k])
  <2>1. k \in 0 .. Len(offers) /\ k # 0
    BY <1>2 DEF N
  <2> QED BY <1>8, <2>1, Zenon
<1>10. After[0] = Q
  <2>1. 0 \in 0 .. Len(offers)
    BY <1>2 DEF N
  <2> QED BY <1>8, <2>1, Zenon
<1> DEFINE P == {k \in Nat : After[k] \in S}
<1>11. 0 .. N \subseteq P
  <2>1. 0 \in P
    BY <1>3, <1>10
  <2>2. ASSUME NEW k \in 0 .. N, k \in P, k < N PROVE k + 1 \in P
    <3>1. k + 1 \in 1 .. N /\ k + 1 - 1 = k
      BY <1>2, <2>2
    <3>2. After[k + 1] = Step(p, After[k], offers[k + 1])
      BY <1>9, <3>1
    <3>3. Live(p, Step(p, After[k], offers[k + 1]))
      BY <2>2, StepLive DEF S
    <3> QED BY <1>3, <3>1, <3>2, <3>3
  <2> HIDE DEF P
  <2> QED BY <1>2, <2>1, <2>2, Upwards
<1>12. After \in [0 .. N -> S]
  <2>1. \A k \in 0 .. N : After[k] \in S
    BY <1>11
  <2>2. After = [k \in 0 .. N |-> After[k]]
    BY <1>8, Zenon DEF N
  <2> QED BY <2>1, <2>2
<1> QED BY <1>1, <1>9, <1>10, <1>12 DEF S, N

LEMMA ConsumeReads ==
  ASSUME NEW U, NEW p \in Seq(U), NEW V, NEW name \in Seq(V),
         NEW Q, Live(p, Q), NEW offers, NEW W, offers \in Seq(W)
  PROVE  /\ Live(p, Consume(p, Q, offers))
         /\ \A j \in Nat :
              /\ Reads(p, name, Q, j)
              /\ j + Len(offers) <= Len(name) + 1
              /\ \A k \in 1 .. Len(offers) : name[j + k - 1] \in offers[k]
              => Reads(p, name, Consume(p, Q, offers), j + Len(offers))
<1> DEFINE N == Len(offers)
<1>1. N \in Nat /\ Len(name) \in Nat
  BY LenProperties
<1>2. PICK A :
        /\ A \in [0 .. N -> {R \in SUBSET (1 .. Len(p) + 1) : Live(p, R)}]
        /\ A[0] = Q /\ \A k \in 1 .. N : A[k] = Step(p, A[k - 1], offers[k])
        /\ Consume(p, Q, offers) = A[N]
  BY ConsumeSteps
<1>3. ASSUME NEW j \in Nat, Reads(p, name, Q, j), j + N <= Len(name) + 1,
             \A k \in 1 .. N : name[j + k - 1] \in offers[k]
      PROVE  Reads(p, name, Consume(p, Q, offers), j + N)
  <2> HIDE DEF N
  <2> DEFINE P == {k \in Nat : Reads(p, name, A[k], j + k)}
  <2>1. 0 \in P
    BY <1>2, <1>3
  <2>2. ASSUME NEW k \in 0 .. N, k \in P, k < N PROVE k + 1 \in P
    <3>1. k + 1 \in 1 .. N /\ k + 1 - 1 = k /\ j + (k + 1) - 1 = j + k /\ j + k <= Len(name)
      BY <1>1, <1>3, <2>2
    <3>2. name[j + k] \in offers[k + 1]
      BY <1>3, <3>1
    <3>3. A[k + 1] = Step(p, A[k], offers[k + 1])
      BY <1>2, <3>1
    <3>4. Reads(p, name, A[k + 1], j + k + 1)
      <4>1. Live(p, A[k]) /\ Reads(p, name, A[k], j + k) /\ j + k \in Nat
        BY <1>2, <1>3, <2>2
      <4> QED BY <3>1, <3>2, <3>3, <4>1, StepReads
    <3> QED BY <3>1, <3>4
  <2> HIDE DEF P
  <2>3. 0 .. N \subseteq P
    BY <1>1, <2>1, <2>2, Upwards
  <2> QED BY <1>1, <1>2, <2>3 DEF P
<1>4. Live(p, Consume(p, Q, offers))
  BY <1>1, <1>2
<1> QED BY <1>3, <1>4

\* The segments of a format.
Segments == [alts : SUBSET Seq(Chars), digits : Nat, any : BOOLEAN]

\* Live states are read to the least, and those of texts together.
LEMMA AdvanceLive ==
  ASSUME NEW U, NEW p \in Seq(U), NEW Q, Live(p, Q), NEW seg \in Segments
  PROVE  /\ Live(p, Advance(p, Q, seg))
         /\ Q # {} => Earliest(Q) \in Q /\ \A s \in Q : Earliest(Q) <= s
<1>1. Q \subseteq 1 .. Len(p) + 1 /\ Len(p) \in Nat
  BY BoundariesLive, LenProperties DEF Live
<1>2. Q # {} => Earliest(Q) \in Q /\ \A s \in Q : Earliest(Q) <= s
  <2> SUFFICES ASSUME Q # {} PROVE Earliest(Q) \in Q /\ \A s \in Q : Earliest(Q) <= s
    OBVIOUS
  <2>1. Q \subseteq Nat
    BY <1>1
  <2>2. \E m \in Q : \A k \in Q : m <= k
    BY <2>1, Least
  <2> QED BY <2>2, Zenon DEF Earliest
<1>3. CASE Q = {}
  BY <1>3 DEF Advance, Live, StarClosed
<1>4. CASE Q # {} /\ seg.any
  <2>1. Earliest(Q) \in Boundaries(p, 1)
    BY <1>2, <1>4 DEF Live
  <2>2. Boundaries(p, Earliest(Q)) \subseteq Boundaries(p, 1)
    BY <2>1, BoundariesLive DEF Live
  <2>3. Live(p, StarClosure(p, Boundaries(p, Earliest(Q))))
    BY <2>2, ClosureLive
  <2> QED BY <1>2, <1>4, <2>3 DEF Advance
<1>5. CASE Q # {} /\ ~seg.any /\ seg.digits > 0
  <2>1. [k \in 1 .. seg.digits |-> Digits] \in Seq({Digits})
    BY DEF Segments
  <2>2. Live(p, ConsumeDigits(p, Q, seg.digits))
    BY <2>1, EmptySeq, ConsumeReads DEF ConsumeDigits
  <2> QED BY <1>2, <1>5, <2>2 DEF Advance
<1>6. CASE Q # {} /\ ~seg.any /\ ~(seg.digits > 0)
  <2>1. ASSUME NEW alt \in seg.alts PROVE Live(p, ConsumeText(p, Q, alt))
    <3>1. alt \in Seq(Chars)
      BY DEF Segments
    <3>2. [k \in 1 .. Len(alt) |-> {alt[k]}] \in Seq(SUBSET Chars)
      BY <3>1
    <3> QED BY <3>2, EmptySeq, ConsumeReads DEF ConsumeText
  <2>2. Advance(p, Q, seg) = UNION {ConsumeText(p, Q, alt) : alt \in seg.alts}
    BY <1>6 DEF Advance
  <2>3. Live(p, Advance(p, Q, seg))
    BY <2>1, <2>2 DEF Live, StarClosed
  <2> QED BY <1>2, <2>3
<1> QED BY <1>2, <1>3, <1>4, <1>5, <1>6

LEMMA AdvanceReads ==
  ASSUME NEW U, NEW p \in Seq(U), NEW name \in Seq(Chars), NEW Q, Live(p, Q),
         NEW seg \in Segments, NEW bound \in Nat, NEW text \in Texts(seg, bound),
         NEW j \in Nat, Reads(p, name, Q, j), j + Len(text) <= Len(name) + 1,
         \A k \in 1 .. Len(text) : name[j + k - 1] = text[k]
  PROVE  Reads(p, name, Advance(p, Q, seg), j + Len(text))
<1>1. Q \subseteq 1 .. Len(p) + 1 /\ Len(p) \in Nat /\ Len(name) \in Nat
  BY BoundariesLive, LenProperties DEF Live
<1>2. Q # {}
  BY DEF Reads
<1>3. CASE seg.any
  <2> DEFINE e == Earliest(Q)
  <2>1. e \in Q /\ e \in Boundaries(p, 1) /\ \A s \in Q : e <= s
    BY <1>2, AdvanceLive DEF Live
  <2> HIDE DEF e
  <2>2. Bounded(p, 1)
    BY <1>1, BoundariesBounded
  <2>3. Q \subseteq Boundaries(p, e)
    BY <2>1, <2>2 DEF Bounded, Live
  <2>4. Reads(p, name, Boundaries(p, e), j)
    BY <2>3 DEF Reads
  <2>5. Len(text) \in Nat
    BY <1>3 DEF Texts
  <2>6. Reads(p, name, Boundaries(p, e), j + Len(text))
    <3>1. j + Len(text) \in j .. Len(name) + 1
      BY <1>1, <2>5
    <3> QED BY <2>1, <2>4, <3>1, BoundariesRead
  <2>7. Boundaries(p, e) \subseteq StarClosure(p, Boundaries(p, e))
    <3>1. Boundaries(p, e) \subseteq Boundaries(p, 1)
      BY <2>1, BoundariesLive DEF Live
    <3> QED BY <3>1, ClosureLive
  <2> QED BY <1>2, <1>3, <2>6, <2>7 DEF Advance, Reads, e
<1>4. CASE ~seg.any /\ seg.digits > 0
  <2> DEFINE offers == [k \in 1 .. seg.digits |-> Digits]
  <2>1. offers \in Seq({Digits}) /\ Len(offers) = seg.digits /\ seg.digits \in Nat
    BY DEF Segments
  <2>2. text \in [1 .. seg.digits -> Digits]
    BY <1>4 DEF Texts
  <2>3. Len(text) = seg.digits
    BY <2>1, <2>2
  <2>4. \A k \in 1 .. Len(offers) : name[j + k - 1] \in offers[k]
    BY <2>1, <2>2, <2>3
  <2> HIDE DEF offers
  <2>5. Reads(p, name, Consume(p, Q, offers), j + Len(offers))
    BY <2>1, <2>3, <2>4, ConsumeReads
  <2> QED BY <1>2, <1>4, <2>1, <2>3, <2>5 DEF Advance, ConsumeDigits, offers
<1>5. CASE ~seg.any /\ ~(seg.digits > 0)
  <2> DEFINE offers == [k \in 1 .. Len(text) |-> {text[k]}]
  <2>1. text \in seg.alts /\ text \in Seq(Chars)
    BY <1>5 DEF Texts, Segments
  <2>2. offers \in Seq(SUBSET Chars) /\ Len(offers) = Len(text)
    BY <2>1
  <2>3. \A k \in 1 .. Len(offers) : name[j + k - 1] \in offers[k]
    BY <2>2
  <2> HIDE DEF offers
  <2>4. Reads(p, name, Consume(p, Q, offers), j + Len(offers))
    BY <2>2, <2>3, ConsumeReads
  <2>5. Consume(p, Q, offers) \subseteq Advance(p, Q, seg)
    BY <1>2, <1>5, <2>1 DEF Advance, ConsumeText, offers
  <2> QED BY <2>2, <2>4, <2>5 DEF Reads
<1> QED BY <1>3, <1>4, <1>5

LEMMA MatchSteps ==
  ASSUME NEW U, NEW p \in Seq(U), NEW segs \in Seq(Segments)
  PROVE  \E R :
           /\ R \in [0 .. Len(segs) -> {Q \in SUBSET (1 .. Len(p) + 1) : Live(p, Q)}]
           /\ R[0] = StarClosure(p, {1})
           /\ \A k \in 1 .. Len(segs) : R[k] = Advance(p, R[k - 1], segs[k])
           /\ PatternMatchesFormat(p, segs) <=> Len(p) + 1 \in R[Len(segs)]
<1> DEFINE N == Len(segs)
           S == {Q \in SUBSET (1 .. Len(p) + 1) : Live(p, Q)}
           b == StarClosure(p, {1})
           F == [k \in 1 .. N |-> [Q \in S |-> Advance(p, Q, segs[k])]]
           Reached[k \in 0 .. Len(segs)] ==
             IF k = 0 THEN StarClosure(p, {1}) ELSE Advance(p, Reached[k - 1], segs[k])
<1>1. PatternMatchesFormat(p, segs) <=> Len(p) + 1 \in Reached[N]
  BY DEF PatternMatchesFormat
<1>2. N \in Nat /\ Len(p) \in Nat /\ \A k \in 1 .. N : segs[k] \in Segments
  BY LenProperties, ElementOfSeq
<1>3. \A Q : Live(p, Q) => Q \in S
  BY BoundariesLive DEF Live
<1>4. F \in [1 .. N -> [S -> S]]
  <2>1. \A Q \in S, k \in 1 .. N : Advance(p, Q, segs[k]) \in S
    BY <1>2, <1>3, AdvanceLive
  <2> HIDE DEF S
  <2> QED BY <2>1
<1>5. b \in S
  BY <1>3, BoundariesLive, ClosureLive
<1> HIDE DEF S, F, Reached, b
<1>6. PICK g : Ascends(g, N, S, b, F)
  BY <1>2, <1>4, <1>5, RecursionUp
<1> HIDE DEF N
<1>7. ASSUME NEW k \in 1 .. N PROVE g[k] = Advance(p, g[k - 1], segs[k])
  <2>1. g[k] = F[k][g[k - 1]] /\ g[k - 1] \in S
    BY <1>2, <1>6 DEF Ascends
  <2> QED BY <2>1 DEF F
<1>8. g = [k \in 0 .. Len(segs) |->
             IF k = 0 THEN StarClosure(p, {1}) ELSE Advance(p, g[k - 1], segs[k])]
  <2>1. \A k \in 0 .. N : k # 0 => k \in 1 .. N
    BY <1>2
  <2>2. g = [k \in 0 .. N |-> g[k]] /\ g[0] = b
    BY <1>6 DEF Ascends
  <2> QED BY <1>7, <2>1, <2>2, Zenon DEF N, b
<1>9. Reached = [k \in 0 .. Len(segs) |->
             IF k = 0 THEN StarClosure(p, {1}) ELSE Advance(p, Reached[k - 1], segs[k])]
  BY <1>8, Zenon DEF Reached
<1>10. ASSUME NEW k \in 1 .. N PROVE Reached[k] = Advance(p, Reached[k - 1], segs[k])
  <2>1. k \in 0 .. Len(segs) /\ k # 0
    BY <1>2 DEF N
  <2> QED BY <1>9, <2>1, Zenon
<1>11. Reached[0] = b
  <2>1. 0 \in 0 .. Len(segs)
    BY <1>2 DEF N
  <2> QED BY <1>9, <2>1, Zenon DEF b
<1> DEFINE P == {k \in Nat : Reached[k] \in S}
<1>12. 0 .. N \subseteq P
  <2>1. 0 \in P
    BY <1>5, <1>11
  <2>2. ASSUME NEW k \in 0 .. N, k \in P, k < N PROVE k + 1 \in P
    <3>1. k + 1 \in 1 .. N /\ k + 1 - 1 = k
      BY <1>2, <2>2
    <3>2. Reached[k + 1] = Advance(p, Reached[k], segs[k + 1]) /\ segs[k + 1] \in Segments
      BY <1>2, <1>10, <3>1
    <3>3. Live(p, Advance(p, Reached[k], segs[k + 1]))
      BY <2>2, <3>2, AdvanceLive DEF S
    <3> QED BY <1>3, <3>1, <3>2, <3>3
  <2> HIDE DEF P
  <2> QED BY <1>2, <2>1, <2>2, Upwards
<1>13. Reached \in [0 .. N -> S]
  <2>1. \A k \in 0 .. N : Reached[k] \in S
    BY <1>12
  <2>2. Reached = [k \in 0 .. N |-> Reached[k]]
    BY <1>9, Zenon DEF N
  <2> QED BY <2>1, <2>2
<1> QED BY <1>1, <1>10, <1>11, <1>13 DEF S, N, b

LEMMA JoinedTexts ==
  ASSUME NEW A, NEW B, NEW w \in Joined(A, B)
  PROVE  \E x \in A : \E y \in B : w = x \o y
BY DEF Joined

LEMMA JoinedOf ==
  ASSUME NEW A, NEW B, NEW x \in A, NEW y \in B
  PROVE  x \o y \in Joined(A, B)
BY SMT DEF Joined

LEMMA NamesSteps ==
  ASSUME NEW segs \in Seq(Segments), NEW bound \in Nat
  PROVE  \E G :
           /\ G \in [0 .. Len(segs) -> SUBSET Seq(Chars)]
           /\ G[0] = {<<>>}
           /\ \A k \in 1 .. Len(segs) :
                G[k] = Joined(G[k - 1], Texts(segs[k], bound))
           /\ \A k \in 1 .. Len(segs) : Texts(segs[k], bound) \subseteq Seq(Chars)
           /\ Names(segs, bound) = G[Len(segs)]
<1> DEFINE N == Len(segs)
           S == SUBSET Seq(Chars)
           F == [k \in 1 .. N |-> [T \in S |->
                  Joined(T, Texts(segs[k], bound))]]
           Upto[k \in 0 .. Len(segs)] ==
             IF k = 0 THEN {<<>>}
             ELSE Joined(Upto[k - 1], Texts(segs[k], bound))
<1>1. Names(segs, bound) = Upto[N]
  BY DEF Names
<1>2. N \in Nat /\ \A k \in 1 .. N : segs[k] \in Segments
  BY LenProperties, ElementOfSeq
<1>3. ASSUME NEW k \in 1 .. N PROVE Texts(segs[k], bound) \subseteq Seq(Chars)
  <2> DEFINE seg == segs[k]
  <2>1. seg \in Segments
    BY <1>2
  <2> HIDE DEF seg
  <2>2. Digits \subseteq Chars
    BY ArchiveNamesAssumption
  <2>3. \A n \in Nat : [1 .. n -> Chars] \subseteq Seq(Chars) /\ [1 .. n -> Digits] \subseteq Seq(Chars)
    <3>1. \A n \in Nat : [1 .. n -> Digits] \subseteq [1 .. n -> Chars]
      BY <2>2
    <3>2. \A n \in Nat : [1 .. n -> Chars] \subseteq Seq(Chars)
      BY SeqDef
    <3> QED BY <3>1, <3>2
  <2>4. Texts(seg, bound) \subseteq Seq(Chars)
    <3>1. CASE seg.any
      BY <2>3, <3>1 DEF Texts
    <3>2. CASE ~seg.any /\ seg.digits > 0
      BY <2>1, <2>3, <3>2 DEF Texts, Segments
    <3>3. CASE ~seg.any /\ ~(seg.digits > 0)
      BY <2>1, <3>3 DEF Texts, Segments
    <3> QED BY <3>1, <3>2, <3>3
  <2> QED BY <2>4 DEF seg
<1>4. ASSUME NEW T \in S, NEW k \in 1 .. N
      PROVE  Joined(T, Texts(segs[k], bound)) \in S
  <2>1. \A prefix \in T, text \in Texts(segs[k], bound) : prefix \o text \in Seq(Chars)
    BY <1>3, ConcatProperties
  <2> DEFINE B == Texts(segs[k], bound)
  <2> HIDE DEF B
  <2>2. ASSUME NEW w \in Joined(T, B) PROVE w \in Seq(Chars)
    <3>1. PICK x \in T, y \in B : w = x \o y
      BY JoinedTexts
    <3> QED BY <2>1, <3>1 DEF B
  <2> QED BY <2>2 DEF B
<1>5. F \in [1 .. N -> [S -> S]]
  <2> HIDE DEF S
  <2> QED BY <1>4
<1>6. {<<>>} \in S
  OBVIOUS
<1> HIDE DEF S, F, Upto
<1>7. PICK g : Ascends(g, N, S, {<<>>}, F)
  BY <1>2, <1>5, <1>6, RecursionUp
<1> HIDE DEF N
<1>8. ASSUME NEW k \in 1 .. N
      PROVE  g[k] = Joined(g[k - 1], Texts(segs[k], bound))
  <2>1. g[k] = F[k][g[k - 1]] /\ g[k - 1] \in S
    BY <1>2, <1>7 DEF Ascends
  <2> QED BY <2>1 DEF F
<1>9. g = [k \in 0 .. Len(segs) |->
             IF k = 0 THEN {<<>>}
             ELSE Joined(g[k - 1], Texts(segs[k], bound))]
  <2>1. \A k \in 0 .. N : k # 0 => k \in 1 .. N
    BY <1>2
  <2>2. g = [k \in 0 .. N |-> g[k]] /\ g[0] = {<<>>}
    BY <1>7 DEF Ascends
  <2> QED BY <1>8, <2>1, <2>2, Zenon DEF N
<1>10. Upto = [k \in 0 .. Len(segs) |->
             IF k = 0 THEN {<<>>}
             ELSE Joined(Upto[k - 1], Texts(segs[k], bound))]
  BY <1>9, Zenon DEF Upto
<1>11. ASSUME NEW k \in 1 .. N
       PROVE  Upto[k] = Joined(Upto[k - 1], Texts(segs[k], bound))
  <2>1. k \in 0 .. Len(segs) /\ k # 0
    BY <1>2 DEF N
  <2> QED BY <1>10, <2>1, Zenon
<1>12. Upto[0] = {<<>>}
  <2>1. 0 \in 0 .. Len(segs)
    BY <1>2 DEF N
  <2> QED BY <1>10, <2>1, Zenon
<1> DEFINE P == {k \in Nat : Upto[k] \in S}
<1>13. 0 .. N \subseteq P
  <2>1. 0 \in P
    BY <1>6, <1>12
  <2>2. ASSUME NEW k \in 0 .. N, k \in P, k < N PROVE k + 1 \in P
    <3>1. k + 1 \in 1 .. N /\ k + 1 - 1 = k
      BY <1>2, <2>2
    <3>2. Upto[k + 1] = Joined(Upto[k], Texts(segs[k + 1], bound))
      BY <1>11, <3>1
    <3>3. Upto[k + 1] \in S
      BY <1>4, <2>2, <3>1, <3>2
    <3> QED BY <2>2, <3>3
  <2> HIDE DEF P
  <2> QED BY <1>2, <2>1, <2>2, Upwards
<1>14. Upto \in [0 .. N -> S]
  <2>1. \A k \in 0 .. N : Upto[k] \in S
    BY <1>13
  <2>2. Upto = [k \in 0 .. N |-> Upto[k]]
    BY <1>10, Zenon DEF N
  <2> QED BY <2>1, <2>2
<1> QED BY <1>1, <1>3, <1>11, <1>12, <1>14 DEF S, N

\* patternMatchesFormat misses no claim: if the pattern matches a name that the
\* format can generate, with a placeholder of any text spelt out at any length,
\* the match finds it.
THEOREM NoClaimMissed ==
  ASSUME NEW U, NEW p \in Seq(U), NEW segs \in Seq(Segments), NEW bound \in Nat,
         ClaimsSome(p, segs, bound)
  PROVE  PatternMatchesFormat(p, segs)
<1> DEFINE N == Len(segs)
<1>1. N \in Nat /\ Len(p) \in Nat /\ \A k \in 1 .. N : segs[k] \in Segments
  BY LenProperties, ElementOfSeq
<1>2. PICK G :
        /\ G \in [0 .. N -> SUBSET Seq(Chars)] /\ G[0] = {<<>>}
        /\ \A k \in 1 .. N :
             G[k] = Joined(G[k - 1], Texts(segs[k], bound))
        /\ \A k \in 1 .. N : Texts(segs[k], bound) \subseteq Seq(Chars)
        /\ Names(segs, bound) = G[N]
  BY NamesSteps
<1>3. PICK R :
        /\ R \in [0 .. N -> {Q \in SUBSET (1 .. Len(p) + 1) : Live(p, Q)}]
        /\ R[0] = StarClosure(p, {1})
        /\ \A k \in 1 .. N : R[k] = Advance(p, R[k - 1], segs[k])
        /\ PatternMatchesFormat(p, segs) <=> Len(p) + 1 \in R[N]
  BY MatchSteps
<1> HIDE DEF N
<1>4. PICK name \in G[N] : 1 \in Tails(p, name)[1]
  BY <1>2 DEF ClaimsSome, Claims
<1>5. name \in Seq(Chars) /\ Len(name) \in Nat
  BY <1>1, <1>2, LenProperties
<1> DEFINE Begins(prefix) ==
             Len(prefix) <= Len(name) /\ \A i \in 1 .. Len(prefix) : name[i] = prefix[i]
           P == {k \in Nat : \A prefix \in G[k] :
                   Begins(prefix) => Reads(p, name, R[k], Len(prefix) + 1)}
<1>6. 0 \in P
  <2>1. 1 \in R[0]
    <3>1. {1} \subseteq StarClosure(p, {1})
      BY BoundariesLive, ClosureLive
    <3> QED BY <1>3, <3>1
  <2>2. Len(<<>>) = 0
    OBVIOUS
  <2> QED BY <1>2, <1>4, <2>1, <2>2 DEF Reads
<1>7. ASSUME NEW k \in 0 .. N, k \in P, k < N PROVE k + 1 \in P
  <2>1. k \in Nat /\ k \in 0 .. N /\ k + 1 \in 1 .. N /\ k + 1 - 1 = k
    BY <1>1, <1>7
  <2>2. ASSUME NEW whole \in G[k + 1], Begins(whole)
        PROVE  Reads(p, name, R[k + 1], Len(whole) + 1)
    <3>1. PICK prefix \in G[k], text \in Texts(segs[k + 1], bound) : whole = prefix \o text
      <4> DEFINE A == G[k]
                 B == Texts(segs[k + 1], bound)
      <4>1. whole \in Joined(A, B)
        BY <1>2, <2>1
      <4> HIDE DEF A, B
      <4>2. PICK x \in A, y \in B : whole = x \o y
        BY <4>1, JoinedTexts
      <4> QED BY <4>2 DEF A, B
    <3>2. prefix \in Seq(Chars) /\ text \in Seq(Chars)
      BY <1>2, <2>1
    <3>3. Len(prefix) \in Nat /\ Len(text) \in Nat /\ Len(whole) = Len(prefix) + Len(text)
      BY <3>1, <3>2, LenProperties, ConcatProperties
    <3>4. \A i \in 1 .. Len(prefix) : whole[i] = prefix[i]
      BY <3>1, <3>2
    <3>5. \A i \in 1 .. Len(text) : whole[Len(prefix) + 1 + i - 1] = text[i]
      BY <3>1, <3>2
    <3>6. Begins(prefix)
      BY <1>5, <2>2, <3>3, <3>4
    <3>7. Reads(p, name, R[k], Len(prefix) + 1)
      BY <1>7, <3>6
    <3>8. \A i \in 1 .. Len(text) : name[Len(prefix) + 1 + i - 1] = text[i]
      <4>1. ASSUME NEW i \in 1 .. Len(text) PROVE Len(prefix) + 1 + i - 1 \in 1 .. Len(whole)
        BY <3>3
      <4> QED BY <2>2, <3>5, <4>1
    <3>9. Len(prefix) + 1 + Len(text) <= Len(name) + 1
      BY <1>5, <2>2, <3>3
    <3>10. Live(p, R[k]) /\ R[k + 1] = Advance(p, R[k], segs[k + 1]) /\ segs[k + 1] \in Segments
      BY <1>1, <1>3, <2>1
    <3> HIDE DEF Begins
    <3>11. Reads(p, name, R[k + 1], Len(prefix) + 1 + Len(text))
      <4>1. Len(prefix) + 1 \in Nat
        BY <3>3
      <4> QED BY <1>5, <3>7, <3>8, <3>9, <3>10, <4>1, AdvanceReads
    <3>12. Len(prefix) + 1 + Len(text) = Len(whole) + 1
      BY <3>3
    <3> QED BY <3>11, <3>12
  <2> HIDE DEF Begins
  <2> QED BY <2>1, <2>2
<1>8. 0 .. N \subseteq P
  <2> HIDE DEF P
  <2> QED BY <1>1, <1>6, <1>7, Upwards
<1>9. Reads(p, name, R[N], Len(name) + 1)
  <2>1. N \in P /\ Begins(name)
    BY <1>1, <1>5, <1>8
  <2> QED BY <1>4, <2>1
<1>10. Live(p, R[N])
  BY <1>1, <1>3
<1>11. Len(p) + 1 \in R[N]
  BY <1>5, <1>9, <1>10, ChainStep
<1> QED BY <1>3, <1>11

-----------------------------------------------------------------------------
(* The other direction: a state that is reached is reached by some text. *)

\* What the pattern claims from s on, it claims from r on with the text before it.
Connects(p, r, text, s) ==
  \A name \in Seq(Chars), j \in Nat \ {0} :
    /\ j + Len(text) \in Tails(p, name)[s]
    /\ \A k \in 1 .. Len(text) : name[j + k - 1] = text[k]
    => j \in Tails(p, name)[r]

LEMMA ConnectsNothing ==
  ASSUME NEW p, NEW s
  PROVE  Connects(p, s, <<>>, s)
<1>1. Len(<<>>) = 0
  OBVIOUS
<1> QED BY <1>1 DEF Connects

LEMMA ConnectsOn ==
  ASSUME NEW p, NEW q, NEW r, NEW s, NEW first \in Seq(Chars), NEW second \in Seq(Chars),
         Connects(p, q, first, r), Connects(p, r, second, s)
  PROVE  first \o second \in Seq(Chars) /\ Connects(p, q, first \o second, s)
<1> DEFINE both == first \o second
<1>1. both \in Seq(Chars) /\ Len(both) = Len(first) + Len(second)
      /\ Len(first) \in Nat /\ Len(second) \in Nat
  BY ConcatProperties, LenProperties
<1>2. \A k \in 1 .. Len(first) : both[k] = first[k]
  OBVIOUS
<1>3. \A k \in 1 .. Len(second) : both[Len(first) + k] = second[k]
  OBVIOUS
<1> HIDE DEF both
<1>4. ASSUME NEW name \in Seq(Chars), NEW j \in Nat \ {0},
             j + Len(both) \in Tails(p, name)[s],
             \A k \in 1 .. Len(both) : name[j + k - 1] = both[k]
      PROVE  j \in Tails(p, name)[q]
  <2> DEFINE i == j + Len(first)
  <2>1. i \in Nat \ {0} /\ i + Len(second) = j + Len(both)
    BY <1>1
  <2>2. ASSUME NEW k \in 1 .. Len(second) PROVE name[i + k - 1] = second[k]
    <3>1. Len(first) + k \in 1 .. Len(both) /\ j + (Len(first) + k) - 1 = i + k - 1
      BY <1>1
    <3>2. name[j + (Len(first) + k) - 1] = both[Len(first) + k]
      BY <1>4, <3>1
    <3> QED BY <1>3, <3>1, <3>2
  <2> HIDE DEF i
  <2>3. i \in Tails(p, name)[r]
    BY <1>4, <2>1, <2>2 DEF Connects
  <2>4. ASSUME NEW k \in 1 .. Len(first) PROVE name[j + k - 1] = first[k]
    <3>1. k \in 1 .. Len(both)
      BY <1>1
    <3> QED BY <1>2, <1>4, <3>1
  <2> QED BY <2>3, <2>4 DEF Connects, i
<1> QED BY <1>1, <1>4 DEF Connects, both

\* Stars claim nothing, and any character; other elements one of theirs.
LEMMA StarConnects ==
  ASSUME NEW U, NEW p \in Seq(U), NEW s \in 1 .. Len(p), p[s] = "*"
  PROVE  /\ Connects(p, s, <<>>, s + 1)
         /\ \A c : Connects(p, s, <<c>>, s)
<1>1. ASSUME NEW name \in Seq(Chars)
      PROVE  /\ Tails(p, name)[s] = UNION {1 .. j : j \in Tails(p, name)[s + 1]}
             /\ Tails(p, name)[s + 1] \subseteq Nat
  <2> DEFINE T == Tails(p, name)
  <2>1. Len(p) \in Nat /\ Len(name) \in Nat /\ s + 1 \in 1 .. Len(p) + 1
    BY LenProperties
  <2>2. T \in [1 .. Len(p) + 1 -> SUBSET (1 .. Len(name) + 1)]
    BY TailsFrom
  <2>3. T[s] = UNION {1 .. j : j \in T[s + 1]}
    BY TailsFrom
  <2> HIDE DEF T
  <2>4. T[s + 1] \subseteq Nat
    BY <2>1, <2>2
  <2> QED BY <2>3, <2>4 DEF T
<1>2. Len(<<>>) = 0 /\ \A c : Len(<<c>>) = 1
  OBVIOUS
<1>3. Connects(p, s, <<>>, s + 1)
  BY <1>1, <1>2 DEF Connects
<1>4. ASSUME NEW c PROVE Connects(p, s, <<c>>, s)
  <2>1. ASSUME NEW name \in Seq(Chars), NEW j \in Nat \ {0}, j + 1 \in Tails(p, name)[s]
        PROVE  j \in Tails(p, name)[s]
    BY <1>1, <2>1
  <2> QED BY <1>2, <2>1 DEF Connects
<1> QED BY <1>3, <1>4

LEMMA ElementConnects ==
  ASSUME NEW U, NEW p \in Seq(U), NEW s \in 1 .. Len(p), p[s] # "*",
         NEW c \in PatternElement(p, s).set
  PROVE  Connects(p, s, <<c>>, Onward(p, s))
<1>1. Len(<<c>>) = 1 /\ <<c>>[1] = c
  OBVIOUS
<1>2. ASSUME NEW name \in Seq(Chars), NEW j \in Nat \ {0},
             j + 1 \in Tails(p, name)[Onward(p, s)], name[j] = c
      PROVE  j \in Tails(p, name)[s]
  <2> DEFINE T == Tails(p, name)
  <2>1. T[s] = {k - 1 : k \in {k \in T[Onward(p, s)] \ {1} : name[k - 1] \in PatternElement(p, s).set}}
    BY TailsFrom
  <2>2. j + 1 \in T[Onward(p, s)] \ {1} /\ j + 1 - 1 = j
    BY <1>2
  <2> HIDE DEF T
  <2> QED BY <1>2, <2>1, <2>2 DEF T
<1> QED BY <1>1, <1>2 DEF Connects

LEMMA ClosureConnects ==
  ASSUME NEW U, NEW p \in Seq(U), NEW Q, Q \subseteq 1 .. Len(p) + 1, NEW s \in StarClosure(p, Q)
  PROVE  \E r \in Q : Connects(p, r, <<>>, s)
<1>1. Len(p) \in Nat /\ s \in 1 .. Len(p) + 1
  BY LenProperties DEF StarClosure
<1>2. PICK r \in Q : r <= s /\ \A j \in r .. s - 1 : p[j] = "*"
  BY DEF StarClosure
<1>3. r \in 1 .. Len(p) + 1 /\ s - r \in Nat
  BY <1>1, <1>2
<1> DEFINE P == {d \in Nat : d <= s - r => Connects(p, r, <<>>, r + d)}
<1>4. 0 \in P
  BY <1>3, ConnectsNothing
<1>5. ASSUME NEW d \in 0 .. s - r, d \in P, d < s - r PROVE d + 1 \in P
  <2>1. r + d \in 1 .. Len(p) /\ r + d \in r .. s - 1 /\ r + (d + 1) = r + d + 1
    BY <1>1, <1>3, <1>5
  <2>2. Connects(p, r + d, <<>>, r + d + 1)
    BY <1>2, <2>1, StarConnects
  <2>3. Connects(p, r, <<>>, r + d)
    BY <1>5
  <2>4. <<>> \in Seq(Chars) /\ <<>> \o <<>> = <<>>
    OBVIOUS
  <2>5. Connects(p, r, <<>> \o <<>>, r + d + 1)
    BY <2>2, <2>3, <2>4, ConnectsOn
  <2> QED BY <1>5, <2>1, <2>4, <2>5
<1> HIDE DEF P
<1>6. 0 .. s - r \subseteq P
  BY <1>3, <1>4, <1>5, Upwards
<1>7. s - r \in 0 .. s - r /\ r + (s - r) = s
  BY <1>1, <1>3
<1> QED BY <1>6, <1>7 DEF P

LEMMA StepConnects ==
  ASSUME NEW U, NEW p \in Seq(U), NEW Q, Live(p, Q),
         NEW offered \in (SUBSET Chars) \ {{}}, NEW s \in Step(p, Q, offered)
  PROVE  \E r \in Q : \E c \in offered : Connects(p, r, <<c>>, s)
<1> DEFINE live == Q \ {Len(p) + 1}
           stay == {t \in live : p[t] = "*"}
           able == {t \in live : p[t] # "*" /\ PatternElement(p, t).set \cap offered # {}}
           move == {Onward(p, t) : t \in able}
<1>1. Len(p) \in Nat /\ Q \subseteq 1 .. Len(p) + 1
  BY LenProperties, BoundariesLive DEF Live
<1>2. \A t \in live : t \in 1 .. Len(p)
  BY <1>1
<1>3. s \in StarClosure(p, stay \cup move)
  BY DEF Step, Onward
<1>4. stay \cup move \subseteq 1 .. Len(p) + 1
  <2>1. \A t \in live : Onward(p, t) \in 1 .. Len(p) + 1
    BY <1>1, <1>2, ElementAfter DEF Onward
  <2> QED BY <1>1, <1>2, <2>1
<1>5. PICK t \in stay \cup move : Connects(p, t, <<>>, s)
  <2> HIDE DEF stay, move
  <2> QED BY <1>3, <1>4, ClosureConnects
<1>6. ASSUME NEW r \in Q, NEW c \in offered, Connects(p, r, <<c>>, t) PROVE Connects(p, r, <<c>>, s)
  <2>1. <<c>> \in Seq(Chars) /\ <<>> \in Seq(Chars) /\ <<c>> \o <<>> = <<c>>
    OBVIOUS
  <2>2. Connects(p, r, <<c>> \o <<>>, s)
    BY <1>5, <1>6, <2>1, ConnectsOn
  <2> QED BY <2>1, <2>2
<1>7. CASE t \in stay
  <2>1. PICK c \in offered : TRUE
    OBVIOUS
  <2>2. t \in Q /\ Connects(p, t, <<c>>, t)
    BY <1>2, <1>7, StarConnects
  <2> QED BY <1>6, <2>2
<1>8. CASE t \in move
  <2>1. PICK r \in able : t = Onward(p, r)
    BY <1>8
  <2>2. PICK c \in PatternElement(p, r).set \cap offered : TRUE
    BY <2>1
  <2>3. r \in Q /\ Connects(p, r, <<c>>, t)
    BY <1>2, <2>1, <2>2, ElementConnects
  <2> QED BY <1>6, <2>2, <2>3
<1> QED BY <1>5, <1>7, <1>8

LEMMA ConsumeConnects ==
  ASSUME NEW U, NEW p \in Seq(U), NEW Q, Live(p, Q),
         NEW offers \in Seq((SUBSET Chars) \ {{}}), NEW s \in Consume(p, Q, offers)
  PROVE  \E r \in Q : \E text \in Seq(Chars) :
           /\ Len(text) = Len(offers) /\ \A k \in 1 .. Len(offers) : text[k] \in offers[k]
           /\ Connects(p, r, text, s)
<1> DEFINE N == Len(offers)
<1>1. N \in Nat /\ \A k \in 1 .. N : offers[k] \in (SUBSET Chars) \ {{}}
  BY LenProperties, ElementOfSeq
<1>2. PICK A :
        /\ A \in [0 .. N -> {R \in SUBSET (1 .. Len(p) + 1) : Live(p, R)}]
        /\ A[0] = Q /\ \A k \in 1 .. N : A[k] = Step(p, A[k - 1], offers[k])
        /\ Consume(p, Q, offers) = A[N]
  <2> DEFINE W == (SUBSET Chars) \ {{}}
  <2>1. offers \in Seq(W)
    OBVIOUS
  <2> HIDE DEF W
  <2> QED BY <2>1, ConsumeSteps
<1> HIDE DEF N
<1> DEFINE Spells(text, n) == text \in Seq(Chars) /\ Len(text) = n /\ \A k \in 1 .. n : text[k] \in offers[k]
           P == {n \in Nat : \A t \in A[n] :
                   \E r \in Q : \E text \in Seq(Chars) : Spells(text, n) /\ Connects(p, r, text, t)}
<1>3. 0 \in P
  <2>1. Spells(<<>>, 0)
    OBVIOUS
  <2> QED BY <1>2, <2>1, ConnectsNothing
<1>4. ASSUME NEW n \in 0 .. N, n \in P, n < N PROVE n + 1 \in P
  <2>1. n \in Nat /\ n + 1 \in 1 .. N /\ n + 1 - 1 = n
    BY <1>1, <1>4
  <2>2. ASSUME NEW t \in A[n + 1]
        PROVE  \E r \in Q : \E text \in Seq(Chars) : Spells(text, n + 1) /\ Connects(p, r, text, t)
    <3>1. t \in Step(p, A[n], offers[n + 1]) /\ Live(p, A[n])
          /\ offers[n + 1] \in (SUBSET Chars) \ {{}}
      BY <1>1, <1>2, <1>4, <2>1
    <3>2. PICK u \in A[n], c \in offers[n + 1] : Connects(p, u, <<c>>, t)
      BY <3>1, StepConnects
    <3>3. PICK r \in Q, text \in Seq(Chars) : Spells(text, n) /\ Connects(p, r, text, u)
      BY <1>4
    <3>4. c \in Chars /\ <<c>> \in Seq(Chars)
      BY <3>1
    <3>5. text \o <<c>> \in Seq(Chars) /\ Connects(p, r, text \o <<c>>, t)
      BY <3>2, <3>3, <3>4, ConnectsOn
    <3>6. Spells(text \o <<c>>, n + 1)
      <4>1. Len(text \o <<c>>) = n + 1
        BY <3>3, <3>4, ConcatProperties
      <4>2. ASSUME NEW k \in 1 .. n + 1 PROVE (text \o <<c>>)[k] \in offers[k]
        <5>1. CASE k = n + 1
          <6>1. \A i \in 1 .. Len(<<c>>) : (text \o <<c>>)[Len(text) + i] = <<c>>[i]
            BY <3>3, <3>4, ConcatProperties
          <6>2. 1 \in 1 .. Len(<<c>>) /\ <<c>>[1] = c
            OBVIOUS
          <6> QED BY <3>3, <5>1, <6>1, <6>2
        <5>2. CASE k # n + 1
          <6>1. k \in 1 .. n
            BY <2>1, <5>2
          <6>2. (text \o <<c>>)[k] = text[k]
            BY <3>3, <3>4, <6>1
          <6> QED BY <3>3, <6>1, <6>2
        <5> QED BY <5>1, <5>2
      <4> QED BY <3>5, <4>1, <4>2
    <3> HIDE DEF Spells
    <3> QED BY <3>5, <3>6
  <2> HIDE DEF Spells
  <2> QED BY <2>1, <2>2
<1> HIDE DEF P
<1>5. 0 .. N \subseteq P
  BY <1>1, <1>3, <1>4, Upwards
<1>6. N \in P
  BY <1>1, <1>5
<1> QED BY <1>2, <1>6 DEF P, N

LEMMA BoundariesConnect ==
  ASSUME NEW U, NEW p \in Seq(U), Matchable(p),
         NEW e \in Boundaries(p, 1), NEW s \in Boundaries(p, e)
  PROVE  \E text \in Seq(Chars) :
           Len(text) <= Cardinality(Literals(p, 1)) /\ Connects(p, e, text, s)
<1> DEFINE M == Len(p)
           P == {k \in 1 .. M + 1 : k \in Boundaries(p, 1) =>
                   \A t \in Boundaries(p, k) : \E text \in Seq(Chars) :
                     Len(text) <= Cardinality(Literals(p, k)) /\ Connects(p, k, text, t)}
<1>1. M \in Nat /\ Boundaries(p, 1) \subseteq 1 .. M + 1
  BY LenProperties, BoundariesLive
<1>2. ASSUME NEW k \in Boundaries(p, 1)
      PROVE  /\ Bounded(p, k) /\ Boundaries(p, k) \subseteq Boundaries(p, 1)
             /\ IsFiniteSet(Literals(p, k)) /\ Cardinality(Literals(p, k)) \in Nat
  <2>1. Boundaries(p, k) \subseteq Boundaries(p, 1)
    BY BoundariesLive DEF Live
  <2>2. Bounded(p, k)
    BY <1>1, BoundariesBounded
  <2>3. Literals(p, k) \subseteq 1 .. M + 1 /\ IsFiniteSet(1 .. M + 1)
    BY <1>1, <2>1, FS_Interval DEF Literals
  <2> QED BY <2>1, <2>2, <2>3, FS_Subset, FS_CardinalityType
<1>3. ASSUME NEW k \in 1 .. M + 1, \A j \in k + 1 .. M + 1 : j \in P PROVE k \in P
  <2> SUFFICES ASSUME k \in Boundaries(p, 1), NEW t \in Boundaries(p, k)
               PROVE  \E text \in Seq(Chars) :
                        Len(text) <= Cardinality(Literals(p, k)) /\ Connects(p, k, text, t)
    OBVIOUS
  <2>1. CASE t = k
    <3>1. <<>> \in Seq(Chars) /\ Len(<<>>) = 0 /\ Connects(p, k, <<>>, t)
      BY <2>1, ConnectsNothing
    <3>2. Cardinality(Literals(p, k)) \in Nat
      BY <1>2
    <3>3. Len(<<>>) <= Cardinality(Literals(p, k))
      BY <3>1, <3>2
    <3> QED BY <3>1, <3>3, Zenon
  <2>2. CASE t # k
    <3> DEFINE n == Onward(p, k)
    <3>1. k # M + 1
      BY <2>2, BoundariesFrom
    <3>2. k \in 1 .. M /\ k <= M /\ n \in k + 1 .. M + 1
      <4>1. k \in 1 .. M
        BY <1>1, <3>1
      <4> QED BY <1>1, <4>1, ElementAfter DEF Onward
    <3>3. Boundaries(p, k) = {k} \cup Boundaries(p, n) /\ n \in Boundaries(p, k)
      <4>1. Boundaries(p, k) = {k} \cup Boundaries(p, n)
        BY <3>2, BoundariesFrom DEF Onward
      <4> QED BY <1>2, <3>2, <4>1 DEF Bounded
    <3>4. n \in Boundaries(p, 1) /\ t \in Boundaries(p, n)
      BY <1>2, <2>2, <3>3
    <3> HIDE DEF n
    <3>5. PICK rest \in Seq(Chars) :
            Len(rest) <= Cardinality(Literals(p, n)) /\ Connects(p, n, rest, t)
      BY <1>3, <3>2, <3>4
    <3>6. Len(rest) \in Nat /\ k \notin Literals(p, n)
      <4>1. k \notin Boundaries(p, n)
        BY <1>1, <1>2, <3>2, <3>4 DEF Bounded
      <4> QED BY <4>1, LenProperties DEF Literals
    <3>7. CASE p[k] = "*"
      <4>1. n = k + 1 /\ Connects(p, k, <<>>, n)
        BY <3>2, <3>7, StarConnects, ElementAfter DEF Onward, n
      <4>2. <<>> \in Seq(Chars) /\ <<>> \o rest = rest
        OBVIOUS
      <4>3. Connects(p, k, <<>> \o rest, t)
        BY <3>5, <4>1, <4>2, ConnectsOn
      <4>4. Literals(p, k) = Literals(p, n)
        BY <3>3, <3>7 DEF Literals
      <4> QED BY <3>5, <4>2, <4>3, <4>4
    <3>8. CASE p[k] # "*"
      <4>1. Literals(p, k) = Literals(p, n) \cup {k}
        BY <3>2, <3>3, <3>8 DEF Literals
      <4>2. Cardinality(Literals(p, k)) = Cardinality(Literals(p, n)) + 1
        BY <1>2, <3>4, <3>6, <4>1, FS_AddElement
      <4>3. PICK c \in Chars : c \in PatternElement(p, k).set
        <5>1. k \in Literals(p, 1)
          BY <3>2, <3>8 DEF Literals
        <5> QED BY <5>1 DEF Matchable
      <4>4. Connects(p, k, <<c>>, n)
        BY <3>2, <3>8, <4>3, ElementConnects DEF n
      <4>5. <<c>> \in Seq(Chars) /\ Len(<<c>>) = 1
        OBVIOUS
      <4>6. <<c>> \o rest \in Seq(Chars) /\ Connects(p, k, <<c>> \o rest, t)
        BY <3>5, <4>4, <4>5, ConnectsOn
      <4>7. Len(<<c>> \o rest) = Len(rest) + 1
        BY <3>6, <4>5, ConcatProperties
      <4>8. Cardinality(Literals(p, n)) \in Nat
        BY <1>2, <3>4
      <4>9. Len(<<c>> \o rest) <= Cardinality(Literals(p, k))
        BY <3>5, <3>6, <4>2, <4>7, <4>8
      <4> QED BY <4>6, <4>9
    <3> QED BY <3>7, <3>8
  <2> QED BY <2>1, <2>2
<1> HIDE DEF P, M
<1>4. 1 .. M + 1 \subseteq P
  <2>1. M + 1 \in Nat
    BY <1>1
  <2> QED BY <2>1, <1>3, Downwards, Zenon
<1>5. PICK text \in Seq(Chars) : Len(text) <= Cardinality(Literals(p, e)) /\ Connects(p, e, text, s)
  BY <1>1, <1>4 DEF P
<1>6. Cardinality(Literals(p, e)) <= Cardinality(Literals(p, 1))
  <2>1. Literals(p, e) \subseteq Literals(p, 1)
    BY <1>2 DEF Literals
  <2>2. IsFiniteSet(Literals(p, 1))
    BY <1>2, BoundariesLive
  <2> QED BY <2>1, <2>2, FS_Subset
<1>7. Len(text) \in Nat /\ Cardinality(Literals(p, e)) \in Nat /\ Cardinality(Literals(p, 1)) \in Nat
  BY <1>2, BoundariesLive, LenProperties
<1>8. Len(text) <= Cardinality(Literals(p, 1))
  BY <1>5, <1>6, <1>7
<1> QED BY <1>5, <1>8

LEMMA AdvanceConnects ==
  ASSUME NEW U, NEW p \in Seq(U), Matchable(p), Digits # {},
         NEW Q, Live(p, Q), NEW seg \in Segments,
         NEW bound \in Nat, Cardinality(Literals(p, 1)) <= bound,
         NEW s \in Advance(p, Q, seg)
  PROVE  \E r \in Q : \E text \in Texts(seg, bound) : text \in Seq(Chars) /\ Connects(p, r, text, s)
<1>1. Q \subseteq 1 .. Len(p) + 1 /\ Len(p) \in Nat /\ Digits \subseteq Chars
  BY BoundariesLive, LenProperties, ArchiveNamesAssumption DEF Live
<1>2. Q # {}
  BY DEF Advance
<1>3. CASE seg.any
  <2> DEFINE e == Earliest(Q)
  <2>1. e \in Q /\ e \in Boundaries(p, 1)
    BY <1>2, AdvanceLive DEF Live
  <2>2. s \in StarClosure(p, Boundaries(p, e))
    BY <1>2, <1>3 DEF Advance
  <2> HIDE DEF e
  <2>3. PICK t \in Boundaries(p, e) : Connects(p, t, <<>>, s)
    <3>1. Boundaries(p, e) \subseteq 1 .. Len(p) + 1
      BY <2>1, BoundariesLive DEF Live
    <3> QED BY <2>2, <3>1, ClosureConnects
  <2>4. PICK text \in Seq(Chars) :
          Len(text) <= Cardinality(Literals(p, 1)) /\ Connects(p, e, text, t)
    BY <2>1, BoundariesConnect
  <2>5. <<>> \in Seq(Chars) /\ text \o <<>> = text
    BY ConcatEmptySeq
  <2>6. Connects(p, e, text \o <<>>, s)
    BY <2>3, <2>4, <2>5, ConnectsOn
  <2>7. Len(text) \in 0 .. bound
    <3>1. Len(text) \in Nat /\ Cardinality(Literals(p, 1)) \in Nat
      <4>1. Literals(p, 1) \subseteq 1 .. Len(p) + 1 /\ IsFiniteSet(1 .. Len(p) + 1)
        BY <1>1, BoundariesLive, FS_Interval DEF Literals
      <4> QED BY <4>1, FS_Subset, FS_CardinalityType, LenProperties
    <3> QED BY <2>4, <3>1
  <2>8. text \in [1 .. Len(text) -> Chars]
    BY LenProperties, ElementOfSeq
  <2>9. text \in Texts(seg, bound)
    BY <1>3, <2>7, <2>8 DEF Texts
  <2> QED BY <2>1, <2>5, <2>6, <2>9
<1>4. CASE ~seg.any /\ seg.digits > 0
  <2> DEFINE offers == [k \in 1 .. seg.digits |-> Digits]
  <2>1. offers \in Seq((SUBSET Chars) \ {{}}) /\ Len(offers) = seg.digits /\ seg.digits \in Nat
    BY <1>1 DEF Segments
  <2>2. \A k \in 1 .. seg.digits : offers[k] = Digits
    OBVIOUS
  <2>3. s \in Consume(p, Q, offers)
    BY <1>2, <1>4 DEF Advance, ConsumeDigits
  <2> HIDE DEF offers
  <2>4. PICK r \in Q, text \in Seq(Chars) :
          /\ Len(text) = Len(offers) /\ \A k \in 1 .. Len(offers) : text[k] \in offers[k]
          /\ Connects(p, r, text, s)
    BY <2>1, <2>3, ConsumeConnects
  <2>5. text \in [1 .. seg.digits -> Digits]
    BY <2>1, <2>2, <2>4, LenProperties
  <2>6. text \in Texts(seg, bound)
    BY <1>4, <2>5 DEF Texts
  <2> QED BY <2>4, <2>6
<1>5. CASE ~seg.any /\ ~(seg.digits > 0)
  <2>1. PICK alt \in seg.alts : s \in ConsumeText(p, Q, alt)
    BY <1>2, <1>5 DEF Advance
  <2>2. alt \in Seq(Chars)
    BY DEF Segments
  <2> DEFINE offers == [k \in 1 .. Len(alt) |-> {alt[k]}]
  <2>3. offers \in Seq((SUBSET Chars) \ {{}}) /\ Len(offers) = Len(alt)
    BY <2>2
  <2>4. \A k \in 1 .. Len(alt) : offers[k] = {alt[k]}
    OBVIOUS
  <2>5. s \in Consume(p, Q, offers)
    BY <2>1 DEF ConsumeText
  <2> HIDE DEF offers
  <2>6. PICK r \in Q, text \in Seq(Chars) :
          /\ Len(text) = Len(offers) /\ \A k \in 1 .. Len(offers) : text[k] \in offers[k]
          /\ Connects(p, r, text, s)
    BY <2>3, <2>5, ConsumeConnects
  <2>7. text = alt
    <3>1. \A k \in 1 .. Len(alt) : text[k] = alt[k]
      BY <2>3, <2>4, <2>6
    <3> QED BY <2>2, <2>3, <2>6, <3>1, SeqEqual
  <2>8. alt \in Texts(seg, bound)
    BY <1>5 DEF Texts
  <2> QED BY <2>6, <2>7, <2>8
<1> QED BY <1>3, <1>4, <1>5

\* Nor does it invent one, if every element of the pattern matches a character,
\* and the placeholders are spelt out at as many characters as it has elements
\* to match: then what it finds is a name that the format can generate.
THEOREM NoClaimInvented ==
  ASSUME NEW U, NEW p \in Seq(U), Matchable(p), Digits # {}, NEW segs \in Seq(Segments),
         NEW bound \in Nat, Cardinality(Literals(p, 1)) <= bound, PatternMatchesFormat(p, segs)
  PROVE  ClaimsSome(p, segs, bound)
<1> DEFINE N == Len(segs)
<1>1. N \in Nat /\ Len(p) \in Nat /\ \A k \in 1 .. N : segs[k] \in Segments
  BY LenProperties, ElementOfSeq
<1>2. PICK G :
        /\ G \in [0 .. N -> SUBSET Seq(Chars)] /\ G[0] = {<<>>}
        /\ \A k \in 1 .. N : G[k] = Joined(G[k - 1], Texts(segs[k], bound))
        /\ \A k \in 1 .. N : Texts(segs[k], bound) \subseteq Seq(Chars)
        /\ Names(segs, bound) = G[N]
  BY NamesSteps
<1>3. PICK R :
        /\ R \in [0 .. N -> {Q \in SUBSET (1 .. Len(p) + 1) : Live(p, Q)}]
        /\ R[0] = StarClosure(p, {1})
        /\ \A k \in 1 .. N : R[k] = Advance(p, R[k - 1], segs[k])
        /\ PatternMatchesFormat(p, segs) <=> Len(p) + 1 \in R[N]
  BY MatchSteps
<1> HIDE DEF N
<1> DEFINE P == {k \in Nat : \A s \in R[k] : \E prefix \in G[k] : Connects(p, 1, prefix, s)}
<1>4. 0 \in P
  <2>1. {1} \subseteq 1 .. Len(p) + 1
    BY <1>1
  <2>2. \A s \in R[0] : Connects(p, 1, <<>>, s)
    BY <1>3, <2>1, ClosureConnects
  <2> QED BY <1>2, <2>2
<1>5. ASSUME NEW k \in 0 .. N, k \in P, k < N PROVE k + 1 \in P
  <2>1. k \in Nat /\ k \in 0 .. N /\ k + 1 \in 1 .. N /\ k + 1 - 1 = k
    BY <1>1, <1>5
  <2>2. ASSUME NEW s \in R[k + 1] PROVE \E prefix \in G[k + 1] : Connects(p, 1, prefix, s)
    <3>1. Live(p, R[k]) /\ s \in Advance(p, R[k], segs[k + 1]) /\ segs[k + 1] \in Segments
      BY <1>1, <1>3, <2>1
    <3>2. PICK r \in R[k], text \in Texts(segs[k + 1], bound) :
            text \in Seq(Chars) /\ Connects(p, r, text, s)
      BY <3>1, AdvanceConnects
    <3>3. PICK prefix \in G[k] : Connects(p, 1, prefix, r)
      BY <1>5
    <3>4. prefix \in Seq(Chars)
      BY <1>2, <2>1
    <3>5. Connects(p, 1, prefix \o text, s)
      BY <3>2, <3>3, <3>4, ConnectsOn
    <3>6. prefix \o text \in G[k + 1]
      <4> DEFINE B == Texts(segs[k + 1], bound)
      <4>1. G[k + 1] = Joined(G[k], B) /\ text \in B
        BY <1>2, <2>1
      <4> HIDE DEF B
      <4> QED BY <4>1, JoinedOf
    <3> QED BY <3>5, <3>6
  <2> QED BY <2>1, <2>2
<1> HIDE DEF P
<1>6. 0 .. N \subseteq P
  BY <1>1, <1>4, <1>5, Upwards
<1>7. PICK name \in G[N] : Connects(p, 1, name, Len(p) + 1)
  BY <1>1, <1>3, <1>6 DEF P
<1>8. name \in Seq(Chars)
  BY <1>1, <1>2
<1>9. Tails(p, name)[Len(p) + 1] = {Len(name) + 1} /\ Len(name) \in Nat
  BY <1>8, TailsFrom, LenProperties
<1>10. 1 \in Tails(p, name)[1]
  <2>1. 1 + Len(name) \in Tails(p, name)[Len(p) + 1]
    BY <1>9
  <2>2. \A k \in 1 .. Len(name) : name[1 + k - 1] = name[k]
    BY <1>9
  <2> QED BY <1>7, <1>8, <2>1, <2>2 DEF Connects
<1> QED BY <1>2, <1>10 DEF ClaimsSome, Claims

-----------------------------------------------------------------------------
(* The patterns and segments of formats. *)

LEMMA FlattenSeqType ==
  ASSUME NEW S, NEW seqs \in Seq(Seq(S))
  PROVE  FlattenSeq(seqs) \in Seq(S)
<1> DEFINE N == Len(seqs)
           T == Seq(S)
           F == [k \in 1 .. N |-> [v \in T |-> IF k = 1 THEN seqs[k] ELSE v \o seqs[k]]]
           flatten[i \in 1 .. Len(seqs)] == IF i = 1 THEN seqs[i] ELSE flatten[i - 1] \o seqs[i]
<1>1. N \in Nat /\ \A k \in 1 .. N : seqs[k] \in T
  BY LenProperties, ElementOfSeq
<1>2. CASE N = 0
  <2>1. FlattenSeq(seqs) = <<>>
    BY <1>2, EmptySeq DEF FlattenSeq
  <2> QED BY <2>1
<1>3. CASE N # 0
  <2>1. FlattenSeq(seqs) = flatten[N]
    BY <1>3 DEF FlattenSeq
  <2>2. F \in [1 .. N -> [T -> T]]
    <3>1. \A v \in T, k \in 1 .. N : v \o seqs[k] \in T
      BY <1>1, ConcatProperties
    <3> HIDE DEF T
    <3> QED BY <1>1, <3>1
  <2>3. <<>> \in T
    OBVIOUS
  <2> HIDE DEF N, T, F, flatten
  <2>4. PICK g : Ascends(g, N, T, <<>>, F)
    BY <1>1, <2>2, <2>3, RecursionUp
  <2> DEFINE h == [i \in 1 .. N |-> g[i]]
  <2>5. ASSUME NEW i \in 1 .. N
        PROVE  h[i] \in T /\ h[i] = IF i = 1 THEN seqs[i] ELSE h[i - 1] \o seqs[i]
    <3>1. i \in 0 .. N /\ i - 1 \in 0 .. N /\ (i # 1 => i - 1 \in 1 .. N)
      BY <1>1
    <3>2. g[i] = F[i][g[i - 1]] /\ g[i - 1] \in T /\ g[i] \in T
      BY <2>4, <3>1 DEF Ascends
    <3>3. g[i] = IF i = 1 THEN seqs[i] ELSE g[i - 1] \o seqs[i]
      BY <3>2 DEF F
    <3> QED BY <3>1, <3>2, <3>3
  <2>6. h = [i \in 1 .. Len(seqs) |-> IF i = 1 THEN seqs[i] ELSE h[i - 1] \o seqs[i]]
    <3>1. h = [i \in 1 .. N |-> h[i]]
      OBVIOUS
    <3> HIDE DEF h
    <3> QED BY <2>5, <3>1, Zenon DEF N
  <2> HIDE DEF h
  <2>7. flatten = [i \in 1 .. Len(seqs) |-> IF i = 1 THEN seqs[i] ELSE flatten[i - 1] \o seqs[i]]
    BY <2>6, Zenon DEF flatten
  <2> DEFINE P == {k \in Nat : k # 0 => flatten[k] \in T}
  <2>8. 0 \in P
    OBVIOUS
  <2>9. ASSUME NEW k \in 0 .. N, k \in P, k < N PROVE k + 1 \in P
    <3> DEFINE n == k + 1
    <3>1. n \in 1 .. N /\ n \in 1 .. Len(seqs) /\ n - 1 = k /\ n \in Nat /\ (n = 1 <=> k = 0)
      BY <1>1, <2>9 DEF N
    <3> HIDE DEF n
    <3>2. flatten[n] = IF n = 1 THEN seqs[n] ELSE flatten[n - 1] \o seqs[n]
      BY <2>7, <3>1, Zenon
    <3>3. CASE k = 0
      <4>1. flatten[n] \in T
        BY <1>1, <3>1, <3>2, <3>3
      <4> QED BY <3>1, <4>1 DEF n
    <3>4. CASE k # 0
      <4>1. flatten[k] \in T /\ seqs[n] \in T
        BY <1>1, <2>9, <3>1, <3>4
      <4>2. flatten[k] \o seqs[n] \in T
        BY <4>1, ConcatProperties DEF T
      <4>3. flatten[n] = flatten[k] \o seqs[n]
        BY <3>1, <3>2, <3>4
      <4> QED BY <3>1, <4>2, <4>3 DEF n
    <3> QED BY <3>3, <3>4
  <2> HIDE DEF P
  <2>10. 0 .. N \subseteq P
    BY <1>1, <2>8, <2>9, Upwards
  <2> QED BY <1>1, <1>3, <2>1, <2>10 DEF P, T
<1> QED BY <1>2, <1>3

\* A sequence is one of its own elements.
LEMMA OfItsRange ==
  ASSUME NEW S, NEW s \in Seq(S)
  PROVE  s \in Seq(Range(s)) /\ \A x \in Range(s) : x \in S
<1>1. DOMAIN s = 1 .. Len(s) /\ Len(s) \in Nat /\ \A i \in 1 .. Len(s) : s[i] \in S
  BY LenProperties, ElementOfSeq
<1>2. \A i \in 1 .. Len(s) : s[i] \in Range(s)
  BY <1>1 DEF Range
<1>3. s = [i \in 1 .. Len(s) |-> s[i]]
  BY LenProperties
<1>4. s \in Seq(Range(s))
  BY <1>1, <1>2, <1>3, SeqDef
<1> QED BY <1>1, <1>4 DEF Range

LEMMA WithGroupType ==
  ASSUME NEW spec, spec \in Seq(Range(spec)), NEW group \in Seq(Chars)
  PROVE  WithGroup(spec, group) \in Seq(Range(WithGroup(spec, group)))
<1> DEFINE S == Range(spec) \cup Chars
           parts == [i \in DOMAIN spec |-> IF spec[i] = "group" THEN group ELSE <<spec[i]>>]
<1>1. DOMAIN spec = 1 .. Len(spec) /\ Len(spec) \in Nat
  BY LenProperties
<1>2. \A i \in DOMAIN spec : <<spec[i]>> \in Seq(S)
  <2>1. \A i \in DOMAIN spec : spec[i] \in S
    BY DEF Range
  <2> HIDE DEF S
  <2> QED BY <2>1
<1>3. group \in Seq(S)
  <2>1. Len(group) \in Nat /\ group = [i \in 1 .. Len(group) |-> group[i]]
    BY LenProperties
  <2>2. \A i \in 1 .. Len(group) : group[i] \in S
    BY <2>1, ElementOfSeq
  <2> HIDE DEF S
  <2> QED BY <2>1, <2>2, SeqDef
<1>4. parts \in Seq(Seq(S))
  <2>1. \A i \in DOMAIN spec : parts[i] \in Seq(S)
    BY <1>2, <1>3, Zenon
  <2>2. parts = [i \in 1 .. Len(spec) |-> parts[i]]
    BY <1>1
  <2> HIDE DEF parts, S
  <2> QED BY <1>1, <2>1, <2>2
<1> HIDE DEF S, parts
<1>5. FlattenSeq(parts) \in Seq(S)
  BY <1>4, FlattenSeqType
<1>6. WithGroup(spec, group) = FlattenSeq(parts)
  BY DEF WithGroup, parts
<1> QED BY <1>5, <1>6, OfItsRange

LEMMA ResolvedItemType ==
  ASSUME NEW item, IsItem(item), NEW group \in Seq(Chars)
  PROVE  ResolvedItem(item, group) \in Seq({i \in Range(ResolvedItem(item, group)) : IsItem(i)})
<1> DEFINE R == ResolvedItem(item, group)
           T == {i \in Range(R) : IsItem(i)}
<1>1. CASE ~IsToken(item)
  <2>1. R = <<item>> /\ Range(R) = {item}
    BY <1>1 DEF ResolvedItem, Range
  <2>2. item \in T
    BY <2>1
  <2> HIDE DEF T
  <2>3. <<item>> \in Seq(T)
    BY <2>2
  <2> QED BY <2>1, <2>3 DEF T
<1>2. CASE IsToken(item) /\ item.token = "group"
  <2>1. R = [k \in DOMAIN group |-> Lit(group[k])]
    BY <1>2 DEF ResolvedItem
  <2>2. DOMAIN group = 1 .. Len(group) /\ Len(group) \in Nat
        /\ \A k \in 1 .. Len(group) : group[k] \in Chars
    BY LenProperties, ElementOfSeq
  <2>3. \A c \in Chars : IsItem(Lit(c))
    BY DEF IsItem, IsToken, Lit
  <2>4. \A k \in DOMAIN group : Lit(group[k]) \in T
    <3> SUFFICES ASSUME NEW k \in DOMAIN group PROVE Lit(group[k]) \in T
      OBVIOUS
    <3>1. Lit(group[k]) \in Range(R)
      BY <2>1 DEF Range
    <3> QED BY <2>2, <2>3, <3>1
  <2> HIDE DEF T
  <2>5. [k \in DOMAIN group |-> Lit(group[k])] \in Seq(T)
    BY <2>2, <2>4
  <2> QED BY <2>1, <2>5 DEF T
<1>3. CASE IsToken(item) /\ item.token # "group"
  <2> DEFINE t == Token(item.token, WithGroup(item.spec, group))
  <2>1. R = <<t>>
    BY <1>3 DEF ResolvedItem
  <2>2. IsToken(t) /\ t.spec = WithGroup(item.spec, group)
    BY DEF Token, IsToken
  <2>3. item.spec \in Seq(Range(item.spec))
    BY <1>3 DEF IsItem
  <2>4. IsItem(t)
    BY <2>2, <2>3, WithGroupType DEF IsItem
  <2> HIDE DEF t
  <2>5. Range(R) = {t}
    BY <2>1 DEF Range
  <2>6. t \in T
    BY <2>4, <2>5
  <2> HIDE DEF T
  <2>7. <<t>> \in Seq(T)
    BY <2>6
  <2> QED BY <2>1, <2>7 DEF T
<1> QED BY <1>1, <1>2, <1>3

LEMMA ResolvedFormat ==
  ASSUME NEW format, IsFormat(format), NEW group \in Seq(Chars)
  PROVE  IsFormat(Resolved(format, group))
<1> DEFINE part(i) == ResolvedItem(format[i], group)
           S == {item \in UNION {Range(part(i)) : i \in DOMAIN format} : IsItem(item)}
           parts == [i \in DOMAIN format |-> part(i)]
           whole == FlattenSeq(parts)
<1>1. format \in Seq(Range(format)) /\ DOMAIN format = 1 .. Len(format) /\ Len(format) \in Nat
  BY LenProperties DEF IsFormat
<1>2. \A i \in DOMAIN format : part(i) \in Seq(S)
  <2> SUFFICES ASSUME NEW i \in DOMAIN format PROVE part(i) \in Seq(S)
    OBVIOUS
  <2> DEFINE T == {item \in Range(part(i)) : IsItem(item)}
  <2>1. IsItem(format[i])
    BY DEF IsFormat, IsItem, Range
  <2>2. part(i) \in Seq(T)
    BY <2>1, ResolvedItemType
  <2>3. T \subseteq S
    OBVIOUS
  <2> HIDE DEF T, S, part
  <2>4. /\ Len(part(i)) \in Nat /\ part(i) = [k \in 1 .. Len(part(i)) |-> part(i)[k]]
        /\ \A k \in 1 .. Len(part(i)) : part(i)[k] \in T
    BY <2>2, LenProperties, ElementOfSeq
  <2>5. \A k \in 1 .. Len(part(i)) : part(i)[k] \in S
    BY <2>3, <2>4
  <2> QED BY <2>4, <2>5, SeqDef
<1>3. parts \in Seq(Seq(S))
  <2>1. parts = [i \in 1 .. Len(format) |-> part(i)]
    BY <1>1
  <2> HIDE DEF parts, S, part
  <2> QED BY <1>1, <1>2, <2>1
<1>4. \A item \in S : IsItem(item)
  OBVIOUS
<1> HIDE DEF S, parts, part
<1>5. whole \in Seq(S)
  BY <1>3, FlattenSeqType
<1>6. whole \in Seq(Range(whole)) /\ \A item \in Range(whole) : IsItem(item)
  BY <1>4, <1>5, OfItsRange
<1> HIDE DEF whole
<1>7. IsFormat(whole)
  BY <1>6 DEF IsFormat, IsItem
<1> QED BY <1>7 DEF whole, parts, part, Resolved

LEMMA FormatPattern ==
  ASSUME NEW format, IsFormat(format)
  PROVE  /\ ArchiveMatchPattern(format) \in Seq(Chars \cup {"*"})
         /\ ArchiveFormatSegments(format) \in Seq(Segments)
<1>1. DOMAIN format = 1 .. Len(format) /\ Len(format) \in Nat
  BY LenProperties DEF IsFormat
<1>2. \A i \in 1 .. Len(format) : IsItem(format[i])
  BY <1>1 DEF IsFormat, IsItem, Range
<1>3. ArchiveMatchPattern(format) \in Seq(Chars \cup {"*"})
  <2> DEFINE p(i) == IF IsToken(format[i]) THEN "*" ELSE format[i].char
  <2>1. \A i \in 1 .. Len(format) : p(i) \in Chars \cup {"*"}
    BY <1>2 DEF IsItem
  <2>2. ArchiveMatchPattern(format) = [i \in 1 .. Len(format) |-> p(i)]
    BY <1>1 DEF ArchiveMatchPattern
  <2> HIDE DEF p
  <2> QED BY <1>1, <2>1, <2>2
<1>4. /\ AnyText \in Segments
      /\ \A texts \in SUBSET Seq(Chars) : Alts(texts) \in Segments
      /\ \A n \in Nat : DigitRun(n) \in Segments
  BY DEF AnyText, Alts, DigitRun, Segments
<1>5. \A d : StrftimeSegment(d) \in Segments
  <2>1. \A d \in DOMAIN DigitRuns : DigitRuns[d] \in Nat
    BY ArchiveNamesAssumption
  <2>2. \A d \in DOMAIN Domains : Domains[d] \in SUBSET Seq(Chars)
    BY ArchiveNamesAssumption
  <2>3. \A d \in Chars : {<<d>>} \in SUBSET Seq(Chars)
    OBVIOUS
  <2> QED BY <1>4, <2>1, <2>2, <2>3 DEF StrftimeSegment
<1>6. ASSUME NEW item, IsToken(item), IsItem(item) PROVE PlaceholderSegments(item) \in Seq(Segments)
  <2>1. <<AnyText>> \in Seq(Segments)
        /\ <<Alts(HostNames)>> \in Seq(Segments) /\ <<Alts(UserNames)>> \in Seq(Segments)
    <3>1. HostNames \in SUBSET Seq(Chars) /\ UserNames \in SUBSET Seq(Chars)
      BY ArchiveNamesAssumption
    <3>2. Alts(HostNames) \in Segments /\ Alts(UserNames) \in Segments
      BY <1>4, <3>1
    <3> QED BY <1>4, <3>2
  <2>2. StrftimeSegments(item.spec) \in Seq(Segments)
    <3>1. item.spec \in Seq(Range(item.spec))
      BY <1>6 DEF IsItem
    <3>2. DOMAIN item.spec = 1 .. Len(item.spec) /\ Len(item.spec) \in Nat
      BY <3>1, LenProperties
    <3>3. StrftimeSegments(item.spec) = [i \in 1 .. Len(item.spec) |-> StrftimeSegment(item.spec[i])]
      BY <3>2 DEF StrftimeSegments
    <3> QED BY <1>5, <3>2, <3>3
  <2> QED BY <2>1, <2>2 DEF PlaceholderSegments
<1>7. ArchiveFormatSegments(format) \in Seq(Segments)
  <2> DEFINE part(i) == IF IsToken(format[i]) THEN PlaceholderSegments(format[i])
                        ELSE <<Alts({<<format[i].char>>})>>
  <2>1. ASSUME NEW i \in 1 .. Len(format) PROVE part(i) \in Seq(Segments)
    <3>1. CASE IsToken(format[i])
      BY <1>2, <1>6, <3>1
    <3>2. CASE ~IsToken(format[i])
      <4>1. format[i].char \in Chars
        BY <1>2, <3>2 DEF IsItem
      <4>2. {<<format[i].char>>} \in SUBSET Seq(Chars)
        BY <4>1
      <4>3. Alts({<<format[i].char>>}) \in Segments
        BY <1>4, <4>2
      <4> QED BY <3>2, <4>3
    <3> QED BY <3>1, <3>2
  <2>2. ArchiveFormatSegments(format) = FlattenSeq([i \in 1 .. Len(format) |-> part(i)])
    BY <1>1 DEF ArchiveFormatSegments
  <2> HIDE DEF part
  <2>3. [i \in 1 .. Len(format) |-> part(i)] \in Seq(Seq(Segments))
    BY <1>1, <2>1
  <2> QED BY <2>2, <2>3, FlattenSeqType
<1> QED BY <1>3, <1>7

-----------------------------------------------------------------------------
(* Generation. *)

\* Nobody is refused before pass 2, and for an overlap before pass 3.
NoneYet == pass = 2 => kept = Groups /\ refusals = {} /\ rounds = <<>>

\* The plan stands when nobody who is kept claims archives of another one.
Standing == pass = 4 /\ ~restoring => Edges(kept) = {}

PlanInv == TypeOK /\ NoneYet /\ Standing

\* A round refuses groups that are still kept.
LEMMA RoundOfKept ==
  ASSUME NEW among
  PROVE  Round(Edges(among)) \subseteq among
<1>1. Edges(among) \subseteq among \X among
  BY DEF Edges
<1>2. Sources(Edges(among)) \subseteq among
  BY <1>1 DEF Sources
<1>3. InnocentClaimers(Edges(among)) \subseteq among
  BY <1>1 DEF InnocentClaimers
<1>4. SinkCycleMembers(Edges(among)) \subseteq Sources(Edges(among))
  BY DEF SinkCycleMembers, SinkCycles
<1> QED BY <1>2, <1>3, <1>4 DEF Round

LEMMA AppendRange ==
  ASSUME NEW S, NEW s \in Seq(S), NEW x \in S
  PROVE  Append(s, x) \in Seq(S) /\ Range(Append(s, x)) = Range(s) \cup {x}
<1>1. /\ Append(s, x) \in Seq(S)
      /\ Len(Append(s, x)) = Len(s) + 1 /\ Len(s) \in Nat
      /\ Append(s, x)[Len(s) + 1] = x
      /\ \A i \in 1 .. Len(s) : Append(s, x)[i] = s[i]
  BY AppendProperties, LenProperties
<1>2. DOMAIN s = 1 .. Len(s) /\ DOMAIN Append(s, x) = 1 .. Len(s) + 1
  BY <1>1, LenProperties
<1> QED BY <1>1, <1>2 DEF Range

\* Refusals of one reason more.
LEMMA RefusedMore ==
  ASSUME NEW G, NEW r, refusals' = refusals \cup {[group |-> g, reason |-> r] : g \in G}
  PROVE  /\ Refused(r)' = Refused(r) \cup G
         /\ \A q : q # r => Refused(q)' = Refused(q)
<1> DEFINE new == {[group |-> g, reason |-> r] : g \in G}
<1>0. refusals' = refusals \cup new
  OBVIOUS
<1>1. \A x \in new : x.group \in G /\ x.reason = r
  OBVIOUS
<1>2. ASSUME NEW g \in G PROVE \E x \in new : x.group = g /\ x.reason = r
  <2>1. [group |-> g, reason |-> r] \in new
    OBVIOUS
  <2> QED BY <2>1
<1> HIDE DEF new
<1>3. Refused(r)' = Refused(r) \cup G
  BY <1>0, <1>1, <1>2 DEF Refused
<1>4. ASSUME NEW q, q # r PROVE Refused(q)' = Refused(q)
  BY <1>0, <1>1, <1>4 DEF Refused
<1> QED BY <1>3, <1>4

LEMMA InitPlanInv == Init => PlanInv
<1> SUFFICES ASSUME Init PROVE PlanInv
  OBVIOUS
<1>1. final \in [Groups -> Finals] /\ groupToken \in [Groups -> BOOLEAN]
  <2>1. PICK formats \in Merged :
          /\ final = [g \in Groups |-> Resolved(formats[g], Name[g])]
          /\ groupToken = [g \in Groups |-> HasGroupToken(formats[g])]
    BY DEF Init
  <2>2. \A g \in Groups : Resolved(formats[g], Name[g]) \in Finals
    BY DEF Finals
  <2>3. \A g \in Groups : HasGroupToken(formats[g]) \in BOOLEAN
    BY DEF HasGroupToken
  <2> QED BY <2>1, <2>2, <2>3
<1>2. rounds \in Seq(SUBSET Groups) /\ Range(rounds) = {}
  BY EmptySeq DEF Init, Range
<1>3. Refused("token") = {} /\ Refused("overlap") = {}
  BY DEF Init, Refused
<1> QED BY <1>1, <1>2, <1>3 DEF Init, PlanInv, TypeOK, NoneYet, Standing

LEMMA TokensPlanInv == PlanInv /\ Tokens => PlanInv'
<1> SUFFICES ASSUME PlanInv, Tokens PROVE PlanInv'
  OBVIOUS
<1>1. /\ kept' = {g \in Groups : ~NeedsToken(g)}
      /\ refusals' = {[group |-> g, reason |-> "token"] : g \in Groups \ kept'}
      /\ rounds' = <<>> /\ UNCHANGED config
      /\ pass' = IF restoring THEN 4 ELSE 3
  BY DEF Tokens, PlanInv, NoneYet
<1>2. Refused("token")' = Groups \ kept' /\ Refused("overlap")' = {}
  <2>1. refusals = {} /\ "overlap" # "token"
    BY DEF Tokens, PlanInv, NoneYet
  <2>2. Refused("token") = {} /\ Refused("overlap") = {}
    BY <2>1 DEF Refused
  <2> DEFINE G == {g \in Groups : NeedsToken(g)}
  <2>3. Groups \ kept' = G
    BY <1>1
  <2>4. refusals' = refusals \cup {[group |-> g, reason |-> "token"] : g \in G}
    BY <1>1, <2>1, <2>3
  <2> HIDE DEF G
  <2>5. Refused("token")' = Refused("token") \cup G /\ Refused("overlap")' = Refused("overlap")
    BY <2>1, <2>4, RefusedMore
  <2> QED BY <2>2, <2>3, <2>5
<1>3. Range(rounds') = {} /\ rounds' \in Seq(SUBSET Groups)
  BY <1>1, EmptySeq DEF Range
<1>4. TypeOK'
  BY <1>1, <1>2, <1>3 DEF PlanInv, TypeOK, config
<1> QED BY <1>1, <1>4 DEF PlanInv, NoneYet, Standing, TypeOK, config

LEMMA RefusePlanInv == PlanInv /\ Refuse => PlanInv'
<1> SUFFICES ASSUME PlanInv, Refuse PROVE PlanInv'
  OBVIOUS
<1> DEFINE round == Round(Edges(kept))
<1>1. /\ pass = 3 /\ kept' = kept \ round
      /\ refusals' = refusals \cup {[group |-> g, reason |-> "overlap"] : g \in round}
      /\ rounds' = Append(rounds, round)
      /\ UNCHANGED <<config, pass>>
  BY DEF Refuse
<1>2. round \subseteq kept /\ round \in SUBSET Groups
  BY RoundOfKept DEF PlanInv, TypeOK
<1> HIDE DEF round
<1>3. Refused("token")' = Refused("token") /\ Refused("overlap")' = Refused("overlap") \cup round
  BY <1>1, RefusedMore
<1>4. rounds' \in Seq(SUBSET Groups) /\ Range(rounds') = Range(rounds) \cup {round}
  BY <1>1, <1>2, AppendRange DEF PlanInv, TypeOK
<1>5. kept' = Groups \ (Refused("token")' \cup Refused("overlap")')
  BY <1>1, <1>2, <1>3 DEF PlanInv, TypeOK
<1>6. Refused("token")' \cap Refused("overlap")' = {}
  BY <1>2, <1>3 DEF PlanInv, TypeOK
<1>7. Refused("overlap")' = UNION Range(rounds')
  BY <1>3, <1>4 DEF PlanInv, TypeOK
<1>8. refusals' \subseteq [group : Groups, reason : {"token", "overlap"}]
  BY <1>1, <1>2 DEF PlanInv, TypeOK
<1>9. TypeOK'
  BY <1>1, <1>4, <1>5, <1>6, <1>7, <1>8 DEF PlanInv, TypeOK, config
<1> QED BY <1>1, <1>9 DEF PlanInv, NoneYet, Standing

LEMMA SettledPlanInv == PlanInv /\ Settled => PlanInv'
<1> SUFFICES ASSUME PlanInv, Settled PROVE PlanInv'
  OBVIOUS
<1>1. /\ pass' = 4 /\ Edges(kept) = {}
      /\ UNCHANGED <<config, kept, refusals, rounds>>
  BY DEF Settled
<1>2. Edges(kept)' = Edges(kept)
  BY <1>1 DEF Edges, Shares, RepoKeys, config
<1>3. Refused("token")' = Refused("token") /\ Refused("overlap")' = Refused("overlap")
  BY <1>1 DEF Refused
<1>4. TypeOK'
  BY <1>1, <1>3 DEF PlanInv, TypeOK, config
<1> QED BY <1>1, <1>2, <1>4 DEF PlanInv, NoneYet, Standing

LEMMA NextPlanInv == PlanInv /\ [Next]_vars => PlanInv'
<1>1. PlanInv /\ UNCHANGED vars => PlanInv'
  <2> SUFFICES ASSUME PlanInv, UNCHANGED vars PROVE PlanInv'
    OBVIOUS
  <2>1. UNCHANGED <<final, groupToken, repos, restoring, pass, kept, refusals, rounds>>
    BY DEF vars, config
  <2>2. Edges(kept)' = Edges(kept)
    BY <2>1 DEF Edges, Shares, RepoKeys
  <2>3. Refused("token")' = Refused("token") /\ Refused("overlap")' = Refused("overlap")
    BY <2>1 DEF Refused
  <2> QED BY <2>1, <2>2, <2>3 DEF PlanInv, TypeOK, NoneYet, Standing
<1> QED BY <1>1, TokensPlanInv, RefusePlanInv, SettledPlanInv DEF Next

-----------------------------------------------------------------------------
(* Why a group is refused. *)

\* Some set of a family of finite sets has no smaller one in the family.
LEMMA Smallest ==
  ASSUME NEW F, F # {}, \A S \in F : IsFiniteSet(S)
  PROVE  \E S \in F : \A T \in F : T \subseteq S => T = S
<1> DEFINE sizes == {Cardinality(S) : S \in F}
<1>1. sizes \subseteq Nat /\ sizes # {}
  BY FS_CardinalityType
<1> HIDE DEF sizes
<1>2. PICK m \in sizes : \A k \in sizes : m <= k
  BY <1>1, Least
<1>3. PICK S \in F : Cardinality(S) = m
  BY DEF sizes
<1>4. ASSUME NEW T \in F, T \subseteq S PROVE T = S
  <2>1. T \in SUBSET S /\ IsFiniteSet(S)
    BY <1>4
  <2>2. Cardinality(T) <= Cardinality(S) /\ (Cardinality(S) = Cardinality(T) => S = T)
    BY <2>1, FS_Subset
  <2>3. Cardinality(T) \in sizes
    BY DEF sizes
  <2>4. Cardinality(T) \in Nat /\ m \in Nat
    BY <1>1, <2>3
  <2>5. m <= Cardinality(T)
    BY <1>2, <2>3
  <2> QED BY <1>3, <2>2, <2>4, <2>5
<1> QED BY <1>4

\* "A sink component must then be a cycle": where whoever is claimed from claims in
\* turn, a round is never empty, and everybody is never refused for want of one.  A
\* smallest set of claimers that no edge leaves is what it looks for.
THEOREM SinkCycleExists ==
  ASSUME NEW edges, edges \subseteq Groups \X Groups, edges # {},
         InnocentClaimers(edges) = {}
  PROVE  SinkCycles(edges) # {}
<1> DEFINE F == {set \in (SUBSET Sources(edges)) \ {{}} : Closed(set, edges)}
<1>1. Sources(edges) \in F
  BY DEF Sources, InnocentClaimers, Closed
<1>2. ASSUME NEW S \in F PROVE IsFiniteSet(S)
  <2>1. S \in SUBSET Groups
    BY DEF Sources
  <2> QED BY <2>1, FS_Subset, GenerationAssumption
<1>3. PICK S \in F : \A T \in F : T \subseteq S => T = S
  <2> HIDE DEF F
  <2> QED BY <1>1, <1>2, Smallest
<1>4. \A part \in (SUBSET S) \ {{}, S} : ~Closed(part, edges)
  BY <1>3
<1> QED BY <1>4 DEF SinkCycles

\* Its members claim their own archives through each other alone.
LEMMA CyclesWithin ==
  ASSUME NEW edges, NEW g \in SinkCycles(edges), NEW within,
         \A e \in edges : e[1] \in SinkCycles(edges) /\ e[2] \in SinkCycles(edges) => e \in within
  PROVE  OnCycle(g, within)
<1>1. PICK S \in (SUBSET Sources(edges)) \ {{}} :
        /\ Closed(S, edges) /\ g \in S
        /\ \A part \in (SUBSET S) \ {{}, S} : ~Closed(part, edges)
  BY DEF SinkCycles
<1>2. S \subseteq SinkCycles(edges)
  BY <1>1 DEF SinkCycles
<1>3. ASSUME NEW set \in SUBSET Groups,
             \A e \in within : e[1] \in set \cup {g} => e[2] \in set
      PROVE  g \in set
  <2> DEFINE part == S \cap set
  <2>1. \A e \in edges : e[1] \in S => e \in within /\ e[2] \in S
    BY <1>1, <1>2 DEF Closed
  <2>2. Closed(part, edges)
    BY <1>3, <2>1 DEF Closed
  <2>3. part # {}
    <3>1. PICK e \in edges : e[1] = g
      BY <1>1 DEF Sources
    <3>2. e[2] \in part
      BY <1>1, <1>3, <2>1, <3>1
    <3> QED BY <3>2
  <2>4. part = S
    BY <1>1, <2>2, <2>3
  <2> QED BY <1>1, <2>4
<1> QED BY <1>3 DEF OnCycle

\* Whom a group of this round claims from is refused with it, or will not be
\* refused, as it claims from nobody who is left.
Cause(round, g) ==
  \/ \E h \in kept \ Sources(Edges(kept)) : <<g, h>> \in Edges(kept \cup {g})
  \/ OnCycle(g, Edges(round))

Caused ==
  /\ pass = 2 => rounds = <<>>
  /\ \A round \in Range(rounds) : \A g \in round : Cause(round, g)

LEMMA EdgesTyped == ASSUME NEW among, among \subseteq Groups
                    PROVE Edges(among) \subseteq Groups \X Groups
BY DEF Edges

LEMMA EdgesWithin ==
  ASSUME NEW among, NEW some, NEW e \in Edges(among), e[1] \in some, e[2] \in some
  PROVE  e \in Edges(some)
<1>1. /\ e \in among \X among
      /\ Shares(e[1], e[2]) /\ Overmatches[final[e[1]]][final[e[2]]]
  BY Zenon DEF Edges
<1>2. e \in some \X some
  BY <1>1
<1> QED BY <1>1, <1>2, Zenon DEF Edges

\* The cause of every refusal of a round.
LEMMA RoundCaused ==
  ASSUME TypeOK, Edges(kept) # {}, NEW g \in Round(Edges(kept))
  PROVE  \/ \E h \in (kept \ Round(Edges(kept))) \ Sources(Edges(kept)) : <<g, h>> \in Edges(kept)
         \/ OnCycle(g, Edges(Round(Edges(kept))))
<1> DEFINE edges == Edges(kept)
<1>1. edges \subseteq Groups \X Groups /\ edges \subseteq kept \X kept
  BY EdgesTyped DEF TypeOK, Edges
<1>2. CASE InnocentClaimers(edges) # {}
  <2>1. Round(edges) = InnocentClaimers(edges)
    BY <1>2 DEF Round
  <2>2. PICK e \in edges : e[1] = g /\ e[2] \notin Sources(edges)
    BY <2>1 DEF InnocentClaimers
  <2>3. e = <<g, e[2]>> /\ e[2] \in kept
    BY <1>1, <2>2
  <2>4. e[2] \notin Round(edges)
    BY <2>1, <2>2 DEF InnocentClaimers, Sources
  <2> QED BY <2>2, <2>3, <2>4
<1>3. CASE InnocentClaimers(edges) = {}
  <2>1. Round(edges) = SinkCycles(edges)
    BY <1>1, <1>3, SinkCycleExists DEF Round, SinkCycleMembers
  <2>2. \A e \in edges : e[1] \in Round(edges) /\ e[2] \in Round(edges) => e \in Edges(Round(edges))
    BY EdgesWithin
  <2>3. g \in SinkCycles(edges)
    BY <2>1
  <2>4. OnCycle(g, Edges(Round(edges)))
    <3> DEFINE within == Edges(Round(edges))
    <3>1. \A e \in edges : e[1] \in SinkCycles(edges) /\ e[2] \in SinkCycles(edges) => e \in within
      BY <2>1, <2>2
    <3> HIDE DEF within, edges
    <3>2. OnCycle(g, within)
      BY <1>1, <2>3, <3>1, CyclesWithin
    <3> QED BY <3>2 DEF within
  <2> QED BY <2>4
<1> QED BY <1>2, <1>3

LEMMA RefuseCaused == PlanInv /\ Caused /\ Refuse => Caused'
<1> SUFFICES ASSUME PlanInv, Caused, Refuse PROVE Caused'
  OBVIOUS
<1> DEFINE round == Round(Edges(kept))
<1>1. /\ pass = 3 /\ kept' = kept \ round /\ Edges(kept) # {}
      /\ rounds' = Append(rounds, round)
      /\ UNCHANGED <<config, pass>>
  BY DEF Refuse
<1>2. TypeOK /\ kept \subseteq Groups /\ round \in SUBSET Groups
  BY RoundOfKept DEF PlanInv, TypeOK
<1>3. ASSUME NEW among, NEW some, among' = some PROVE Edges(among)' = Edges(some)
  BY <1>1, <1>3 DEF Edges, Shares, RepoKeys, config
<1>4. Sources(Edges(kept \ round)) \subseteq Sources(Edges(kept))
  BY DEF Sources, Edges
<1>5. round \subseteq Sources(Edges(kept))
  BY DEF Round, InnocentClaimers, SinkCycleMembers, SinkCycles, Sources
<1> HIDE DEF round
<1>6. Range(rounds') = Range(rounds) \cup {round}
  BY <1>1, <1>2, AppendRange DEF TypeOK
<1>7. ASSUME NEW S \in Range(rounds'), NEW g \in S
      PROVE  \/ \E h \in (kept \ round) \ Sources(Edges(kept \ round)) :
                  <<g, h>> \in Edges((kept \ round) \cup {g})
             \/ OnCycle(g, Edges(S))
  <2>1. CASE S \in Range(rounds)
    <3>1. CASE \E h \in kept \ Sources(Edges(kept)) : <<g, h>> \in Edges(kept \cup {g})
      <4>1. PICK h \in kept \ Sources(Edges(kept)) : <<g, h>> \in Edges(kept \cup {g})
        BY <3>1
      <4>2. h \in (kept \ round) \ Sources(Edges(kept \ round))
        BY <1>4, <1>5, <4>1
      <4>3. <<g, h>> \in Edges((kept \ round) \cup {g})
        BY <4>1, <4>2, EdgesWithin
      <4> QED BY <4>2, <4>3
    <3> QED BY <2>1, <3>1 DEF Caused, Cause
  <2>2. CASE S = round
    <3>1. CASE \E h \in (kept \ round) \ Sources(Edges(kept)) : <<g, h>> \in Edges(kept)
      <4>1. PICK h \in (kept \ round) \ Sources(Edges(kept)) : <<g, h>> \in Edges(kept)
        BY <3>1
      <4>2. <<g, h>> \in Edges((kept \ round) \cup {g})
        BY <4>1, EdgesWithin
      <4> QED BY <1>4, <4>1, <4>2
    <3> QED BY <1>1, <1>2, <2>2, <3>1, RoundCaused DEF round
  <2> QED BY <1>6, <2>1, <2>2
<1>8. ASSUME NEW S \in Range(rounds'), NEW g \in S PROVE Cause(S, g)'
  <2>1. Sources(Edges(kept))' = Sources(Edges(kept \ round))
    BY <1>1, <1>3 DEF Sources
  <2>2. Edges(kept \cup {g})' = Edges((kept \ round) \cup {g})
    BY <1>1, <1>3
  <2>3. OnCycle(g, Edges(S))' = OnCycle(g, Edges(S))
    BY <1>3 DEF OnCycle
  <2> QED BY <1>1, <1>7, <2>1, <2>2, <2>3 DEF Cause
<1>9. Range(rounds)' = Range(rounds')
  BY DEF Range
<1> QED BY <1>1, <1>8, <1>9 DEF Caused

LEMMA CausedStands ==
  ASSUME Caused, UNCHANGED <<config, kept, rounds>>, pass' = 2 => pass = 2
  PROVE  Caused'
<1>1. ASSUME NEW among, NEW some, among' = some PROVE Edges(among)' = Edges(some)
  BY <1>1 DEF Edges, Shares, RepoKeys, config
<1>2. ASSUME NEW S \in Range(rounds), NEW g \in S PROVE Cause(S, g)'
  <2>1. Sources(Edges(kept))' = Sources(Edges(kept))
    BY <1>1 DEF Sources
  <2>2. Edges(kept \cup {g})' = Edges(kept \cup {g})
    BY <1>1
  <2>3. OnCycle(g, Edges(S))' = OnCycle(g, Edges(S))
    BY <1>1 DEF OnCycle
  <2>4. Cause(S, g)
    BY DEF Caused
  <2> QED BY <2>1, <2>2, <2>3, <2>4 DEF Cause
<1>3. Range(rounds)' = Range(rounds)
  BY DEF Range
<1> QED BY <1>2, <1>3 DEF Caused

LEMMA NextCaused == PlanInv /\ Caused /\ [Next]_vars => Caused'
<1> SUFFICES ASSUME PlanInv, Caused, [Next]_vars PROVE Caused'
  OBVIOUS
<1>1. CASE Tokens
  <2>1. rounds' = <<>> /\ pass' # 2
    BY <1>1 DEF Tokens, Caused
  <2>2. Range(rounds)' = {}
    BY <2>1, EmptySeq DEF Range
  <2> QED BY <2>1, <2>2 DEF Caused
<1>2. CASE Settled
  BY <1>2, CausedStands DEF Settled
<1>3. CASE UNCHANGED vars
  BY <1>3, CausedStands DEF vars
<1> QED BY <1>1, <1>2, <1>3, RefuseCaused DEF Next

-----------------------------------------------------------------------------
(* What a pattern is said to claim is what it claims. *)

LEMMA FinalFormats ==
  ASSUME NEW f \in Finals
  PROVE  IsFormat(f)
<1>1. PICK formats \in Merged, g \in Groups : f = Resolved(formats[g], Name[g])
  BY DEF Finals
<1>2. IsFormat(formats[g]) /\ Name[g] \in Seq(Chars)
  BY GenerationAssumption
<1> QED BY <1>1, <1>2, ResolvedFormat

\* No pattern that is not said to over-match a format claims a name of it, at
\* whatever length its placeholders are spelt out.
LEMMA DecisionSound ==
  ASSUME NEW f \in Finals, NEW h \in Finals, ~Overmatches[f][h]
  PROVE  ~ClaimsGenerated[f][h]
<1> DEFINE p == ArchiveMatchPattern(f)
           segs == ArchiveFormatSegments(h)
<1>1. Overmatches[f][h] = PatternOvermatches(p, segs)
  BY DEF Overmatches
<1>2. ClaimsGenerated[f][h] = ClaimsSome(p, segs, NameBound)
  BY DEF ClaimsGenerated
<1>3. p \in Seq(Chars \cup {"*"}) /\ segs \in Seq(Segments)
  BY FinalFormats, FormatPattern
<1> HIDE DEF p, segs
<1>4. NameBound \in Nat
  BY GenerationAssumption
<1>5. ~PatternMatchesFormat(p, segs)
  BY <1>1 DEF PatternOvermatches
<1>6. ~ClaimsSome(p, segs, NameBound)
  BY <1>3, <1>4, <1>5, NoClaimMissed
<1> QED BY <1>2, <1>6

\* And no other is said to over-match it.
LEMMA DecisionExact ==
  ASSUME NEW f \in Finals, NEW h \in Finals, Comparable(f), Comparable(h)
  PROVE  Overmatches[f][h] <=> ClaimsGenerated[f][h]
<1> DEFINE p == ArchiveMatchPattern(f)
           segs == ArchiveFormatSegments(h)
<1>1. Overmatches[f][h] = PatternOvermatches(p, segs)
  BY DEF Overmatches
<1>2. ClaimsGenerated[f][h] = ClaimsSome(p, segs, NameBound)
  BY DEF ClaimsGenerated
<1>3. p \in Seq(Chars \cup {"*"}) /\ segs \in Seq(Segments)
  BY FinalFormats, FormatPattern
<1>4. p # <<>> /\ segs # <<>> /\ Matchable(p) /\ Cardinality(Literals(p, 1)) <= NameBound
  BY DEF Comparable
<1> HIDE DEF p, segs
<1>5. NameBound \in Nat /\ Digits # {}
  BY GenerationAssumption, ArchiveNamesAssumption
<1>6. PatternOvermatches(p, segs) => PatternMatchesFormat(p, segs)
  BY <1>4 DEF PatternOvermatches
<1>7. PatternMatchesFormat(p, segs) => ClaimsSome(p, segs, NameBound)
  BY <1>3, <1>4, <1>5, NoClaimInvented
<1>8. ASSUME Overmatches[f][h] PROVE ClaimsGenerated[f][h]
  BY <1>1, <1>2, <1>6, <1>7, <1>8
<1> QED BY <1>8, DecisionSound

-----------------------------------------------------------------------------
\* Every group is kept or refused, for one reason; what was refused for an
\* overlap was refused in some round.
THEOREM PlanTypeCorrect == Spec => []TypeOK
<1>1. PlanInv => TypeOK
  BY DEF PlanInv
<1> QED BY InitPlanInv, NextPlanInv, <1>1, PTL DEF Spec

\* When the plan stands, no pattern of a kept group claims the archives of
\* another in a repository that both are known to have.
THEOREM Safe == Spec => []SiblingsSafe
<1>1. PlanInv => SiblingsSafe
  <2> SUFFICES ASSUME PlanInv, Done, ~restoring, NEW g \in kept, NEW h \in kept,
                      g # h, RepoKeys(g) \cap RepoKeys(h) # {}
               PROVE  ~Overmatches[final[g]][final[h]] /\ ~ClaimsGenerated[final[g]][final[h]]
    BY DEF SiblingsSafe
  <2>1. <<g, h>> \in kept \X kept /\ Shares(g, h)
    BY DEF Shares
  <2>2. <<g, h>> \notin Edges(kept)
    BY DEF PlanInv, Standing, Done
  <2>3. ~Overmatches[final[g]][final[h]]
    BY <2>1, <2>2 DEF Edges
  <2>4. final[g] \in Finals /\ final[h] \in Finals
    BY DEF PlanInv, TypeOK
  <2> QED BY <2>3, <2>4, DecisionSound
<1> QED BY InitPlanInv, NextPlanInv, <1>1, PTL DEF Spec

\* The decision behind it is exact: of formats that say something, whose patterns
\* can match in every element and have no more of them than a placeholder is spelt
\* out at, one is said to over-match another if and only if it claims a name of it.
THEOREM OvermatchExact ==
  ASSUME \A f \in Finals : Comparable(f)
  PROVE  Spec => []OvermatchIsExact
<1>1. PlanInv => OvermatchIsExact
  <2> SUFFICES ASSUME PlanInv, NEW g \in Groups, NEW h \in Groups
               PROVE  Overmatches[final[g]][final[h]] <=> ClaimsGenerated[final[g]][final[h]]
    BY DEF OvermatchIsExact
  <2>1. final[g] \in Finals /\ final[h] \in Finals
    BY DEF PlanInv, TypeOK
  <2> QED BY <2>1, DecisionExact
<1> QED BY InitPlanInv, NextPlanInv, <1>1, PTL DEF Spec

\* A group refused for an overlap claims the archives of a group that runs, or
\* of one that was refused with it because it claims its own in turn.
THEOREM ForACause == Spec => []RefusedForCause
<1>1. Init => Caused
  <2> SUFFICES ASSUME Init PROVE Caused
    OBVIOUS
  <2>1. rounds = <<>> /\ Range(rounds) = {}
    BY EmptySeq DEF Init, Range
  <2> QED BY <2>1 DEF Caused
<1>2. PlanInv /\ Caused => RefusedForCause
  <2>1. \A k \in DOMAIN rounds : rounds[k] \in Range(rounds)
    BY DEF Range
  <2> QED BY <2>1 DEF Caused, Cause, RefusedForCause
<1> QED BY InitPlanInv, NextPlanInv, <1>1, NextCaused, <1>2, PTL DEF Spec

-----------------------------------------------------------------------------
(* Toolchain. *)

\* "current" leads somewhere, or is not there; no build is ever what was copied.
Entry ==
  /\ current.gen = Nothing <=> current.kind = "none"
  /\ current.kind = "copy" <=> current.gen = Copy /\ Copy # Nothing
  /\ Copy # Nothing => stage[Copy] # "unused"

\* A process has directories to visit only during a pass, and a vdir only while
\* it builds.
Locals == \A p \in Procs :
  /\ pc[p] \notin {"tidying", "sweeping", "retiring"} => todo[p] = {}
  /\ pc[p] \notin {"installing", "testing", "flipping", "retiring"} => build[p] = Nothing

\* A build is a directory of its own, and once tested it ran.
Builds == \A p \in Procs : pc[p] \in {"installing", "testing", "flipping"} =>
  /\ build[p] \in Gens \ {current.gen, Copy}
  /\ \A q \in Procs : run[q].gen # build[p]
  /\ pc[p] = "flipping" => health[build[p]] # "bad"

\* No pass has "current" or the generation of an exec under way before it.
Spared == \A p \in Procs :
  /\ current.gen \in todo[p] => current.gen = Copy
  /\ \A q \in Procs : ~run[q].mapped /\ run[q].gen \in todo[p] => run[q].gen = Copy

\* ExecIsPrompt, of what was started through the link.
Prompt == \A p \in Procs :
  run[p].gen \notin {Nothing, Copy} /\ ~run[p].mapped => run[p].gen = current.gen

\* prev is the link that the flip will replace; an exec under way is of it until then.
BeforeFlip == \A p \in Procs :
  /\ pc[p] \in {"sweeping", "installing", "testing", "flipping"} => prev[p] = CurrentTargetBase
  /\ pc[p] \in Inside \ {"retiring"} => Prompt

ToolchainInv ==
  /\ ToolchainTypeOK /\ Entry /\ Locals /\ Builds /\ Spared /\ BeforeFlip
  /\ CurrentIsComplete /\ BuildsUndisturbed /\ RunsKeepTheirGeneration

LEMMA InitToolchainInv == ToolchainInit => ToolchainInv
  BY ToolchainAssumption
  DEF ToolchainInit, ToolchainInv, ToolchainTypeOK, Entry, Locals, Builds, Spared, BeforeFlip, Prompt,
      CurrentTargetBase, CurrentIsComplete, BuildsUndisturbed, RunsKeepTheirGeneration, Inside, Ended, NoRun

\* A pass that keeps "current" spares what it must, if execs are prompt.
LEMMA PassSpares ==
  ASSUME ToolchainTypeOK, Entry, Spared, Prompt, NEW p \in Procs,
         CleanAllBut(p, {CurrentTargetBase}), UNCHANGED <<disk, run>>
  PROVE  Spared'
<1>1. current.gen \in Present \ {CurrentTargetBase} => current.gen = Copy
  BY ToolchainAssumption DEF ToolchainTypeOK, Entry, CurrentTargetBase, Present
<1>2. ASSUME NEW q \in Procs, ~run[q].mapped, run[q].gen \in Present \ {CurrentTargetBase}
      PROVE  run[q].gen = Copy
  BY <1>1, <1>2, ToolchainAssumption DEF Prompt, Present
<1>3. \A r \in Procs : todo'[r] = IF r = p THEN Present \ {CurrentTargetBase} ELSE todo[r]
  BY DEF ToolchainTypeOK, CleanAllBut
<1> QED BY <1>1, <1>2, <1>3 DEF Spared, disk

\* One step per action.
LEMMA NextToolchainInv == ToolchainInv /\ [ToolchainNext]_toolchainVars => ToolchainInv'
<1> SUFFICES ASSUME ToolchainInv, [ToolchainNext]_toolchainVars PROVE ToolchainInv'
  OBVIOUS
<1> USE ToolchainAssumption
    DEF ToolchainInv, ToolchainTypeOK, Entry, Locals, Builds, Spared, BeforeFlip, Prompt, ExecIsPrompt, CurrentTargetBase,
        CurrentIsComplete, BuildsUndisturbed, RunsKeepTheirGeneration, Inside, Ended, disk, Goto
<1>1. ASSUME NEW p \in Procs, Launch(p) PROVE ToolchainInv'
  BY <1>1 DEF Launch
<1>2. ASSUME NEW p \in Procs, TryCleanOldVersions(p) PROVE ToolchainInv'
  <2>1. pc[p] = "tidy" /\ todo[p] = {} /\ UNCHANGED <<disk, prev, build, run>>
    BY <1>2 DEF TryCleanOldVersions
  <2>2. CASE lock = Nothing
    <3>1. /\ ExecIsPrompt /\ lock' = p
          /\ todo' = [todo EXCEPT ![p] = Present \ {CurrentTargetBase}]
          /\ pc' = [pc EXCEPT ![p] = "tidying"]
      BY <1>2, <2>2 DEF TryCleanOldVersions, CleanAllBut
    <3>2. ToolchainTypeOK' /\ Entry' /\ Locals'
      BY <2>1, <2>2, <3>1 DEF Present
    <3>3. Spared'
      BY <2>1, <3>1, PassSpares DEF CleanAllBut
    <3>4. Builds' /\ BeforeFlip' /\ CurrentIsComplete' /\ BuildsUndisturbed' /\ RunsKeepTheirGeneration'
      BY <2>1, <2>2, <3>1
    <3> QED BY <3>2, <3>3, <3>4
  <2>3. CASE lock # Nothing
    <3>1. pc' = [pc EXCEPT ![p] = "ok"] /\ UNCHANGED <<lock, todo>>
      BY <1>2, <2>3 DEF TryCleanOldVersions
    <3> QED BY <2>1, <3>1
  <2> QED BY <2>2, <2>3
<1>3. ASSUME NEW p \in Procs, AcquireProvisionLock(p) PROVE ToolchainInv'
  BY <1>3 DEF AcquireProvisionLock
<1>4. ASSUME NEW p \in Procs, CancelWait(p) PROVE ToolchainInv'
  BY <1>4 DEF CancelWait
<1>5. ASSUME NEW p \in Procs, Recheck(p) PROVE ToolchainInv'
  <2>1. pc[p] = "recheck" /\ lock = p /\ todo[p] = {}
    BY <1>5 DEF Recheck
  <2>2. CASE FreshAndHealthy(p)
    <3>1. lock' = Nothing /\ pc' = [pc EXCEPT ![p] = "ok"] /\ UNCHANGED <<disk, prev, build, todo, run>>
      BY <1>5, <2>2 DEF Recheck
    <3> QED BY <2>1, <3>1
  <2>3. CASE ~FreshAndHealthy(p)
    <3>1. /\ prev' = [prev EXCEPT ![p] = CurrentTargetBase]
          /\ todo' = [todo EXCEPT ![p] = Present \ {CurrentTargetBase}]
          /\ pc' = [pc EXCEPT ![p] = "sweeping"]
          /\ UNCHANGED <<disk, lock, build, run>>
      BY <1>5, <2>3 DEF Recheck, CleanAllBut
    <3>2. CurrentTargetBase' = CurrentTargetBase
      BY <3>1 DEF CurrentTargetBase
    <3>3. ToolchainTypeOK' /\ Entry' /\ Locals'
      BY <2>1, <3>1, <3>2 DEF Present
    <3>4. Spared'
      BY <2>1, <3>1, PassSpares DEF CleanAllBut
    <3>5. BeforeFlip'
      BY <2>1, <3>1, <3>2
    <3>6. Builds' /\ CurrentIsComplete' /\ BuildsUndisturbed' /\ RunsKeepTheirGeneration'
      BY <2>1, <3>1
    <3> QED BY <3>3, <3>4, <3>5, <3>6
  <2> QED BY <2>2, <2>3
<1>6. ASSUME NEW p \in Procs, CleanOldVersions(p) PROVE ToolchainInv'
  <2>1. PICK g \in todo[p] :
          /\ pc[p] \in {"tidying", "sweeping", "retiring"}
          /\ todo' = [todo EXCEPT ![p] = todo[p] \ {g}]
          /\ \/ UNCHANGED stage
             \/ /\ ~GenerationInUse(g)
                /\ \E left \in {"gone", "partial"} : stage' = [stage EXCEPT ![g] = left]
          /\ UNCHANGED <<current, pin, health, lock, pc, prev, build, run>>
    BY <1>6 DEF CleanOldVersions
  <2>2. \A h \in Gens \ {g} : stage'[h] = stage[h]
    BY <2>1
  <2>3. stage' # stage => g = Copy \/ (g # current.gen /\ \A q \in Procs : run[q].gen # g)
    BY <2>1 DEF GenerationInUse
  <2>4. \A q \in Procs : pc[q] \notin {"installing", "testing", "flipping"}
    BY <2>1
  <2>5. ToolchainTypeOK' /\ Locals' /\ Spared' /\ BeforeFlip'
    BY <2>1
  <2>6. Entry'
    BY <2>1
  <2>7. Builds' /\ BuildsUndisturbed'
    BY <2>1, <2>4
  <2>8. CurrentIsComplete'
    BY <2>1, <2>2, <2>3
  <2>9. RunsKeepTheirGeneration'
    BY <2>1, <2>2, <2>3
  <2> QED BY <2>5, <2>6, <2>7, <2>8, <2>9
<1>7. ASSUME NEW p \in Procs, MakeVersionDir(p) PROVE ToolchainInv'
  BY <1>7 DEF MakeVersionDir
<1>8. ASSUME NEW p \in Procs, Install(p) PROVE ToolchainInv'
  BY <1>8 DEF Install
<1>9. ASSUME NEW p \in Procs, SmokeTest(p) PROVE ToolchainInv'
  BY <1>9 DEF SmokeTest
<1>10. ASSUME NEW p \in Procs, ClearMalformed(p) PROVE ToolchainInv'
  BY <1>10 DEF ClearMalformed
<1>11. ASSUME NEW p \in Procs, Flip(p) PROVE ToolchainInv'
  BY <1>11 DEF Flip, CleanAllBut, Present
<1>12. ASSUME NEW p \in Procs, ProvisionFails(p) PROVE ToolchainInv'
  BY <1>12 DEF ProvisionFails, Forget
<1>13. ASSUME NEW p \in Procs, Degrade(p) PROVE ToolchainInv'
  BY <1>13 DEF Degrade
<1>14. ASSUME NEW p \in Procs, Return(p) PROVE ToolchainInv'
  BY <1>14 DEF Return, Forget
<1>15. ASSUME NEW p \in Procs, StartRun(p) PROVE ToolchainInv'
  BY <1>15 DEF StartRun, Healthy, BorgmaticPath, NoRun
<1>16. ASSUME NEW p \in Procs, Map(p) PROVE ToolchainInv'
  <2>1. /\ run' = [run EXCEPT ![p] = [gen |-> run[p].gen, mapped |-> TRUE]]
        /\ UNCHANGED <<disk, lock, pc, prev, build, todo>>
    BY <1>16 DEF Map
  <2>2. \A q \in Procs : run'[q].gen = run[q].gen /\ (~run'[q].mapped => ~run[q].mapped)
    BY <2>1
  <2>3. ToolchainTypeOK' /\ Entry' /\ Locals' /\ CurrentIsComplete' /\ BuildsUndisturbed'
    BY <2>1
  <2>4. Builds'
    BY <2>1, <2>2
  <2>5. Spared'
    BY <2>1, <2>2
  <2>6. RunsKeepTheirGeneration'
    BY <2>1, <2>2
  <2>7. BeforeFlip'
    BY <2>1, <2>2
  <2> QED BY <2>3, <2>4, <2>5, <2>6, <2>7
<1>17. ASSUME NEW p \in Procs, EndRun(p) PROVE ToolchainInv'
  BY <1>17 DEF EndRun, NoRun
<1>18. ASSUME NEW p \in Procs, Kill(p) PROVE ToolchainInv'
  BY <1>18 DEF Kill, Forget
<1>19. ASSUME NEW g \in Gens, Damage(g) PROVE ToolchainInv'
  BY <1>19 DEF Damage
<1>20. CASE UNCHANGED toolchainVars
  BY <1>20 DEF toolchainVars
<1> QED
  BY <1>1, <1>2, <1>3, <1>4, <1>5, <1>6, <1>7, <1>8, <1>9, <1>10, <1>11, <1>12, <1>13, <1>14, <1>15, <1>16, <1>17, <1>18, <1>19, <1>20 DEF ToolchainNext, Ensure

-----------------------------------------------------------------------------
\* Types, and the lock is with the process that is past it.
THEOREM ToolchainTypeCorrect == ToolchainSpec => []ToolchainTypeOK
<1>1. ToolchainInv => ToolchainTypeOK
  BY DEF ToolchainInv
<1> QED BY InitToolchainInv, NextToolchainInv, <1>1, PTL DEF ToolchainSpec

\* Whoever builds, fails, cleans up or is killed: "current" is complete.
THEOREM CurrentComplete == ToolchainSpec => []CurrentIsComplete
<1>1. ToolchainInv => CurrentIsComplete
  BY DEF ToolchainInv
<1> QED BY InitToolchainInv, NextToolchainInv, <1>1, PTL DEF ToolchainSpec

\* No pass takes a live build for debris.
THEOREM BuildsSafe == ToolchainSpec => []BuildsUndisturbed
<1>1. ToolchainInv => BuildsUndisturbed
  BY DEF ToolchainInv
<1> QED BY InitToolchainInv, NextToolchainInv, <1>1, PTL DEF ToolchainSpec

\* No pass takes the generation of a running borgmatic.
THEOREM RunsSafe == ToolchainSpec => []RunsKeepTheirGeneration
<1>1. ToolchainInv => RunsKeepTheirGeneration
  BY DEF ToolchainInv
<1> QED BY InitToolchainInv, NextToolchainInv, <1>1, PTL DEF ToolchainSpec
===============================================================================
