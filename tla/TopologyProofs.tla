----------------------------- MODULE TopologyProofs ----------------------------
(***************************************************************************)
(* What the loops of graph_validation.py compute, for every list of keys    *)
(* and every list of edges.                                                 *)
(***************************************************************************)
EXTENDS MCGraphTopology, FiniteSetTheorems, WellFoundedInduction, TLAPS

(***************************************************************************)
(* Induction over numbers, from < being well founded on Nat: a set that     *)
(* holds 0 and with each number its successor holds every number.          *)
(***************************************************************************)
Lt == {p \in Nat \X Nat : p[1] < p[2]}

LEMMA LtRelation == OpToRel(<, Nat) = Lt
  BY DEF OpToRel, Lt

LEMMA Least ==
    ASSUME NEW S \in SUBSET Nat, S # {}
    PROVE  \E n \in S : \A m \in S : n <= m
<1>1. IsWellFoundedOn(Lt, Nat)
  BY NatLessThanWellFounded, LtRelation
<1>2. PICK n \in S : \A m \in S : <<m, n>> \notin Lt
  BY <1>1, WFMin
<1>3. ASSUME NEW m \in S, m < n PROVE FALSE
  <2>1. <<m, n>> \in Nat \X Nat /\ <<m, n>>[1] = m /\ <<m, n>>[2] = n
    OBVIOUS
  <2> QED
    BY <2>1, <1>2, <1>3 DEF Lt
<1> QED
  BY <1>2, <1>3

LEMMA Induct ==
    ASSUME NEW n \in Nat, NEW S, 0 \in S,
           \A i \in 1..n : i - 1 \in S => i \in S
    PROVE  0..n \subseteq S
<1> SUFFICES ASSUME (0..n) \ S # {} PROVE FALSE
  OBVIOUS
<1> DEFINE Rest == (0..n) \ S
<1>1. Rest \in SUBSET Nat /\ Rest # {}
  OBVIOUS
<1> HIDE DEF Rest
<1>2. PICK i \in Rest : \A m \in Rest : i <= m
  BY <1>1, Least
<1>3. i \in 1..n /\ i - 1 \in 0..n /\ ~(i <= i - 1)
  BY DEF Rest
<1> QED
  BY <1>2, <1>3 DEF Rest

(***************************************************************************)
(* A loop of n turns from a state `start`: turn i takes step[i] to the      *)
(* state before it.  The states are all of them states of the loop.        *)
(***************************************************************************)
IsLoop(f, n, start, step) ==
    /\ f[0] = start
    /\ \A i \in 1..n : f[i] = step[i][f[i - 1]]

LEMMA LoopExists ==
    ASSUME NEW n \in Nat, NEW T, NEW start \in T, NEW step \in [1..n -> [T -> T]]
    PROVE  \E f \in [0..n -> T] : IsLoop(f, n, start, step)
<1> DEFINE S == {m \in 0..n : \E f \in [0..m -> T] : IsLoop(f, m, start, step)}
<1>1. 0 \in S
  <2> DEFINE f == [i \in 0..0 |-> start]
  <2>1. f \in [0..0 -> T] /\ IsLoop(f, 0, start, step)
    BY DEF IsLoop
  <2>2. 0 \in 0..n
    OBVIOUS
  <2> HIDE DEF f
  <2> QED
    BY <2>1, <2>2
<1>2. ASSUME NEW m \in 1..n, m - 1 \in S PROVE m \in S
  <2>1. PICK f \in [0..(m - 1) -> T] : IsLoop(f, m - 1, start, step)
    BY <1>2
  <2> DEFINE g == [i \in 0..m |-> IF i = m THEN step[m][f[m - 1]] ELSE f[i]]
  <2>2. f[m - 1] \in T /\ step[m][f[m - 1]] \in T
    OBVIOUS
  <2>3. g \in [0..m -> T]
    BY <2>2
  <2>4. g[0] = start
    BY <2>1 DEF IsLoop
  <2>5. ASSUME NEW i \in 1..m PROVE g[i] = step[i][g[i - 1]]
    <3>1. CASE i = m
      <4>1. g[i] = step[m][f[m - 1]] /\ g[i - 1] = f[m - 1]
        BY <3>1
      <4> QED
        BY <4>1, <3>1
    <3>2. CASE i # m
      <4>1. i \in 1..(m - 1) /\ g[i] = f[i] /\ g[i - 1] = f[i - 1]
        BY <3>2
      <4> QED
        BY <4>1, <2>1 DEF IsLoop
    <3> QED
      BY <3>1, <3>2
  <2> HIDE DEF g
  <2>6. IsLoop(g, m, start, step)
    BY <2>4, <2>5 DEF IsLoop
  <2>7. m \in 0..n
    OBVIOUS
  <2> QED
    BY <2>3, <2>6, <2>7
<1> HIDE DEF S
<1>3. 0..n \subseteq S
  BY <1>1, <1>2, Induct
<1>4. n \in S
  BY <1>3
<1> QED
  BY <1>4 DEF S

(***************************************************************************)
(* A list.                                                                 *)
(***************************************************************************)
LEMMA ListFacts ==
    ASSUME NEW A, NEW s \in Seq(A)
    PROVE  /\ Len(s) \in Nat /\ DOMAIN s = 1..Len(s) /\ s \in [1..Len(s) -> A]
           /\ ToSet(s) \subseteq A
           /\ \A x : x \in ToSet(s) <=> \E i \in 1..Len(s) : s[i] = x
  BY DEF ToSet

LEMMA Appended ==
    ASSUME NEW A, NEW s \in Seq(A), NEW x \in A
    PROVE  /\ Append(s, x) \in Seq(A)
           /\ Len(Append(s, x)) = Len(s) + 1
           /\ \A i \in 1..Len(s) : Append(s, x)[i] = s[i]
           /\ Append(s, x)[Len(s) + 1] = x
           /\ ToSet(Append(s, x)) = ToSet(s) \cup {x}
<1>1. /\ Append(s, x) \in Seq(A)
      /\ Len(Append(s, x)) = Len(s) + 1
      /\ \A i \in 1..Len(s) : Append(s, x)[i] = s[i]
      /\ Append(s, x)[Len(s) + 1] = x
  OBVIOUS
<1>2. ToSet(Append(s, x)) = ToSet(s) \cup {x}
  <2> DEFINE t == Append(s, x)
  <2>a. t \in Seq(A) /\ Len(t) = Len(s) + 1 /\ t[Len(s) + 1] = x
        /\ \A i \in 1..Len(s) : t[i] = s[i]
    BY <1>1
  <2> HIDE DEF t
  <2>1. ASSUME NEW y PROVE y \in ToSet(t) <=> \E i \in 1..(Len(s) + 1) : t[i] = y
    BY <2>a, ListFacts
  <2>2. ASSUME NEW y PROVE (\E i \in 1..(Len(s) + 1) : t[i] = y) <=> (y = x \/ \E i \in 1..Len(s) : s[i] = y)
    BY <2>a
  <2>3. ASSUME NEW y PROVE y \in ToSet(t) <=> y \in ToSet(s) \cup {x}
    BY <2>1, <2>2, ListFacts
  <2> QED
    BY <2>3 DEF t
<1> QED
  BY <1>1, <1>2
LEMMA AppendedApart ==
    ASSUME NEW A, NEW s \in Seq(A), NEW x \in A, IsInjective(s), x \notin ToSet(s)
    PROVE  IsInjective(Append(s, x))
<1> DEFINE t == Append(s, x)
           n == Len(s)
<1>1. n \in Nat /\ DOMAIN s = 1..n /\ \A i \in 1..n : s[i] # x
  BY ListFacts
<1>2. DOMAIN t = 1..(n + 1) /\ t[n + 1] = x /\ \A i \in 1..n : t[i] = s[i]
  OBVIOUS
<1>3. \A i, j \in 1..n : s[i] = s[j] => i = j
  BY <1>1 DEF IsInjective
<1> HIDE DEF t, n
<1>4. ASSUME NEW i \in 1..(n + 1), NEW j \in 1..(n + 1), t[i] = t[j] PROVE i = j
  <2>1. (i \in 1..n \/ i = n + 1) /\ (j \in 1..n \/ j = n + 1)
    BY <1>1
  <2> QED
    BY <2>1, <1>1, <1>2, <1>3, <1>4
<1> QED
  BY <1>2, <1>4 DEF IsInjective, t

(***************************************************************************)
(* Picked(s, P) is what the loop over s leaves: the items at the places P,   *)
(* as many as there are places.                                            *)
(***************************************************************************)
LEMMA PickedLoop ==
    ASSUME NEW A, NEW s \in Seq(A), NEW P \in SUBSET (1..Len(s))
    PROVE  \E f \in [0..Len(s) -> Seq(A)] :
             /\ f[0] = <<>>
             /\ \A i \in 1..Len(s) :
                  f[i] = IF i \in P THEN Append(f[i - 1], s[i]) ELSE f[i - 1]
             /\ Picked(s, P) = f[Len(s)]
<1> DEFINE n == Len(s)
           step == [i \in 1..n |-> [t \in Seq(A) |-> IF i \in P THEN Append(t, s[i]) ELSE t]]
           upto == CHOOSE g : g = [i \in 0..n |->
                       IF i = 0 THEN <<>>
                       ELSE IF i \in P THEN Append(g[i - 1], s[i]) ELSE g[i - 1]]
<1>1. n \in Nat /\ step \in [1..n -> [Seq(A) -> Seq(A)]] /\ <<>> \in Seq(A)
  OBVIOUS
<1>2. \A i \in 1..n, t \in Seq(A) : step[i][t] = IF i \in P THEN Append(t, s[i]) ELSE t
  OBVIOUS
<1>3. Picked(s, P) = upto[n]
  BY DEF Picked
<1> HIDE DEF step, n
<1>4. PICK f \in [0..n -> Seq(A)] : IsLoop(f, n, <<>>, step)
  BY <1>1, LoopExists
<1>5. ASSUME NEW i \in 1..n
      PROVE  f[i] = IF i \in P THEN Append(f[i - 1], s[i]) ELSE f[i - 1]
  <2>1. i - 1 \in 0..n /\ f[i - 1] \in Seq(A)
    BY <1>1
  <2> QED
    BY <2>1, <1>2, <1>4 DEF IsLoop
<1>6. f[0] = <<>>
  BY <1>4 DEF IsLoop
<1>7. f = [i \in 0..n |-> IF i = 0 THEN <<>>
                          ELSE IF i \in P THEN Append(f[i - 1], s[i]) ELSE f[i - 1]]
  <2>1. ASSUME NEW i \in 0..n
        PROVE  f[i] = IF i = 0 THEN <<>>
                      ELSE IF i \in P THEN Append(f[i - 1], s[i]) ELSE f[i - 1]
    <3>1. CASE i = 0
      BY <3>1, <1>6
    <3>2. CASE i # 0
      <4>1. i \in 1..n
        BY <1>1, <3>2
      <4> QED
        BY <4>1, <3>2, <1>5, Zenon
    <3> QED
      BY <3>1, <3>2
  <2> QED
    BY <2>1
<1>8. upto = [i \in 0..n |-> IF i = 0 THEN <<>>
                             ELSE IF i \in P THEN Append(upto[i - 1], s[i]) ELSE upto[i - 1]]
  BY <1>7
<1> HIDE DEF upto
<1>9. upto \in [0..n -> Seq(A)]
  <2> DEFINE S == {i \in 0..n : upto[i] \in Seq(A)}
  <2>1. 0 \in S
    BY <1>1, <1>8
  <2>2. ASSUME NEW i \in 1..n, i - 1 \in S PROVE i \in S
    <3>1. i \in 0..n /\ i # 0 /\ s[i] \in A /\ upto[i - 1] \in Seq(A)
      BY <1>1, <2>2 DEF n
    <3>2. upto[i] = IF i \in P THEN Append(upto[i - 1], s[i]) ELSE upto[i - 1]
      BY <1>8, <3>1
    <3>3. Append(upto[i - 1], s[i]) \in Seq(A)
      BY <3>1, Appended
    <3>4. upto[i] \in Seq(A)
      BY <3>1, <3>2, <3>3, Zenon
    <3> QED
      BY <3>1, <3>4
  <2> HIDE DEF S
  <2>3. 0..n \subseteq S
    BY <1>1, <2>1, <2>2, Induct
  <2>4. \A i \in 0..n : upto[i] \in Seq(A)
    BY <2>3 DEF S
  <2> QED
    BY <2>4, <1>8
<1>10. /\ upto[0] = <<>>
       /\ \A i \in 1..n : upto[i] = IF i \in P THEN Append(upto[i - 1], s[i]) ELSE upto[i - 1]
  <2>1. upto[0] = <<>>
    BY <1>1, <1>8
  <2>2. ASSUME NEW i \in 1..n
        PROVE  upto[i] = IF i \in P THEN Append(upto[i - 1], s[i]) ELSE upto[i - 1]
    <3>1. i \in 0..n /\ i # 0
      BY <1>1
    <3> QED
      BY <3>1, <1>8
  <2> QED
    BY <2>1, <2>2
<1> QED
  BY <1>3, <1>9, <1>10 DEF n

LEMMA PickedFacts ==
    ASSUME NEW A, NEW s \in Seq(A), NEW P \in SUBSET (1..Len(s))
    PROVE  /\ Picked(s, P) \in Seq(A)
           /\ ToSet(Picked(s, P)) = {s[i] : i \in P}
           /\ Len(Picked(s, P)) = Cardinality(P)
           /\ (\A i, j \in P : s[i] = s[j] => i = j) => IsInjective(Picked(s, P))
<1> DEFINE n == Len(s)
           Upto(i) == P \cap (1..i)
<1>1. n \in Nat /\ DOMAIN s = 1..n
  OBVIOUS
<1>2. PICK f \in [0..n -> Seq(A)] :
        /\ f[0] = <<>>
        /\ \A i \in 1..n : f[i] = IF i \in P THEN Append(f[i - 1], s[i]) ELSE f[i - 1]
        /\ Picked(s, P) = f[n]
  BY PickedLoop
<1> DEFINE S == {i \in 0..n :
                  /\ ToSet(f[i]) = {s[j] : j \in Upto(i)}
                  /\ Len(f[i]) = Cardinality(Upto(i))
                  /\ (\A j, k \in P : s[j] = s[k] => j = k) => IsInjective(f[i])}
<1>3. 0 \in S
  <2>1. Upto(0) = {} /\ 0 \in 0..n
    BY <1>1
  <2>2. ToSet(<<>>) = {} /\ Len(<<>>) = 0 /\ IsInjective(<<>>)
    BY DEF ToSet, IsInjective
  <2> QED
    BY <2>1, <2>2, <1>2, FS_EmptySet
<1>4. ASSUME NEW i \in 1..n, i - 1 \in S PROVE i \in S
  <2>1. i \in 0..n /\ i - 1 \in 0..n /\ f[i - 1] \in Seq(A) /\ s[i] \in A
    BY <1>1
  <2>2. /\ ToSet(f[i - 1]) = {s[j] : j \in Upto(i - 1)}
        /\ Len(f[i - 1]) = Cardinality(Upto(i - 1))
        /\ (\A j, k \in P : s[j] = s[k] => j = k) => IsInjective(f[i - 1])
    BY <1>4
  <2>3. IsFiniteSet(Upto(i - 1)) /\ i \notin Upto(i - 1)
    <3>1. IsFiniteSet(1..(i - 1))
      BY <1>1, FS_Interval
    <3>2. Upto(i - 1) \in SUBSET (1..(i - 1))
      OBVIOUS
    <3>3. i \notin 1..(i - 1)
      BY <1>1
    <3> QED
      BY <3>1, <3>2, <3>3, FS_Subset
  <2>4. CASE i \notin P
    <3>1. f[i] = f[i - 1] /\ Upto(i) = Upto(i - 1)
      BY <1>1, <1>2, <2>4
    <3> QED
      BY <3>1, <2>1, <2>2
  <2>5. CASE i \in P
    <3>1. f[i] = Append(f[i - 1], s[i])
      BY <1>2, <2>5
    <3>2. Upto(i) = Upto(i - 1) \cup {i}
      BY <1>1, <2>5
    <3>3. ToSet(f[i]) = ToSet(f[i - 1]) \cup {s[i]} /\ Len(f[i]) = Len(f[i - 1]) + 1
      BY <3>1, <2>1, Appended
    <3>4. ToSet(f[i]) = {s[j] : j \in Upto(i)}
      <4> HIDE DEF Upto
      <4> QED
        BY <3>2, <3>3, <2>2
    <3>5. Len(f[i]) = Cardinality(Upto(i))
      <4> HIDE DEF Upto
      <4>1. Cardinality(Upto(i - 1) \cup {i}) = Cardinality(Upto(i - 1)) + 1
        BY <2>3, FS_AddElement
      <4> QED
        BY <4>1, <3>2, <3>3, <2>2
    <3>6. ASSUME \A j, k \in P : s[j] = s[k] => j = k PROVE IsInjective(f[i])
      <4>1. IsInjective(f[i - 1])
        BY <3>6, <2>2
      <4>2. s[i] \notin ToSet(f[i - 1])
        BY <3>6, <2>2, <2>3, <2>5
      <4> QED
        BY <4>1, <4>2, <3>1, <2>1, AppendedApart
    <3> QED
      BY <2>1, <3>4, <3>5, <3>6
  <2> QED
    BY <2>4, <2>5
<1> HIDE DEF S
<1>5. 0..n \subseteq S
  BY <1>1, <1>3, <1>4, Induct
<1>6. n \in S /\ n \in 0..n
  BY <1>1, <1>5
<1>7. Upto(n) = P
  OBVIOUS
<1> QED
  BY <1>2, <1>6, <1>7 DEF S

LEMMA Joined ==
    ASSUME NEW A, NEW s \in Seq(A), NEW t \in Seq(A)
    PROVE  /\ s \o t \in Seq(A)
           /\ Len(s \o t) = Len(s) + Len(t)
           /\ ToSet(s \o t) = ToSet(s) \cup ToSet(t)
           /\ IsInjective(s) /\ IsInjective(t) /\ ToSet(s) \cap ToSet(t) = {}
                => IsInjective(s \o t)
<1> DEFINE u == s \o t
           n == Len(s)
           m == Len(t)
<1>1. /\ n \in Nat /\ m \in Nat /\ DOMAIN s = 1..n /\ DOMAIN t = 1..m
      /\ u \in Seq(A) /\ Len(u) = n + m /\ DOMAIN u = 1..(n + m)
  OBVIOUS
<1>2. /\ \A i \in 1..n : u[i] = s[i]
      /\ \A i \in 1..m : u[n + i] = t[i]
  OBVIOUS
<1> HIDE DEF u, n, m
<1>3. \A i \in 1..(n + m) : i \notin 1..n => i - n \in 1..m /\ u[i] = t[i - n]
  <2>1. ASSUME NEW i \in 1..(n + m), i \notin 1..n PROVE i - n \in 1..m /\ u[i] = t[i - n]
    <3>1. i - n \in 1..m /\ i = n + (i - n)
      BY <1>1, <2>1
    <3> QED
      BY <3>1, <1>2
  <2> QED
    BY <2>1
<1>4. ToSet(u) = ToSet(s) \cup ToSet(t)
  <2>1. ASSUME NEW x \in ToSet(s) PROVE x \in ToSet(u)
    <3>1. PICK i \in 1..n : s[i] = x
      BY <1>1 DEF ToSet
    <3>2. i \in 1..(n + m) /\ u[i] = x
      BY <3>1, <1>1, <1>2
    <3> QED
      BY <3>2, <1>1 DEF ToSet
  <2>2. ASSUME NEW x \in ToSet(t) PROVE x \in ToSet(u)
    <3>1. PICK i \in 1..m : t[i] = x
      BY <1>1 DEF ToSet
    <3>2. n + i \in 1..(n + m) /\ u[n + i] = x
      BY <3>1, <1>1, <1>2
    <3> QED
      BY <3>2, <1>1 DEF ToSet
  <2>3. ASSUME NEW x \in ToSet(u) PROVE x \in ToSet(s) \cup ToSet(t)
    <3>1. PICK i \in 1..(n + m) : u[i] = x
      BY <1>1 DEF ToSet
    <3>2. CASE i \in 1..n
      BY <3>1, <3>2, <1>1, <1>2 DEF ToSet
    <3>3. CASE i \notin 1..n
      BY <3>1, <3>3, <1>1, <1>3 DEF ToSet
    <3> QED
      BY <3>2, <3>3
  <2> QED
    BY <2>1, <2>2, <2>3
<1>5. ASSUME IsInjective(s), IsInjective(t), ToSet(s) \cap ToSet(t) = {}
      PROVE  IsInjective(u)
  <2>1. \A i \in 1..n, j \in 1..m : s[i] # t[j]
    BY <1>1, <1>5 DEF ToSet
  <2>2. /\ \A i, j \in 1..n : s[i] = s[j] => i = j
        /\ \A i, j \in 1..m : t[i] = t[j] => i = j
    BY <1>1, <1>5 DEF IsInjective
  <2>3. ASSUME NEW i \in 1..(n + m), NEW j \in 1..(n + m), u[i] = u[j] PROVE i = j
    <3>1. CASE i \in 1..n /\ j \in 1..n
      BY <3>1, <2>2, <2>3, <1>2
    <3>2. CASE i \in 1..n /\ j \notin 1..n
      BY <3>2, <2>1, <2>3, <1>2, <1>3
    <3>3. CASE i \notin 1..n /\ j \in 1..n
      BY <3>3, <2>1, <2>3, <1>2, <1>3
    <3>4. CASE i \notin 1..n /\ j \notin 1..n
      <4>1. i - n = j - n
        BY <3>4, <2>2, <2>3, <1>3
      <4> QED
        BY <4>1, <1>1
    <3> QED
      BY <3>1, <3>2, <3>3, <3>4
  <2> QED
    BY <2>3, <1>1 DEF IsInjective
<1> QED
  BY <1>1, <1>4, <1>5 DEF u, n, m

LEMMA Popped ==
    ASSUME NEW A, NEW s \in Seq(A), s # <<>>
    PROVE  /\ Head(s) \in A /\ Tail(s) \in Seq(A) /\ Len(Tail(s)) = Len(s) - 1
           /\ ToSet(s) = {Head(s)} \cup ToSet(Tail(s))
           /\ IsInjective(s) => IsInjective(Tail(s)) /\ Head(s) \notin ToSet(Tail(s))
<1> DEFINE t == Tail(s)
           n == Len(s)
<1>1. /\ n \in Nat /\ n > 0 /\ DOMAIN s = 1..n /\ s[1] \in A /\ Head(s) = s[1]
      /\ t \in Seq(A) /\ Len(t) = n - 1 /\ DOMAIN t = 1..(n - 1)
      /\ \A i \in 1..(n - 1) : t[i] = s[i + 1]
  OBVIOUS
<1> HIDE DEF t, n
<1>2. ToSet(s) = {s[1]} \cup ToSet(t)
  <2>1. ASSUME NEW x \in ToSet(s) PROVE x \in {s[1]} \cup ToSet(t)
    <3>1. PICK i \in 1..n : s[i] = x
      BY <1>1 DEF ToSet
    <3>2. CASE i # 1
      <4>1. i - 1 \in 1..(n - 1) /\ t[i - 1] = s[i]
        BY <3>2, <1>1
      <4> QED
        BY <4>1, <3>1, <1>1 DEF ToSet
    <3> QED
      BY <3>1, <3>2
  <2>2. ASSUME NEW x \in ToSet(t) PROVE x \in ToSet(s)
    <3>1. PICK i \in 1..(n - 1) : t[i] = x
      BY <1>1 DEF ToSet
    <3>2. i + 1 \in 1..n /\ s[i + 1] = x
      BY <3>1, <1>1
    <3> QED
      BY <3>2, <1>1 DEF ToSet
  <2>3. s[1] \in ToSet(s)
    BY <1>1 DEF ToSet
  <2> QED
    BY <2>1, <2>2, <2>3
<1>3. ASSUME IsInjective(s) PROVE IsInjective(t) /\ s[1] \notin ToSet(t)
  <2>1. \A i, j \in 1..n : s[i] = s[j] => i = j
    BY <1>1, <1>3 DEF IsInjective
  <2>2. ASSUME NEW i \in 1..(n - 1), NEW j \in 1..(n - 1), t[i] = t[j] PROVE i = j
    <3>1. i + 1 \in 1..n /\ j + 1 \in 1..n /\ s[i + 1] = s[j + 1]
      BY <2>2, <1>1
    <3>2. i + 1 = j + 1
      BY <3>1, <2>1
    <3> QED
      BY <3>2
  <2>3. ASSUME NEW i \in 1..(n - 1) PROVE t[i] # s[1]
    <3>1. i + 1 \in 1..n /\ 1 \in 1..n /\ i + 1 # 1 /\ t[i] = s[i + 1]
      BY <1>1
    <3> QED
      BY <3>1, <2>1
  <2> QED
    BY <2>2, <2>3, <1>1 DEF IsInjective, ToSet
<1> QED
  BY <1>1, <1>2, <1>3 DEF t, n

(***************************************************************************)
(* Edges without repetition, over a set V of keys.                         *)
(***************************************************************************)
Joins(V, arcs) == arcs \in Seq(V \X V) /\ IsInjective(arcs)

LEMMA ArcFacts ==
    ASSUME NEW V, NEW arcs, Joins(V, arcs)
    PROVE  /\ Len(arcs) \in Nat /\ DOMAIN arcs = 1..Len(arcs)
           /\ IsFiniteSet(DOMAIN arcs) /\ Cardinality(DOMAIN arcs) = Len(arcs)
           /\ \A i \in DOMAIN arcs :
                /\ arcs[i] = <<arcs[i][1], arcs[i][2]>>
                /\ arcs[i] \in ToSet(arcs)
                /\ arcs[i][1] \in V /\ arcs[i][2] \in V
           /\ \A p, q : <<p, q>> \in ToSet(arcs) =>
                /\ p \in V /\ q \in V
                /\ \E i \in DOMAIN arcs : arcs[i][1] = p /\ arcs[i][2] = q
           /\ \A i, j \in DOMAIN arcs :
                arcs[i][1] = arcs[j][1] /\ arcs[i][2] = arcs[j][2] => i = j
<1>1. /\ Len(arcs) \in Nat /\ DOMAIN arcs = 1..Len(arcs)
      /\ \A i \in DOMAIN arcs : arcs[i] \in V \X V
  BY DEF Joins
<1>2. IsFiniteSet(DOMAIN arcs) /\ Cardinality(DOMAIN arcs) = Len(arcs)
  <2> DEFINE n == Len(arcs)
  <2>1. n \in Nat /\ DOMAIN arcs = 1..n
    BY <1>1
  <2> HIDE DEF n
  <2>2. IsFiniteSet(1..n) /\ Cardinality(1..n) = n
    BY <2>1, FS_Interval
  <2> QED
    BY <2>1, <2>2 DEF n
<1>3. \A i \in DOMAIN arcs :
        arcs[i] = <<arcs[i][1], arcs[i][2]>> /\ arcs[i][1] \in V /\ arcs[i][2] \in V
  BY <1>1
<1>4. \A i \in DOMAIN arcs : arcs[i] \in ToSet(arcs)
  BY DEF ToSet
<1>5. ASSUME NEW p, NEW q, <<p, q>> \in ToSet(arcs)
      PROVE  p \in V /\ q \in V /\ \E i \in DOMAIN arcs : arcs[i][1] = p /\ arcs[i][2] = q
  <2>1. PICK i \in DOMAIN arcs : arcs[i] = <<p, q>>
    BY <1>5 DEF ToSet
  <2>2. arcs[i][1] = p /\ arcs[i][2] = q
    BY <2>1
  <2> QED
    BY <2>2, <1>3
<1>6. ASSUME NEW i \in DOMAIN arcs, NEW j \in DOMAIN arcs,
             arcs[i][1] = arcs[j][1], arcs[i][2] = arcs[j][2]
      PROVE  i = j
  <2>1. arcs[i] = arcs[j]
    BY <1>3, <1>6
  <2> QED
    BY <2>1 DEF Joins, IsInjective
<1> QED
  BY <1>1, <1>2, <1>3, <1>4, <1>5, <1>6

(* The children of a key: each once, as many as there are edges out of it.  *)
Leaving(arcs, key) == {i \in DOMAIN arcs : arcs[i][1] = key}

LEMMA ChildrenFacts ==
    ASSUME NEW V, NEW arcs, Joins(V, arcs), NEW key
    PROVE  /\ Children(arcs, key) \in Seq(V)
           /\ IsInjective(Children(arcs, key))
           /\ \A v : v \in ToSet(Children(arcs, key)) <=> <<key, v>> \in ToSet(arcs)
           /\ Len(Children(arcs, key)) = Cardinality(Leaving(arcs, key))
<1> DEFINE ends == [i \in DOMAIN arcs |-> arcs[i][2]]
           P == {i \in DOMAIN arcs : arcs[i][1] = key}
<1>1. ends \in Seq(V) /\ P \in SUBSET (1..Len(ends))
  <2>1. ends \in [1..Len(arcs) -> V] /\ Len(arcs) \in Nat
    BY ArcFacts
  <2> QED
    BY <2>1, ArcFacts
<1>2. \A i, j \in P : ends[i] = ends[j] => i = j
  BY ArcFacts
<1>3. Children(arcs, key) = Picked(ends, P)
  BY DEF Children
<1>4. {ends[i] : i \in P} = {arcs[i][2] : i \in P}
  OBVIOUS
<1>5. ASSUME NEW v PROVE v \in {arcs[i][2] : i \in P} <=> <<key, v>> \in ToSet(arcs)
  <2>1. ASSUME NEW i \in P, arcs[i][2] = v PROVE <<key, v>> \in ToSet(arcs)
    BY <2>1, ArcFacts
  <2>2. ASSUME <<key, v>> \in ToSet(arcs) PROVE v \in {arcs[i][2] : i \in P}
    <3>1. PICK i \in DOMAIN arcs : arcs[i][1] = key /\ arcs[i][2] = v
      BY <2>2, ArcFacts
    <3> QED
      BY <3>1
  <2> QED
    BY <2>1, <2>2
<1> HIDE DEF ends, P
<1>6. /\ Picked(ends, P) \in Seq(V) /\ IsInjective(Picked(ends, P))
      /\ ToSet(Picked(ends, P)) = {ends[i] : i \in P}
      /\ Len(Picked(ends, P)) = Cardinality(P)
  BY <1>1, <1>2, PickedFacts
<1> QED
  BY <1>3, <1>4, <1>5, <1>6 DEF P, Leaving

LEMMA OnceOrNever ==
    ASSUME NEW A, NEW s \in Seq(A), IsInjective(s), NEW x
    PROVE  Cardinality({i \in DOMAIN s : s[i] = x}) = IF x \in ToSet(s) THEN 1 ELSE 0
<1>1. CASE x \in ToSet(s)
  <2>1. PICK i \in DOMAIN s : s[i] = x
    BY <1>1 DEF ToSet
  <2>2. {j \in DOMAIN s : s[j] = x} = {i}
    BY <2>1 DEF IsInjective
  <2> QED
    BY <1>1, <2>2, FS_Singleton
<1>2. CASE x \notin ToSet(s)
  <2>1. {j \in DOMAIN s : s[j] = x} = {}
    BY <1>2 DEF ToSet
  <2> QED
    BY <1>2, <2>1, FS_EmptySet
<1> QED
  BY <1>1, <1>2

(***************************************************************************)
(* Kahn's pass.  A key's in-degree counts the edges into it from keys that  *)
(* are not in the order yet; the keys without such edges are those in the   *)
(* order or in the queue, each once; no edge of the order points back.      *)
(***************************************************************************)
Waiting(arcs, order, k) ==
    {i \in DOMAIN arcs : arcs[i][2] = k /\ arcs[i][1] \notin ToSet(order)}

NoneTwice(s) ==
    /\ IsInjective(s.queue)
    /\ IsInjective(s.order)
    /\ ToSet(s.queue) \cap ToSet(s.order) = {}

DegreesCount(V, arcs, s) ==
    \A k \in V : s.degree[k] = Cardinality(Waiting(arcs, s.order, k))

ReadyAreQueued(V, s) ==
    \A k \in V : s.degree[k] = 0 <=> k \in ToSet(s.order) \cup ToSet(s.queue)

OrderPointsOn(arcs, order) ==
    \A j \in DOMAIN order, i \in DOMAIN arcs :
        arcs[i][2] = order[j] => \E m \in 1..(j - 1) : order[m] = arcs[i][1]

KahnStates(V, arcs) ==
    {s \in [degree : [V -> Int], queue : Seq(V), order : Seq(V)] :
        /\ NoneTwice(s)
        /\ DegreesCount(V, arcs, s)
        /\ ReadyAreQueued(V, s)
        /\ OrderPointsOn(arcs, s.order)}

LEMMA WaitingFacts ==
    ASSUME NEW V, NEW arcs, Joins(V, arcs), NEW order, NEW k
    PROVE  /\ IsFiniteSet(Waiting(arcs, order, k))
           /\ Cardinality(Waiting(arcs, order, k)) \in Nat
           /\ Cardinality(Waiting(arcs, order, k)) = 0 <=> Waiting(arcs, order, k) = {}
<1>1. Waiting(arcs, order, k) \in SUBSET (DOMAIN arcs) /\ IsFiniteSet(DOMAIN arcs)
  BY ArcFacts DEF Waiting
<1>2. IsFiniteSet(Waiting(arcs, order, k))
  BY <1>1, FS_Subset
<1> QED
  BY <1>2, FS_CardinalityType, FS_EmptySet

LEMMA KahnStartsRight ==
    ASSUME NEW V, NEW arcs, Joins(V, arcs), NEW keys \in Seq(V), ToSet(keys) = V, IsInjective(keys)
    PROVE  KahnStart(keys, arcs) \in KahnStates(V, arcs)
<1> DEFINE degree == [k \in V |-> Cardinality({i \in DOMAIN arcs : arcs[i][2] = k})]
           P == {i \in DOMAIN keys : degree[keys[i]] = 0}
           s == [degree |-> degree, queue |-> Picked(keys, P), order |-> <<>>]
<1>1. KahnStart(keys, arcs) = s
  BY DEF KahnStart
<1>2. \A k \in V : Waiting(arcs, <<>>, k) = {i \in DOMAIN arcs : arcs[i][2] = k}
  <2>1. ToSet(<<>>) = {}
    BY DEF ToSet
  <2> QED
    BY <2>1 DEF Waiting
<1>3. \A k \in V : degree[k] = Cardinality(Waiting(arcs, <<>>, k))
  BY <1>2
<1>4. degree \in [V -> Int]
  <2>1. ASSUME NEW k \in V PROVE Cardinality({i \in DOMAIN arcs : arcs[i][2] = k}) \in Int
    <3>1. Cardinality(Waiting(arcs, <<>>, k)) \in Nat
      BY WaitingFacts
    <3>2. Cardinality({i \in DOMAIN arcs : arcs[i][2] = k}) \in Nat
      BY <3>1, <1>2, Zenon
    <3> HIDE DEF degree, P, s
    <3> QED
      BY <3>2
  <2> QED
    BY <2>1
<1>5. P \in SUBSET (1..Len(keys))
  OBVIOUS
<1> HIDE DEF degree
<1>6. /\ Picked(keys, P) \in Seq(V) /\ ToSet(Picked(keys, P)) = {keys[i] : i \in P}
      /\ IsInjective(Picked(keys, P))
  <2>1. \A i, j \in P : keys[i] = keys[j] => i = j
    BY DEF IsInjective
  <2> HIDE DEF P
  <2> QED
    BY <1>5, <2>1, PickedFacts
<1>7. {keys[i] : i \in P} = {k \in V : degree[k] = 0}
  BY DEF ToSet
<1>8. ToSet(<<>>) = {} /\ IsInjective(<<>>) /\ <<>> \in Seq(V) /\ DOMAIN <<>> = {}
  BY DEF ToSet, IsInjective
<1> HIDE DEF P
<1>9. s \in [degree : [V -> Int], queue : Seq(V), order : Seq(V)]
  BY <1>4, <1>6, <1>8
<1>10. NoneTwice(s)
  BY <1>6, <1>8 DEF NoneTwice
<1>11. DegreesCount(V, arcs, s)
  BY <1>3 DEF DegreesCount
<1>12. ReadyAreQueued(V, s)
  BY <1>6, <1>7, <1>8 DEF ReadyAreQueued
<1>13. OrderPointsOn(arcs, s.order)
  BY <1>8 DEF OrderPointsOn
<1> QED
  BY <1>1, <1>9, <1>10, <1>11, <1>12, <1>13 DEF KahnStates

LEMMA KahnTurnsRight ==
    ASSUME NEW V, NEW arcs, Joins(V, arcs),
           NEW s \in KahnStates(V, arcs), s.queue # <<>>
    PROVE  /\ KahnTurn(arcs, s) \in KahnStates(V, arcs)
           /\ Len(KahnTurn(arcs, s).order) = Len(s.order) + 1
<1> DEFINE node == Head(s.queue)
           rest == Tail(s.queue)
           children == Children(arcs, node)
           lowered == [k \in DOMAIN s.degree |->
               s.degree[k] - Cardinality({i \in DOMAIN children : children[i] = k})]
           freed == {i \in DOMAIN children :
                       /\ lowered[children[i]] = 0
                       /\ \A j \in DOMAIN children : children[j] = children[i] => j <= i}
           new == Picked(children, freed)
           t == [degree |-> lowered, queue |-> rest \o new, order |-> Append(s.order, node)]
<1>1. KahnTurn(arcs, s) = t
  BY DEF KahnTurn
<1>2. /\ s \in [degree : [V -> Int], queue : Seq(V), order : Seq(V)]
      /\ NoneTwice(s) /\ DegreesCount(V, arcs, s) /\ ReadyAreQueued(V, s)
      /\ OrderPointsOn(arcs, s.order)
  BY DEF KahnStates
<1>3. /\ s.degree \in [V -> Int] /\ s.queue \in Seq(V) /\ s.order \in Seq(V)
      /\ IsInjective(s.queue) /\ IsInjective(s.order)
      /\ ToSet(s.queue) \cap ToSet(s.order) = {}
  BY <1>2 DEF NoneTwice
<1>4. /\ node \in V /\ rest \in Seq(V) /\ IsInjective(rest)
      /\ ToSet(s.queue) = {node} \cup ToSet(rest) /\ node \notin ToSet(rest)
  BY <1>3, Popped
<1>5. /\ children \in Seq(V) /\ IsInjective(children)
      /\ \A v : v \in ToSet(children) <=> <<node, v>> \in ToSet(arcs)
  BY ChildrenFacts
<1> HIDE DEF node, rest, children
<1>6. /\ Append(s.order, node) \in Seq(V)
      /\ Len(Append(s.order, node)) = Len(s.order) + 1
      /\ \A i \in 1..Len(s.order) : Append(s.order, node)[i] = s.order[i]
      /\ Append(s.order, node)[Len(s.order) + 1] = node
      /\ ToSet(Append(s.order, node)) = ToSet(s.order) \cup {node}
      /\ IsInjective(Append(s.order, node))
  <2>1. node \notin ToSet(s.order)
    BY <1>3, <1>4
  <2> QED
    BY <2>1, <1>3, <1>4, Appended, AppendedApart
<1> DEFINE order == Append(s.order, node)
<1> HIDE DEF order
<1>7. \A k \in V : s.degree[k] = Cardinality(Waiting(arcs, s.order, k))
  BY <1>2 DEF DegreesCount
<1>8. ASSUME NEW k \in V
      PROVE  /\ lowered[k] = Cardinality(Waiting(arcs, order, k))
             /\ lowered[k] = IF k \in ToSet(children) THEN s.degree[k] - 1 ELSE s.degree[k]
             /\ k \in ToSet(children) => s.degree[k] # 0
  <2>1. lowered[k] = IF k \in ToSet(children) THEN s.degree[k] - 1 ELSE s.degree[k]
    <3>1. Cardinality({i \in DOMAIN children : children[i] = k})
            = IF k \in ToSet(children) THEN 1 ELSE 0
      BY <1>5, OnceOrNever
    <3>2. k \in DOMAIN s.degree /\ s.degree[k] \in Int
      BY <1>3
    <3>3. lowered[k] = s.degree[k] - Cardinality({i \in DOMAIN children : children[i] = k})
      BY <3>2
    <3> HIDE DEF lowered
    <3> QED
      BY <3>1, <3>2, <3>3
  <2> HIDE DEF lowered
  <2>2. ToSet(order) = ToSet(s.order) \cup {node}
    BY <1>6 DEF order
  <2>3. CASE k \in ToSet(children)
    <3>1. PICK i \in DOMAIN arcs : arcs[i][1] = node /\ arcs[i][2] = k
      <4>1. <<node, k>> \in ToSet(arcs)
        BY <2>3, <1>5
      <4> QED
        BY <4>1, ArcFacts
    <3>2. i \in Waiting(arcs, s.order, k)
      BY <3>1, <1>3, <1>4 DEF Waiting
    <3>3. Waiting(arcs, order, k) = Waiting(arcs, s.order, k) \ {i}
      BY <3>1, <2>2, ArcFacts DEF Waiting
    <3>4. IsFiniteSet(Waiting(arcs, s.order, k))
      BY WaitingFacts
    <3>5. Cardinality(Waiting(arcs, order, k)) = Cardinality(Waiting(arcs, s.order, k)) - 1
      BY <3>2, <3>3, <3>4, FS_RemoveElement
    <3>6. Cardinality(Waiting(arcs, s.order, k)) # 0
      BY <3>2, WaitingFacts
    <3> QED
      BY <3>5, <3>6, <2>1, <2>3, <1>7
  <2>4. CASE k \notin ToSet(children)
    <3>1. Waiting(arcs, order, k) = Waiting(arcs, s.order, k)
      <4>1. ASSUME NEW i \in DOMAIN arcs, arcs[i][2] = k PROVE arcs[i][1] # node
        BY <4>1, <2>4, <1>5, ArcFacts
      <4> QED
        BY <4>1, <2>2 DEF Waiting
    <3> QED
      BY <3>1, <2>1, <2>4, <1>7
  <2> QED
    BY <2>1, <2>3, <2>4
<1>9. lowered \in [V -> Int]
  <2>1. ASSUME NEW k \in V
        PROVE  s.degree[k] - Cardinality({i \in DOMAIN children : children[i] = k}) \in Int
    <3>1. Cardinality({i \in DOMAIN children : children[i] = k})
            = IF k \in ToSet(children) THEN 1 ELSE 0
      BY <1>5, OnceOrNever
    <3>2. s.degree[k] \in Int
      BY <1>3
    <3> QED
      BY <3>1, <3>2
  <2>2. DOMAIN s.degree = V
    BY <1>3
  <2> QED
    BY <2>1, <2>2
<1>10. freed = {i \in DOMAIN children : lowered[children[i]] = 0}
  <2>1. \A i, j \in DOMAIN children : children[j] = children[i] => j <= i
    BY <1>5 DEF IsInjective
  <2> HIDE DEF lowered
  <2> QED
    BY <2>1
<1> HIDE DEF lowered, freed
<1>11. /\ new \in Seq(V) /\ IsInjective(new)
       /\ \A k : k \in ToSet(new) <=> k \in ToSet(children) /\ lowered[k] = 0
  <2>1. DOMAIN children = 1..Len(children) /\ freed \in SUBSET (1..Len(children))
    BY <1>5, <1>10
  <2>2. \A i, j \in freed : children[i] = children[j] => i = j
    BY <1>5, <1>10 DEF IsInjective
  <2>3. new \in Seq(V) /\ IsInjective(new) /\ ToSet(new) = {children[i] : i \in freed}
    BY <2>1, <2>2, <1>5, PickedFacts
  <2>4. \A k : k \in {children[i] : i \in freed} <=> k \in ToSet(children) /\ lowered[k] = 0
    BY <1>10 DEF ToSet
  <2> QED
    BY <2>3, <2>4
<1> HIDE DEF new
<1>12. \A k \in V : s.degree[k] = 0 <=> k \in ToSet(s.order) \cup ToSet(s.queue)
  BY <1>2 DEF ReadyAreQueued
<1>13. /\ ToSet(new) \subseteq V
       /\ ToSet(new) \cap (ToSet(s.order) \cup ToSet(s.queue)) = {}
  BY <1>8, <1>11, <1>12, ListFacts
<1>14. /\ rest \o new \in Seq(V) /\ IsInjective(rest \o new)
       /\ ToSet(rest \o new) = ToSet(rest) \cup ToSet(new)
  <2>1. ToSet(rest) \cap ToSet(new) = {}
    BY <1>4, <1>13
  <2> QED
    BY <2>1, <1>4, <1>11, Joined
<1>15. t.degree = lowered /\ t.queue = rest \o new /\ t.order = order
  BY DEF order
<1>16. t \in [degree : [V -> Int], queue : Seq(V), order : Seq(V)]
  BY <1>6, <1>9, <1>14
<1> HIDE DEF t
<1>17. NoneTwice(t)
  <2>1. ToSet(order) = ToSet(s.order) \cup {node} /\ IsInjective(order)
    BY <1>6 DEF order
  <2>2. ToSet(t.queue) \cap ToSet(t.order) = {}
    BY <2>1, <1>3, <1>4, <1>13, <1>14, <1>15
  <2> QED
    BY <2>1, <2>2, <1>14, <1>15 DEF NoneTwice
<1>18. DegreesCount(V, arcs, t)
  BY <1>8, <1>15 DEF DegreesCount
<1>19. ReadyAreQueued(V, t)
  <2>1. ToSet(t.order) \cup ToSet(t.queue) = ToSet(s.order) \cup ToSet(s.queue) \cup ToSet(new)
    BY <1>4, <1>6, <1>14, <1>15 DEF order
  <2>2. ASSUME NEW k \in V PROVE lowered[k] = 0 <=> s.degree[k] = 0 \/ k \in ToSet(new)
    <3>1. CASE k \in ToSet(children)
      BY <3>1, <1>8, <1>11
    <3>2. CASE k \notin ToSet(children)
      BY <3>2, <1>8, <1>11
    <3> QED
      BY <3>1, <3>2
  <2> QED
    BY <2>1, <2>2, <1>12, <1>15 DEF ReadyAreQueued
<1>20. OrderPointsOn(arcs, t.order)
  <2>1. Len(s.order) \in Nat /\ DOMAIN s.order = 1..Len(s.order)
    BY <1>3
  <2>2. DOMAIN order = 1..(Len(s.order) + 1)
    BY <1>6, <2>1 DEF order
  <2>3. ASSUME NEW j \in DOMAIN order, NEW i \in DOMAIN arcs, arcs[i][2] = order[j]
        PROVE  \E m \in 1..(j - 1) : order[m] = arcs[i][1]
    <3>1. CASE j \in DOMAIN s.order
      <4>1. s.order[j] = order[j]
        BY <3>1, <2>1, <1>6 DEF order
      <4>2. PICK m \in 1..(j - 1) : s.order[m] = arcs[i][1]
        BY <4>1, <3>1, <2>3, <1>2 DEF OrderPointsOn
      <4>3. m \in 1..Len(s.order)
        BY <2>1, <3>1
      <4>4. order[m] = s.order[m]
        BY <4>3, <1>6 DEF order
      <4> QED
        BY <4>2, <4>4
    <3>2. CASE j \notin DOMAIN s.order
      <4>1. j = Len(s.order) + 1 /\ order[j] = node
        BY <3>2, <2>1, <2>2, <1>6 DEF order
      <4>2. s.degree[node] = 0
        BY <1>4, <1>12
      <4>3. Waiting(arcs, s.order, node) = {}
        BY <4>2, <1>4, <1>7, WaitingFacts
      <4>4. arcs[i][1] \in ToSet(s.order)
        BY <4>1, <4>3, <2>3 DEF Waiting
      <4>5. PICK m \in 1..Len(s.order) : s.order[m] = arcs[i][1]
        BY <4>4, <1>3, ListFacts
      <4>6. order[m] = s.order[m] /\ m \in 1..(j - 1)
        BY <4>1, <2>1, <1>6 DEF order
      <4> QED
        BY <4>5, <4>6
    <3> QED
      BY <3>1, <3>2
  <2> QED
    BY <2>3, <1>15 DEF OrderPointsOn
<1>21. t \in KahnStates(V, arcs)
  BY <1>16, <1>17, <1>18, <1>19, <1>20 DEF KahnStates
<1> QED
  BY <1>1, <1>6, <1>15, <1>21 DEF order

(* The pass ends with an empty queue or with every key in the order.        *)
LEMMA KahnEnds ==
    ASSUME NEW V, NEW arcs, Joins(V, arcs), NEW keys \in Seq(V), ToSet(keys) = V, IsInjective(keys)
    PROVE  /\ Kahn(keys, arcs) \in KahnStates(V, arcs)
           /\ Kahn(keys, arcs).queue = <<>> \/ Len(Kahn(keys, arcs).order) = Len(keys)
<1> DEFINE n == Len(keys)
           T == KahnStates(V, arcs)
           step == [i \in 1..n |-> [s \in T |-> KahnTurn(arcs, s)]]
           state == CHOOSE g : g = [i \in 0..n |->
                        IF i = 0 THEN KahnStart(keys, arcs) ELSE KahnTurn(arcs, g[i - 1])]
<1>1. n \in Nat
  OBVIOUS
<1>2. Kahn(keys, arcs) = state[n]
  BY DEF Kahn
<1>3. KahnStart(keys, arcs) \in T
  BY KahnStartsRight
<1>4. \A s \in T : KahnTurn(arcs, s) \in T
  <2>1. ASSUME NEW s \in T, s.queue = <<>> PROVE KahnTurn(arcs, s) \in T
    BY <2>1 DEF KahnTurn
  <2>2. ASSUME NEW s \in T, s.queue # <<>> PROVE KahnTurn(arcs, s) \in T
    BY <2>2, KahnTurnsRight
  <2> QED
    BY <2>1, <2>2
<1> HIDE DEF T
<1>5. step \in [1..n -> [T -> T]] /\ \A i \in 1..n, s \in T : step[i][s] = KahnTurn(arcs, s)
  BY <1>4
<1> HIDE DEF step, n
<1>6. PICK f \in [0..n -> T] : IsLoop(f, n, KahnStart(keys, arcs), step)
  BY <1>1, <1>3, <1>5, LoopExists
<1>7. f = [i \in 0..n |-> IF i = 0 THEN KahnStart(keys, arcs) ELSE KahnTurn(arcs, f[i - 1])]
  <2>1. ASSUME NEW i \in 0..n
        PROVE  f[i] = IF i = 0 THEN KahnStart(keys, arcs) ELSE KahnTurn(arcs, f[i - 1])
    <3>1. CASE i = 0
      BY <3>1, <1>6 DEF IsLoop
    <3>2. CASE i # 0
      <4>1. i \in 1..n /\ i - 1 \in 0..n
        BY <1>1, <3>2
      <4>2. f[i] = step[i][f[i - 1]] /\ f[i - 1] \in T
        BY <4>1, <1>6 DEF IsLoop
      <4> QED
        BY <4>1, <4>2, <3>2, <1>5
    <3> QED
      BY <3>1, <3>2
  <2> QED
    BY <2>1
<1>8. state = [i \in 0..n |->
                 IF i = 0 THEN KahnStart(keys, arcs) ELSE KahnTurn(arcs, state[i - 1])]
  BY <1>7
<1> HIDE DEF state
<1> DEFINE S == {i \in 0..n : /\ state[i] \in T
                              /\ state[i].queue = <<>> \/ Len(state[i].order) = i}
<1>9. 0 \in S
  <2>1. 0 \in 0..n /\ state[0] = KahnStart(keys, arcs)
    BY <1>1, <1>8
  <2>2. KahnStart(keys, arcs).order = <<>>
    BY DEF KahnStart
  <2> QED
    BY <2>1, <2>2, <1>3
<1>10. ASSUME NEW i \in 1..n, i - 1 \in S PROVE i \in S
  <2>1. i \in 0..n /\ i # 0
    BY <1>1
  <2>2. state[i] = KahnTurn(arcs, state[i - 1])
    BY <2>1, <1>8
  <2>3. /\ state[i - 1] \in T
        /\ state[i - 1].queue = <<>> \/ Len(state[i - 1].order) = i - 1
    BY <1>10
  <2>4. CASE state[i - 1].queue = <<>>
    <3>1. state[i] = state[i - 1]
      BY <2>2, <2>4 DEF KahnTurn
    <3> QED
      BY <3>1, <2>1, <2>3, <2>4
  <2>5. CASE state[i - 1].queue # <<>>
    <3>1. state[i] \in T
      BY <2>2, <2>3, <1>4
    <3>2. Len(state[i].order) = Len(state[i - 1].order) + 1
      BY <2>2, <2>3, <2>5, KahnTurnsRight DEF T
    <3> QED
      BY <3>1, <3>2, <2>1, <2>3, <2>5
  <2> QED
    BY <2>4, <2>5
<1> HIDE DEF S
<1>11. 0..n \subseteq S
  BY <1>1, <1>9, <1>10, Induct
<1>12. n \in S
  BY <1>1, <1>11
<1>13. state[n] \in T /\ (state[n].queue = <<>> \/ Len(state[n].order) = n)
  BY <1>12 DEF S
<1> QED
  BY <1>2, <1>13 DEF T, n

(***************************************************************************)
(* Reachability over edges E between keys V, as Dag and MCGraphTopology      *)
(* define it: membership in every set that holds the children and is closed. *)
(***************************************************************************)
Closed(V, E, t, S) ==
    /\ \A c \in V : <<t, c>> \in E => c \in S
    /\ \A p, q \in V : <<p, q>> \in E /\ p \in S => q \in S

Reach(V, E, t, k) == \A S \in SUBSET V : Closed(V, E, t, S) => k \in S

LEMMA ReachFacts ==
    ASSUME NEW V, NEW E, NEW t \in V
    PROVE  /\ \A k \in V : <<t, k>> \in E => Reach(V, E, t, k)
           /\ \A p, k \in V : Reach(V, E, t, p) /\ <<p, k>> \in E => Reach(V, E, t, k)
           /\ \A p, k \in V : Reach(V, E, t, p) /\ Reach(V, E, p, k) => Reach(V, E, t, k)
<1>1. \A k \in V : <<t, k>> \in E => Reach(V, E, t, k)
  BY DEF Reach, Closed
<1>2. \A p, k \in V : Reach(V, E, t, p) /\ <<p, k>> \in E => Reach(V, E, t, k)
  BY DEF Reach, Closed
<1>3. ASSUME NEW p \in V, NEW k \in V, Reach(V, E, t, p), Reach(V, E, p, k)
      PROVE  Reach(V, E, t, k)
  <2>1. ASSUME NEW S \in SUBSET V, Closed(V, E, t, S) PROVE k \in S
    <3>1. p \in S
      BY <2>1, <1>3 DEF Reach
    <3>2. Closed(V, E, p, S)
      BY <2>1, <3>1 DEF Closed
    <3> QED
      BY <3>2, <1>3 DEF Reach
  <2> QED
    BY <2>1 DEF Reach
<1> QED
  BY <1>1, <1>2, <1>3

(* Keys that each have a parent among them, if they are finitely many, hold *)
(* one that lies below itself: the one with the fewest keys above it would  *)
(* have a parent with fewer.                                               *)
LEMMA ParentsWithoutEndCycle ==
    ASSUME NEW V, IsFiniteSet(V), NEW E, NEW R \in SUBSET V, R # {},
           \A k \in R : \E p \in R : <<p, k>> \in E
    PROVE  \E k \in V : Reach(V, E, k, k)
<1> DEFINE Above(k) == {p \in V : Reach(V, E, p, k)}
<1> SUFFICES ASSUME \A k \in V : ~Reach(V, E, k, k) PROVE FALSE
  OBVIOUS
<1>1. ASSUME NEW k \in V PROVE IsFiniteSet(Above(k)) /\ Cardinality(Above(k)) \in Nat
  <2>1. Above(k) \in SUBSET V
    OBVIOUS
  <2> HIDE DEF Above
  <2>2. IsFiniteSet(Above(k))
    BY <2>1, FS_Subset
  <2> QED
    BY <2>2, FS_CardinalityType
<1> DEFINE Counts == {Cardinality(Above(k)) : k \in R}
<1>2. Counts \in SUBSET Nat /\ Counts # {}
  <2> HIDE DEF Above
  <2> QED
    BY <1>1
<1>3. PICK n \in Counts : \A m \in Counts : n <= m
  <2> HIDE DEF Counts
  <2> QED
    BY <1>2, Least
<1>4. PICK k \in R : n = Cardinality(Above(k))
  <2> HIDE DEF Above
  <2> QED
    BY <1>3
<1>5. PICK p \in R : <<p, k>> \in E
  OBVIOUS
<1>6. p \in V /\ k \in V
  OBVIOUS
<1>7. Above(p) \in SUBSET Above(k) /\ p \in Above(k) /\ p \notin Above(p)
  BY <1>5, <1>6, ReachFacts
<1>8. Cardinality(Above(p)) \in Counts
  OBVIOUS
<1> HIDE DEF Above
<1>9. n <= Cardinality(Above(p))
  BY <1>3, <1>8
<1>10. Cardinality(Above(p)) <= Cardinality(Above(k)) /\ Cardinality(Above(k)) # Cardinality(Above(p))
  BY <1>1, <1>6, <1>7, FS_Subset
<1> QED
  BY <1>1, <1>4, <1>6, <1>9, <1>10

(***************************************************************************)
(* The pass takes every key exactly when no key lies below itself.         *)
(***************************************************************************)
LEMMA OrderIsAcyclic ==
    ASSUME NEW V, NEW arcs, Joins(V, arcs),
           NEW order \in Seq(V), IsInjective(order), ToSet(order) = V, OrderPointsOn(arcs, order)
    PROVE  /\ \A k \in V : ~Reach(V, ToSet(arcs), k, k)
           /\ \A a, b \in DOMAIN order : <<order[a], order[b]>> \in ToSet(arcs) => a < b
<1> DEFINE n == Len(order)
<1>1. n \in Nat /\ DOMAIN order = 1..n /\ \A a \in 1..n : order[a] \in V
  OBVIOUS
<1> HIDE DEF n
<1>2. \A a, b \in 1..n : order[a] = order[b] => a = b
  BY <1>1 DEF IsInjective
<1>3. \A k \in V : \E a \in 1..n : order[a] = k
  BY <1>1 DEF ToSet
<1>4. ASSUME NEW a \in 1..n, NEW b \in 1..n, <<order[a], order[b]>> \in ToSet(arcs) PROVE a < b
  <2>1. PICK i \in DOMAIN arcs : arcs[i][1] = order[a] /\ arcs[i][2] = order[b]
    BY <1>4, ArcFacts
  <2>2. PICK m \in 1..(b - 1) : order[m] = order[a]
    BY <2>1, <1>1 DEF OrderPointsOn
  <2>3. m \in 1..n
    BY <1>1
  <2>4. m = a
    BY <2>2, <2>3, <1>2
  <2> QED
    BY <2>4, <1>1
<1>5. ASSUME NEW k \in V PROVE ~Reach(V, ToSet(arcs), k, k)
  <2>1. PICK j \in 1..n : order[j] = k
    BY <1>3
  <2> DEFINE S == {order[m] : m \in (j + 1)..n}
  <2>2. S \in SUBSET V
    BY <1>1
  <2>3. k \notin S
    <3>1. \A m \in (j + 1)..n : m \in 1..n /\ m # j
      BY <1>1
    <3> QED
      BY <3>1, <2>1, <1>2
  <2>4. ASSUME NEW c \in V, <<k, c>> \in ToSet(arcs) PROVE c \in S
    <3>1. PICK b \in 1..n : order[b] = c
      BY <1>3
    <3>2. j < b
      BY <3>1, <2>1, <2>4, <1>4
    <3>3. b \in (j + 1)..n
      BY <3>2, <1>1
    <3> QED
      BY <3>1, <3>3
  <2>5. ASSUME NEW p \in V, NEW q \in V, <<p, q>> \in ToSet(arcs), p \in S PROVE q \in S
    <3>1. PICK a \in (j + 1)..n : order[a] = p
      BY <2>5
    <3>2. PICK b \in 1..n : order[b] = q
      BY <1>3
    <3>3. a \in 1..n
      BY <1>1
    <3>4. a < b
      BY <3>1, <3>2, <3>3, <2>5, <1>4
    <3>5. b \in (j + 1)..n
      BY <3>4, <1>1
    <3> QED
      BY <3>2, <3>5
  <2> HIDE DEF S
  <2>6. Closed(V, ToSet(arcs), k, S)
    BY <2>4, <2>5 DEF Closed
  <2> QED
    BY <2>2, <2>3, <2>6 DEF Reach
<1> QED
  BY <1>1, <1>4, <1>5

LEMMA InjectiveCount ==
    ASSUME NEW A, NEW s \in Seq(A), IsInjective(s)
    PROVE  IsFiniteSet(ToSet(s)) /\ Cardinality(ToSet(s)) = Len(s)
<1> DEFINE n == Len(s)
<1>1. n \in Nat /\ DOMAIN s = 1..n /\ s \in [1..n -> ToSet(s)]
  BY DEF ToSet
<1> HIDE DEF n
<1>2. IsFiniteSet(1..n) /\ Cardinality(1..n) = n
  BY <1>1, FS_Interval
<1>3. s \in Bijection(1..n, ToSet(s))
  <2>1. \A a, b \in 1..n : s[a] = s[b] => a = b
    BY <1>1 DEF IsInjective
  <2>2. \A x \in ToSet(s) : \E a \in 1..n : s[a] = x
    BY <1>1 DEF ToSet
  <2> QED
    BY <2>1, <2>2, <1>1 DEF Bijection, Injection, Surjection, IsInjective
<1>4. ExistsBijection(1..n, ToSet(s))
  BY <1>3 DEF ExistsBijection
<1> QED
  BY <1>2, <1>4, FS_Bijection DEF n

LEMMA KahnTakesAll ==
    ASSUME NEW V, NEW arcs, Joins(V, arcs), NEW keys \in Seq(V), ToSet(keys) = V, IsInjective(keys)
    PROVE  LET order == Kahn(keys, arcs).order
           IN  /\ Len(order) = Len(keys) <=> \A k \in V : ~Reach(V, ToSet(arcs), k, k)
               /\ Len(order) = Len(keys) =>
                    /\ order \in Seq(V) /\ ToSet(order) = V /\ IsInjective(order)
                    /\ \A a, b \in DOMAIN order : <<order[a], order[b]>> \in ToSet(arcs) => a < b
<1> DEFINE s == Kahn(keys, arcs)
<1>1. s \in KahnStates(V, arcs) /\ (s.queue = <<>> \/ Len(s.order) = Len(keys))
  BY KahnEnds
<1> HIDE DEF s
<1>2. /\ s.order \in Seq(V) /\ IsInjective(s.order) /\ OrderPointsOn(arcs, s.order)
      /\ \A k \in V : s.degree[k] = Cardinality(Waiting(arcs, s.order, k))
      /\ \A k \in V : s.degree[k] = 0 <=> k \in ToSet(s.order) \cup ToSet(s.queue)
  BY <1>1 DEF KahnStates, NoneTwice, DegreesCount, ReadyAreQueued
<1>3. IsFiniteSet(V) /\ Cardinality(V) = Len(keys)
  BY InjectiveCount
<1>4. ToSet(s.order) \in SUBSET V /\ Cardinality(ToSet(s.order)) = Len(s.order)
  BY <1>2, InjectiveCount, ListFacts
<1>5. ASSUME Len(s.order) = Len(keys) PROVE ToSet(s.order) = V
  BY <1>3, <1>4, <1>5, FS_Subset
<1>6. ASSUME Len(s.order) = Len(keys)
      PROVE  /\ \A k \in V : ~Reach(V, ToSet(arcs), k, k)
             /\ \A a, b \in DOMAIN s.order : <<s.order[a], s.order[b]>> \in ToSet(arcs) => a < b
  BY <1>2, <1>5, <1>6, OrderIsAcyclic
<1>7. ASSUME Len(s.order) # Len(keys) PROVE \E k \in V : Reach(V, ToSet(arcs), k, k)
  <2> DEFINE R == V \ ToSet(s.order)
  <2>1. R \in SUBSET V /\ R # {}
    <3>1. ToSet(s.order) # V
      BY <1>3, <1>4, <1>7
    <3> QED
      BY <3>1, <1>4
  <2>2. ASSUME NEW k \in R PROVE \E p \in R : <<p, k>> \in ToSet(arcs)
    <3>1. ToSet(s.queue) = {}
      BY <1>1, <1>7 DEF ToSet
    <3>2. Cardinality(Waiting(arcs, s.order, k)) # 0
      BY <3>1, <1>2
    <3>3. PICK i \in Waiting(arcs, s.order, k) : TRUE
      BY <3>2, WaitingFacts
    <3>4. i \in DOMAIN arcs /\ arcs[i][2] = k /\ arcs[i][1] \notin ToSet(s.order)
      BY <3>3 DEF Waiting
    <3>5. arcs[i][1] \in V /\ <<arcs[i][1], k>> \in ToSet(arcs)
      BY <3>4, ArcFacts
    <3> QED
      BY <3>4, <3>5
  <2> HIDE DEF R
  <2> QED
    BY <2>1, <2>2, <1>3, ParentsWithoutEndCycle
<1> QED
  BY <1>2, <1>5, <1>6, <1>7 DEF s

(***************************************************************************)
(* The checks before the pass: no edge fails them exactly when the edges    *)
(* join keys, without repetition and without loops on one key.             *)
(***************************************************************************)
LEMMA EdgeChecks ==
    ASSUME NEW B, NEW keys, NEW arcs \in Seq(B \X B)
    PROVE  (\A i \in DOMAIN arcs : EdgeFault(keys, arcs, i) = "none")
             <=> /\ Joins(ToSet(keys), arcs)
                 /\ \A i \in DOMAIN arcs : arcs[i][1] # arcs[i][2]
<1> DEFINE V == ToSet(keys)
           n == Len(arcs)
           Fine(i) == /\ arcs[i][1] \in V /\ arcs[i][2] \in V /\ arcs[i][1] # arcs[i][2]
                      /\ ~ \E j \in 1..(i - 1) : arcs[j] = arcs[i]
<1>1. /\ n \in Nat /\ DOMAIN arcs = 1..n /\ arcs \in [1..n -> B \X B]
      /\ \A i \in 1..n : arcs[i] \in B \X B /\ arcs[i] = <<arcs[i][1], arcs[i][2]>>
  OBVIOUS
<1>2. ASSUME NEW i \in DOMAIN arcs PROVE EdgeFault(keys, arcs, i) = "none" <=> Fine(i)
  BY DEF EdgeFault
<1>3. ASSUME \A i \in DOMAIN arcs : Fine(i)
      PROVE  Joins(V, arcs) /\ \A i \in DOMAIN arcs : arcs[i][1] # arcs[i][2]
  <2>1. \A i \in 1..n : arcs[i] \in V \X V
    BY <1>1, <1>3
  <2>2. arcs \in Seq(V \X V)
    BY <2>1, <1>1
  <2>3. ASSUME NEW i \in 1..n, NEW j \in 1..n, arcs[i] = arcs[j] PROVE i = j
    <3>1. ~(i < j)
      <4>1. ASSUME i < j PROVE FALSE
        <5>1. i \in 1..(j - 1)
          BY <4>1, <1>1
        <5> QED
          BY <5>1, <2>3, <1>1, <1>3
      <4> QED
        BY <4>1
    <3>2. ~(j < i)
      <4>1. ASSUME j < i PROVE FALSE
        <5>1. j \in 1..(i - 1)
          BY <4>1, <1>1
        <5> QED
          BY <5>1, <2>3, <1>1, <1>3
      <4> QED
        BY <4>1
    <3> QED
      BY <3>1, <3>2, <1>1
  <2> QED
    BY <2>2, <2>3, <1>1, <1>3 DEF Joins, IsInjective
<1>4. ASSUME Joins(V, arcs), \A i \in DOMAIN arcs : arcs[i][1] # arcs[i][2], NEW i \in DOMAIN arcs
      PROVE  Fine(i)
  <2>1. arcs[i][1] \in V /\ arcs[i][2] \in V
    BY <1>4, ArcFacts
  <2>2. ASSUME NEW j \in 1..(i - 1), arcs[j] = arcs[i] PROVE FALSE
    <3>1. j \in DOMAIN arcs /\ j # i
      BY <1>1
    <3> QED
      BY <3>1, <2>2, <1>4 DEF Joins, IsInjective
  <2> QED
    BY <2>1, <2>2, <1>4
<1> HIDE DEF Fine
<1> QED
  BY <1>2, <1>3, <1>4

LEMMA GateChecks ==
    ASSUME NEW B, NEW A, NEW keys \in Seq(A), NEW arcs \in Seq(B \X B)
    PROVE  GraphFault(keys, arcs) = "none" <=>
             /\ IsInjective(keys)
             /\ Joins(ToSet(keys), arcs)
             /\ \A i \in DOMAIN arcs : arcs[i][1] # arcs[i][2]
             /\ Len(Kahn(keys, arcs).order) = Len(keys)
<1> DEFINE bad == {i \in DOMAIN arcs : EdgeFault(keys, arcs, i) # "none"}
           first == CHOOSE i \in bad : \A j \in bad : i <= j
           full == Len(Kahn(keys, arcs).order) = Len(keys)
<1>1. GraphFault(keys, arcs) =
        CASE ~IsInjective(keys) -> "duplicate node_key"
          [] IsInjective(keys) /\ bad # {} -> EdgeFault(keys, arcs, first)
          [] IsInjective(keys) /\ bad = {} /\ ~full -> "cycle"
          [] OTHER -> "none"
  BY DEF GraphFault
<1>2. bad # {} => first \in bad
  <2>1. bad \in SUBSET Nat
    <3>1. DOMAIN arcs = 1..Len(arcs) /\ Len(arcs) \in Nat
      OBVIOUS
    <3> QED
      BY <3>1
  <2> HIDE DEF bad
  <2> QED
    BY <2>1, Least
<1>3. bad # {} => EdgeFault(keys, arcs, first) # "none"
  <2> HIDE DEF first
  <2> QED
    BY <1>2
<1>4. bad = {} <=> \A i \in DOMAIN arcs : EdgeFault(keys, arcs, i) = "none"
  OBVIOUS
<1> HIDE DEF bad, first, full
<1>5. GraphFault(keys, arcs) = "none" <=> IsInjective(keys) /\ bad = {} /\ full
  BY <1>1, <1>3
<1>6. bad = {} <=> Joins(ToSet(keys), arcs) /\ \A i \in DOMAIN arcs : arcs[i][1] # arcs[i][2]
  BY <1>4, EdgeChecks
<1> QED
  BY <1>5, <1>6 DEF full

(***************************************************************************)
(* The gate.                                                               *)
(***************************************************************************)
Ends == KeySet \cup {Stranger}
EdgesTyped == edges \in Seq(Ends \X Ends)

LEMMA EdgesStayTyped == Spec => []EdgesTyped
<1>1. Init => EdgesTyped
  BY DEF Init, EdgesTyped
<1>2. EdgesTyped /\ [AddEdge]_edges => EdgesTyped'
  <2> SUFFICES ASSUME EdgesTyped, [AddEdge]_edges PROVE EdgesTyped'
    OBVIOUS
  <2>1. ASSUME NEW src \in Ends, NEW dst \in Ends, edges' = Append(edges, <<src, dst>>)
        PROVE  EdgesTyped'
    BY <2>1 DEF EdgesTyped
  <2> QED
    BY <2>1 DEF AddEdge, EdgesTyped, Ends
<1> QED
  BY <1>1, <1>2, PTL DEF Spec

LEMMA KeySetFacts == Keys \in Seq(KeySet) /\ KeySet = ToSet(Keys)
  BY KeysAssumption DEF KeySet, ToSet

LEMMA EdgeSetFacts ==
    ASSUME EdgesTyped
    PROVE  /\ EdgeSet = ToSet(edges)
           /\ Joins(KeySet, edges) <=>
                /\ \A e \in EdgeSet : e[1] \in KeySet /\ e[2] \in KeySet
                /\ \A i, j \in DOMAIN edges : edges[i] = edges[j] => i = j
<1>1. EdgeSet = ToSet(edges)
  BY DEF EdgeSet, ToSet
<1>2. ASSUME Joins(KeySet, edges)
      PROVE  /\ \A e \in EdgeSet : e[1] \in KeySet /\ e[2] \in KeySet
             /\ \A i, j \in DOMAIN edges : edges[i] = edges[j] => i = j
  <2>1. \A i \in DOMAIN edges : edges[i][1] \in KeySet /\ edges[i][2] \in KeySet
    BY <1>2, ArcFacts
  <2> QED
    BY <2>1, <1>2 DEF EdgeSet, Joins, IsInjective
<1>3. ASSUME \A e \in EdgeSet : e[1] \in KeySet /\ e[2] \in KeySet,
             \A i, j \in DOMAIN edges : edges[i] = edges[j] => i = j
      PROVE  Joins(KeySet, edges)
  <2>1. /\ Len(edges) \in Nat /\ DOMAIN edges = 1..Len(edges)
        /\ edges \in [1..Len(edges) -> Ends \X Ends]
        /\ \A i \in 1..Len(edges) : edges[i] = <<edges[i][1], edges[i][2]>>
    BY DEF EdgesTyped
  <2>2. \A i \in 1..Len(edges) : edges[i] \in KeySet \X KeySet
    BY <2>1, <1>3 DEF EdgeSet
  <2>3. edges \in Seq(KeySet \X KeySet)
    BY <2>1, <2>2
  <2> QED
    BY <2>3, <1>3 DEF Joins, IsInjective
<1> QED
  BY <1>1, <1>2, <1>3

LEMMA ReachesIsReach ==
    ASSUME EdgesTyped, Joins(KeySet, edges), NEW t \in KeySet, NEW k \in KeySet
    PROVE  Reaches(t, k) <=> Reach(KeySet, ToSet(edges), t, k)
<1>1. ASSUME NEW S \in SUBSET KeySet
      PROVE  Closed(KeySet, ToSet(edges), t, S) <=>
               /\ \A e \in EdgeSet : e[1] = t => e[2] \in S
               /\ \A e \in EdgeSet : e[1] \in S => e[2] \in S
  <2>1. \A e \in EdgeSet : e = <<e[1], e[2]>> /\ e[1] \in KeySet /\ e[2] \in KeySet
    <3>1. \A i \in DOMAIN edges : /\ edges[i] = <<edges[i][1], edges[i][2]>>
                                  /\ edges[i][1] \in KeySet /\ edges[i][2] \in KeySet
      BY ArcFacts
    <3> QED
      BY <3>1 DEF EdgeSet
  <2>2. EdgeSet = ToSet(edges)
    BY EdgeSetFacts
  <2>3. ASSUME Closed(KeySet, EdgeSet, t, S), NEW e \in EdgeSet
        PROVE  (e[1] = t => e[2] \in S) /\ (e[1] \in S => e[2] \in S)
    BY <2>1, <2>3 DEF Closed
  <2>4. ASSUME \A e \in EdgeSet : e[1] = t => e[2] \in S,
               \A e \in EdgeSet : e[1] \in S => e[2] \in S
        PROVE  Closed(KeySet, EdgeSet, t, S)
    <3>1. ASSUME NEW p, NEW q, <<p, q>> \in EdgeSet PROVE (p = t \/ p \in S) => q \in S
      <4> DEFINE e == <<p, q>>
      <4>1. e[1] = p /\ e[2] = q /\ e \in EdgeSet
        BY <3>1
      <4> HIDE DEF e
      <4> QED
        BY <4>1, <2>4
    <3> QED
      BY <3>1 DEF Closed
  <2> QED
    BY <2>2, <2>3, <2>4
<1> QED
  BY <1>1 DEF Reaches, Reach

LEMMA GateIsRight ==
    ASSUME EdgesTyped
    PROVE  GateAdmitsExactlyDags
<1>1. Keys \in Seq(KeySet) /\ KeySet = ToSet(Keys)
  BY KeySetFacts
<1>2. GraphFault(Keys, edges) = "none" <=>
        /\ IsInjective(Keys)
        /\ Joins(KeySet, edges)
        /\ \A i \in DOMAIN edges : edges[i][1] # edges[i][2]
        /\ Len(Kahn(Keys, edges).order) = Len(Keys)
  BY <1>1, GateChecks DEF EdgesTyped
<1>3. IsDag <=> /\ IsInjective(Keys)
                /\ Joins(KeySet, edges)
                /\ \A k \in KeySet : ~Reaches(k, k)
  BY EdgeSetFacts DEF IsDag, IsInjective
<1>4. ASSUME IsInjective(Keys), Joins(KeySet, edges)
      PROVE  /\ Len(Kahn(Keys, edges).order) = Len(Keys) <=> \A k \in KeySet : ~Reaches(k, k)
             /\ (\A k \in KeySet : ~Reaches(k, k)) => \A i \in DOMAIN edges : edges[i][1] # edges[i][2]
  <2>1. \A k \in KeySet : Reaches(k, k) <=> Reach(KeySet, ToSet(edges), k, k)
    BY <1>4, ReachesIsReach
  <2>2. Len(Kahn(Keys, edges).order) = Len(Keys)
          <=> \A k \in KeySet : ~Reach(KeySet, ToSet(edges), k, k)
    BY <1>1, <1>4, KahnTakesAll
  <2>3. ASSUME NEW i \in DOMAIN edges, edges[i][1] = edges[i][2]
        PROVE  \E k \in KeySet : Reach(KeySet, ToSet(edges), k, k)
    <3>1. edges[i][1] \in KeySet /\ <<edges[i][1], edges[i][1]>> \in ToSet(edges)
      BY <2>3, <1>4, ArcFacts
    <3> QED
      BY <3>1, ReachFacts
  <2> QED
    BY <2>1, <2>2, <2>3
<1> QED
  BY <1>2, <1>3, <1>4 DEF GateAdmitsExactlyDags

(* However long the list of edges, and whatever the keys: the gate lets it   *)
(* through exactly when keys are unique, edges join them and are no two the  *)
(* same, and no key lies below itself (assert_valid_graph).                *)
THEOREM GateAdmitsDags == Spec => []GateAdmitsExactlyDags
<1>1. EdgesTyped => GateAdmitsExactlyDags
  BY GateIsRight
<1> QED
  BY <1>1, EdgesStayTyped, PTL

(***************************************************************************)
(* The walk of descendants.  What it has seen or put on the stack lies below *)
(* the target; the children of the target and of every key seen are seen or  *)
(* on the stack.  Every turn uses up one entry of the stack or one edge out   *)
(* of a key not seen before.                                               *)
(***************************************************************************)
LEMMA Dropped ==
    ASSUME NEW A, NEW s \in Seq(A), s # <<>>
    PROVE  /\ Last(s) \in A /\ Front(s) \in Seq(A) /\ Len(Front(s)) = Len(s) - 1
           /\ ToSet(s) = ToSet(Front(s)) \cup {Last(s)}
<1> DEFINE t == Front(s)
           n == Len(s)
<1>1. /\ n \in Nat /\ n > 0 /\ DOMAIN s = 1..n /\ Last(s) = s[n] /\ s[n] \in A
  BY DEF Last
<1>2. t \in Seq(A) /\ Len(t) = n - 1 /\ DOMAIN t = 1..(n - 1) /\ \A i \in 1..(n - 1) : t[i] = s[i]
  BY <1>1 DEF Front
<1> HIDE DEF t, n
<1>3. ASSUME NEW x PROVE x \in ToSet(s) <=> x \in ToSet(t) \/ x = s[n]
  <2>1. (\E i \in 1..n : s[i] = x) <=> (\E i \in 1..(n - 1) : t[i] = x) \/ x = s[n]
    <3>1. \A i \in 1..n : i \in 1..(n - 1) \/ i = n
      BY <1>1
    <3>2. \A i \in 1..(n - 1) : i \in 1..n
      BY <1>1
    <3>3. n \in 1..n
      BY <1>1
    <3> QED
      BY <3>1, <3>2, <3>3, <1>2
  <2> QED
    BY <2>1, <1>1, <1>2 DEF ToSet
<1> QED
  BY <1>1, <1>2, <1>3 DEF t, n

Unseen(arcs, seen) == {i \in DOMAIN arcs : arcs[i][1] \notin seen}

Toil(arcs, s) == Len(s.stack) + Cardinality(Unseen(arcs, s.seen))

WalkStates(V, arcs, t) ==
    {s \in [seen : SUBSET V, stack : Seq(V)] :
        LET met == s.seen \cup ToSet(s.stack)
        IN  /\ \A k \in met : Reach(V, ToSet(arcs), t, k)
            /\ \A p, q \in V : <<p, q>> \in ToSet(arcs) /\ (p = t \/ p \in s.seen) => q \in met}

LEMMA UnseenFacts ==
    ASSUME NEW V, NEW arcs, Joins(V, arcs), NEW seen
    PROVE  /\ IsFiniteSet(Unseen(arcs, seen))
           /\ Cardinality(Unseen(arcs, seen)) \in Nat
           /\ Cardinality(Unseen(arcs, seen)) <= Len(arcs)
<1>1. Unseen(arcs, seen) \in SUBSET (DOMAIN arcs) /\ IsFiniteSet(DOMAIN arcs)
  BY ArcFacts DEF Unseen
<1>3. Cardinality(DOMAIN arcs) = Len(arcs)
  BY ArcFacts
<1>4. IsFiniteSet(Unseen(arcs, seen)) /\ Cardinality(Unseen(arcs, seen)) <= Len(arcs)
  BY <1>1, <1>3, FS_Subset
<1> QED
  BY <1>4, FS_CardinalityType

LEMMA WalkStarts ==
    ASSUME NEW V, NEW arcs, Joins(V, arcs), NEW t \in V
    PROVE  /\ [seen |-> {}, stack |-> Children(arcs, t)] \in WalkStates(V, arcs, t)
           /\ Toil(arcs, [seen |-> {}, stack |-> Children(arcs, t)]) <= 2 * Len(arcs)
<1> DEFINE c == Children(arcs, t)
           out == Leaving(arcs, t)
           s == [seen |-> {}, stack |-> c]
<1>1. /\ c \in Seq(V) /\ Len(c) = Cardinality(out)
      /\ \A v : v \in ToSet(c) <=> <<t, v>> \in ToSet(arcs)
  BY ChildrenFacts
<1>2. Cardinality(out) <= Len(arcs)
  <2>1. out \in SUBSET (DOMAIN arcs) /\ IsFiniteSet(DOMAIN arcs)
    BY ArcFacts DEF Leaving
  <2>2. Cardinality(DOMAIN arcs) = Len(arcs)
    BY ArcFacts
  <2> HIDE DEF out
  <2> QED
    BY <2>1, <2>2, FS_Subset
<1> HIDE DEF c, out
<1>3. s \in [seen : SUBSET V, stack : Seq(V)] /\ s.seen = {} /\ s.stack = c
  BY <1>1
<1> HIDE DEF s
<1>4. \A k \in ToSet(c) : Reach(V, ToSet(arcs), t, k)
  <2>1. ToSet(c) \subseteq V
    BY <1>1, ListFacts
  <2> QED
    BY <2>1, <1>1, ReachFacts
<1>5. s \in WalkStates(V, arcs, t)
  BY <1>1, <1>3, <1>4 DEF WalkStates
<1>6. Toil(arcs, s) <= 2 * Len(arcs)
  <2>1. Cardinality(Unseen(arcs, {})) \in Nat /\ Cardinality(Unseen(arcs, {})) <= Len(arcs)
    BY UnseenFacts
  <2>2. Len(c) \in Nat /\ Len(arcs) \in Nat /\ Len(c) <= Len(arcs)
    BY <1>1, <1>2, ArcFacts
  <2>3. Toil(arcs, s) = Len(c) + Cardinality(Unseen(arcs, {}))
    BY <1>3 DEF Toil
  <2> QED
    BY <2>1, <2>2, <2>3
<1> QED
  BY <1>5, <1>6 DEF s, c

LEMMA WalkTurns ==
    ASSUME NEW V, NEW arcs, Joins(V, arcs), NEW t \in V,
           NEW s \in WalkStates(V, arcs, t), s.stack # <<>>
    PROVE  /\ WalkTurn(arcs, s) \in WalkStates(V, arcs, t)
           /\ Toil(arcs, WalkTurn(arcs, s)) = Toil(arcs, s) - 1
<1> DEFINE node == Last(s.stack)
           rest == Front(s.stack)
           E == ToSet(arcs)
<1>1. /\ s \in [seen : SUBSET V, stack : Seq(V)]
      /\ \A k \in s.seen \cup ToSet(s.stack) : Reach(V, E, t, k)
      /\ \A p, q \in V : <<p, q>> \in E /\ (p = t \/ p \in s.seen)
                           => q \in s.seen \cup ToSet(s.stack)
  BY DEF WalkStates
<1>2. /\ node \in V /\ rest \in Seq(V) /\ Len(rest) = Len(s.stack) - 1
      /\ ToSet(s.stack) = ToSet(rest) \cup {node}
  BY <1>1, Dropped
<1>3. Len(s.stack) \in Nat /\ Len(rest) \in Nat /\ Cardinality(Unseen(arcs, s.seen)) \in Nat
  BY <1>1, <1>2, UnseenFacts
<1>4. CASE node \in s.seen
  <2>1. WalkTurn(arcs, s) = [s EXCEPT !.stack = rest]
    BY <1>4 DEF WalkTurn
  <2> HIDE DEF node, rest
  <2> DEFINE u == [s EXCEPT !.stack = rest]
  <2>2. u \in [seen : SUBSET V, stack : Seq(V)] /\ u.seen = s.seen /\ u.stack = rest
    BY <1>1, <1>2
  <2> HIDE DEF u
  <2>3. u.seen \cup ToSet(u.stack) = s.seen \cup ToSet(s.stack)
    BY <2>2, <1>2, <1>4
  <2>4. u \in WalkStates(V, arcs, t)
    BY <2>2, <2>3, <1>1 DEF WalkStates
  <2>5. Toil(arcs, u) = Toil(arcs, s) - 1
    BY <2>2, <1>2, <1>3 DEF Toil
  <2> QED
    BY <2>1, <2>4, <2>5 DEF u
<1>5. CASE node \notin s.seen
  <2> DEFINE c == Children(arcs, node)
             out == Leaving(arcs, node)
             u == [seen |-> s.seen \cup {node}, stack |-> rest \o c]
  <2>1. WalkTurn(arcs, s) = u
    BY <1>5 DEF WalkTurn
  <2>2. /\ c \in Seq(V) /\ Len(c) = Cardinality(out)
        /\ \A v : v \in ToSet(c) <=> <<node, v>> \in E
    BY ChildrenFacts
  <2> HIDE DEF c, node, rest
  <2>3. /\ rest \o c \in Seq(V) /\ Len(rest \o c) = Len(rest) + Len(c)
        /\ ToSet(rest \o c) = ToSet(rest) \cup ToSet(c)
    BY <2>2, <1>2, Joined
  <2>4. /\ u \in [seen : SUBSET V, stack : Seq(V)]
        /\ u.seen = s.seen \cup {node} /\ u.stack = rest \o c
    BY <2>3, <1>1, <1>2
  <2> HIDE DEF u
  <2>5. u.seen \cup ToSet(u.stack) = s.seen \cup ToSet(s.stack) \cup ToSet(c)
    BY <2>3, <2>4, <1>2
  <2>6. ASSUME NEW k \in u.seen \cup ToSet(u.stack) PROVE Reach(V, E, t, k)
    <3>1. CASE k \in s.seen \cup ToSet(s.stack)
      BY <3>1, <1>1
    <3>2. CASE k \in ToSet(c)
      <4>1. k \in V /\ <<node, k>> \in E
        BY <3>2, <2>2, ListFacts
      <4>2. Reach(V, E, t, node)
        BY <1>1, <1>2
      <4> QED
        BY <4>1, <4>2, <1>2, ReachFacts
    <3> QED
      BY <3>1, <3>2, <2>5, <2>6
  <2>7. ASSUME NEW p \in V, NEW q \in V, <<p, q>> \in E, p = t \/ p \in u.seen
        PROVE  q \in u.seen \cup ToSet(u.stack)
    <3>1. CASE p = t \/ p \in s.seen
      BY <3>1, <2>5, <2>7, <1>1
    <3>2. CASE p = node
      BY <3>2, <2>2, <2>5, <2>7
    <3> QED
      BY <3>1, <3>2, <2>4, <2>7
  <2>8. u \in WalkStates(V, arcs, t)
    BY <2>4, <2>6, <2>7 DEF WalkStates
  <2>9. Cardinality(Unseen(arcs, s.seen)) = Cardinality(Unseen(arcs, u.seen)) + Cardinality(out)
    <3>1. Unseen(arcs, s.seen) = Unseen(arcs, u.seen) \cup out
      BY <2>4, <1>5 DEF Unseen, Leaving
    <3>2. Unseen(arcs, u.seen) \cap out = {}
      BY <2>4 DEF Unseen, Leaving
    <3>3. IsFiniteSet(Unseen(arcs, u.seen)) /\ Cardinality(Unseen(arcs, u.seen)) \in Nat
      BY UnseenFacts
    <3>4. IsFiniteSet(Unseen(arcs, s.seen)) /\ out \in SUBSET Unseen(arcs, s.seen)
      BY <3>1, UnseenFacts
    <3> HIDE DEF out
    <3>5. IsFiniteSet(out) /\ Cardinality(out) \in Nat
      BY <3>4, FS_Subset, FS_CardinalityType
    <3>6. Cardinality(Unseen(arcs, u.seen) \cup out)
            = Cardinality(Unseen(arcs, u.seen)) + Cardinality(out)
                - Cardinality(Unseen(arcs, u.seen) \cap out)
      BY <3>3, <3>5, FS_Union
    <3>7. Cardinality(Unseen(arcs, u.seen) \cap out) = 0
      BY <3>2, FS_EmptySet
    <3> QED
      BY <3>1, <3>3, <3>5, <3>6, <3>7
  <2>10. Toil(arcs, u) = Toil(arcs, s) - 1
    <3>1. Cardinality(Unseen(arcs, u.seen)) \in Nat /\ Len(c) \in Nat
      BY <2>2, UnseenFacts
    <3>2. Toil(arcs, u) = Len(rest) + Len(c) + Cardinality(Unseen(arcs, u.seen))
      BY <2>3, <2>4 DEF Toil
    <3>3. Toil(arcs, s) = Len(rest) + 1 + Cardinality(Unseen(arcs, u.seen)) + Len(c)
      BY <3>1, <2>2, <2>9, <1>2, <1>3 DEF Toil
    <3> QED
      BY <3>1, <3>2, <3>3, <1>3
  <2> QED
    BY <2>1, <2>8, <2>10
<1> QED
  BY <1>4, <1>5

LEMMA DescendantsFacts ==
    ASSUME NEW V, NEW arcs, Joins(V, arcs), NEW keys, NEW t \in V
    PROVE  Descendants(keys, arcs, t) = {k \in V : Reach(V, ToSet(arcs), t, k)} \ {t}
<1> DEFINE n == 2 * Len(arcs)
           T == WalkStates(V, arcs, t)
           start == [seen |-> {}, stack |-> Children(arcs, t)]
           step == [i \in 1..n |-> [s \in T |-> WalkTurn(arcs, s)]]
           state == CHOOSE g : g = [i \in 0..n |->
                        IF i = 0 THEN [seen |-> {}, stack |-> Children(arcs, t)]
                        ELSE WalkTurn(arcs, g[i - 1])]
<1>1. n \in Nat
  BY ArcFacts
<1>2. Descendants(keys, arcs, t) = state[n].seen \ {t}
  BY DEF Descendants
<1>3. start \in T /\ Toil(arcs, start) <= n
  BY WalkStarts
<1>4. \A s \in T : WalkTurn(arcs, s) \in T
  <2>1. ASSUME NEW s \in T, s.stack = <<>> PROVE WalkTurn(arcs, s) \in T
    BY <2>1 DEF WalkTurn
  <2>2. ASSUME NEW s \in T, s.stack # <<>> PROVE WalkTurn(arcs, s) \in T
    BY <2>2, WalkTurns
  <2> QED
    BY <2>1, <2>2
<1> HIDE DEF T
<1>5. step \in [1..n -> [T -> T]] /\ \A i \in 1..n, s \in T : step[i][s] = WalkTurn(arcs, s)
  BY <1>4
<1> HIDE DEF step, n
<1>6. PICK f \in [0..n -> T] : IsLoop(f, n, start, step)
  <2> HIDE DEF start
  <2> QED
    BY <1>1, <1>3, <1>5, LoopExists
<1>7. f = [i \in 0..n |-> IF i = 0 THEN [seen |-> {}, stack |-> Children(arcs, t)]
                          ELSE WalkTurn(arcs, f[i - 1])]
  <2>1. ASSUME NEW i \in 0..n
        PROVE  f[i] = IF i = 0 THEN start ELSE WalkTurn(arcs, f[i - 1])
    <3> HIDE DEF start
    <3>1. CASE i = 0
      BY <3>1, <1>6 DEF IsLoop
    <3>2. CASE i # 0
      <4>1. i \in 1..n /\ i - 1 \in 0..n
        BY <1>1, <3>2
      <4>2. f[i] = step[i][f[i - 1]] /\ f[i - 1] \in T
        BY <4>1, <1>6 DEF IsLoop
      <4> QED
        BY <4>1, <4>2, <3>2, <1>5
    <3> QED
      BY <3>1, <3>2
  <2> QED
    BY <2>1
<1>8. state = [i \in 0..n |-> IF i = 0 THEN [seen |-> {}, stack |-> Children(arcs, t)]
                              ELSE WalkTurn(arcs, state[i - 1])]
  BY <1>7
<1>9. state[0] = start /\ \A i \in 1..n : state[i] = WalkTurn(arcs, state[i - 1])
  <2> HIDE DEF state
  <2>1. state[0] = start
    BY <1>1, <1>8
  <2>2. ASSUME NEW i \in 1..n PROVE state[i] = WalkTurn(arcs, state[i - 1])
    <3>1. i \in 0..n /\ i # 0
      BY <1>1
    <3> QED
      BY <3>1, <1>8
  <2> QED
    BY <2>1, <2>2
<1> HIDE DEF state, start
<1> DEFINE S == {i \in 0..n : /\ state[i] \in T
                              /\ state[i].stack = <<>> \/ Toil(arcs, state[i]) <= n - i}
<1>10. ASSUME NEW s \in T PROVE /\ s.seen \subseteq V /\ s.stack \in Seq(V)
                                /\ Len(s.stack) \in Nat /\ Cardinality(Unseen(arcs, s.seen)) \in Nat
                                /\ Toil(arcs, s) \in Nat
  <2>1. s.seen \subseteq V /\ s.stack \in Seq(V)
    BY DEF T, WalkStates
  <2>2. Len(s.stack) \in Nat /\ Cardinality(Unseen(arcs, s.seen)) \in Nat
    BY <2>1, UnseenFacts
  <2> QED
    BY <2>1, <2>2 DEF Toil
<1>11. 0 \in S
  BY <1>1, <1>3, <1>9
<1>12. ASSUME NEW i \in 1..n, i - 1 \in S PROVE i \in S
  <2>1. i \in 0..n /\ state[i] = WalkTurn(arcs, state[i - 1])
    BY <1>1, <1>9
  <2>2. /\ state[i - 1] \in T
        /\ state[i - 1].stack = <<>> \/ Toil(arcs, state[i - 1]) <= n - (i - 1)
    BY <1>12
  <2>3. CASE state[i - 1].stack = <<>>
    <3>1. state[i] = state[i - 1]
      BY <2>1, <2>3 DEF WalkTurn
    <3> QED
      BY <3>1, <2>1, <2>2, <2>3
  <2>4. CASE state[i - 1].stack # <<>>
    <3>1. state[i] \in T
      BY <2>1, <2>2, <1>4
    <3>2. Toil(arcs, state[i]) = Toil(arcs, state[i - 1]) - 1
      BY <2>1, <2>2, <2>4, WalkTurns DEF T
    <3>3. Toil(arcs, state[i - 1]) \in Nat
      BY <2>2, <1>10
    <3>4. Toil(arcs, state[i]) <= n - i
      BY <3>2, <3>3, <2>2, <2>4, <1>1
    <3> QED
      BY <3>1, <3>4, <2>1
  <2> QED
    BY <2>3, <2>4
<1> HIDE DEF S
<1>13. 0..n \subseteq S
  BY <1>1, <1>11, <1>12, Induct
<1>14. n \in S
  BY <1>1, <1>13
<1>15. state[n] \in T /\ (state[n].stack = <<>> \/ Toil(arcs, state[n]) <= n - n)
  BY <1>14 DEF S
<1> DEFINE s == state[n]
<1> HIDE DEF s
<1>16. s \in T /\ (s.stack = <<>> \/ Toil(arcs, s) <= n - n)
  BY <1>15 DEF s
<1>17. s.stack = <<>>
  <2>1. ASSUME Toil(arcs, s) <= n - n PROVE s.stack = <<>>
    <3>1. Len(s.stack) <= 0
      BY <2>1, <1>1, <1>10, <1>16 DEF Toil
    <3>2. s.stack \in Seq(V)
      BY <1>10, <1>16
    <3> QED
      BY <3>1, <3>2
  <2> QED
    BY <2>1, <1>16
<1>18. ToSet(s.stack) = {}
  BY <1>17 DEF ToSet
<1>19. /\ s.seen \subseteq V
       /\ \A k \in s.seen : Reach(V, ToSet(arcs), t, k)
       /\ \A p, q \in V : <<p, q>> \in ToSet(arcs) /\ (p = t \/ p \in s.seen) => q \in s.seen
  BY <1>16, <1>18 DEF T, WalkStates
<1>20. Closed(V, ToSet(arcs), t, s.seen)
  BY <1>19 DEF Closed
<1>21. \A k \in V : Reach(V, ToSet(arcs), t, k) => k \in s.seen
  BY <1>19, <1>20 DEF Reach
<1>22. s.seen = {k \in V : Reach(V, ToSet(arcs), t, k)}
  BY <1>19, <1>21
<1> QED
  BY <1>2, <1>22 DEF s

(***************************************************************************)
(* Parents and roots.                                                      *)
(***************************************************************************)
Entering(arcs, key) == {i \in DOMAIN arcs : arcs[i][2] = key}
Into(E, key) == {e \in E : e[2] = key}

LEMMA ParentsFacts ==
    ASSUME NEW V, NEW arcs, Joins(V, arcs), NEW keys, ToSet(keys) = V, NEW key \in V
    PROVE  /\ ParentsByKey(keys, arcs)[key] \in Seq(V)
           /\ \A v : v \in ToSet(ParentsByKey(keys, arcs)[key]) <=> <<v, key>> \in ToSet(arcs)
           /\ Len(ParentsByKey(keys, arcs)[key]) = Cardinality(Entering(arcs, key))
           /\ Cardinality(Entering(arcs, key)) = Cardinality(Into(ToSet(arcs), key))
<1> DEFINE starts == [i \in DOMAIN arcs |-> arcs[i][1]]
           P == Entering(arcs, key)
<1>1. starts \in Seq(V) /\ P \in SUBSET (1..Len(starts)) /\ P \in SUBSET (1..Len(arcs))
  <2>1. starts \in [1..Len(arcs) -> V] /\ Len(arcs) \in Nat
    BY ArcFacts
  <2> QED
    BY <2>1, ArcFacts DEF Entering
<1>2. ParentsByKey(keys, arcs)[key] = Picked(starts, P)
  BY DEF ParentsByKey, Entering
<1>3. {starts[i] : i \in P} = {arcs[i][1] : i \in P}
  BY DEF Entering
<1>4. ASSUME NEW v PROVE v \in {arcs[i][1] : i \in P} <=> <<v, key>> \in ToSet(arcs)
  <2>1. ASSUME NEW i \in P, arcs[i][1] = v PROVE <<v, key>> \in ToSet(arcs)
    BY <2>1, ArcFacts DEF Entering
  <2>2. ASSUME <<v, key>> \in ToSet(arcs) PROVE v \in {arcs[i][1] : i \in P}
    <3>1. PICK i \in DOMAIN arcs : arcs[i][1] = v /\ arcs[i][2] = key
      BY <2>2, ArcFacts
    <3> QED
      BY <3>1 DEF Entering
  <2> QED
    BY <2>1, <2>2
<1> HIDE DEF starts, P
<1>5. /\ Picked(starts, P) \in Seq(V)
      /\ ToSet(Picked(starts, P)) = {starts[i] : i \in P}
      /\ Len(Picked(starts, P)) = Cardinality(P)
  BY <1>1, PickedFacts
<1>6. Cardinality(P) = Cardinality(Into(ToSet(arcs), key))
  <2>1. arcs \in Seq(V \X V) /\ \A i, j \in P : arcs[i] = arcs[j] => i = j
    BY DEF Joins, IsInjective, P, Entering
  <2>2. /\ Picked(arcs, P) \in Seq(V \X V) /\ IsInjective(Picked(arcs, P))
        /\ ToSet(Picked(arcs, P)) = {arcs[i] : i \in P}
        /\ Len(Picked(arcs, P)) = Cardinality(P)
    BY <1>1, <2>1, PickedFacts
  <2>3. Cardinality(ToSet(Picked(arcs, P))) = Len(Picked(arcs, P))
    BY <2>2, InjectiveCount
  <2>4. {arcs[i] : i \in P} = Into(ToSet(arcs), key)
    BY DEF P, Entering, Into, ToSet
  <2> QED
    BY <2>2, <2>3, <2>4
<1> QED
  BY <1>2, <1>3, <1>4, <1>5, <1>6 DEF P

LEMMA RootsFacts ==
    ASSUME NEW V, NEW arcs, Joins(V, arcs), NEW keys \in Seq(V), ToSet(keys) = V, NEW k \in V
    PROVE  k \in ToSet(RootKeys(keys, arcs)) <=> Entering(arcs, k) = {}
<1> DEFINE P == {j \in DOMAIN keys : \A i \in DOMAIN arcs : arcs[i][2] # keys[j]}
<1>1. P \in SUBSET (1..Len(keys)) /\ RootKeys(keys, arcs) = Picked(keys, P)
  BY DEF RootKeys
<1>2. k \in {keys[j] : j \in P} <=> \A i \in DOMAIN arcs : arcs[i][2] # k
  BY DEF ToSet
<1> HIDE DEF P
<1>3. ToSet(Picked(keys, P)) = {keys[j] : j \in P}
  BY <1>1, PickedFacts
<1> QED
  BY <1>1, <1>2, <1>3 DEF Entering

LEMMA HelpersAreRight ==
    ASSUME EdgesTyped
    PROVE  HelpersReadTheDag
<1> SUFFICES ASSUME GraphFault(Keys, edges) = "none"
             PROVE  /\ OrderIsTopological(TopologicalOrder(Keys, edges))
                    /\ \A t \in KeySet :
                         /\ DescendantsAreReachable(t)
                         /\ ParentsAgreeWithRoots(t, ParentsByKey(Keys, edges), RootKeys(Keys, edges))
  BY DEF HelpersReadTheDag
<1>1. Keys \in Seq(KeySet) /\ KeySet = ToSet(Keys)
  BY KeySetFacts
<1>2. /\ IsInjective(Keys) /\ Joins(KeySet, edges)
      /\ Len(Kahn(Keys, edges).order) = Len(Keys)
  BY <1>1, GateChecks DEF EdgesTyped
<1>3. EdgeSet = ToSet(edges)
  BY EdgeSetFacts
<1>4. OrderIsTopological(TopologicalOrder(Keys, edges))
  <2> DEFINE order == TopologicalOrder(Keys, edges)
  <2>1. /\ Len(order) = Len(Keys) /\ ToSet(order) = KeySet
        /\ \A a, b \in DOMAIN order : <<order[a], order[b]>> \in ToSet(edges) => a < b
    BY <1>1, <1>2, KahnTakesAll DEF TopologicalOrder
  <2> HIDE DEF order
  <2>2. ASSUME NEW e \in EdgeSet, NEW i \in DOMAIN order, NEW j \in DOMAIN order,
               order[i] = e[1], order[j] = e[2]
        PROVE  i < j
    <3>1. e = <<e[1], e[2]>>
      BY <1>2, ArcFacts DEF EdgeSet
    <3>2. <<order[i], order[j]>> \in ToSet(edges)
      BY <3>1, <2>2, <1>3
    <3> QED
      BY <3>2, <2>1
  <2> QED
    BY <2>1, <2>2 DEF OrderIsTopological, order
<1>5. ASSUME NEW t \in KeySet PROVE DescendantsAreReachable(t)
  <2>1. Descendants(Keys, edges, t) = {k \in KeySet : Reach(KeySet, ToSet(edges), t, k)} \ {t}
    BY <1>2, DescendantsFacts
  <2>2. \A k \in KeySet : Reaches(t, k) <=> Reach(KeySet, ToSet(edges), t, k)
    BY <1>2, ReachesIsReach
  <2>3. ~Reach(KeySet, ToSet(edges), t, t)
    BY <1>1, <1>2, KahnTakesAll
  <2> QED
    BY <2>1, <2>2, <2>3 DEF DescendantsAreReachable
<1>6. ASSUME NEW k \in KeySet
      PROVE  ParentsAgreeWithRoots(k, ParentsByKey(Keys, edges), RootKeys(Keys, edges))
  <2> DEFINE parents == ParentsByKey(Keys, edges)[k]
  <2>1. /\ parents \in Seq(KeySet)
        /\ \A v : v \in ToSet(parents) <=> <<v, k>> \in ToSet(edges)
        /\ Len(parents) = Cardinality(Entering(edges, k))
        /\ Cardinality(Entering(edges, k)) = Cardinality(Into(ToSet(edges), k))
    BY <1>1, <1>2, ParentsFacts
  <2>2. k \in ToSet(RootKeys(Keys, edges)) <=> Entering(edges, k) = {}
    BY <1>1, <1>2, RootsFacts
  <2> HIDE DEF parents
  <2>3. Cardinality(Entering(edges, k)) = 0 <=> Entering(edges, k) = {}
    <3>1. Entering(edges, k) \in SUBSET (DOMAIN edges) /\ IsFiniteSet(DOMAIN edges)
      BY <1>2, ArcFacts DEF Entering
    <3>2. IsFiniteSet(Entering(edges, k))
      BY <3>1, FS_Subset
    <3> QED
      BY <3>2, FS_EmptySet
  <2>4. parents = <<>> <=> Len(parents) = 0
    BY <2>1
  <2>5. ToSet(parents) \X {k} \subseteq EdgeSet
    BY <2>1, <1>3
  <2> QED
    BY <2>1, <2>2, <2>3, <2>4, <2>5, <1>3 DEF ParentsAgreeWithRoots, Into, parents
<1> QED
  BY <1>4, <1>5, <1>6

(* What a run reads off an admitted graph is that graph, however large: the  *)
(* order has every key once and each before its children, the descendants of *)
(* a key are the keys below it, its parents those of its edges, and the      *)
(* roots have none (topological_order, descendants, parents_by_key,         *)
(* root_keys).                                                             *)
THEOREM HelpersReadDags == Spec => []HelpersReadTheDag
<1>1. EdgesTyped => HelpersReadTheDag
  BY HelpersAreRight
<1> QED
  BY <1>1, EdgesStayTyped, PTL

(***************************************************************************)
(* The graph of a run, as the models of graph runs know it (Dag, RunState).  *)
(***************************************************************************)
Graph == INSTANCE Dag WITH NodeKeys <- KeySet, Edges <- EdgeSet

(* What Dag and RunState assume of the graph of a run, and what they say its *)
(* parents and descendants are, is what the gate and the helpers of            *)
(* graph_validation.py give for a graph they have let through.               *)
RunsGetTheirGraph ==
    GraphFault(Keys, edges) = "none" =>
        /\ EdgeSet \subseteq KeySet \X KeySet
        /\ Graph!OrdersNodes(TopologicalOrder(Keys, edges))
        /\ \A t \in KeySet :
             /\ t \notin Graph!DescendantsOf(t)
             /\ Descendants(Keys, edges, t) = Graph!DescendantsOf(t)
             /\ ToSet(ParentsByKey(Keys, edges)[t]) = Graph!Parents(t)

LEMMA GraphIsGiven ==
    ASSUME EdgesTyped
    PROVE  RunsGetTheirGraph
<1> SUFFICES ASSUME GraphFault(Keys, edges) = "none"
             PROVE  /\ EdgeSet \subseteq KeySet \X KeySet
                    /\ Graph!OrdersNodes(TopologicalOrder(Keys, edges))
                    /\ \A t \in KeySet :
                         /\ t \notin Graph!DescendantsOf(t)
                         /\ Descendants(Keys, edges, t) = Graph!DescendantsOf(t)
                         /\ ToSet(ParentsByKey(Keys, edges)[t]) = Graph!Parents(t)
  BY DEF RunsGetTheirGraph
<1>1. Keys \in Seq(KeySet) /\ KeySet = ToSet(Keys)
  BY KeySetFacts
<1>2. /\ IsInjective(Keys) /\ Joins(KeySet, edges)
      /\ Len(Kahn(Keys, edges).order) = Len(Keys)
  BY <1>1, GateChecks DEF EdgesTyped
<1>3. EdgeSet = ToSet(edges)
  BY EdgeSetFacts
<1>4. EdgeSet \subseteq KeySet \X KeySet
  BY <1>2, <1>3, ListFacts DEF Joins
<1>5. Graph!OrdersNodes(TopologicalOrder(Keys, edges))
  <2> DEFINE order == TopologicalOrder(Keys, edges)
  <2>1. /\ order \in Seq(KeySet) /\ ToSet(order) = KeySet /\ IsInjective(order)
        /\ \A a, b \in DOMAIN order : <<order[a], order[b]>> \in ToSet(edges) => a < b
    BY <1>1, <1>2, KahnTakesAll DEF TopologicalOrder
  <2> HIDE DEF order
  <2>2. \A k \in KeySet : \E i \in DOMAIN order : order[i] = k
    BY <2>1 DEF ToSet
  <2>3. \A i, j \in DOMAIN order : order[i] = order[j] => i = j
    BY <2>1 DEF IsInjective
  <2> QED
    BY <2>1, <2>2, <2>3, <1>3 DEF Graph!OrdersNodes, order
<1>6. ASSUME NEW t \in KeySet
      PROVE  Graph!DescendantsOf(t) = {k \in KeySet : Reach(KeySet, EdgeSet, t, k)}
  <2>1. \A e \in EdgeSet : e = <<e[1], e[2]>> /\ e[1] \in KeySet /\ e[2] \in KeySet
    BY <1>4
  <2>2. ASSUME NEW S \in SUBSET KeySet
        PROVE  Closed(KeySet, EdgeSet, t, S) <=>
                 /\ \A c \in KeySet : <<t, c>> \in EdgeSet => c \in S
                 /\ \A e \in EdgeSet : e[1] \in S => e[2] \in S
    <3>1. ASSUME \A p, q \in KeySet : <<p, q>> \in EdgeSet /\ p \in S => q \in S,
                 NEW e \in EdgeSet, e[1] \in S
          PROVE  e[2] \in S
      BY <2>1, <3>1
    <3>2. ASSUME \A e \in EdgeSet : e[1] \in S => e[2] \in S,
                 NEW p \in KeySet, NEW q \in KeySet, <<p, q>> \in EdgeSet, p \in S
          PROVE  q \in S
      <4> DEFINE e == <<p, q>>
      <4>1. e[1] = p /\ e[2] = q /\ e \in EdgeSet
        BY <3>2
      <4> HIDE DEF e
      <4> QED
        BY <4>1, <3>2
    <3> QED
      BY <3>1, <3>2 DEF Closed
  <2>3. \A k \in KeySet :
          Reach(KeySet, EdgeSet, t, k) <=>
            \A S \in SUBSET KeySet :
                /\ \A c \in KeySet : <<t, c>> \in EdgeSet => c \in S
                /\ \A e \in EdgeSet : e[1] \in S => e[2] \in S
                => k \in S
    BY <2>2 DEF Reach
  <2>4. Graph!DescendantsOf(t) =
          {k \in KeySet : \A S \in SUBSET KeySet :
                /\ \A c \in KeySet : <<t, c>> \in EdgeSet => c \in S
                /\ \A e \in EdgeSet : e[1] \in S => e[2] \in S
                => k \in S}
    BY DEF Graph!DescendantsOf, Graph!Reachable
  <2> QED
    BY <2>3, <2>4
<1>7. ASSUME NEW t \in KeySet
      PROVE  /\ t \notin Graph!DescendantsOf(t)
             /\ Descendants(Keys, edges, t) = Graph!DescendantsOf(t)
  <2>1. ~Reach(KeySet, EdgeSet, t, t)
    BY <1>1, <1>2, <1>3, KahnTakesAll
  <2>2. Descendants(Keys, edges, t) = {k \in KeySet : Reach(KeySet, EdgeSet, t, k)} \ {t}
    BY <1>2, <1>3, DescendantsFacts
  <2>3. t \notin {k \in KeySet : Reach(KeySet, EdgeSet, t, k)}
    BY <2>1
  <2> QED
    BY <2>2, <2>3, <1>6
<1>8. ASSUME NEW t \in KeySet PROVE ToSet(ParentsByKey(Keys, edges)[t]) = Graph!Parents(t)
  <2> DEFINE parents == ParentsByKey(Keys, edges)[t]
  <2>1. parents \in Seq(KeySet) /\ \A v : v \in ToSet(parents) <=> <<v, t>> \in EdgeSet
    BY <1>1, <1>2, <1>3, ParentsFacts
  <2> HIDE DEF parents
  <2>2. ToSet(parents) \subseteq KeySet
    BY <2>1, ListFacts
  <2> QED
    BY <2>1, <2>2 DEF Graph!Parents, parents
<1> QED
  BY <1>4, <1>5, <1>7, <1>8

(* A graph the gate has let through meets what every theorem about runs      *)
(* assumes: its edges join its nodes, topological_order is an order of them, *)
(* no node is below itself, and parents and descendants are Dag's.          *)
THEOREM RunsGetTheirGraphs == Spec => []RunsGetTheirGraph
<1>1. EdgesTyped => RunsGetTheirGraph
  BY GraphIsGiven
<1> QED
  BY <1>1, EdgesStayTyped, PTL
================================================================================
