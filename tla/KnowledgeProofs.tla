---------------------------- MODULE KnowledgeProofs ----------------------------
(***************************************************************************)
(* What was written last of a document is whole, for any texts, requests,  *)
(* runs of index and deletions, beside any calls of the tools of memory;   *)
(* and what is meant is found, by any questions over any hash of words.    *)
(***************************************************************************)
EXTENDS Recall, FiniteSetTheorems, SequenceTheorems, WellFoundedInduction, TLAPS

-----------------------------------------------------------------------------
(* Numbers and recursive functions. *)

\* Numbers have a least one: what stands for induction below.
LEMMA LeastNatural ==
  ASSUME NEW T, T \subseteq Nat, T # {}
  PROVE  \E x \in T : \A y \in T : x <= y
<1> DEFINE R == OpToRel(<, Nat)
<1>1. \A x, y \in Nat : y < x => <<y, x>> \in R
  BY DEF OpToRel
<1>2. \E x \in T : \A y \in T : ~ (<<y, x>> \in R)
  <2> HIDE DEF R
  <2>1. IsWellFoundedOn(R, Nat)
    BY NatLessThanWellFounded DEF R
  <2> QED
    BY <2>1, WFMin
<1> HIDE DEF R
<1>3. PICK x \in T : \A y \in T : ~ (<<y, x>> \in R)
  BY <1>2
<1>4. ASSUME NEW y \in T PROVE x <= y
  <2>1. ~ (y < x)
    BY <1>1, <1>3
  <2> QED
    BY <2>1
<1> QED
  BY <1>4

\* What agrees wherever it agreed before agrees everywhere.
Alike(f, g, n) == \A i \in 1 .. n : f[i] = g[i]

GoOnAlike(f, g, n) ==
  \A i \in 1 .. n : (\A j \in 1 .. n : j < i => f[j] = g[j]) => f[i] = g[i]

LEMMA Agree ==
  ASSUME NEW n \in Nat, NEW f, NEW g, GoOnAlike(f, g, n)
  PROVE  Alike(f, g, n)
<1> DEFINE Bad == {i \in 1 .. n : f[i] # g[i]}
<1> SUFFICES ASSUME Bad # {} PROVE FALSE
  BY DEF Alike
<1>1. PICK i \in Bad : \A j \in Bad : i <= j
  <2>1. Bad \subseteq Nat
    OBVIOUS
  <2> HIDE DEF Bad
  <2> QED
    BY <2>1, LeastNatural
<1>2. \A j \in 1 .. n : j < i => f[j] = g[j]
  BY <1>1
<1> QED
  BY <1>1, <1>2 DEF GoOnAlike

\* The function that F defines step by step.
Recursive(A, base, n, F) == n \in Nat /\ base \in A /\ F \in [1 .. n -> [A -> A]]

LEMMA Recursion ==
  ASSUME NEW A, NEW base, NEW n, NEW F, Recursive(A, base, n, F)
  PROVE  \E f \in [0 .. n -> A] : f[0] = base /\ \A i \in 1 .. n : f[i] = F[i][f[i - 1]]
<1> USE DEF Recursive
<1> DEFINE Good(k) == \E f \in [0 .. k -> A] :
                        f[0] = base /\ \A i \in 1 .. k : f[i] = F[i][f[i - 1]]
           Bad == {k \in 0 .. n : ~ Good(k)}
<1>1. Good(0)
  <2>1. PICK f : f = [i \in 0 .. 0 |-> base]
    OBVIOUS
  <2>2. f \in [0 .. 0 -> A] /\ f[0] = base
    BY <2>1
  <2>3. 1 .. 0 = {}
    OBVIOUS
  <2> QED
    BY <2>2, <2>3
<1>2. ASSUME NEW k \in 0 .. n, k < n, Good(k) PROVE Good(k + 1)
  <2>1. PICK f \in [0 .. k -> A] : f[0] = base /\ \A i \in 1 .. k : f[i] = F[i][f[i - 1]]
    BY <1>2
  <2>2. PICK l : l = k + 1
    OBVIOUS
  <2>3. /\ l \in 1 .. n /\ k \in 0 .. k /\ l - 1 = k /\ l # 0
        /\ \A i \in 0 .. l : i # l => i \in 0 .. k
        /\ \A i \in 1 .. l : i \in 0 .. l /\ i - 1 \in 0 .. k /\ i - 1 \in 0 .. l /\ i - 1 # l
                              /\ (i # l => i \in 1 .. k)
        /\ 0 \in 0 .. l
    BY <1>2, <2>2
  <2>4. PICK x : x = F[l][f[k]]
    OBVIOUS
  <2>5. x \in A
    BY <2>3, <2>4
  <2>6. PICK g : g = [i \in 0 .. l |-> IF i = l THEN x ELSE f[i]]
    OBVIOUS
  <2>7. g \in [0 .. l -> A] /\ g[0] = base
    BY <2>1, <2>3, <2>5, <2>6
  <2>8. ASSUME NEW i \in 1 .. l PROVE g[i] = F[i][g[i - 1]]
    <3>1. g[i - 1] = f[i - 1]
      BY <2>3, <2>6
    <3>2. CASE i = l
      BY <2>3, <2>4, <2>6, <3>1, <3>2
    <3>3. CASE i # l
      <4>1. g[i] = f[i]
        BY <2>3, <2>6, <3>3
      <4> QED
        BY <2>1, <2>3, <3>1, <3>3, <4>1
    <3> QED
      BY <3>2, <3>3
  <2>9. Good(l)
    BY <2>7, <2>8
  <2> QED
    BY <2>2, <2>9
<1>3. Bad = {}
  <2> SUFFICES ASSUME Bad # {} PROVE FALSE
    OBVIOUS
  <2>1. PICK k \in Bad : \A j \in Bad : k <= j
    <3>1. Bad \subseteq Nat
      OBVIOUS
    <3> HIDE DEF Bad
    <3> QED
      BY <3>1, LeastNatural
  <2>2. k \in 0 .. n /\ ~ Good(k)
    OBVIOUS
  <2> HIDE DEF Good
  <2>3. k # 0
    BY <1>1, <2>2
  <2>4. k - 1 \in 0 .. n /\ k - 1 < n /\ (k - 1) + 1 = k /\ ~ (k <= k - 1)
    BY <2>2, <2>3
  <2>5. Good(k - 1)
    BY <2>1, <2>4
  <2> QED
    BY <1>2, <2>2, <2>4, <2>5
<1>4. Good(n)
  <2> HIDE DEF Good
  <2>1. n \in 0 .. n
    OBVIOUS
  <2> QED
    BY <1>3, <2>1
<1> QED
  BY <1>4

\* What FlattenSeq computes, and what one more sequence adds to it.
LEMMA Flattens ==
  ASSUME NEW M, NEW s \in Seq(Seq(M)), s # <<>>
  PROVE  \E f \in [1 .. Len(s) -> Seq(M)] :
           /\ f[1] = s[1]
           /\ \A i \in 2 .. Len(s) : f[i] = f[i - 1] \o s[i]
           /\ FlattenSeq(s) = f[Len(s)]
<1> DEFINE n == Len(s)
           flatten[i \in 1 .. n] == IF i = 1 THEN s[i] ELSE flatten[i - 1] \o s[i]
<1>1. n \in Nat /\ n # 0 /\ \A i \in 1 .. n : s[i] \in Seq(M)
  OBVIOUS
<1>2. PICK F : F = [i \in 1 .. n |-> [t \in Seq(M) |-> IF i = 1 THEN s[1] ELSE t \o s[i]]]
  OBVIOUS
<1>3. /\ F \in [1 .. n -> [Seq(M) -> Seq(M)]]
      /\ \A i \in 1 .. n, t \in Seq(M) : F[i][t] = IF i = 1 THEN s[1] ELSE t \o s[i]
  BY <1>1, <1>2
<1>4. PICK h \in [0 .. n -> Seq(M)] : \A i \in 1 .. n : h[i] = F[i][h[i - 1]]
  <2>1. <<>> \in Seq(M)
    OBVIOUS
  <2>2. \E h \in [0 .. n -> Seq(M)] : h[0] = <<>> /\ \A i \in 1 .. n : h[i] = F[i][h[i - 1]]
    <3>1. PICK A : A = Seq(M)
      OBVIOUS
    <3> HIDE DEF n
    <3>2. Recursive(A, <<>>, n, F)
      BY <1>1, <1>3, <2>1, <3>1 DEF Recursive
    <3>3. \E h \in [0 .. n -> A] : h[0] = <<>> /\ \A i \in 1 .. n : h[i] = F[i][h[i - 1]]
      BY <3>2, Recursion
    <3> QED
      BY <3>1, <3>3
  <2> QED
    BY <2>2
<1>5. \A i \in 1 .. n : h[i] = IF i = 1 THEN s[i] ELSE h[i - 1] \o s[i]
  <2> SUFFICES ASSUME NEW i \in 1 .. n PROVE h[i] = IF i = 1 THEN s[i] ELSE h[i - 1] \o s[i]
    OBVIOUS
  <2>1. i - 1 \in 0 .. n
    BY <1>1
  <2>2. h[i - 1] \in Seq(M)
    BY <1>4, <2>1
  <2> QED
    BY <1>3, <1>4, <2>2
<1>6. PICK f : f = [i \in 1 .. n |-> h[i]]
  OBVIOUS
<1> HIDE DEF n
<1>7. \A i \in 1 .. n : f[i] = IF i = 1 THEN s[i] ELSE f[i - 1] \o s[i]
  <2> SUFFICES ASSUME NEW i \in 1 .. n PROVE f[i] = IF i = 1 THEN s[i] ELSE f[i - 1] \o s[i]
    OBVIOUS
  <2>1. i # 1 => i - 1 \in 1 .. n
    BY <1>1
  <2> QED
    BY <1>5, <1>6, <2>1
<1>8. f = [i \in 1 .. n |-> IF i = 1 THEN s[i] ELSE f[i - 1] \o s[i]]
  BY <1>6, <1>7
<1> USE DEF n
<1>9. flatten = [i \in 1 .. n |-> IF i = 1 THEN s[i] ELSE flatten[i - 1] \o s[i]]
  BY Zenon, <1>8
<1>10. FlattenSeq(s) = flatten[n]
  BY Zenon, <1>1 DEF FlattenSeq
<1> HIDE DEF flatten
<1>11. \A i \in 1 .. n : flatten[i] = f[i]
  <2>1. ASSUME NEW i \in 1 .. n, \A j \in 1 .. n : j < i => flatten[j] = f[j]
        PROVE  flatten[i] = f[i]
    <3>1. i # 1 => i - 1 \in 1 .. n /\ i - 1 < i
      BY <1>1
    <3>2. flatten[i] = IF i = 1 THEN s[i] ELSE flatten[i - 1] \o s[i]
      BY <1>9
    <3> QED
      BY <1>7, <2>1, <3>1, <3>2
  <2> HIDE DEF n
  <2>2. GoOnAlike(flatten, f, n)
    BY <2>1 DEF GoOnAlike
  <2> QED
    BY <1>1, <2>2, Agree DEF Alike
<1>12. f \in [1 .. n -> Seq(M)] /\ f[1] = s[1] /\ \A i \in 2 .. n : f[i] = f[i - 1] \o s[i]
  <2>1. \A i \in 1 .. n : i \in 0 .. n /\ h[i] \in Seq(M)
    <3>1. \A i \in 1 .. n : i \in 0 .. n
      BY <1>1
    <3> HIDE DEF n
    <3> QED
      BY <1>4, <3>1
  <2>2. f \in [1 .. n -> Seq(M)]
    BY <1>6, <2>1
  <2>3. 1 \in 1 .. n /\ \A i \in 2 .. n : i \in 1 .. n /\ i # 1
    BY <1>1
  <2> HIDE DEF n
  <2> QED
    BY <1>7, <2>2, <2>3
<1>13. FlattenSeq(s) = f[n]
  <2>1. n \in 1 .. n
    BY <1>1
  <2> HIDE DEF n
  <2> QED
    BY <1>10, <1>11, <2>1
<1> QED
  BY <1>12, <1>13

-----------------------------------------------------------------------------
(* Chunks of a text: where they begin, where they end, and what they cover. *)

Lowest(c) == c[1]
Highest(c) == c[Len(c)]

\* Positions of a text from Lowest to Highest, and perhaps zeros among them.
Cut(c, size) ==
  /\ c \in Seq(Nat) /\ Len(c) \in 1 .. size
  /\ Lowest(c) # 0 /\ Lowest(c) <= Highest(c)
  /\ \A i \in 1 .. Len(c) : c[i] = 0 \/ (Lowest(c) <= c[i] /\ c[i] <= Highest(c))

\* Chunks that begin behind low, end at high at most, and advance at both ends.
Cuts(cs, size, low, high) ==
  /\ cs \in Seq(Seq(Nat))
  /\ \A i \in 1 .. Len(cs) : Cut(cs[i], size) /\ low < Lowest(cs[i]) /\ Highest(cs[i]) <= high
  /\ \A i, k \in 1 .. Len(cs) :
       i < k => Lowest(cs[i]) < Lowest(cs[k]) /\ Highest(cs[i]) < Highest(cs[k])

In(x, c) == \E k \in 1 .. Len(c) : c[k] = x

Covers(cs, part) == \A x \in part : \E i \in 1 .. Len(cs) : In(x, cs[i])

LEMMA PositionsCut ==
  ASSUME NEW first \in Nat \ {0}, NEW n \in Nat \ {0}, NEW size \in Nat, n <= size
  PROVE  /\ Cut(Positions(first, n), size) /\ Positions(first, n) # <<>>
         /\ Len(Positions(first, n)) = n
         /\ Lowest(Positions(first, n)) = first
         /\ Highest(Positions(first, n)) = first + n - 1
         /\ \A x \in first .. first + n - 1 : In(x, Positions(first, n))
<1>1. PICK p : p = Positions(first, n)
  OBVIOUS
<1>2. p \in Seq(Nat) /\ Len(p) = n /\ \A i \in 1 .. n : p[i] = first + i - 1
  BY <1>1 DEF Positions
<1>3. 1 \in 1 .. n /\ n \in 1 .. n
  OBVIOUS
<1>4. Lowest(p) = first /\ Highest(p) = first + n - 1
  BY <1>2, <1>3 DEF Lowest, Highest
<1>5. ASSUME NEW x \in first .. first + n - 1 PROVE In(x, p)
  <2>1. x - first + 1 \in 1 .. n /\ first + (x - first + 1) - 1 = x
    OBVIOUS
  <2> QED
    BY <1>2, <2>1 DEF In
<1>6. Cut(p, size)
  BY <1>2, <1>4 DEF Cut
<1> QED
  BY <1>1, <1>2, <1>4, <1>5, <1>6

\* Chunks of one part of a text, and then chunks of a part behind it.
LEMMA CutsJoin ==
  ASSUME NEW a, NEW b, NEW size \in Nat, NEW low \in Nat, NEW middle \in Nat, NEW high \in Nat,
         Cuts(a, size, low, middle), Cuts(b, size, middle, high), low <= middle, middle <= high
  PROVE  Cuts(a \o b, size, low, high)
<1>1. PICK c : c = a \o b
  OBVIOUS
<1>2. a \in Seq(Seq(Nat)) /\ b \in Seq(Seq(Nat))
  BY DEF Cuts
<1>3. /\ c \in Seq(Seq(Nat)) /\ Len(c) = Len(a) + Len(b)
      /\ \A i \in 1 .. Len(a) : c[i] = a[i]
      /\ \A i \in Len(a) + 1 .. Len(c) : i - Len(a) \in 1 .. Len(b) /\ c[i] = b[i - Len(a)]
  BY <1>1, <1>2
<1>4. \A s : Cut(s, size) => Lowest(s) \in Nat /\ Highest(s) \in Nat /\ Lowest(s) <= Highest(s)
  BY DEF Cut, Lowest, Highest
<1>5. \A i \in 1 .. Len(a) : /\ Cut(a[i], size) /\ low < Lowest(a[i]) /\ Highest(a[i]) <= middle
                             /\ Lowest(a[i]) \in Nat /\ Highest(a[i]) \in Nat
                             /\ Lowest(a[i]) <= Highest(a[i])
  BY <1>4 DEF Cuts
<1>6. \A i \in 1 .. Len(b) : /\ Cut(b[i], size) /\ middle < Lowest(b[i]) /\ Highest(b[i]) <= high
                             /\ Lowest(b[i]) \in Nat /\ Highest(b[i]) \in Nat
                             /\ Lowest(b[i]) <= Highest(b[i])
  BY <1>4 DEF Cuts
<1>7. Len(a) \in Nat /\ Len(b) \in Nat /\ Len(c) \in Nat
  BY <1>2, <1>3
<1>8. ASSUME NEW i \in 1 .. Len(c)
      PROVE  Cut(c[i], size) /\ low < Lowest(c[i]) /\ Highest(c[i]) <= high
  <2>1. CASE i <= Len(a)
    <3>1. i \in 1 .. Len(a)
      BY <1>7, <2>1
    <3>2. c[i] = a[i]
      BY <1>3, <3>1
    <3> QED
      BY <1>5, <3>1, <3>2
  <2>2. CASE i > Len(a)
    <3>1. i \in Len(a) + 1 .. Len(c)
      BY <1>7, <2>2
    <3>2. c[i] = b[i - Len(a)] /\ i - Len(a) \in 1 .. Len(b)
      BY <1>3, <3>1
    <3> QED
      BY <1>6, <3>2
  <2> QED
    BY <1>7, <2>1, <2>2
<1>9. ASSUME NEW i \in 1 .. Len(c), NEW k \in 1 .. Len(c), i < k
      PROVE  Lowest(c[i]) < Lowest(c[k]) /\ Highest(c[i]) < Highest(c[k])
  <2>1. CASE k <= Len(a)
    <3>1. i \in 1 .. Len(a) /\ k \in 1 .. Len(a)
      BY <1>7, <1>9, <2>1
    <3>2. c[i] = a[i] /\ c[k] = a[k]
      BY <1>3, <3>1
    <3> QED
      BY <1>9, <3>1, <3>2 DEF Cuts
  <2>2. CASE i <= Len(a) /\ k > Len(a)
    <3>1. i \in 1 .. Len(a) /\ k \in Len(a) + 1 .. Len(c)
      BY <1>7, <2>2
    <3>2. PICK v \in 1 .. Len(b) : c[i] = a[i] /\ c[k] = b[v]
      BY <1>3, <3>1
    <3>3. /\ Highest(a[i]) <= middle /\ Lowest(a[i]) <= Highest(a[i])
          /\ Lowest(a[i]) \in Nat /\ Highest(a[i]) \in Nat
      BY <1>5, <3>1
    <3>4. /\ middle < Lowest(b[v]) /\ Lowest(b[v]) <= Highest(b[v])
          /\ Lowest(b[v]) \in Nat /\ Highest(b[v]) \in Nat
      BY <1>6, <3>2
    <3>5. Lowest(a[i]) < Lowest(b[v]) /\ Highest(a[i]) < Highest(b[v])
      BY <3>3, <3>4
    <3> QED
      BY <3>2, <3>5
  <2>3. CASE i > Len(a)
    <3>1. i \in Len(a) + 1 .. Len(c) /\ k \in Len(a) + 1 .. Len(c)
      BY <1>7, <1>9, <2>3
    <3>2. /\ c[i] = b[i - Len(a)] /\ i - Len(a) \in 1 .. Len(b)
          /\ c[k] = b[k - Len(a)] /\ k - Len(a) \in 1 .. Len(b)
      BY <1>3, <3>1
    <3>3. PICK u \in 1 .. Len(b), v \in 1 .. Len(b) : c[i] = b[u] /\ c[k] = b[v] /\ u < v
      BY <1>7, <1>9, <3>2
    <3>4. Lowest(b[u]) < Lowest(b[v]) /\ Highest(b[u]) < Highest(b[v])
      BY <3>3 DEF Cuts
    <3> QED
      BY <3>3, <3>4
  <2> QED
    BY <1>7, <2>1, <2>2, <2>3
<1> QED
  BY <1>1, <1>3, <1>8, <1>9 DEF Cuts

LEMMA CoversJoin ==
  ASSUME NEW a \in Seq(Seq(Nat)), NEW b \in Seq(Seq(Nat)), NEW A, NEW B,
         Covers(a, A), Covers(b, B)
  PROVE  Covers(a \o b, A \cup B)
<1>1. PICK c : c = a \o b
  OBVIOUS
<1>2. /\ Len(a) \in Nat /\ Len(b) \in Nat /\ Len(c) = Len(a) + Len(b)
      /\ \A i \in 1 .. Len(a) : i \in 1 .. Len(c) /\ c[i] = a[i]
      /\ \A i \in 1 .. Len(b) : i + Len(a) \in 1 .. Len(c) /\ c[i + Len(a)] = b[i]
  BY <1>1
<1> QED
  BY <1>1, <1>2 DEF Covers

\* One chunk is a list of chunks.
LEMMA OneCut ==
  ASSUME NEW size \in Nat, NEW low \in Nat, NEW high \in Nat,
         NEW c, Cut(c, size), low < Lowest(c), Highest(c) <= high
  PROVE  Cuts(<<c>>, size, low, high)
<1>1. c \in Seq(Nat)
  BY DEF Cut
<1>2. PICK cs : cs = <<c>>
  OBVIOUS
<1>3. cs \in Seq(Seq(Nat)) /\ Len(cs) = 1 /\ cs[1] = c
  BY <1>1, <1>2
<1> QED
  BY <1>2, <1>3 DEF Cuts

\* A longer chunk takes the place of the last one.
Grows(a, c, d, size, low, middle, high) ==
  /\ size \in Nat /\ low \in Nat /\ middle \in Nat /\ high \in Nat /\ middle <= high
  /\ a \in Seq(Seq(Nat)) /\ c \in Seq(Nat) /\ Cuts(Append(a, c), size, low, middle)
  /\ Cut(d, size) /\ Lowest(d) = Lowest(c) /\ Highest(c) < Highest(d) /\ Highest(d) <= high

LEMMA LastGrows ==
  ASSUME NEW a, NEW c, NEW d, NEW size, NEW low, NEW middle, NEW high,
         Grows(a, c, d, size, low, middle, high)
  PROVE  Cuts(Append(a, d), size, low, high)
<1>0. /\ size \in Nat /\ low \in Nat /\ middle \in Nat /\ high \in Nat /\ middle <= high
      /\ a \in Seq(Seq(Nat)) /\ c \in Seq(Nat) /\ Cuts(Append(a, c), size, low, middle)
      /\ Cut(d, size) /\ Lowest(d) = Lowest(c) /\ Highest(c) < Highest(d) /\ Highest(d) <= high
  BY Zenon DEF Grows
<1> USE <1>0
<1>1. PICK before, after : before = Append(a, c) /\ after = Append(a, d)
  OBVIOUS
<1>2. d \in Seq(Nat) /\ \A s : Cut(s, size) => Highest(s) \in Nat
  BY DEF Cut, Highest
<1>3. /\ Len(a) \in Nat
      /\ before \in Seq(Seq(Nat)) /\ Len(before) = Len(a) + 1 /\ before[Len(a) + 1] = c
      /\ after \in Seq(Seq(Nat)) /\ Len(after) = Len(a) + 1 /\ after[Len(a) + 1] = d
      /\ \A i \in 1 .. Len(a) : before[i] = a[i] /\ after[i] = a[i]
  BY <1>1, <1>2
<1>4. Cuts(before, size, low, middle)
  BY <1>1
<1>5. ASSUME NEW i \in 1 .. Len(after)
      PROVE  Cut(after[i], size) /\ low < Lowest(after[i]) /\ Highest(after[i]) <= high
  <2>0. /\ i \in 1 .. Len(before) /\ Cut(before[i], size) /\ low < Lowest(before[i])
        /\ Highest(before[i]) <= middle /\ Highest(before[i]) \in Nat
    BY <1>2, <1>3, <1>4 DEF Cuts
  <2>1. CASE i = Len(a) + 1
    BY <1>3, <2>0, <2>1
  <2>2. CASE i # Len(a) + 1
    <3>1. i \in 1 .. Len(a)
      BY <1>3, <2>2
    <3> QED
      BY <1>3, <2>0, <3>1
  <2> QED
    BY <2>1, <2>2
<1>6. ASSUME NEW i \in 1 .. Len(after), NEW k \in 1 .. Len(after), i < k
      PROVE  Lowest(after[i]) < Lowest(after[k]) /\ Highest(after[i]) < Highest(after[k])
  <2>0. /\ i \in 1 .. Len(before) /\ k \in 1 .. Len(before)
        /\ Lowest(before[i]) < Lowest(before[k]) /\ Highest(before[i]) < Highest(before[k])
    BY <1>3, <1>4, <1>6 DEF Cuts
  <2>1. i \in 1 .. Len(a)
    BY <1>3, <1>6
  <2>2. after[i] = before[i]
    BY <1>3, <2>1
  <2>3. CASE k = Len(a) + 1
    <3>1. before[k] = c /\ after[k] = d
      BY <1>3, <2>3
    <3>2. Highest(before[i]) \in Nat /\ Highest(c) \in Nat /\ Highest(d) \in Nat
      BY <1>2, <1>3, <1>4, <2>0, <3>1 DEF Cuts
    <3> QED
      BY <2>0, <2>2, <3>1, <3>2
  <2>4. CASE k # Len(a) + 1
    <3>1. k \in 1 .. Len(a)
      BY <1>3, <2>4
    <3> QED
      BY <1>3, <2>0, <2>2, <3>1
  <2> QED
    BY <2>3, <2>4
<1> QED
  BY <1>1, <1>3, <1>5, <1>6 DEF Cuts

LEMMA JoinIndices ==
  ASSUME NEW m \in Seq(Nat), NEW q \in Seq(Nat)
  PROVE  /\ m \o q \in Seq(Nat) /\ Len(m \o q) = Len(m) + Len(q)
         /\ \A i \in 1 .. Len(m) : (m \o q)[i] = m[i]
         /\ \A i \in 1 .. Len(q) : (m \o q)[i + Len(m)] = q[i]
OBVIOUS

\* A paragraph joins those that are pending.
LEMMA JoinedCut ==
  ASSUME NEW size \in Nat, NEW p, NEW q, Cut(p, size), Cut(q, size), Highest(p) < Lowest(q),
         Len(p \o <<0, 0>> \o q) <= size
  PROVE  /\ Cut(p \o <<0, 0>> \o q, size)
         /\ Lowest(p \o <<0, 0>> \o q) = Lowest(p)
         /\ Highest(p \o <<0, 0>> \o q) = Highest(q)
         /\ \A x : In(x, p) \/ In(x, q) => In(x, p \o <<0, 0>> \o q)
<1>1. PICK j : j = p \o <<0, 0>> \o q
  OBVIOUS
<1>2. p \in Seq(Nat) /\ q \in Seq(Nat) /\ Len(p) \in 1 .. size /\ Len(q) \in 1 .. size
  BY DEF Cut
<1>3. /\ j \in Seq(Nat) /\ Len(j) = Len(p) + 2 + Len(q)
      /\ \A i \in 1 .. Len(p) : j[i] = p[i]
      /\ j[Len(p) + 1] = 0 /\ j[Len(p) + 2] = 0
      /\ \A i \in 1 .. Len(q) : j[i + Len(p) + 2] = q[i]
  <2>1. PICK m : m = p \o <<0, 0>>
    OBVIOUS
  <2>2. <<0, 0>> \in Seq(Nat) /\ Len(<<0, 0>>) = 2 /\ <<0, 0>>[1] = 0 /\ <<0, 0>>[2] = 0
    OBVIOUS
  <2>3. /\ m \in Seq(Nat) /\ Len(m) = Len(p) + 2
        /\ \A i \in 1 .. Len(p) : m[i] = p[i]
        /\ m[Len(p) + 1] = 0 /\ m[Len(p) + 2] = 0
    BY <1>2, <2>1, <2>2
  <2>4. j = m \o q
    BY <1>1, <2>1
  <2>5. q \in Seq(Nat) /\ Len(p) \in Nat /\ Len(q) \in Nat
    BY <1>2
  <2>6. /\ j \in Seq(Nat) /\ Len(j) = Len(m) + Len(q)
        /\ \A i \in 1 .. Len(m) : j[i] = m[i]
        /\ \A i \in 1 .. Len(q) : j[i + Len(m)] = q[i]
    BY <2>3, <2>4, <2>5, JoinIndices
  <2>7. /\ \A i \in 1 .. Len(p) : i \in 1 .. Len(m)
        /\ Len(p) + 1 \in 1 .. Len(m) /\ Len(p) + 2 \in 1 .. Len(m)
        /\ \A i \in 1 .. Len(q) : i + Len(p) + 2 = i + Len(m)
    <3>1. Len(m) = Len(p) + 2
      BY <2>3
    <3> QED
      BY <2>5, <3>1
  <2>8. /\ \A i \in 1 .. Len(p) : j[i] = p[i]
        /\ j[Len(p) + 1] = 0 /\ j[Len(p) + 2] = 0
        /\ \A i \in 1 .. Len(q) : j[i + Len(p) + 2] = q[i]
    BY <2>3, <2>6, <2>7
  <2>9. Len(j) = Len(p) + 2 + Len(q)
    BY <2>3, <2>5, <2>6
  <2> QED
    BY <2>6, <2>8, <2>9
<1>n. Len(p) \in Nat /\ Len(q) \in Nat /\ Len(j) \in Nat
  <2>1. Len(p) \in Nat /\ Len(q) \in Nat
    BY <1>2
  <2>2. Len(j) = Len(p) + 2 + Len(q)
    BY <1>3
  <2> QED
    BY <2>1, <2>2
<1>e. (\A i \in 1 .. Len(p) : p[i] \in Nat) /\ (\A i \in 1 .. Len(q) : q[i] \in Nat)
  BY <1>2
<1>i. /\ \A i \in 1 .. Len(p) : i \in 1 .. Len(j)
      /\ \A i \in 1 .. Len(q) : i + Len(p) + 2 \in 1 .. Len(j)
  <2>1. Len(j) = Len(p) + 2 + Len(q)
    BY <1>3
  <2> QED
    BY <2>1, <1>n
<1>4. Lowest(j) = Lowest(p) /\ Highest(j) = Highest(q)
  <2>1. 1 \in 1 .. Len(p) /\ Len(q) \in 1 .. Len(q) /\ Len(j) = Len(q) + Len(p) + 2
    BY <1>2, <1>3
  <2> QED
    BY <1>3, <2>1 DEF Lowest, Highest
<1>5. /\ Lowest(p) \in Nat /\ Highest(p) \in Nat /\ Lowest(q) \in Nat /\ Highest(q) \in Nat
      /\ Lowest(p) <= Highest(p) /\ Lowest(q) <= Highest(q) /\ Lowest(p) # 0
  BY <1>2 DEF Cut, Lowest, Highest
<1>6. ASSUME NEW i \in 1 .. Len(j)
      PROVE  j[i] = 0 \/ (Lowest(j) <= j[i] /\ j[i] <= Highest(j))
  <2>1. CASE i \in 1 .. Len(p)
    <3>1. j[i] = p[i] /\ p[i] \in Nat
      BY <1>3, <1>e, <2>1
    <3>2. p[i] = 0 \/ (Lowest(p) <= p[i] /\ p[i] <= Highest(p))
      BY <2>1 DEF Cut
    <3> QED
      BY <1>4, <1>5, <3>1, <3>2
  <2>2. CASE i = Len(p) + 1 \/ i = Len(p) + 2
    BY <1>3, <2>2
  <2>3. CASE i > Len(p) + 2
    <3>1. PICK k \in 1 .. Len(q) : i = k + Len(p) + 2
      <4>1. i - Len(p) - 2 \in 1 .. Len(q) /\ i = (i - Len(p) - 2) + Len(p) + 2
        BY <1>2, <1>3, <2>3
      <4> QED
        BY <4>1
    <3>2. j[i] = q[k] /\ q[k] \in Nat
      BY <1>3, <1>e, <3>1
    <3>3. q[k] = 0 \/ (Lowest(q) <= q[k] /\ q[k] <= Highest(q))
      BY DEF Cut
    <3> QED
      BY <1>4, <1>5, <3>2, <3>3
  <2> QED
    BY <1>n, <2>1, <2>2, <2>3
<1>7. Len(j) \in 1 .. size
  BY <1>1, <1>2, <1>3
<1>8. Cut(j, size)
  BY <1>3, <1>4, <1>5, <1>6, <1>7 DEF Cut
<1>9. ASSUME NEW x, In(x, p) \/ In(x, q) PROVE In(x, j)
  <2>1. CASE In(x, p)
    <3>1. PICK i \in 1 .. Len(p) : p[i] = x
      BY <2>1 DEF In
    <3>2. i \in 1 .. Len(j) /\ j[i] = x
      BY <1>3, <1>i, <3>1
    <3> QED
      BY <3>2 DEF In
  <2>2. CASE In(x, q)
    <3>1. PICK i \in 1 .. Len(q) : q[i] = x
      BY <2>2 DEF In
    <3>2. i + Len(p) + 2 \in 1 .. Len(j) /\ j[i + Len(p) + 2] = x
      BY <1>3, <1>i, <3>1
    <3> QED
      BY <3>2 DEF In
  <2> QED
    BY <1>9, <2>1, <2>2
<1> QED
  BY <1>1, <1>4, <1>8, <1>9

-----------------------------------------------------------------------------
(* A text that is cut up. *)

End(text, r, start) == Lesser(start + r.size, Len(text))

SplitStep(text, r, f, start) ==
  IF start = Len(text) THEN <<>>
  ELSE <<SubSeq(text, start + 1, End(text, r, start))>> \o
       (IF End(text, r, start) = Len(text) THEN <<>> ELSE f[start + r.size - r.overlap])

Advances(r) == r.size \in Nat /\ r.overlap \in Nat /\ r.overlap < r.size

\* The chunks of every rest of the text are there, from the end of the text on.
LEMMA SplitSteps ==
  ASSUME NEW text, Len(text) \in Nat, NEW r, Advances(r)
  PROVE  \E f : f = [start \in 0 .. Len(text) |-> SplitStep(text, r, f, start)]
<1> DEFINE n == Len(text)
           Good(k) == \E f : f = [start \in k .. n |-> SplitStep(text, r, f, start)]
           Bad == {j \in 0 .. n : ~ Good(n - j)}
<1>1. Good(n)
  <2>1. PICK f : f = [start \in n .. n |-> <<>>]
    OBVIOUS
  <2>2. \A start \in n .. n : SplitStep(text, r, f, start) = <<>>
    BY DEF SplitStep
  <2>3. f = [start \in n .. n |-> SplitStep(text, r, f, start)]
    BY <2>1, <2>2
  <2> QED
    BY <2>3
<1>2. ASSUME NEW k \in 0 .. n, k # 0, Good(k) PROVE Good(k - 1)
  <2>1. PICK f : f = [start \in k .. n |-> SplitStep(text, r, f, start)]
    BY <1>2
  <2>2. PICK l : l = k - 1
    OBVIOUS
  <2>3. PICK g : g = [start \in l .. n |-> IF start = l THEN SplitStep(text, r, f, l) ELSE f[start]]
    OBVIOUS
  <2>4. /\ l \in Nat /\ l \in l .. n
        /\ \A start \in l .. n : start # l => start \in k .. n
        /\ \A start \in k .. n : start \in l .. n /\ start # l
    BY <1>2, <2>2
  <2>5. \A start \in k .. n : g[start] = f[start]
    BY <2>3, <2>4
  <2>6. ASSUME NEW start \in l .. n PROVE SplitStep(text, r, g, start) = SplitStep(text, r, f, start)
    <3>1. CASE start = n \/ End(text, r, start) = n
      BY <3>1 DEF SplitStep
    <3>2. CASE start # n /\ End(text, r, start) # n
      <4>1. start \in Nat /\ n \in Nat /\ r.size \in Nat /\ r.overlap \in Nat /\ r.overlap < r.size
        BY <2>4 DEF Advances
      <4>2. start + r.size < n
        BY <3>2, <4>1 DEF End, Lesser
      <4>3. start + r.size - r.overlap \in k .. n
        <5>1. PICK z \in Int : z = start + r.size - r.overlap
          BY <4>1
        <5>2. l <= start /\ k = l + 1 /\ k \in Nat /\ l \in Nat
          BY <1>2, <2>2, <2>4
        <5>3. z > start /\ z <= n
          BY <4>1, <4>2, <5>1
        <5>4. z \in k .. n
          BY <4>1, <5>2, <5>3
        <5> QED
          BY <5>1, <5>4
      <4>4. g[start + r.size - r.overlap] = f[start + r.size - r.overlap]
        BY <2>5, <4>3
      <4> QED
        BY <4>4 DEF SplitStep
    <3> QED
      BY <3>1, <3>2
  <2>7. ASSUME NEW start \in l .. n PROVE g[start] = SplitStep(text, r, g, start)
    <3>1. CASE start = l
      BY <2>3, <2>4, <2>6, <3>1
    <3>2. CASE start # l
      <4>1. start \in k .. n
        BY <2>4, <3>2
      <4>2. f[start] = SplitStep(text, r, f, start)
        BY <2>1, <4>1
      <4> QED
        BY <2>5, <2>6, <4>1, <4>2
    <3> QED
      BY <3>1, <3>2
  <2>8. g = [start \in l .. n |-> SplitStep(text, r, g, start)]
    BY <2>3, <2>7
  <2> QED
    BY <2>2, <2>8
<1>3. Bad = {}
  <2> SUFFICES ASSUME Bad # {} PROVE FALSE
    OBVIOUS
  <2>1. PICK j \in Bad : \A i \in Bad : j <= i
    <3>1. Bad \subseteq Nat
      OBVIOUS
    <3> HIDE DEF Bad
    <3> QED
      BY <3>1, LeastNatural
  <2>2. j \in 0 .. n /\ ~ Good(n - j) /\ n \in Nat
    OBVIOUS
  <2> HIDE DEF Good
  <2>3. j # 0
    BY <1>1, <2>2
  <2>4. /\ j - 1 \in 0 .. n /\ ~ (j <= j - 1)
        /\ n - (j - 1) \in 0 .. n /\ n - (j - 1) # 0 /\ (n - (j - 1)) - 1 = n - j
    BY <2>2, <2>3
  <2>5. Good(n - (j - 1))
    BY <2>1, <2>4
  <2>6. Good((n - (j - 1)) - 1)
    BY <1>2, <2>4, <2>5
  <2> QED
    BY <2>2, <2>4, <2>6
<1>4. Good(0)
  <2>1. n \in 0 .. n /\ n - n = 0
    OBVIOUS
  <2> HIDE DEF Good, n
  <2> QED
    BY <1>3, <2>1
<1> QED
  BY <1>4

LEMMA SplitIs ==
  ASSUME NEW text, Len(text) \in Nat, NEW r, Advances(r)
  PROVE  \E f : /\ Split(text, r) = f[0]
                /\ \A start \in 0 .. Len(text) : f[start] = SplitStep(text, r, f, start)
<1> DEFINE end(start) == Lesser(start + r.size, Len(text))
           from[start \in 0 .. Len(text)] ==
             IF start = Len(text) THEN <<>>
             ELSE <<SubSeq(text, start + 1, end(start))>> \o
                  (IF end(start) = Len(text) THEN <<>> ELSE from[start + r.size - r.overlap])
<1>1. \E f : f = [start \in 0 .. Len(text) |->
                    IF start = Len(text) THEN <<>>
                    ELSE <<SubSeq(text, start + 1, end(start))>> \o
                         (IF end(start) = Len(text) THEN <<>> ELSE f[start + r.size - r.overlap])]
  <2>1. PICK f : f = [start \in 0 .. Len(text) |-> SplitStep(text, r, f, start)]
    BY SplitSteps
  <2>2. \A start \in 0 .. Len(text) :
          SplitStep(text, r, f, start) =
            IF start = Len(text) THEN <<>>
            ELSE <<SubSeq(text, start + 1, end(start))>> \o
                 (IF end(start) = Len(text) THEN <<>> ELSE f[start + r.size - r.overlap])
    BY Zenon DEF SplitStep, End
  <2>3. f = [start \in 0 .. Len(text) |->
               IF start = Len(text) THEN <<>>
               ELSE <<SubSeq(text, start + 1, end(start))>> \o
                    (IF end(start) = Len(text) THEN <<>> ELSE f[start + r.size - r.overlap])]
    BY <2>1, <2>2
  <2> QED
    BY <2>3, Zenon
<1>2. from = [start \in 0 .. Len(text) |->
                IF start = Len(text) THEN <<>>
                ELSE <<SubSeq(text, start + 1, end(start))>> \o
                     (IF end(start) = Len(text) THEN <<>> ELSE from[start + r.size - r.overlap])]
  BY <1>1, Zenon
<1>3. Split(text, r) = from[0]
  BY Zenon DEF Split
<1> HIDE DEF from
<1>4. \A start \in 0 .. Len(text) : from[start] = SplitStep(text, r, from, start)
  BY <1>2 DEF SplitStep, End
<1> QED
  BY <1>3, <1>4

\* The chunks of the rest of a text that begins at a position.
Above(cs, top) == \A i \in 1 .. Len(cs) : top < Highest(cs[i])

CutsOfRest(cs, first, n, r, start) ==
  /\ Cuts(cs, r.size, first + start - 1, first + n - 1)
  /\ Above(cs, first + Lesser(start + r.size, n) - 2)
  /\ Covers(cs, first + start .. first + n - 1)

LEMMA RestIsCut ==
  ASSUME NEW first \in Nat \ {0}, NEW n \in Nat, NEW r, Advances(r),
         NEW text, text = Positions(first, n), NEW start \in 0 .. n, start # n,
         NEW rest, LET end == Lesser(start + r.size, n) IN
           IF end = n THEN rest = <<>> ELSE CutsOfRest(rest, first, n, r, start + r.size - r.overlap)
  PROVE  CutsOfRest(<<SubSeq(text, start + 1, Lesser(start + r.size, n))>> \o rest, first, n, r, start)
<1>1. PICK end : end = Lesser(start + r.size, n)
  OBVIOUS
<1>2. PICK piece : piece = SubSeq(text, start + 1, end)
  OBVIOUS
<1>3. PICK s, o : s = r.size /\ o = r.overlap
  OBVIOUS
<1>4. /\ s \in Nat /\ o \in Nat /\ o < s /\ s # 0 /\ start \in Nat /\ start < n
      /\ end \in Nat /\ end > start /\ end <= n /\ end <= start + s
      /\ (end # n => end = start + s)
  <2>1. s \in Nat /\ o \in Nat /\ o < s /\ start \in Nat /\ start < n
    BY <1>3 DEF Advances
  <2> QED
    BY <1>1, <1>3, <2>1 DEF Lesser
<1>5. PICK l, f : l = end - start /\ f = first + start
  OBVIOUS
<1>6. l \in Nat \ {0} /\ l <= s /\ f \in Nat \ {0} /\ f + l - 1 = first + end - 1
  BY <1>4, <1>5
<1>7. piece = Positions(f, l)
  <2>1. text \in Seq(Nat) /\ Len(text) = n /\ \A i \in 1 .. n : text[i] = first + i - 1
    BY DEF Positions
  <2>2. start + 1 \in 1 .. n /\ end \in 1 .. n
    BY <1>4
  <2>3. /\ piece \in Seq(Nat) /\ Len(piece) = end - (start + 1) + 1
        /\ \A i \in 1 .. end - (start + 1) + 1 : piece[i] = text[start + 1 + i - 1]
    <3>1. start + 1 \in 1 .. Len(text) + 1 /\ end \in (start + 1) - 1 .. Len(text)
      BY <1>4, <2>1, <2>2
    <3> QED
      BY <1>2, <2>1, <3>1, SubSeqProperties
  <2>4. Len(piece) = l /\ \A i \in 1 .. l : piece[i] = f + i - 1
    <3>1. end - (start + 1) + 1 = l
      BY <1>4, <1>5
    <3>2. ASSUME NEW i \in 1 .. l PROVE piece[i] = f + i - 1
      <4>1. PICK m : m = start + 1 + i - 1
        OBVIOUS
      <4>2. m \in 1 .. n /\ first + m - 1 = f + i - 1
        BY <1>4, <1>5, <4>1
      <4>3. piece[i] = text[m] /\ text[m] = first + m - 1
        BY <2>1, <2>3, <3>1, <4>1, <4>2
      <4> QED
        BY <4>2, <4>3
    <3> QED
      BY <2>3, <3>1, <3>2
  <2>5. piece = [i \in 1 .. l |-> piece[i]]
    BY <2>3, <2>4
  <2> QED
    BY <2>4, <2>5 DEF Positions
<1>8. /\ Cut(piece, s) /\ Lowest(piece) = f /\ Highest(piece) = first + end - 1
      /\ \A x \in f .. first + end - 1 : In(x, piece)
  BY <1>4, <1>6, <1>7, PositionsCut
<1>9. PICK cs : cs = <<piece>> \o rest
  OBVIOUS
<1>10. CASE end = n
  <2>1. rest = <<>>
    BY <1>1, <1>10
  <2>2. piece \in Seq(Nat)
    BY <1>8 DEF Cut
  <2>3. cs = <<piece>> /\ cs \in Seq(Seq(Nat)) /\ Len(cs) = 1 /\ cs[1] = piece
    BY <1>9, <2>1, <2>2
  <2>4. Cuts(cs, s, first + start - 1, first + n - 1)
    <3>1. first + start - 1 \in Nat /\ first + n - 1 \in Nat /\ first + start - 1 < f
      BY <1>4, <1>5
    <3> QED
      BY <1>4, <1>8, <1>10, <2>3, <3>1, OneCut
  <2>5. Above(cs, first + end - 2)
    BY <1>4, <1>8, <2>3 DEF Above
  <2>6. Covers(cs, first + start .. first + n - 1)
    BY <1>5, <1>8, <1>10, <2>3 DEF Covers
  <2> QED
    BY <1>1, <1>2, <1>3, <1>9, <2>4, <2>5, <2>6 DEF CutsOfRest
<1>11. CASE end # n
  <2>1. PICK next : next = start + s - o
    OBVIOUS
  <2>2. CutsOfRest(rest, first, n, r, next)
    BY <1>1, <1>3, <1>11, <2>1
  <2>3. next \in Nat /\ start < next /\ next <= end /\ end = start + s
    BY <1>4, <1>11, <2>1
  <2>4. /\ Cuts(rest, s, first + next - 1, first + n - 1)
        /\ Above(rest, first + Lesser(next + s, n) - 2)
        /\ Covers(rest, first + next .. first + n - 1)
    BY <1>3, <2>2 DEF CutsOfRest
  <2>5. rest \in Seq(Seq(Nat)) /\ piece \in Seq(Nat)
    BY <1>8, <2>4 DEF Cuts, Cut
  <2>6. /\ cs \in Seq(Seq(Nat)) /\ Len(rest) \in Nat /\ Len(cs) = Len(rest) + 1 /\ cs[1] = piece
        /\ \A i \in 1 .. Len(rest) : i + 1 \in 1 .. Len(cs) /\ cs[i + 1] = rest[i]
    BY <1>9, <2>5
  <2>7. \A i \in 1 .. Len(cs) : i = 1 \/ \E k \in 1 .. Len(rest) : i = k + 1 /\ cs[i] = rest[k]
    <3>1. ASSUME NEW i \in 1 .. Len(cs), i # 1 PROVE \E k \in 1 .. Len(rest) : i = k + 1 /\ cs[i] = rest[k]
      <4>1. i - 1 \in 1 .. Len(rest) /\ (i - 1) + 1 = i
        BY <2>6, <3>1
      <4>2. cs[(i - 1) + 1] = rest[i - 1]
        BY <2>6, <4>1
      <4> QED
        BY <4>1, <4>2
    <3> QED
      BY <3>1
  <2>8. ASSUME NEW k \in 1 .. Len(rest)
        PROVE  /\ Cut(rest[k], s) /\ Highest(rest[k]) <= first + n - 1
               /\ Lowest(rest[k]) > f /\ Highest(rest[k]) > first + end - 1
               /\ Lowest(rest[k]) \in Nat /\ Highest(rest[k]) \in Nat
    <3>1. /\ Cut(rest[k], s) /\ Highest(rest[k]) <= first + n - 1
          /\ first + next - 1 < Lowest(rest[k]) /\ first + Lesser(next + s, n) - 2 < Highest(rest[k])
      BY <2>4 DEF Cuts, Above
    <3>2. Lowest(rest[k]) \in Nat /\ Highest(rest[k]) \in Nat
      BY <3>1 DEF Cut, Lowest, Highest
    <3>3. first + next - 1 >= f
      BY <1>4, <1>5, <2>3
    <3>4. first + Lesser(next + s, n) - 2 >= first + end - 1
      <4>1. Lesser(next + s, n) \in Nat /\ Lesser(next + s, n) >= end + 1
        BY <1>4, <1>11, <2>3 DEF Lesser
      <4> QED
        BY <1>4, <4>1
    <3>5. Lesser(next + s, n) \in Nat
      BY <1>4, <2>3 DEF Lesser
    <3>6. Lowest(rest[k]) > f
      BY <1>6, <2>3, <3>1, <3>2, <3>3
    <3>7. Highest(rest[k]) > first + end - 1
      BY <1>4, <3>1, <3>2, <3>4, <3>5
    <3> QED
      BY <3>1, <3>2, <3>6, <3>7
  <2>9. ASSUME NEW i \in 1 .. Len(cs)
        PROVE  /\ Cut(cs[i], s) /\ first + start - 1 < Lowest(cs[i]) /\ Highest(cs[i]) <= first + n - 1
               /\ first + end - 2 < Highest(cs[i])
    <3>1. CASE i = 1
      BY <1>4, <1>5, <1>6, <1>8, <2>6, <3>1
    <3>2. CASE i # 1
      <4>1. PICK k \in 1 .. Len(rest) : cs[i] = rest[k]
        BY <2>7, <3>2
      <4>2. /\ Cut(rest[k], s) /\ Highest(rest[k]) <= first + n - 1
            /\ Lowest(rest[k]) > f /\ Highest(rest[k]) > first + end - 1
            /\ Lowest(rest[k]) \in Nat /\ Highest(rest[k]) \in Nat
        BY <2>8
      <4>3. first + start - 1 < Lowest(rest[k]) /\ first + end - 2 < Highest(rest[k])
        BY <1>4, <1>5, <4>2
      <4> QED
        BY <4>1, <4>2, <4>3
    <3> QED
      BY <3>1, <3>2
  <2>10. ASSUME NEW i \in 1 .. Len(cs), NEW k \in 1 .. Len(cs), i < k
         PROVE  Lowest(cs[i]) < Lowest(cs[k]) /\ Highest(cs[i]) < Highest(cs[k])
    <3>1. k # 1
      BY <2>10
    <3>2. PICK v \in 1 .. Len(rest) : k = v + 1 /\ cs[k] = rest[v]
      BY <2>7, <3>1
    <3>3. CASE i = 1
      BY <1>8, <2>6, <2>8, <3>2, <3>3
    <3>4. CASE i # 1
      <4>1. PICK u \in 1 .. Len(rest) : i = u + 1 /\ cs[i] = rest[u]
        BY <2>7, <3>4
      <4>2. u < v
        BY <2>10, <3>2, <4>1
      <4>3. Lowest(rest[u]) < Lowest(rest[v]) /\ Highest(rest[u]) < Highest(rest[v])
        BY <2>4, <4>2 DEF Cuts
      <4> QED
        BY <3>2, <4>1, <4>3
    <3> QED
      BY <3>3, <3>4
  <2>11. Cuts(cs, s, first + start - 1, first + n - 1)
    BY <2>6, <2>9, <2>10 DEF Cuts
  <2>12. Above(cs, first + end - 2)
    BY <2>9 DEF Above
  <2>13. ASSUME NEW x \in first + start .. first + n - 1
         PROVE  \E i \in 1 .. Len(cs) : In(x, cs[i])
    <3>1. CASE x \in f .. first + end - 1
      <4>1. In(x, cs[1]) /\ 1 \in 1 .. Len(cs)
        BY <1>8, <2>6, <3>1
      <4> QED
        BY <4>1
    <3>2. CASE x \notin f .. first + end - 1
      <4>1. x \in first + next .. first + n - 1
        BY <1>4, <1>5, <2>3, <3>2
      <4>2. PICK k \in 1 .. Len(rest) : In(x, rest[k])
        BY <2>4, <4>1 DEF Covers
      <4> QED
        BY <2>6, <4>2
    <3> QED
      BY <3>1, <3>2
  <2>14. Covers(cs, first + start .. first + n - 1)
    BY <2>13 DEF Covers
  <2> QED
    BY <1>1, <1>2, <1>3, <1>9, <2>11, <2>12, <2>14 DEF CutsOfRest
<1> QED
  BY <1>10, <1>11

\* The chunks of a text that is cut up advance, are not too long, and hold all of it.
LEMMA SplitIsCut ==
  ASSUME NEW first \in Nat \ {0}, NEW n \in Nat, NEW r, Advances(r)
  PROVE  /\ Cuts(Split(Positions(first, n), r), r.size, first - 1, first + n - 1)
         /\ Covers(Split(Positions(first, n), r), first .. first + n - 1)
<1>1. PICK text : text = Positions(first, n)
  OBVIOUS
<1>2. Len(text) = n
  BY <1>1 DEF Positions
<1>3. PICK f : /\ Split(text, r) = f[0]
               /\ \A start \in 0 .. n : f[start] = SplitStep(text, r, f, start)
  BY <1>2, SplitIs
<1>4. CASE n = 0
  <2>1. f[0] = <<>>
    BY <1>2, <1>3, <1>4 DEF SplitStep
  <2>2. f[0] \in Seq(Seq(Nat)) /\ Len(f[0]) = 0 /\ first .. first + n - 1 = {}
    BY <1>4, <2>1
  <2> QED
    BY <1>1, <1>3, <2>2 DEF Cuts, Covers
<1>5. CASE n # 0
  <2> DEFINE Good(start) == CutsOfRest(f[start], first, n, r, start)
             Bad == {j \in 1 .. n : ~ Good(n - j)}
  <2>1. ASSUME NEW start \in 0 .. n, start # n,
               \A later \in 0 .. n : start < later /\ later # n => Good(later)
        PROVE  Good(start)
    <3>1. PICK end : end = Lesser(start + r.size, n)
      OBVIOUS
    <3>2. PICK rest : rest = IF end = n THEN <<>> ELSE f[start + r.size - r.overlap]
      OBVIOUS
    <3>3. f[start] = <<SubSeq(text, start + 1, end)>> \o rest
      BY <1>2, <1>3, <2>1, <3>1, <3>2, Zenon DEF SplitStep, End
    <3>4. ASSUME end # n PROVE CutsOfRest(rest, first, n, r, start + r.size - r.overlap)
      <4>1. PICK later : later = start + r.size - r.overlap
        OBVIOUS
      <4>2. later \in 0 .. n /\ start < later /\ later # n
        BY <3>1, <3>4, <4>1 DEF Advances, Lesser
      <4>3. Good(later)
        BY <2>1, <4>2
      <4> QED
        BY <3>2, <3>4, <4>1, <4>3
    <3>5. IF end = n THEN rest = <<>> ELSE CutsOfRest(rest, first, n, r, start + r.size - r.overlap)
      BY <3>2, <3>4
    <3>6. CutsOfRest(<<SubSeq(text, start + 1, end)>> \o rest, first, n, r, start)
      BY <1>1, <2>1, <3>1, <3>5, RestIsCut
    <3> QED
      BY <3>3, <3>6
  <2>2. Bad = {}
    <3> SUFFICES ASSUME Bad # {} PROVE FALSE
      OBVIOUS
    <3>1. PICK j \in Bad : \A i \in Bad : j <= i
      <4>1. Bad \subseteq Nat
        OBVIOUS
      <4> HIDE DEF Bad
      <4> QED
        BY <4>1, LeastNatural
    <3>2. j \in 1 .. n /\ ~ Good(n - j)
      OBVIOUS
    <3> HIDE DEF Good
    <3>3. ASSUME NEW later \in 0 .. n, n - j < later, later # n PROVE Good(later)
      <4>1. n - later \in 1 .. n /\ ~ (j <= n - later) /\ n - (n - later) = later
        BY <3>2, <3>3
      <4> QED
        BY <3>1, <4>1
    <3>4. n - j \in 0 .. n /\ n - j # n
      BY <3>2
    <3>5. Good(n - j)
      BY <2>1, <3>3, <3>4
    <3> QED
      BY <3>2, <3>5
  <2>3. Good(0)
    <3>1. n \in 1 .. n /\ n - n = 0
      BY <1>5
    <3> HIDE DEF Good
    <3> QED
      BY <2>2, <3>1
  <2>4. first + 0 - 1 = first - 1 /\ first + 0 = first
    OBVIOUS
  <2>5. CutsOfRest(f[0], first, n, r, 0)
    BY <2>3
  <2>6. Cuts(f[0], r.size, first - 1, first + n - 1) /\ Covers(f[0], first .. first + n - 1)
    BY <2>4, <2>5 DEF CutsOfRest
  <2> QED
    BY <1>1, <1>3, <2>6
<1> QED
  BY <1>4, <1>5

-----------------------------------------------------------------------------
(* Chunks of paragraphs. *)

LEMMA NumberedIs ==
  ASSUME NEW M, NEW cs \in Seq(M), NEW next
  PROVE  /\ DOMAIN Numbered(cs, next) = 1 .. Len(cs)
         /\ \A i \in 1 .. Len(cs) :
              Numbered(cs, next)[i] = [index |-> next + i - 1, content |-> cs[i]]
<1>1. DOMAIN cs = 1 .. Len(cs) /\ Len(cs) \in Nat /\ \A i \in 1 .. Len(cs) : cs[i] \in M
  OBVIOUS
<1> QED
  BY <1>1 DEF Numbered

LEMMA NumberedJoin ==
  ASSUME NEW M, NEW a \in Seq(M), NEW b \in Seq(M)
  PROVE  Numbered(a \o b, 0) = Numbered(a, 0) \o Numbered(b, Len(a))
<1>1. PICK c : c = a \o b
  OBVIOUS
<1>2. PICK m, n : m = Len(a) /\ n = Len(b)
  OBVIOUS
<1>3. /\ c \in Seq(M) /\ m \in Nat /\ n \in Nat /\ Len(c) = m + n
      /\ \A i \in 1 .. m : c[i] = a[i]
      /\ \A i \in m + 1 .. m + n : c[i] = b[i - m]
  BY <1>1, <1>2
<1>4. PICK u, v, w : u = Numbered(a, 0) /\ v = Numbered(b, m) /\ w = Numbered(c, 0)
  OBVIOUS
<1>5. /\ u = [i \in 1 .. m |-> [index |-> 0 + i - 1, content |-> a[i]]]
      /\ v = [i \in 1 .. n |-> [index |-> m + i - 1, content |-> b[i]]]
      /\ w = [i \in 1 .. m + n |-> [index |-> 0 + i - 1, content |-> c[i]]]
  BY <1>2, <1>3, <1>4 DEF Numbered
<1>6. Len(u) = m /\ Len(v) = n
  BY <1>3, <1>5
<1>7. u \o v = [i \in 1 .. m + n |-> IF i <= m THEN u[i] ELSE v[i - m]]
  <2>1. PICK K : K = [index : Int, content : M]
    OBVIOUS
  <2>2. (\A i \in 1 .. m : 0 + i - 1 \in Int /\ a[i] \in M) /\ (\A i \in 1 .. n : m + i - 1 \in Int /\ b[i] \in M)
    BY <1>2, <1>3
  <2>3. (\A i \in 1 .. m : u[i] \in K) /\ (\A i \in 1 .. n : v[i] \in K)
    BY <1>5, <2>1, <2>2
  <2>4. u \in Seq(K) /\ v \in Seq(K)
    BY <1>3, <1>5, <2>3
  <2>5. PICK t : t = u \o v
    OBVIOUS
  <2>6. /\ t \in Seq(K) /\ Len(t) = m + n
        /\ \A i \in 1 .. m + n : t[i] = IF i <= m THEN u[i] ELSE v[i - m]
    BY <1>3, <1>6, <2>4, <2>5, ConcatProperties
  <2>7. t = [i \in 1 .. m + n |-> t[i]]
    BY <2>6
  <2> QED
    BY <2>5, <2>6, <2>7
<1>8. ASSUME NEW i \in 1 .. m + n
      PROVE  w[i] = IF i <= m THEN u[i] ELSE v[i - m]
  <2>1. CASE i <= m
    <3>1. i \in 1 .. m
      BY <1>3, <2>1
    <3> QED
      BY <1>3, <1>5, <2>1, <3>1
  <2>2. CASE i > m
    <3>1. PICK k : k = i - m
      OBVIOUS
    <3>2. k \in 1 .. n /\ i \in m + 1 .. m + n /\ m + k - 1 = 0 + i - 1
      BY <1>3, <2>2, <3>1
    <3>3. w[i] = [index |-> 0 + i - 1, content |-> b[k]]
      BY <1>3, <1>5, <3>1, <3>2
    <3>4. v[k] = [index |-> m + k - 1, content |-> b[k]]
      BY <1>5, <3>2
    <3> QED
      BY <1>3, <2>2, <3>1, <3>2, <3>3, <3>4
  <2> QED
    BY <1>3, <2>1, <2>2
<1>9. w = u \o v
  BY <1>5, <1>7, <1>8
<1> QED
  BY <1>1, <1>2, <1>4, <1>9

\* The contents of the chunks so far, and the paragraphs that are pending.
All(cs, pending) == IF pending = <<>> THEN cs ELSE Append(cs, pending)

State(chunks, pending, next) == [chunks |-> chunks, pending |-> pending, next |-> next]

\* The chunks have consecutive indexes, and hold the part of the text they are made of.
Tidy(s, size, high, part) ==
  \E cs \in Seq(Seq(Nat)), pending \in Seq(Nat) :
    /\ s = State(Numbered(cs, 0), pending, Len(cs))
    /\ Cuts(All(cs, pending), size, 0, high)
    /\ Covers(All(cs, pending), part)

LEMMA FlushIsTidy ==
  ASSUME NEW cs \in Seq(Seq(Nat)), NEW pending \in Seq(Nat),
         NEW s, s = State(Numbered(cs, 0), pending, Len(cs))
  PROVE  /\ All(cs, pending) \in Seq(Seq(Nat))
         /\ Flush(s) = State(Numbered(All(cs, pending), 0), <<>>, Len(All(cs, pending)))
<1>1. s.chunks = Numbered(cs, 0) /\ s.pending = pending /\ s.next = Len(cs)
  BY DEF State
<1>2. CASE pending = <<>>
  BY <1>1, <1>2 DEF Flush, All, State
<1>3. CASE pending # <<>>
  <2>1. PICK u : u = Numbered(cs, 0)
    OBVIOUS
  <2>2. PICK v : v = [index |-> Len(cs), content |-> pending]
    OBVIOUS
  <2>3. /\ Append(cs, pending) \in Seq(Seq(Nat))
        /\ Append(cs, pending) = cs \o <<pending>>
        /\ Len(Append(cs, pending)) = Len(cs) + 1
    OBVIOUS
  <2>4. Numbered(<<pending>>, Len(cs)) = <<v>>
    <3>1. Len(cs) \in Nat /\ Len(cs) + 1 - 1 = Len(cs)
      OBVIOUS
    <3>2. PICK p : p = <<pending>>
      OBVIOUS
    <3>3. DOMAIN p = 1 .. 1 /\ p[1] = pending
      BY <3>2
    <3>4. Numbered(p, Len(cs)) = [i \in 1 .. 1 |-> v]
      BY <2>2, <3>1, <3>3 DEF Numbered
    <3>5. [i \in 1 .. 1 |-> v] = <<v>>
      OBVIOUS
    <3> QED
      BY <3>2, <3>4, <3>5
  <2>5. Numbered(Append(cs, pending), 0) = u \o <<v>>
    <3>1. <<pending>> \in Seq(Seq(Nat))
      OBVIOUS
    <3>2. Numbered(cs \o <<pending>>, 0) = Numbered(cs, 0) \o Numbered(<<pending>>, Len(cs))
      BY <3>1, NumberedJoin
    <3> QED
      BY <2>1, <2>3, <2>4, <3>2
  <2>6. u \o <<v>> = Append(u, v)
    <3>1. \E M : u \in Seq(M) /\ v \in M
      <4>1. PICK M : M = [index : Nat, content : Seq(Nat)]
        OBVIOUS
      <4>2. v \in M
        BY <2>2, <4>1
      <4>3. \A i \in 1 .. Len(cs) : 0 + i - 1 \in Nat /\ cs[i] \in Seq(Nat)
        OBVIOUS
      <4>4. u = [i \in 1 .. Len(cs) |-> [index |-> 0 + i - 1, content |-> cs[i]]]
        BY <2>1 DEF Numbered
      <4>5. u \in Seq(M)
        BY <4>1, <4>3, <4>4
      <4> QED
        BY <4>2, <4>5
    <3> QED
      BY <3>1
  <2>7. Flush(s) = State(Append(u, v), <<>>, Len(cs) + 1)
    BY <1>1, <1>3, <2>1, <2>2 DEF Flush, State
  <2>8. All(cs, pending) = Append(cs, pending)
    BY <1>3 DEF All
  <2> QED
    BY <2>3, <2>5, <2>6, <2>7, <2>8
<1> QED
  BY <1>2, <1>3

LEMMA CutsWeaken ==
  ASSUME NEW cs, NEW size, NEW low, NEW middle \in Nat, NEW high \in Nat, middle <= high,
         Cuts(cs, size, low, middle)
  PROVE  Cuts(cs, size, low, high)
<1>1. \A s : Cut(s, size) => Highest(s) \in Nat
  BY DEF Cut, Highest
<1>2. \A i \in 1 .. Len(cs) : Cut(cs[i], size) /\ low < Lowest(cs[i]) /\ Highest(cs[i]) <= middle
  BY DEF Cuts
<1>3. \A i \in 1 .. Len(cs) : Cut(cs[i], size) /\ low < Lowest(cs[i]) /\ Highest(cs[i]) <= high
  BY <1>1, <1>2
<1> QED
  BY <1>3 DEF Cuts

\* A paragraph that is not too long comes after the chunks.
LEMMA ParagraphAfter ==
  ASSUME NEW size \in Nat, NEW high \in Nat, NEW part, NEW cs, NEW start \in Nat \ {0},
         NEW n \in Nat \ {0}, n <= size, high < start,
         Cuts(cs, size, 0, high), Covers(cs, part)
  PROVE  LET paragraph == Positions(start, n) IN
         /\ paragraph \in Seq(Nat)
         /\ Cuts(All(cs, paragraph), size, 0, start + n - 1)
         /\ Covers(All(cs, paragraph), part \cup (start .. start + n - 1))
<1>1. PICK p : p = Positions(start, n)
  OBVIOUS
<1>2. /\ Cut(p, size) /\ p # <<>> /\ Lowest(p) = start /\ Highest(p) = start + n - 1
      /\ \A x \in start .. start + n - 1 : In(x, p)
  BY <1>1, PositionsCut
<1>3. p \in Seq(Nat) /\ cs \in Seq(Seq(Nat))
  BY <1>2 DEF Cut, Cuts
<1>4. All(cs, p) = cs \o <<p>>
  BY <1>2, <1>3 DEF All
<1>5. PICK middle \in Nat : middle = start - 1
  OBVIOUS
<1>6. PICK top \in Nat : top = start + n - 1
  OBVIOUS
<1>7. Cuts(cs, size, 0, middle)
  <2>1. high <= middle
    BY <1>5
  <2> QED
    BY <2>1, CutsWeaken
<1>8. Cuts(<<p>>, size, middle, top)
  <2>1. middle < Lowest(p) /\ Highest(p) <= top
    BY <1>2, <1>5, <1>6
  <2> QED
    BY <1>2, <2>1, OneCut
<1>9. Cuts(cs \o <<p>>, size, 0, top)
  <2>1. 0 <= middle /\ middle <= top
    BY <1>5, <1>6
  <2> QED
    BY <1>7, <1>8, <2>1, CutsJoin
<1>10. Covers(<<p>>, start .. start + n - 1)
  <2>1. PICK q : q = <<p>>
    OBVIOUS
  <2>2. Len(q) = 1 /\ q[1] = p
    BY <2>1
  <2> QED
    BY <1>2, <2>1, <2>2 DEF Covers
<1>11. Covers(cs \o <<p>>, part \cup (start .. start + n - 1))
  <2>1. <<p>> \in Seq(Seq(Nat))
    BY <1>3
  <2> QED
    BY <1>3, <1>10, <2>1, CoversJoin
<1> QED
  BY <1>1, <1>3, <1>4, <1>6, <1>9, <1>11

LEMMA EndOfParagraph ==
  ASSUME NEW start \in Nat \ {0}, NEW n \in Nat \ {0}
  PROVE  start + n - 1 \in Nat
OBVIOUS

\* The paragraphs that are pending, with one more.
LEMMA ParagraphJoins ==
  ASSUME NEW size \in Nat, NEW high \in Nat, NEW part, NEW cs \in Seq(Seq(Nat)),
         NEW pending \in Seq(Nat), pending # <<>>,
         NEW start \in Nat \ {0}, NEW n \in Nat \ {0}, n <= size, high < start,
         Cuts(All(cs, pending), size, 0, high), Covers(All(cs, pending), part),
         NEW joined, joined = pending \o <<0, 0>> \o Positions(start, n), Len(joined) <= size
  PROVE  /\ joined \in Seq(Nat)
         /\ Cuts(All(cs, joined), size, 0, start + n - 1)
         /\ Covers(All(cs, joined), part \cup (start .. start + n - 1))
<1>1. PICK p : p = Positions(start, n)
  OBVIOUS
<1>2. /\ Cut(p, size) /\ Lowest(p) = start /\ Highest(p) = start + n - 1
      /\ \A x \in start .. start + n - 1 : In(x, p)
  BY <1>1, PositionsCut
<1>3. PICK before : before = Append(cs, pending)
  OBVIOUS
<1>4. /\ before = All(cs, pending) /\ Len(cs) \in Nat
      /\ Len(before) = Len(cs) + 1 /\ before[Len(cs) + 1] = pending
      /\ \A i \in 1 .. Len(cs) : before[i] = cs[i]
  BY <1>3 DEF All
<1>5. Cut(pending, size) /\ Highest(pending) <= high
  <2>1. Len(cs) + 1 \in 1 .. Len(before)
    BY <1>4
  <2>2. Cuts(before, size, 0, high)
    BY <1>4
  <2>3. Cut(before[Len(cs) + 1], size) /\ Highest(before[Len(cs) + 1]) <= high
    BY <2>1, <2>2 DEF Cuts
  <2> QED
    BY <1>4, <2>3
<1>6. Highest(pending) \in Nat /\ Highest(pending) < start
  <2>1. Highest(pending) \in Nat
    BY <1>5 DEF Cut, Highest
  <2> QED
    BY <1>5, <2>1
<1>7. /\ Cut(joined, size) /\ Lowest(joined) = Lowest(pending) /\ Highest(joined) = start + n - 1
      /\ \A x : In(x, pending) \/ In(x, p) => In(x, joined)
  BY <1>1, <1>2, <1>5, <1>6, JoinedCut
<1>8. joined \in Seq(Nat)
  BY <1>7 DEF Cut
<1>9. joined # <<>>
  BY <1>7 DEF Cut
<1>10. PICK after : after = Append(cs, joined)
  OBVIOUS
<1>11. /\ after = All(cs, joined) /\ Len(after) = Len(cs) + 1 /\ after[Len(cs) + 1] = joined
       /\ \A i \in 1 .. Len(cs) : after[i] = cs[i]
  <2>1. after = All(cs, joined)
    BY <1>9, <1>10 DEF All
  <2>2. /\ Len(after) = Len(cs) + 1 /\ after[Len(cs) + 1] = joined
        /\ \A i \in 1 .. Len(cs) : after[i] = cs[i]
    <3>1. PICK S : S = Seq(Nat)
      OBVIOUS
    <3>2. cs \in Seq(S) /\ joined \in S
      BY <1>8, <3>1
    <3> QED
      BY <1>10, <3>2, AppendProperties
  <2> QED
    BY <2>1, <2>2
<1>12. Cuts(after, size, 0, start + n - 1)
  <2>1. PICK top \in Nat : top = start + n - 1
    BY EndOfParagraph
  <2>2. high <= top /\ Highest(pending) < Highest(joined) /\ Highest(joined) <= top
    BY <1>6, <1>7, <2>1
  <2>3. Cuts(Append(cs, pending), size, 0, high)
    BY <1>3, <1>4
  <2>4. Cut(joined, size) /\ Lowest(joined) = Lowest(pending)
    BY <1>7
  <2>5. Cuts(Append(cs, joined), size, 0, top)
    <3>1. Grows(cs, pending, joined, size, 0, high, top)
      BY <2>2, <2>3, <2>4 DEF Grows
    <3> QED
      BY Zenon, <3>1, LastGrows
  <2> QED
    BY <1>10, <2>1, <2>5
<1>13. ASSUME NEW x \in part \cup (start .. start + n - 1)
       PROVE  \E i \in 1 .. Len(after) : In(x, after[i])
  <2>0. Len(cs) + 1 \in 1 .. Len(after)
    BY <1>4, <1>11
  <2>1. CASE x \in start .. start + n - 1
    <3>1. In(x, joined)
      BY <1>2, <1>7, <2>1
    <3> QED
      BY <1>11, <2>0, <3>1
  <2>2. CASE x \in part
    <3>1. PICK i \in 1 .. Len(before) : In(x, before[i])
      BY <1>4, <2>2 DEF Covers
    <3>2. CASE i = Len(cs) + 1
      <4>1. In(x, joined)
        BY <1>4, <1>7, <3>1, <3>2
      <4> QED
        BY <1>11, <2>0, <4>1
    <3>3. CASE i # Len(cs) + 1
      <4>1. i \in 1 .. Len(cs) /\ i \in 1 .. Len(after)
        BY <1>4, <1>11, <3>3
      <4>2. In(x, after[i])
        BY <1>4, <1>11, <3>1, <4>1
      <4> QED
        BY <4>1, <4>2
    <3> QED
      BY <3>2, <3>3
  <2> QED
    BY <2>1, <2>2
<1>14. Covers(after, part \cup (start .. start + n - 1))
  BY <1>13 DEF Covers
<1> QED
  BY <1>8, <1>11, <1>12, <1>14

LEMMA TakeIsTidy ==
  ASSUME NEW r, Advances(r), NEW high \in Nat, NEW part, NEW s, Tidy(s, r.size, high, part),
         NEW start \in Nat \ {0}, NEW n \in Nat \ {0}, high < start
  PROVE  Tidy(TakeParagraph(s, Positions(start, n), r), r.size, start + n - 1,
              part \cup (start .. start + n - 1))
<1>1. PICK cs \in Seq(Seq(Nat)), pending \in Seq(Nat) :
        /\ s = State(Numbered(cs, 0), pending, Len(cs))
        /\ Cuts(All(cs, pending), r.size, 0, high)
        /\ Covers(All(cs, pending), part)
  BY DEF Tidy
<1>2. PICK p : p = Positions(start, n)
  OBVIOUS
<1>3. PICK A : A = All(cs, pending)
  OBVIOUS
<1>4. A \in Seq(Seq(Nat)) /\ Flush(s) = State(Numbered(A, 0), <<>>, Len(A))
  BY <1>1, <1>3, FlushIsTidy
<1>5. Cuts(A, r.size, 0, high) /\ Covers(A, part) /\ r.size \in Nat
  BY <1>1, <1>3 DEF Advances
<1>6. Len(p) = n /\ n \in Nat
  BY <1>2 DEF Positions
<1>7. s.chunks = Numbered(cs, 0) /\ s.pending = pending /\ s.next = Len(cs)
  BY <1>1 DEF State
<1>8. PICK top \in Nat : top = start + n - 1
  OBVIOUS
<1>9. PICK whole : whole = part \cup (start .. start + n - 1)
  OBVIOUS
<1>10. CASE n > r.size
  <2>1. PICK pieces : pieces = Split(p, r)
    OBVIOUS
  <2>2. Cuts(pieces, r.size, start - 1, top) /\ Covers(pieces, start .. start + n - 1)
    BY <1>2, <1>8, <2>1, SplitIsCut
  <2>3. pieces \in Seq(Seq(Nat))
    BY <2>2 DEF Cuts
  <2>4. TakeParagraph(s, p, r) = CutUp(State(Numbered(A, 0), <<>>, Len(A)), pieces)
    BY <1>4, <1>6, <1>10, <2>1 DEF TakeParagraph
  <2>5. PICK B : B = A \o pieces
    OBVIOUS
  <2>6. /\ B \in Seq(Seq(Nat)) /\ Len(B) = Len(A) + Len(pieces)
        /\ Numbered(B, 0) = Numbered(A, 0) \o Numbered(pieces, Len(A))
    BY <1>4, <2>3, <2>5, NumberedJoin
  <2>7. TakeParagraph(s, p, r) = State(Numbered(B, 0), <<>>, Len(B))
    BY <2>4, <2>6 DEF CutUp, State
  <2>8. Cuts(B, r.size, 0, top)
    <3>1. PICK middle \in Nat : middle = start - 1
      OBVIOUS
    <3>2. high <= middle /\ 0 <= middle /\ middle <= top
      BY <1>8, <3>1
    <3>3. Cuts(A, r.size, 0, middle)
      BY <1>5, <3>2, CutsWeaken
    <3> QED
      BY <1>5, <2>2, <2>5, <3>1, <3>2, <3>3, CutsJoin
  <2>9. Covers(B, whole)
    BY <1>4, <1>5, <1>9, <2>2, <2>3, <2>5, CoversJoin
  <2>10. All(B, <<>>) = B /\ <<>> \in Seq(Nat)
    BY DEF All
  <2>11. Tidy(TakeParagraph(s, p, r), r.size, top, whole)
    BY <2>6, <2>7, <2>8, <2>9, <2>10 DEF Tidy
  <2> QED
    BY <1>2, <1>8, <1>9, <2>11
<1>11. CASE n <= r.size /\ TooLong(s, p, r)
  <2>1. TakeParagraph(s, p, r) = [Flush(s) EXCEPT !.pending = p]
    BY <1>5, <1>6, <1>11 DEF TakeParagraph
  <2>2. TakeParagraph(s, p, r) = State(Numbered(A, 0), p, Len(A))
    BY <1>4, <2>1 DEF State
  <2>3. /\ p \in Seq(Nat) /\ Cuts(All(A, p), r.size, 0, top)
        /\ Covers(All(A, p), whole)
    BY <1>2, <1>5, <1>8, <1>9, <1>11, ParagraphAfter
  <2>4. Tidy(TakeParagraph(s, p, r), r.size, top, whole)
    BY <1>4, <2>2, <2>3 DEF Tidy
  <2> QED
    BY <1>2, <1>8, <1>9, <2>4
<1>12. CASE n <= r.size /\ ~ TooLong(s, p, r)
  <2>1. TakeParagraph(s, p, r) = [s EXCEPT !.pending = Joined(@, p)]
    BY <1>5, <1>6, <1>12 DEF TakeParagraph
  <2>2. TakeParagraph(s, p, r) = State(Numbered(cs, 0), Joined(pending, p), Len(cs))
    BY <1>1, <1>7, <2>1 DEF State
  <2>3. CASE pending = <<>>
    <3>1. Joined(pending, p) = p /\ A = cs
      BY <1>3, <2>3 DEF Joined, All
    <3>2. /\ p \in Seq(Nat) /\ Cuts(All(cs, p), r.size, 0, top)
          /\ Covers(All(cs, p), whole)
      BY <1>2, <1>5, <1>8, <1>9, <1>12, <3>1, ParagraphAfter
    <3>3. Tidy(TakeParagraph(s, p, r), r.size, top, whole)
      BY <2>2, <3>1, <3>2 DEF Tidy
    <3> QED
      BY <1>2, <1>8, <1>9, <3>3
  <2>4. CASE pending # <<>>
    <3>1. PICK joined : joined = Joined(pending, p)
      OBVIOUS
    <3>2. joined = pending \o <<0, 0>> \o p
      BY <2>4, <3>1 DEF Joined
    <3>3. ~ (Len(joined) > r.size)
      BY <1>7, <1>12, <2>4, <3>1 DEF TooLong
    <3>4. Len(joined) <= r.size
      <4>1. p \in Seq(Nat)
        BY <1>2 DEF Positions
      <4>2. joined \in Seq(Nat)
        BY <3>2, <4>1
      <4>3. Len(joined) \in Nat
        BY <4>2
      <4> QED
        BY <1>5, <3>3, <4>3
    <3>5. Cuts(All(cs, pending), r.size, 0, high) /\ Covers(All(cs, pending), part)
      BY <1>1
    <3>6. /\ joined \in Seq(Nat) /\ Cuts(All(cs, joined), r.size, 0, start + n - 1)
          /\ Covers(All(cs, joined), part \cup (start .. start + n - 1))
      BY <1>2, <1>5, <1>12, <2>4, <3>2, <3>4, <3>5, ParagraphJoins
    <3>7. Tidy(TakeParagraph(s, p, r), r.size, top, whole)
      BY <1>8, <1>9, <2>2, <3>1, <3>6 DEF Tidy
    <3> QED
      BY <1>2, <1>8, <1>9, <3>7
  <2> QED
    BY <2>3, <2>4
<1> QED
  BY <1>5, <1>10, <1>11, <1>12

\* What the paragraphs from the first to the k-th are made of.
PartOf(paragraphs, k) ==
  {x \in Nat : \E i \in 1 .. k :
     x \in paragraphs[i].start .. paragraphs[i].start + paragraphs[i].length - 1}

InOrder(text) ==
  /\ text.length \in Nat
  /\ text.paragraphs \in Seq([start : Nat \ {0}, length : Nat \ {0}])
  /\ \A i \in DOMAIN text.paragraphs :
       text.paragraphs[i].start + text.paragraphs[i].length <= text.length + 1
  /\ \A i, j \in DOMAIN text.paragraphs : i < j =>
       text.paragraphs[i].start + text.paragraphs[i].length <= text.paragraphs[j].start

ParagraphOf(text, n) == Positions(text.paragraphs[n].start, text.paragraphs[n].length)

Empty == [chunks |-> <<>>, pending |-> <<>>, next |-> 0]

TakeStep(text, r, f, n) ==
  IF n = 0 THEN Empty ELSE TakeParagraph(f[n - 1], ParagraphOf(text, n), r)

LEMMA TakeSteps ==
  ASSUME NEW text, NEW r, NEW size \in Nat
  PROVE  \E f : f = [n \in 0 .. size |-> TakeStep(text, r, f, n)]
<1> DEFINE Good(k) == \E f : f = [n \in 0 .. k |-> TakeStep(text, r, f, n)]
           Bad == {k \in 0 .. size : ~ Good(k)}
<1>1. Good(0)
  <2>1. PICK f : f = [n \in 0 .. 0 |-> Empty]
    OBVIOUS
  <2>2. \A n \in 0 .. 0 : TakeStep(text, r, f, n) = Empty
    BY DEF TakeStep
  <2>3. f = [n \in 0 .. 0 |-> TakeStep(text, r, f, n)]
    BY <2>1, <2>2
  <2> QED
    BY <2>3
<1>2. ASSUME NEW k \in Nat, Good(k) PROVE Good(k + 1)
  <2>1. PICK f : f = [n \in 0 .. k |-> TakeStep(text, r, f, n)]
    BY <1>2
  <2>2. PICK l : l = k + 1
    OBVIOUS
  <2>3. PICK g : g = [n \in 0 .. l |-> IF n = l THEN TakeStep(text, r, f, l) ELSE f[n]]
    OBVIOUS
  <2>4. /\ l \in 0 .. l
        /\ \A n \in 0 .. l : n # l => n \in 0 .. k
        /\ \A n \in 0 .. k : n \in 0 .. l /\ n # l
        /\ \A n \in 0 .. l : n # 0 => n - 1 \in 0 .. k
    BY <2>2
  <2>5. \A n \in 0 .. k : g[n] = f[n]
    BY <2>3, <2>4
  <2>6. ASSUME NEW n \in 0 .. l PROVE TakeStep(text, r, g, n) = TakeStep(text, r, f, n)
    <3>1. CASE n = 0
      BY <3>1 DEF TakeStep
    <3>2. CASE n # 0
      <4>1. g[n - 1] = f[n - 1]
        BY <2>4, <2>5, <3>2
      <4> QED
        BY <4>1 DEF TakeStep
    <3> QED
      BY <3>1, <3>2
  <2>7. ASSUME NEW n \in 0 .. l PROVE g[n] = TakeStep(text, r, g, n)
    <3>1. CASE n = l
      BY <2>3, <2>4, <2>6, <3>1
    <3>2. CASE n # l
      <4>1. n \in 0 .. k
        BY <2>4, <3>2
      <4>2. f[n] = TakeStep(text, r, f, n)
        BY <2>1, <4>1
      <4> QED
        BY <2>5, <2>6, <4>1, <4>2
    <3> QED
      BY <3>1, <3>2
  <2>8. g = [n \in 0 .. l |-> TakeStep(text, r, g, n)]
    BY <2>3, <2>7
  <2> QED
    BY <2>2, <2>8
<1>3. Bad = {}
  <2> SUFFICES ASSUME Bad # {} PROVE FALSE
    OBVIOUS
  <2>1. PICK k \in Bad : \A j \in Bad : k <= j
    <3>1. Bad \subseteq Nat
      OBVIOUS
    <3> HIDE DEF Bad
    <3> QED
      BY <3>1, LeastNatural
  <2>2. k \in 0 .. size /\ ~ Good(k)
    OBVIOUS
  <2> HIDE DEF Good
  <2>3. k # 0
    BY <1>1, <2>2
  <2>4. k - 1 \in 0 .. size /\ k - 1 \in Nat /\ (k - 1) + 1 = k /\ ~ (k <= k - 1)
    BY <2>2, <2>3
  <2>5. Good(k - 1)
    BY <2>1, <2>4
  <2> QED
    BY <1>2, <2>2, <2>4, <2>5
<1>4. Good(size)
  <2>1. size \in 0 .. size
    OBVIOUS
  <2> HIDE DEF Good
  <2> QED
    BY <1>3, <2>1
<1> QED
  BY <1>4

LEMMA ByParagraphIs ==
  ASSUME NEW text, NEW r, Len(text.paragraphs) \in Nat
  PROVE  \E f : /\ ByParagraph(text, r) = Flush(f[Len(text.paragraphs)]).chunks
                /\ \A n \in 0 .. Len(text.paragraphs) : f[n] = TakeStep(text, r, f, n)
<1> DEFINE paragraph(n) == Positions(text.paragraphs[n].start, text.paragraphs[n].length)
           taken[n \in 0 .. Len(text.paragraphs)] ==
             IF n = 0 THEN [chunks |-> <<>>, pending |-> <<>>, next |-> 0]
             ELSE TakeParagraph(taken[n - 1], paragraph(n), r)
<1>1. \E f : f = [n \in 0 .. Len(text.paragraphs) |->
                    IF n = 0 THEN [chunks |-> <<>>, pending |-> <<>>, next |-> 0]
                    ELSE TakeParagraph(f[n - 1], paragraph(n), r)]
  <2>1. PICK f : f = [n \in 0 .. Len(text.paragraphs) |-> TakeStep(text, r, f, n)]
    BY TakeSteps
  <2>2. \A n \in 0 .. Len(text.paragraphs) :
          TakeStep(text, r, f, n) =
            IF n = 0 THEN [chunks |-> <<>>, pending |-> <<>>, next |-> 0]
            ELSE TakeParagraph(f[n - 1], paragraph(n), r)
    BY Zenon DEF TakeStep, Empty, ParagraphOf
  <2>3. f = [n \in 0 .. Len(text.paragraphs) |->
               IF n = 0 THEN [chunks |-> <<>>, pending |-> <<>>, next |-> 0]
               ELSE TakeParagraph(f[n - 1], paragraph(n), r)]
    BY <2>1, <2>2
  <2> QED
    BY <2>3, Zenon
<1>2. taken = [n \in 0 .. Len(text.paragraphs) |->
                 IF n = 0 THEN [chunks |-> <<>>, pending |-> <<>>, next |-> 0]
                 ELSE TakeParagraph(taken[n - 1], paragraph(n), r)]
  BY <1>1, Zenon
<1>3. ByParagraph(text, r) = Flush(taken[Len(text.paragraphs)]).chunks
  BY Zenon DEF ByParagraph
<1> HIDE DEF taken
<1>4. \A n \in 0 .. Len(text.paragraphs) : taken[n] = TakeStep(text, r, taken, n)
  BY <1>2 DEF TakeStep, Empty, ParagraphOf
<1> QED
  BY <1>3, <1>4

\* Where the k-th paragraph ends.
Bottom(text, k) ==
  IF k = 0 THEN 0 ELSE text.paragraphs[k].start + text.paragraphs[k].length - 1

LEMMA ParagraphsInOrder ==
  ASSUME NEW text, InOrder(text), NEW k \in 1 .. Len(text.paragraphs)
  PROVE  /\ text.paragraphs[k].start \in Nat \ {0} /\ text.paragraphs[k].length \in Nat \ {0}
         /\ Bottom(text, k) \in Nat /\ Bottom(text, k) <= text.length
         /\ Bottom(text, k - 1) \in Nat /\ Bottom(text, k - 1) < text.paragraphs[k].start
         /\ PartOf(text.paragraphs, k) =
              PartOf(text.paragraphs, k - 1) \cup (text.paragraphs[k].start .. Bottom(text, k))
<1>1. PICK ps : ps = text.paragraphs
  OBVIOUS
<1>2. /\ ps \in Seq([start : Nat \ {0}, length : Nat \ {0}]) /\ k \in 1 .. Len(ps)
      /\ \A i \in 1 .. Len(ps) : ps[i].start + ps[i].length <= text.length + 1
      /\ \A i, j \in 1 .. Len(ps) : i < j => ps[i].start + ps[i].length <= ps[j].start
      /\ text.length \in Nat
  <2>1. ps \in Seq([start : Nat \ {0}, length : Nat \ {0}]) /\ text.length \in Nat
    BY <1>1 DEF InOrder
  <2>2. DOMAIN ps = 1 .. Len(ps)
    BY <2>1, LenProperties
  <2>3. /\ \A i \in DOMAIN ps : ps[i].start + ps[i].length <= text.length + 1
        /\ \A i, j \in DOMAIN ps : i < j => ps[i].start + ps[i].length <= ps[j].start
    BY <1>1, Zenon DEF InOrder
  <2>4. k \in 1 .. Len(ps)
    BY <1>1
  <2> QED
    BY <2>1, <2>2, <2>3, <2>4
<1>3. \A i \in 1 .. Len(ps) : ps[i].start \in Nat \ {0} /\ ps[i].length \in Nat \ {0}
  <2>1. \A i \in 1 .. Len(ps) : ps[i] \in [start : Nat \ {0}, length : Nat \ {0}]
    BY <1>2, ElementOfSeq
  <2> QED
    BY <2>1
<1>4. PICK u, v \in Nat \ {0} : u = ps[k].start /\ v = ps[k].length
  BY <1>2, <1>3
<1>5. Bottom(text, k) = u + v - 1
  BY <1>1, <1>4 DEF Bottom
<1>6. u + v <= text.length + 1
  BY <1>2, <1>4
<1>7. Bottom(text, k - 1) \in Nat /\ Bottom(text, k - 1) < u
  <2>1. CASE k = 1
    <3>1. k - 1 = 0
      BY <2>1
    <3>2. Bottom(text, 0) = 0
      BY DEF Bottom
    <3> QED
      BY <1>4, <3>1, <3>2
  <2>2. CASE k # 1
    <3>1. PICK j \in 1 .. Len(ps) : j = k - 1 /\ j < k /\ j # 0
      BY <1>2, <2>2
    <3>2. PICK a, b \in Nat \ {0} : a = ps[j].start /\ b = ps[j].length
      BY <1>3, <3>1
    <3>3. a + b <= u
      BY <1>2, <1>4, <3>1, <3>2
    <3>4. Bottom(text, j) = a + b - 1
      BY <1>1, <3>1, <3>2 DEF Bottom
    <3>5. a \in Nat /\ b \in Nat /\ u \in Nat /\ a # 0
      BY <1>4, <3>2
    <3>6. a + b - 1 \in Nat /\ a + b - 1 < u
      BY <3>3, <3>5
    <3> QED
      BY <3>1, <3>4, <3>6
  <2> QED
    BY <2>1, <2>2
<1>8. PartOf(ps, k) = PartOf(ps, k - 1) \cup (u .. u + v - 1)
  <2>1. \A i \in 1 .. k : i = k \/ i \in 1 .. k - 1
    BY <1>2
  <2>2. \A i \in 1 .. k - 1 : i \in 1 .. k
    BY <1>2
  <2>3. k \in 1 .. k
    BY <1>2
  <2>4. \A x : x \in u .. u + v - 1 => x \in Nat
    BY <1>4
  <2> QED
    BY <1>4, <2>1, <2>2, <2>3, <2>4 DEF PartOf
<1>9. u + v - 1 \in Nat /\ u + v - 1 <= text.length
  <2>1. u \in Nat /\ v \in Nat /\ u # 0
    BY <1>4
  <2>2. PICK l : l = text.length
    OBVIOUS
  <2>3. l \in Nat /\ u + v <= l + 1
    BY <1>2, <1>6, <2>2
  <2>4. u + v - 1 \in Nat /\ u + v - 1 <= l
    BY <2>1, <2>3
  <2> QED
    BY <2>2, <2>4
<1>10. text.paragraphs[k].start = u /\ text.paragraphs[k].length = v
  BY <1>1, <1>4
<1>11. PartOf(text.paragraphs, k) = PartOf(text.paragraphs, k - 1) \cup (u .. u + v - 1)
  BY <1>1, <1>8
<1> QED
  BY <1>4, <1>5, <1>7, <1>9, <1>10, <1>11

\* The chunks of a document: their indexes count from 0, they advance and are not too
\* long, and every paragraph is in them.
Whole(chunks, text, r) ==
  \E cs \in Seq(Seq(Nat)) :
    /\ chunks = Numbered(cs, 0)
    /\ Cuts(cs, r.size, 0, text.length)
    /\ Covers(cs, PartOf(text.paragraphs, Len(text.paragraphs)))

LEMMA ParagraphsAreWhole ==
  ASSUME NEW text, InOrder(text), NEW r, Advances(r)
  PROVE  Whole(ByParagraph(text, r), text, r)
<1>1. PICK ps, count : ps = text.paragraphs /\ count = Len(ps)
  OBVIOUS
<1>2. ps \in Seq([start : Nat \ {0}, length : Nat \ {0}]) /\ count \in Nat /\ text.length \in Nat
  BY <1>1 DEF InOrder
<1>3. PICK f : /\ ByParagraph(text, r) = Flush(f[count]).chunks
               /\ \A n \in 0 .. count : f[n] = TakeStep(text, r, f, n)
  BY <1>1, <1>2, ByParagraphIs
<1>4. r.size \in Nat
  BY DEF Advances
<1> DEFINE Good(k) == Tidy(f[k], r.size, Bottom(text, k), PartOf(ps, k))
           Bad == {k \in 0 .. count : ~ Good(k)}
<1>5. Good(0)
  <2>1. f[0] = Empty
    BY <1>2, <1>3 DEF TakeStep
  <2>2. PICK none : none = <<>>
    OBVIOUS
  <2>3. none \in Seq(Seq(Nat)) /\ none \in Seq(Nat) /\ Len(none) = 0
    BY <2>2
  <2>4. Numbered(none, 0) = <<>>
    BY <2>2 DEF Numbered
  <2>5. f[0] = State(Numbered(none, 0), none, Len(none))
    BY <2>1, <2>2, <2>3, <2>4 DEF Empty, State
  <2>6. All(none, none) = none
    BY <2>2 DEF All
  <2>7. Cuts(none, r.size, 0, Bottom(text, 0))
    BY <2>3 DEF Cuts
  <2>8. PartOf(ps, 0) = {}
    BY DEF PartOf
  <2>9. Covers(none, PartOf(ps, 0))
    BY <2>8 DEF Covers
  <2> QED
    BY <2>3, <2>5, <2>6, <2>7, <2>9 DEF Tidy
<1>6. ASSUME NEW k \in 1 .. count, Good(k - 1) PROVE Good(k)
  <2>1. /\ text.paragraphs[k].start \in Nat \ {0} /\ text.paragraphs[k].length \in Nat \ {0}
        /\ Bottom(text, k - 1) \in Nat /\ Bottom(text, k - 1) < text.paragraphs[k].start
        /\ PartOf(text.paragraphs, k) =
             PartOf(text.paragraphs, k - 1) \cup (text.paragraphs[k].start .. Bottom(text, k))
    BY <1>1, ParagraphsInOrder
  <2>2. PICK u \in Nat \ {0}, v \in Nat \ {0} : u = text.paragraphs[k].start /\ v = text.paragraphs[k].length
    BY <2>1
  <2>3. Bottom(text, k) = u + v - 1
    <3>1. k # 0
      BY <1>2
    <3> QED
      BY <2>2, <3>1 DEF Bottom
  <2>4. f[k] = TakeParagraph(f[k - 1], Positions(u, v), r)
    <3>1. k # 0 /\ k \in 0 .. count
      BY <1>2
    <3>2. f[k] = TakeStep(text, r, f, k)
      BY <1>3, <3>1
    <3> QED
      BY <2>2, <3>1, <3>2 DEF TakeStep, ParagraphOf
  <2>5. PICK high \in Nat : high = Bottom(text, k - 1)
    BY <2>1
  <2>6. Tidy(f[k - 1], r.size, high, PartOf(ps, k - 1)) /\ high < u
    BY <1>6, <2>1, <2>2, <2>5
  <2>7. Tidy(f[k], r.size, u + v - 1, PartOf(ps, k - 1) \cup (u .. u + v - 1))
    <3>1. PICK s, part : s = f[k - 1] /\ part = PartOf(ps, k - 1)
      OBVIOUS
    <3>2. Tidy(s, r.size, high, part) /\ high < u
      BY <2>6, <3>1
    <3>3. Tidy(TakeParagraph(s, Positions(u, v), r), r.size, u + v - 1, part \cup (u .. u + v - 1))
      BY <3>2, TakeIsTidy
    <3> QED
      BY <2>4, <3>1, <3>3
  <2> QED
    BY <1>1, <2>1, <2>2, <2>3, <2>7
<1>7. Good(count)
  <2>1. Bad = {}
    <3> SUFFICES ASSUME Bad # {} PROVE FALSE
      OBVIOUS
    <3>1. PICK k \in Bad : \A j \in Bad : k <= j
      <4>1. Bad \subseteq Nat
        OBVIOUS
      <4> HIDE DEF Bad
      <4> QED
        BY <4>1, LeastNatural
    <3>2. k \in 0 .. count /\ ~ Good(k)
      OBVIOUS
    <3> HIDE DEF Good
    <3>3. k # 0
      BY <1>5, <3>2
    <3>4. k \in 1 .. count /\ k - 1 \in 0 .. count /\ ~ (k <= k - 1)
      BY <1>2, <3>2, <3>3
    <3>5. Good(k - 1)
      BY <3>1, <3>4
    <3> QED
      BY <1>6, <3>2, <3>4, <3>5
  <2>2. count \in 0 .. count
    BY <1>2
  <2> HIDE DEF Good
  <2> QED
    BY <2>1, <2>2
<1>8. PICK cs \in Seq(Seq(Nat)), pending \in Seq(Nat) :
        /\ f[count] = State(Numbered(cs, 0), pending, Len(cs))
        /\ Cuts(All(cs, pending), r.size, 0, Bottom(text, count))
        /\ Covers(All(cs, pending), PartOf(ps, count))
  BY <1>7 DEF Tidy
<1>9. PICK A : A = All(cs, pending)
  OBVIOUS
<1>10. A \in Seq(Seq(Nat)) /\ Flush(f[count]) = State(Numbered(A, 0), <<>>, Len(A))
  BY <1>8, <1>9, FlushIsTidy
<1>11. ByParagraph(text, r) = Numbered(A, 0)
  BY <1>3, <1>10 DEF State
<1>12. Bottom(text, count) \in Nat /\ Bottom(text, count) <= text.length
  <2>1. CASE count = 0
    BY <1>2, <2>1 DEF Bottom
  <2>2. CASE count # 0
    <3>1. count \in 1 .. Len(text.paragraphs)
      BY <1>1, <1>2, <2>2
    <3> QED
      BY <3>1, ParagraphsInOrder
  <2> QED
    BY <2>1, <2>2
<1>13. Cuts(A, r.size, 0, text.length)
  <2>1. PICK middle \in Nat, high \in Nat : middle = Bottom(text, count) /\ high = text.length
    BY <1>2, <1>12
  <2>2. middle <= high /\ Cuts(A, r.size, 0, middle)
    BY <1>8, <1>9, <1>12, <2>1
  <2>3. Cuts(A, r.size, 0, high)
    BY <2>2, CutsWeaken
  <2> QED
    BY <2>1, <2>3
<1>14. Covers(A, PartOf(text.paragraphs, Len(text.paragraphs)))
  BY <1>1, <1>8, <1>9
<1> QED
  BY <1>10, <1>11, <1>13, <1>14 DEF Whole

LEMMA CharactersAreWhole ==
  ASSUME NEW text, InOrder(text), NEW r, Advances(r)
  PROVE  Whole(ByCharacter(text, r), text, r)
<1>1. PICK n \in Nat : n = text.length
  BY DEF InOrder
<1>2. PICK cs : cs = Split(Positions(1, n), r)
  OBVIOUS
<1>3. Cuts(cs, r.size, 1 - 1, 1 + n - 1) /\ Covers(cs, 1 .. 1 + n - 1)
  <2>1. 1 \in Nat \ {0}
    OBVIOUS
  <2> QED
    BY <1>2, <2>1, SplitIsCut
<1>4. 1 - 1 = 0 /\ 1 + n - 1 = n
  OBVIOUS
<1>5. Cuts(cs, r.size, 0, n) /\ Covers(cs, 1 .. n)
  BY <1>3, <1>4
<1>6. PartOf(text.paragraphs, Len(text.paragraphs)) \subseteq 1 .. n
  <2>1. PICK ps : ps = text.paragraphs
    OBVIOUS
  <2>2. ASSUME NEW x \in PartOf(ps, Len(ps)) PROVE x \in 1 .. n
    <3>1. PICK i \in 1 .. Len(ps) : x \in ps[i].start .. ps[i].start + ps[i].length - 1
      BY <2>2 DEF PartOf
    <3>2. /\ ps[i].start \in Nat \ {0} /\ ps[i].length \in Nat \ {0}
          /\ Bottom(text, i) \in Nat /\ Bottom(text, i) <= n
      BY <1>1, <2>1, ParagraphsInOrder
    <3>3. Bottom(text, i) = ps[i].start + ps[i].length - 1
      BY <2>1 DEF Bottom
    <3>4. PICK u \in Nat \ {0}, w \in Nat : u = ps[i].start /\ w = Bottom(text, i)
      BY <3>2
    <3>5. x \in u .. w /\ w <= n
      BY <3>1, <3>2, <3>3, <3>4
    <3> QED
      BY <3>5
  <2> QED
    BY <2>1, <2>2
<1>7. Covers(cs, PartOf(text.paragraphs, Len(text.paragraphs)))
  BY <1>5, <1>6 DEF Covers
<1>8. cs \in Seq(Seq(Nat))
  BY <1>5 DEF Cuts
<1>9. ByCharacter(text, r) = Numbered(cs, 0)
  BY <1>1, <1>2 DEF ByCharacter
<1> QED
  BY <1>1, <1>5, <1>7, <1>8, <1>9 DEF Whole

-----------------------------------------------------------------------------
(* The pieces of a request: the chunks of all its documents. *)

\* A set one after the other.
LEMMA SetInSequence ==
  ASSUME NEW S, IsFiniteSet(S)
  PROVE  /\ SetToSeq(S) \in Seq(S)
         /\ \A i, j \in 1 .. Len(SetToSeq(S)) : SetToSeq(S)[i] = SetToSeq(S)[j] => i = j
         /\ \A x \in S : \E i \in 1 .. Len(SetToSeq(S)) : SetToSeq(S)[i] = x
<1>1. PICK n \in Nat : n = Cardinality(S)
  BY FS_CardinalityType
<1>2. PICK g : g \in Bijection(1 .. n, S)
  BY <1>1, FS_CardinalityType DEF ExistsBijection
<1>3. g \in [1 .. n -> S] /\ IsInjective(g)
  BY <1>2 DEF Bijection, Injection
<1>4. PICK f : f = SetToSeq(S)
  OBVIOUS
<1>5. f \in [1 .. n -> S] /\ IsInjective(f)
  BY <1>1, <1>3, <1>4 DEF SetToSeq
<1>6. f \in Injection(1 .. n, S)
  BY <1>5 DEF Injection
<1>7. Cardinality(1 .. n) = n
  BY FS_Interval
<1>8. f \in Surjection(1 .. n, S)
  BY <1>1, <1>6, <1>7, FS_Injection
<1>9. \A x \in S : \E i \in 1 .. n : f[i] = x
  BY <1>8 DEF Surjection
<1>10. f \in Seq(S) /\ Len(f) = n
  BY <1>5
<1>11. \A i, j \in 1 .. n : f[i] = f[j] => i = j
  BY <1>5 DEF IsInjective
<1> QED
  BY <1>4, <1>9, <1>10, <1>11

Apart(s) == \A i, k \in 1 .. Len(s) : \A a \in 1 .. Len(s[i]), b \in 1 .. Len(s[k]) :
  s[i][a] = s[k][b] => i = k /\ a = b

Held(F, s, n) == \A a \in 1 .. Len(F) : \E i \in 1 .. n : \E b \in 1 .. Len(s[i]) : F[a] = s[i][b]
Holds(F, s, n) == \A i \in 1 .. n : \A b \in 1 .. Len(s[i]) : \E a \in 1 .. Len(F) : F[a] = s[i][b]
Once(F) == \A a, b \in 1 .. Len(F) : F[a] = F[b] => a = b

LEMMA GatheredStep ==
  ASSUME NEW M, NEW s \in Seq(Seq(M)), Apart(s), NEW n \in 1 .. Len(s),
         NEW G \in Seq(M), Held(G, s, n - 1), Holds(G, s, n - 1), Once(G),
         NEW F, F = G \o s[n]
  PROVE  F \in Seq(M) /\ Held(F, s, n) /\ Holds(F, s, n) /\ Once(F)
<1>1. PICK t : t = s[n]
  OBVIOUS
<1>2. t \in Seq(M)
  BY <1>1
<1>3. PICK p, q \in Nat : p = Len(G) /\ q = Len(t)
  BY <1>2
<1>4. /\ F \in Seq(M) /\ Len(F) = p + q
      /\ \A a \in 1 .. p : F[a] = G[a]
      /\ \A a \in 1 .. p + q : a > p => F[a] = t[a - p]
  BY <1>1, <1>2, <1>3, ConcatProperties
<1>5. /\ \A a \in 1 .. p + q : a > p => a - p \in 1 .. q
      /\ \A a \in 1 .. p + q : ~ (a > p) => a \in 1 .. p
      /\ \A b \in 1 .. q : b + p \in 1 .. p + q /\ b + p > p /\ (b + p) - p = b
      /\ \A a \in 1 .. p : a \in 1 .. p + q
      /\ n \in 1 .. n /\ \A i \in 1 .. n - 1 : i \in 1 .. n /\ i # n /\ i \in 1 .. Len(s)
      /\ \A i \in 1 .. n : i # n => i \in 1 .. n - 1
  BY <1>3
<1>a. \A i \in 1 .. Len(s) : \A a \in 1 .. Len(s[i]), b \in 1 .. Len(s[n]) :
        s[i][a] = s[n][b] => i = n /\ a = b
  BY DEF Apart
<1>6. Held(F, s, n)
  <2> SUFFICES ASSUME NEW a \in 1 .. p + q
               PROVE  \E i \in 1 .. n : \E b \in 1 .. Len(s[i]) : F[a] = s[i][b]
    BY <1>4 DEF Held
  <2>1. CASE a > p
    <3>1. a - p \in 1 .. Len(s[n]) /\ F[a] = s[n][a - p]
      BY <1>1, <1>3, <1>4, <1>5, <2>1
    <3> QED
      BY <1>5, <3>1
  <2>2. CASE ~ (a > p)
    <3>1. a \in 1 .. Len(G) /\ F[a] = G[a]
      BY <1>3, <1>4, <1>5, <2>2
    <3>2. PICK i \in 1 .. n - 1 : \E b \in 1 .. Len(s[i]) : G[a] = s[i][b]
      BY <3>1 DEF Held
    <3> QED
      BY <1>5, <3>1, <3>2
  <2> QED
    BY <2>1, <2>2
<1>7. Holds(F, s, n)
  <2> SUFFICES ASSUME NEW i \in 1 .. n, NEW b \in 1 .. Len(s[i])
               PROVE  \E a \in 1 .. p + q : F[a] = s[i][b]
    BY <1>4 DEF Holds
  <2>1. CASE i = n
    <3>1. b \in 1 .. q /\ s[i][b] = t[b]
      BY <1>1, <1>3, <2>1
    <3>2. F[b + p] = t[b]
      BY <1>4, <1>5, <3>1
    <3> QED
      BY <1>5, <3>1, <3>2
  <2>2. CASE i # n
    <3>1. i \in 1 .. n - 1
      BY <1>5, <2>2
    <3>2. PICK a \in 1 .. p : G[a] = s[i][b]
      BY <1>3, <3>1 DEF Holds
    <3> QED
      BY <1>4, <1>5, <3>2
  <2> QED
    BY <2>1, <2>2
<1>8. Once(F)
  <2> SUFFICES ASSUME NEW a \in 1 .. p + q, NEW b \in 1 .. p + q, F[a] = F[b], a < b
               PROVE  FALSE
    <3>1. \A a, b \in 1 .. p + q : a # b => a < b \/ b < a
      BY <1>3
    <3> QED
      BY <1>4, <3>1 DEF Once
  <2>0. a # b
    BY <1>3
  <2>1. CASE b > p
    <3>1. b - p \in 1 .. Len(s[n]) /\ F[b] = s[n][b - p]
      BY <1>1, <1>3, <1>4, <1>5, <2>1
    <3>2. CASE a > p
      <4>1. a - p \in 1 .. Len(s[n]) /\ F[a] = s[n][a - p]
        BY <1>1, <1>3, <1>4, <1>5, <3>2
      <4>2. PICK u \in 1 .. Len(s[n]), v \in 1 .. Len(s[n]) : u = a - p /\ v = b - p
        BY <3>1, <4>1
      <4>3. s[n][u] = s[n][v]
        BY <3>1, <4>1, <4>2
      <4>4. n \in 1 .. Len(s) /\ u = v
        BY <1>a, <4>3
      <4> QED
        BY <1>3, <4>2, <4>4
    <3>3. CASE ~ (a > p)
      <4>1. a \in 1 .. Len(G) /\ F[a] = G[a]
        BY <1>3, <1>4, <1>5, <3>3
      <4>2. PICK i \in 1 .. n - 1 : \E c \in 1 .. Len(s[i]) : G[a] = s[i][c]
        BY <4>1 DEF Held
      <4>3. PICK c \in 1 .. Len(s[i]) : F[a] = s[i][c]
        BY <4>1, <4>2
      <4>4. i \in 1 .. Len(s) /\ s[i][c] = s[n][b - p]
        BY <1>5, <3>1, <4>3
      <4>5. i = n
        BY <1>a, <3>1, <4>4
      <4> QED
        BY <1>5, <4>5
    <3> QED
      BY <3>2, <3>3
  <2>2. CASE ~ (b > p)
    <3>1. ~ (a > p)
      BY <1>3, <2>2
    <3>2. /\ a \in 1 .. Len(G) /\ F[a] = G[a]
          /\ b \in 1 .. Len(G) /\ F[b] = G[b]
      BY <1>3, <1>4, <1>5, <2>2, <3>1
    <3> QED
      BY <1>3, <2>0, <3>2 DEF Once
  <2> QED
    BY <2>1, <2>2
<1> QED
  BY <1>4, <1>6, <1>7, <1>8

LEMMA Gathered ==
  ASSUME NEW M, NEW s \in Seq(Seq(M)), Apart(s)
  PROVE  LET F == FlattenSeq(s) IN
         F \in Seq(M) /\ Held(F, s, Len(s)) /\ Holds(F, s, Len(s)) /\ Once(F)
<1>1. CASE s = <<>>
  <2>1. FlattenSeq(s) = <<>>
    BY <1>1 DEF FlattenSeq
  <2>2. PICK F : F = FlattenSeq(s)
    OBVIOUS
  <2>3. F \in Seq(M) /\ Len(F) = 0 /\ Len(s) = 0
    BY <1>1, <2>1, <2>2
  <2>4. Held(F, s, Len(s)) /\ Holds(F, s, Len(s)) /\ Once(F)
    BY <2>3 DEF Held, Holds, Once
  <2> QED
    BY <2>2, <2>3, <2>4
<1>2. CASE s # <<>>
  <2>1. PICK f \in [1 .. Len(s) -> Seq(M)] :
          /\ f[1] = s[1]
          /\ \A i \in 2 .. Len(s) : f[i] = f[i - 1] \o s[i]
          /\ FlattenSeq(s) = f[Len(s)]
    BY <1>2, Flattens
  <2>2. Len(s) \in Nat /\ Len(s) # 0
    BY <1>2
  <2> DEFINE Good(n) == Held(f[n], s, n) /\ Holds(f[n], s, n) /\ Once(f[n])
             Bad == {n \in 1 .. Len(s) : ~ Good(n)}
  <2>3. Good(1)
    <3>1. PICK none : none = <<>>
      OBVIOUS
    <3>2. none \in Seq(M) /\ Len(none) = 0 /\ 1 - 1 = 0 /\ 1 \in 1 .. Len(s)
      BY <2>2, <3>1
    <3>3. Held(none, s, 1 - 1) /\ Holds(none, s, 1 - 1) /\ Once(none)
      BY <3>2 DEF Held, Holds, Once
    <3>4. s[1] = none \o s[1]
      BY <3>1, <3>2
    <3>5. PICK F : F = f[1]
      OBVIOUS
    <3>6. F = none \o s[1]
      BY <2>1, <3>4, <3>5
    <3>7. Held(F, s, 1) /\ Holds(F, s, 1) /\ Once(F)
      BY <3>2, <3>3, <3>6, GatheredStep
    <3> QED
      BY <3>5, <3>7
  <2>4. ASSUME NEW n \in 1 .. Len(s), n # 1, Good(n - 1) PROVE Good(n)
    <3>1. n \in 2 .. Len(s) /\ n - 1 \in 1 .. Len(s)
      BY <2>4
    <3>2. PICK F, G : F = f[n] /\ G = f[n - 1]
      OBVIOUS
    <3>3. G \in Seq(M) /\ F = G \o s[n]
      BY <2>1, <3>1, <3>2
    <3>4. Held(G, s, n - 1) /\ Holds(G, s, n - 1) /\ Once(G)
      BY <2>4, <3>2
    <3>5. Held(F, s, n) /\ Holds(F, s, n) /\ Once(F)
      BY <3>3, <3>4, GatheredStep
    <3> QED
      BY <3>2, <3>5
  <2>5. Bad = {}
    <3> SUFFICES ASSUME Bad # {} PROVE FALSE
      OBVIOUS
    <3>1. PICK n \in Bad : \A j \in Bad : n <= j
      <4>1. Bad \subseteq Nat
        OBVIOUS
      <4> HIDE DEF Bad
      <4> QED
        BY <4>1, LeastNatural
    <3>2. n \in 1 .. Len(s) /\ ~ Good(n)
      OBVIOUS
    <3> HIDE DEF Good
    <3>3. n # 1
      BY <2>3, <3>2
    <3>4. n - 1 \in 1 .. Len(s) /\ ~ (n <= n - 1)
      BY <2>2, <3>2, <3>3
    <3>5. Good(n - 1)
      BY <3>1, <3>4
    <3> QED
      BY <2>4, <3>2, <3>3, <3>5
  <2>6. Good(Len(s))
    <3>1. Len(s) \in 1 .. Len(s)
      BY <2>2
    <3> HIDE DEF Good
    <3> QED
      BY <2>5, <3>1
  <2>7. f[Len(s)] \in Seq(M)
    <3>1. Len(s) \in 1 .. Len(s)
      BY <2>2
    <3> QED
      BY <2>1, <3>1
  <2> QED
    BY <2>1, <2>6, <2>7
<1> QED
  BY <1>1, <1>2

DocumentsOf(r) == DOMAIN r.documents

\* The contents of the chunks of a document.
AreContents(cs, r, d) ==
  LET text == Text[r.documents[d]] IN
  /\ cs \in Seq(Seq(Nat))
  /\ Chunks(r.documents[d], r) = Numbered(cs, 0)
  /\ Cuts(cs, r.size, 0, text.length)
  /\ Covers(cs, PartOf(text.paragraphs, Len(text.paragraphs)))

ContentsOf(r, d) == CHOOSE cs : AreContents(cs, r, d)

LEMMA RequestFacts ==
  ASSUME NEW r \in Request
  PROVE  /\ Advances(r) /\ DocumentsOf(r) \subseteq Document /\ IsFiniteSet(DocumentsOf(r))
         /\ r.dimensions \in Nat
         /\ \A d \in DocumentsOf(r) : InOrder(Text[r.documents[d]])
<1>1. Advances(r) /\ r.dimensions \in Nat
  BY RequestAssumption DEF Advances
<1>2. DocumentsOf(r) \subseteq Document /\ IsFiniteSet(DocumentsOf(r))
  BY RequestAssumption DEF DocumentsOf
<1>3. ASSUME NEW d \in DocumentsOf(r) PROVE InOrder(Text[r.documents[d]])
  BY TextAssumption, Zenon DEF InOrder, DocumentsOf
<1> QED
  BY <1>1, <1>2, <1>3

LEMMA ContentsAre ==
  ASSUME NEW r \in Request, NEW d \in DocumentsOf(r)
  PROVE  AreContents(ContentsOf(r, d), r, d)
<1>1. PICK text : text = Text[r.documents[d]]
  OBVIOUS
<1>2. InOrder(text) /\ Advances(r)
  BY <1>1, RequestFacts
<1>3. Whole(Chunks(r.documents[d], r), text, r)
  <2>1. CASE r.strategy = "paragraph"
    <3>1. Chunks(r.documents[d], r) = ByParagraph(text, r)
      BY <1>1, <2>1 DEF Chunks
    <3> QED
      BY <1>2, <3>1, ParagraphsAreWhole
  <2>2. CASE r.strategy # "paragraph"
    <3>1. Chunks(r.documents[d], r) = ByCharacter(text, r)
      BY <1>1, <2>2 DEF Chunks
    <3> QED
      BY <1>2, <3>1, CharactersAreWhole
  <2> QED
    BY <2>1, <2>2
<1>4. \E cs : AreContents(cs, r, d)
  BY <1>1, <1>3 DEF Whole, AreContents
<1> QED
  BY <1>4, Zenon DEF ContentsOf

PieceOf(r, d, k) == [id |-> <<d, k - 1>>, content |-> ContentsOf(r, d)[k]]

Piece == [id : Document \X Nat, content : Seq(Nat)]

PiecesOf(r, d) == [k \in 1 .. Len(ContentsOf(r, d)) |-> PieceOf(r, d, k)]

LEMMA PiecesOfFacts ==
  ASSUME NEW r \in Request, NEW d \in DocumentsOf(r)
  PROVE  /\ ContentsOf(r, d) \in Seq(Seq(Nat))
         /\ PiecesOf(r, d) \in Seq(Piece) /\ Len(PiecesOf(r, d)) = Len(ContentsOf(r, d))
         /\ PiecesOf(r, d) = LET chunks == Chunks(r.documents[d], r) IN
              [i \in DOMAIN chunks |-> [id |-> <<d, chunks[i].index>>, content |-> chunks[i].content]]
<1>1. PICK cs : cs = ContentsOf(r, d)
  OBVIOUS
<1>2. cs \in Seq(Seq(Nat)) /\ Chunks(r.documents[d], r) = Numbered(cs, 0)
  BY <1>1, ContentsAre DEF AreContents
<1>3. PICK chunks : chunks = Chunks(r.documents[d], r)
  OBVIOUS
<1>4. /\ DOMAIN chunks = 1 .. Len(cs) /\ Len(cs) \in Nat
      /\ \A i \in 1 .. Len(cs) : chunks[i] = [index |-> 0 + i - 1, content |-> cs[i]]
  <2>1. PICK M : M = Seq(Nat)
    OBVIOUS
  <2>2. cs \in Seq(M)
    BY <1>2, <2>1
  <2>3. /\ DOMAIN Numbered(cs, 0) = 1 .. Len(cs)
        /\ \A i \in 1 .. Len(cs) : Numbered(cs, 0)[i] = [index |-> 0 + i - 1, content |-> cs[i]]
    BY <2>2, NumberedIs
  <2>4. Len(cs) \in Nat /\ chunks = Numbered(cs, 0)
    BY <1>2, <1>3
  <2> QED
    BY <2>3, <2>4, Zenon
<1>5. \A i \in 1 .. Len(cs) : cs[i] \in Seq(Nat) /\ i - 1 \in Nat /\ 0 + i - 1 = i - 1
  BY <1>2, <1>4
<1>6. d \in Document
  BY RequestFacts
<1>7. \A i \in 1 .. Len(cs) : [id |-> <<d, i - 1>>, content |-> cs[i]] \in Piece
  BY <1>5, <1>6 DEF Piece
<1>8. PiecesOf(r, d) = [k \in 1 .. Len(cs) |-> [id |-> <<d, k - 1>>, content |-> cs[k]]]
  BY <1>1 DEF PiecesOf, PieceOf
<1>9. PiecesOf(r, d) \in Seq(Piece) /\ Len(PiecesOf(r, d)) = Len(cs)
  BY <1>4, <1>7, <1>8
<1>10. \A i \in 1 .. Len(cs) :
         [id |-> <<d, i - 1>>, content |-> cs[i]]
           = [id |-> <<d, chunks[i].index>>, content |-> chunks[i].content]
  <2> SUFFICES ASSUME NEW i \in 1 .. Len(cs)
               PROVE  [id |-> <<d, i - 1>>, content |-> cs[i]]
                        = [id |-> <<d, chunks[i].index>>, content |-> chunks[i].content]
    OBVIOUS
  <2>1. chunks[i].index = i - 1 /\ chunks[i].content = cs[i]
    BY <1>4, <1>5
  <2> QED
    BY <2>1
<1>11. PiecesOf(r, d) = [i \in DOMAIN chunks |-> [id |-> <<d, chunks[i].index>>, content |-> chunks[i].content]]
  BY <1>4, <1>8, <1>10
<1> QED
  BY <1>1, <1>2, <1>3, <1>9, <1>11

\* What the pieces of a request are: the chunks of its documents, each once.
ArePieces(P, r) ==
  /\ P \in Seq(Piece)
  /\ \A a \in 1 .. Len(P) : \E d \in DocumentsOf(r) : \E k \in 1 .. Len(ContentsOf(r, d)) :
       P[a] = PieceOf(r, d, k)
  /\ \A d \in DocumentsOf(r) : \A k \in 1 .. Len(ContentsOf(r, d)) :
       \E a \in 1 .. Len(P) : P[a] = PieceOf(r, d, k)
  /\ Once(P)

LEMMA PiecesAre ==
  ASSUME NEW r \in Request
  PROVE  ArePieces(Pieces(r), r)
<1>1. PICK order : order = SetToSeq(DOMAIN r.documents)
  OBVIOUS
<1>2. /\ order \in Seq(DocumentsOf(r))
      /\ \A i, j \in 1 .. Len(order) : order[i] = order[j] => i = j
      /\ \A d \in DocumentsOf(r) : \E i \in 1 .. Len(order) : order[i] = d
  BY <1>1, RequestFacts, SetInSequence DEF DocumentsOf
<1>3. PICK n \in Nat : n = Len(order) /\ DOMAIN order = 1 .. n
  BY <1>2
<1>4. PICK s : s = [i \in 1 .. n |-> PiecesOf(r, order[i])]
  OBVIOUS
<1>5. \A i \in 1 .. n : order[i] \in DocumentsOf(r)
  BY <1>2, <1>3
<1>6. /\ \A i \in 1 .. n : s[i] = PiecesOf(r, order[i])
      /\ \A i \in 1 .. n : s[i] \in Seq(Piece) /\ Len(s[i]) = Len(ContentsOf(r, order[i]))
      /\ \A i \in 1 .. n : \A k \in 1 .. Len(s[i]) : s[i][k] = PieceOf(r, order[i], k)
  <2>1. \A i \in 1 .. n : s[i] = PiecesOf(r, order[i])
    BY <1>4
  <2>2. \A i \in 1 .. n : s[i] \in Seq(Piece) /\ Len(s[i]) = Len(ContentsOf(r, order[i]))
    BY <1>5, <2>1, PiecesOfFacts
  <2>3. \A i \in 1 .. n : \A k \in 1 .. Len(s[i]) : s[i][k] = PieceOf(r, order[i], k)
    BY <2>1, <2>2 DEF PiecesOf
  <2> QED
    BY <2>1, <2>2, <2>3
<1>7. s \in Seq(Seq(Piece)) /\ Len(s) = n
  BY <1>3, <1>4, <1>6
<1>8. Pieces(r) = FlattenSeq(s)
  <2> DEFINE pieces(d) == LET chunks == Chunks(r.documents[d], r) IN
               [i \in DOMAIN chunks |-> [id |-> <<d, chunks[i].index>>, content |-> chunks[i].content]]
  <2>1. \A i \in 1 .. n : pieces(order[i]) = PiecesOf(r, order[i])
    BY <1>5, PiecesOfFacts
  <2>2. Pieces(r) = FlattenSeq([i \in DOMAIN order |-> pieces(order[i])])
    BY <1>1, Zenon DEF Pieces
  <2>3. [i \in DOMAIN order |-> pieces(order[i])] = s
    <3> HIDE DEF pieces
    <3> QED
      BY <1>3, <1>4, <2>1
  <2> QED
    BY <2>2, <2>3
<1>9. Apart(s)
  <2>1. ASSUME NEW i \in 1 .. n, NEW j \in 1 .. n,
               NEW a \in 1 .. Len(s[i]), NEW b \in 1 .. Len(s[j]), s[i][a] = s[j][b]
        PROVE  i = j /\ a = b
    <3>1. PieceOf(r, order[i], a) = PieceOf(r, order[j], b)
      BY <1>6, <2>1
    <3>2. <<order[i], a - 1>> = <<order[j], b - 1>>
      BY <3>1 DEF PieceOf
    <3>3. order[i] = order[j] /\ a - 1 = b - 1
      BY <3>2
    <3>4. Len(s[i]) \in Nat /\ Len(s[j]) \in Nat
      BY <1>6
    <3> QED
      BY <1>2, <1>3, <3>3, <3>4
  <2> QED
    BY <1>7, <2>1 DEF Apart
<1>10. PICK P : P = FlattenSeq(s)
  OBVIOUS
<1>11. P \in Seq(Piece) /\ Held(P, s, n) /\ Holds(P, s, n) /\ Once(P)
  BY <1>7, <1>9, <1>10, Gathered
<1>12. ASSUME NEW a \in 1 .. Len(P)
       PROVE  \E d \in DocumentsOf(r) : \E k \in 1 .. Len(ContentsOf(r, d)) : P[a] = PieceOf(r, d, k)
  <2>1. PICK i \in 1 .. n : \E b \in 1 .. Len(s[i]) : P[a] = s[i][b]
    BY <1>11 DEF Held
  <2> QED
    BY <1>5, <1>6, <2>1
<1>13. ASSUME NEW d \in DocumentsOf(r), NEW k \in 1 .. Len(ContentsOf(r, d))
       PROVE  \E a \in 1 .. Len(P) : P[a] = PieceOf(r, d, k)
  <2>1. PICK i \in 1 .. n : order[i] = d
    BY <1>2, <1>3
  <2>2. k \in 1 .. Len(s[i]) /\ s[i][k] = PieceOf(r, d, k)
    BY <1>6, <2>1
  <2> QED
    BY <1>11, <2>2 DEF Holds
<1> QED
  BY <1>8, <1>10, <1>11, <1>12, <1>13 DEF ArePieces

-----------------------------------------------------------------------------
(* The rows that a request writes. *)

RowOf(r, d, k) == Row(PieceOf(r, d, k), ContentsOf(r, d)[k], r)

\* One row for each chunk of each document, under an id of its own.
AreRows(R, r) ==
  /\ Len(R) \in Nat /\ DOMAIN R = 1 .. Len(R)
  /\ \A a \in 1 .. Len(R) : \E d \in DocumentsOf(r) : \E k \in 1 .. Len(ContentsOf(r, d)) :
       R[a] = RowOf(r, d, k)
  /\ \A d \in DocumentsOf(r) : \A k \in 1 .. Len(ContentsOf(r, d)) :
       \E a \in 1 .. Len(R) : R[a] = RowOf(r, d, k)
  /\ \A a, b \in 1 .. Len(R) : R[a].id = R[b].id => a = b

LEMMA RowFields ==
  ASSUME NEW r, NEW d, NEW k
  PROVE  /\ RowOf(r, d, k).id = <<d, k - 1>> /\ RowOf(r, d, k).id[1] = d
         /\ RowOf(r, d, k).content = ContentsOf(r, d)[k]
         /\ RowOf(r, d, k).vector.of = ContentsOf(r, d)[k]
         /\ RowOf(r, d, k).metadata = ChunkMetadata(r.collection, d, r.documents[d])
<1>1. PICK p : p = PieceOf(r, d, k)
  OBVIOUS
<1>2. p.id = <<d, k - 1>> /\ p.content = ContentsOf(r, d)[k] /\ p.id[1] = d
  BY <1>1 DEF PieceOf
<1>3. PICK metadata : metadata = ChunkMetadata(r.collection, p.id[1], r.documents[p.id[1]])
  OBVIOUS
<1>4. metadata = ChunkMetadata(r.collection, d, r.documents[d])
  BY <1>2, <1>3
<1>5. RowOf(r, d, k) = [id |-> p.id, content |-> p.content,
                        vector |-> Vector(r.dimensions, ContentsOf(r, d)[k]), metadata |-> metadata]
  BY <1>1, <1>3 DEF RowOf, Row
<1>6. Vector(r.dimensions, ContentsOf(r, d)[k]).of = ContentsOf(r, d)[k]
  BY DEF Vector
<1>7. /\ RowOf(r, d, k).id = p.id /\ RowOf(r, d, k).content = p.content
      /\ RowOf(r, d, k).vector = Vector(r.dimensions, ContentsOf(r, d)[k])
      /\ RowOf(r, d, k).metadata = metadata
  BY <1>5
<1> QED
  BY <1>2, <1>4, <1>6, <1>7

\* An answer that is complete has for each content the embedding of that content.
LEMMA Embeddings ==
  ASSUME NEW pieces, NEW answer \in Answers(pieces), Complete(answer, pieces),
         NEW i \in DOMAIN pieces
  PROVE  (CHOOSE e \in Range(answer) : e.index = i).vector = pieces[i].content
<1> DEFINE embedding(n) ==
             [index |-> n, vector |-> IF n \in DOMAIN pieces THEN pieces[n].content ELSE <<>>]
<1>1. \E o : answer = [n \in DOMAIN o |-> embedding(o[n])]
  BY Zenon DEF Answers
<1>2. PICK o : answer = [n \in DOMAIN o |-> embedding(o[n])]
  BY <1>1
<1>3. ASSUME NEW e \in Range(answer) PROVE e = embedding(e.index)
  <2>1. PICK n \in DOMAIN o : e = embedding(o[n])
    BY <1>2, <1>3 DEF Range
  <2>2. e.index = o[n]
    BY <2>1
  <2> QED
    BY <2>1, <2>2
<1>4. PICK e : e = CHOOSE x \in Range(answer) : x.index = i
  OBVIOUS
<1>5. e \in Range(answer) /\ e.index = i
  BY <1>4 DEF Complete
<1>6. e = embedding(i)
  BY <1>3, <1>5
<1>7. e.vector = pieces[i].content
  BY <1>6
<1> QED
  BY <1>4, <1>7

LEMMA RowsAre ==
  ASSUME NEW r \in Request, NEW answer \in Answers(Pieces(r)), Complete(answer, Pieces(r))
  PROVE  AreRows(Rows(answer, Pieces(r), r), r)
<1>1. PICK P : P = Pieces(r)
  OBVIOUS
<1>2. ArePieces(P, r)
  BY <1>1, PiecesAre
<1>3. Len(P) \in Nat /\ DOMAIN P = 1 .. Len(P)
  BY <1>2 DEF ArePieces
<1>4. PICK R : R = Rows(answer, P, r)
  OBVIOUS
<1>5. R = [i \in 1 .. Len(P) |-> Row(P[i], P[i].content, r)]
  <2>1. \A i \in 1 .. Len(P) : (CHOOSE e \in Range(answer) : e.index = i).vector = P[i].content
    BY <1>1, <1>3, Embeddings
  <2>2. R = [i \in 1 .. Len(P) |-> Row(P[i], (CHOOSE e \in Range(answer) : e.index = i).vector, r)]
    BY <1>3, <1>4 DEF Rows
  <2> QED
    BY <2>1, <2>2
<1>6. Len(R) = Len(P) /\ DOMAIN R = 1 .. Len(P)
  BY <1>3, <1>5
<1>7. ASSUME NEW a \in 1 .. Len(P), NEW d, NEW k, P[a] = PieceOf(r, d, k)
      PROVE  R[a] = RowOf(r, d, k)
  <2>1. P[a].content = ContentsOf(r, d)[k]
    BY <1>7 DEF PieceOf
  <2> QED
    BY <1>5, <1>7, <2>1 DEF RowOf
<1>8. ASSUME NEW a \in 1 .. Len(P)
      PROVE  \E d \in DocumentsOf(r) : \E k \in 1 .. Len(ContentsOf(r, d)) : R[a] = RowOf(r, d, k)
  <2>1. PICK d \in DocumentsOf(r) : \E k \in 1 .. Len(ContentsOf(r, d)) : P[a] = PieceOf(r, d, k)
    BY <1>2 DEF ArePieces
  <2>2. PICK k \in 1 .. Len(ContentsOf(r, d)) : P[a] = PieceOf(r, d, k)
    BY <2>1
  <2>3. R[a] = RowOf(r, d, k)
    BY <1>7, <2>2
  <2> QED
    BY <2>3
<1>9. ASSUME NEW d \in DocumentsOf(r), NEW k \in 1 .. Len(ContentsOf(r, d))
      PROVE  \E a \in 1 .. Len(P) : R[a] = RowOf(r, d, k)
  BY <1>2, <1>7 DEF ArePieces
<1>10. ASSUME NEW a \in 1 .. Len(P), NEW b \in 1 .. Len(P), R[a].id = R[b].id
       PROVE  a = b
  <2>1. PICK d \in DocumentsOf(r), k \in Int : P[a] = PieceOf(r, d, k)
    BY <1>2 DEF ArePieces
  <2>2. PICK c \in DocumentsOf(r), l \in Int : P[b] = PieceOf(r, c, l)
    BY <1>2 DEF ArePieces
  <2>3. <<d, k - 1>> = <<c, l - 1>>
    <3>1. R[a].id = <<d, k - 1>>
      BY <1>7, <2>1, RowFields
    <3>2. R[b].id = <<c, l - 1>>
      BY <1>7, <2>2, RowFields
    <3> QED
      BY <1>10, <3>1, <3>2
  <2>4. d = c /\ k = l
    <3>1. d = c /\ k - 1 = l - 1
      BY <2>3
    <3>2. k \in Int /\ l \in Int
      OBVIOUS
    <3> QED
      BY <3>1, <3>2
  <2>5. P[a] = P[b]
    BY <2>1, <2>2, <2>4
  <2> QED
    BY <1>2, <2>5 DEF ArePieces, Once
<1> QED
  BY <1>1, <1>3, <1>4, <1>6, <1>8, <1>9, <1>10 DEF AreRows

\* As many rows are of a document as it has chunks.
LEMMA RowsCount ==
  ASSUME NEW r \in Request, NEW R, AreRows(R, r), NEW d \in DocumentsOf(r)
  PROVE  Cardinality({i \in DOMAIN R : R[i].id[1] = d}) = Len(ContentsOf(r, d))
<1>1. PICK n \in Nat : n = Len(ContentsOf(r, d))
  BY PiecesOfFacts
<1>2. PICK I : I = {i \in DOMAIN R : R[i].id[1] = d}
  OBVIOUS
<1>3. \A i : i \in I <=> i \in 1 .. Len(R) /\ R[i].id[1] = d
  BY <1>2 DEF AreRows
<1>4. PICK f : f = [k \in 1 .. n |-> CHOOSE a \in 1 .. Len(R) : R[a] = RowOf(r, d, k)]
  OBVIOUS
<1>5. \A k \in 1 .. n : f[k] \in 1 .. Len(R) /\ R[f[k]] = RowOf(r, d, k)
  <2>1. \A k \in 1 .. n : \E a \in 1 .. Len(R) : R[a] = RowOf(r, d, k)
    BY <1>1 DEF AreRows
  <2> QED
    BY <1>4, <2>1
<1>6. f \in [1 .. n -> I]
  <2>1. \A k \in 1 .. n : f[k] \in I
    BY <1>3, <1>5, RowFields
  <2> QED
    BY <1>4, <2>1
<1>7. ASSUME NEW k \in 1 .. n, NEW l \in 1 .. n, f[k] = f[l] PROVE k = l
  <2>1. RowOf(r, d, k) = RowOf(r, d, l)
    BY <1>5, <1>7
  <2>2. <<d, k - 1>> = <<d, l - 1>>
    BY <2>1, RowFields
  <2>3. k - 1 = l - 1
    BY <2>2
  <2> QED
    BY <1>1, <2>3
<1>8. ASSUME NEW i \in I PROVE \E k \in 1 .. n : f[k] = i
  <2>1. i \in 1 .. Len(R) /\ R[i].id[1] = d
    BY <1>3
  <2>2. PICK c \in DocumentsOf(r) : \E k \in 1 .. Len(ContentsOf(r, c)) : R[i] = RowOf(r, c, k)
    BY <2>1 DEF AreRows
  <2>k. PICK k \in 1 .. Len(ContentsOf(r, c)) : R[i] = RowOf(r, c, k)
    BY <2>2
  <2>3. c = d
    BY <2>1, <2>k, RowFields
  <2>4. k \in 1 .. n /\ R[i] = RowOf(r, d, k)
    BY <1>1, <2>k, <2>3
  <2>5. R[f[k]].id = R[i].id /\ f[k] \in 1 .. Len(R)
    BY <1>5, <2>4
  <2>6. f[k] = i
    BY <2>1, <2>5 DEF AreRows
  <2> QED
    BY <2>4, <2>6
<1>9. f \in Bijection(1 .. n, I)
  BY <1>6, <1>7, <1>8 DEF Bijection, Injection, Surjection, IsInjective
<1>10. ExistsBijection(1 .. n, I)
  BY <1>9 DEF ExistsBijection
<1> QED
  BY <1>1, <1>2, <1>10, FS_CountingElements

Distinct(R) ==
  /\ Len(R) \in Nat /\ DOMAIN R = 1 .. Len(R)
  /\ \A a, b \in 1 .. Len(R) : R[a].id = R[b].id => a = b

\* What is in the table after rows with ids of their own are written.
LEMMA UpsertedIs ==
  ASSUME NEW R, Distinct(R)
  PROVE  /\ DOMAIN Upserted(R) = DOMAIN records \cup {R[a].id : a \in 1 .. Len(R)}
         /\ \A a \in 1 .. Len(R) : Upserted(R)[R[a].id] = R[a]
         /\ \A id \in DOMAIN records :
              (\A a \in 1 .. Len(R) : R[a].id # id) => Upserted(R)[id] = records[id]
<1> USE DEF Distinct
<1>1. PICK ids : ids = {R[a].id : a \in 1 .. Len(R)}
  OBVIOUS
<1>2. \A row : row \in Range(R) <=> \E a \in 1 .. Len(R) : row = R[a]
  BY DEF Range
<1>3. {row.id : row \in Range(R)} = ids
  BY <1>1, <1>2
<1>4. \A id : (\E row \in Range(R) : row.id = id) <=> id \in ids
  BY <1>1, <1>2
<1>5. Upserted(R) = [id \in DOMAIN records \cup ids |->
                       IF id \in ids
                       THEN R[CHOOSE i \in DOMAIN R :
                                R[i].id = id /\ \A k \in DOMAIN R : R[k].id = id => k <= i]
                       ELSE records[id]]
  BY <1>3, <1>4 DEF Upserted
<1>6. ASSUME NEW a \in 1 .. Len(R) PROVE Upserted(R)[R[a].id] = R[a]
  <2>1. PICK id : id = R[a].id
    OBVIOUS
  <2>2. id \in ids
    BY <1>1, <2>1
  <2>3. \A k \in DOMAIN R : R[k].id = id => k = a
    BY <2>1
  <2>4. a \in DOMAIN R /\ R[a].id = id /\ \A k \in DOMAIN R : R[k].id = id => k <= a
    BY <2>1, <2>3
  <2>5. PICK i : i = CHOOSE j \in DOMAIN R :
                       R[j].id = id /\ \A k \in DOMAIN R : R[k].id = id => k <= j
    OBVIOUS
  <2>6. i \in DOMAIN R /\ R[i].id = id
    BY <2>4, <2>5
  <2>7. i = a
    BY <2>3, <2>6
  <2>8. Upserted(R)[id] = R[i]
    BY <1>5, <2>2, <2>5
  <2> QED
    BY <2>1, <2>7, <2>8
<1>7. ASSUME NEW id \in DOMAIN records, \A a \in 1 .. Len(R) : R[a].id # id
      PROVE  Upserted(R)[id] = records[id]
  <2>1. id \notin ids
    BY <1>1, <1>7
  <2> QED
    BY <1>5, <2>1
<1>8. DOMAIN Upserted(R) = DOMAIN records \cup ids
  BY <1>5
<1> QED
  BY <1>1, <1>6, <1>7, <1>8

-----------------------------------------------------------------------------
(* What is in the table of a document, and what is known of it. *)

RunMeant(x) ==
  /\ x = [phase |-> x.phase, request |-> x.request, rows |-> x.rows]
  /\ x.phase \in {"embedding", "writing"} => x.request \in Request
  /\ x.phase = "writing" => AreRows(x.rows, x.request)

RunsMeant == run = [j \in Run |-> run[j]] /\ \A j \in Run : RunMeant(run[j])

IdsMeant(table) == \A id \in DOMAIN table : id \in Document \X Nat \/ id \in MemoryId

Unwritten(table, l, d) == l = None /\ \A id \in DOMAIN table : id[1] # d

\* Each chunk of what was written last is there, or its text is known to be gone.
Current(table, l, d, r, gone) ==
  /\ d \in DocumentsOf(r)
  /\ l = [version |-> r.documents[d], collection |-> r.collection,
          count |-> Len(ContentsOf(r, d)), gone |-> gone]
  /\ \A k \in 1 .. Len(ContentsOf(r, d)) :
       IF <<d, k - 1>> \in DOMAIN table THEN table[<<d, k - 1>>] = RowOf(r, d, k)
       ELSE Range(ContentsOf(r, d)[k]) \subseteq gone

DocumentMeant(table, l, d) ==
  Unwritten(table, l, d) \/ \E r \in Request : \E gone : Current(table, l, d, r, gone)

DocumentsMeant ==
  latest = [d \in Document |-> latest[d]] /\ \A d \in Document : DocumentMeant(records, latest[d], d)

KInv == RunsMeant /\ IdsMeant(records) /\ DocumentsMeant

\* Two tables have the same records of a document.
Same(table, other, d) == \A id : id[1] = d =>
  /\ id \in DOMAIN table <=> id \in DOMAIN other
  /\ id \in DOMAIN table => other[id] = table[id]

LEMMA SameIsMeant ==
  ASSUME NEW table, NEW other, NEW l, NEW d, DocumentMeant(table, l, d), Same(table, other, d)
  PROVE  DocumentMeant(other, l, d)
<1>1. CASE Unwritten(table, l, d)
  BY <1>1 DEF Unwritten, Same, DocumentMeant
<1>2. ASSUME NEW r \in Request, NEW gone, Current(table, l, d, r, gone)
      PROVE  Current(other, l, d, r, gone)
  <2>1. ASSUME NEW k \in 1 .. Len(ContentsOf(r, d))
        PROVE  IF <<d, k - 1>> \in DOMAIN other THEN other[<<d, k - 1>>] = RowOf(r, d, k)
               ELSE Range(ContentsOf(r, d)[k]) \subseteq gone
    <3>1. PICK id : id = <<d, k - 1>>
      OBVIOUS
    <3>2. id[1] = d
      BY <3>1
    <3>3. /\ id \in DOMAIN table <=> id \in DOMAIN other
          /\ id \in DOMAIN table => other[id] = table[id]
      BY <3>2 DEF Same
    <3>4. IF id \in DOMAIN table THEN table[id] = RowOf(r, d, k)
          ELSE Range(ContentsOf(r, d)[k]) \subseteq gone
      BY <1>2, <3>1 DEF Current
    <3> QED
      BY <3>1, <3>3, <3>4
  <2> QED
    BY <1>2, <2>1 DEF Current
<1> QED
  BY <1>1, <1>2 DEF DocumentMeant

\* Rows are written over what was there.
LEMMA WrittenIsMeant ==
  ASSUME NEW r \in Request, NEW R, AreRows(R, r), NEW d \in Document, NEW l,
         DocumentMeant(records, l, d)
  PROVE  /\ d \notin DocumentsOf(r) => DocumentMeant(Upserted(R), l, d)
         /\ d \in DocumentsOf(r) =>
              Current(Upserted(R), [version |-> r.documents[d], collection |-> r.collection,
                                    count |-> Len(ContentsOf(r, d)), gone |-> {}], d, r, {})
<1>1. PICK table : table = Upserted(R)
  OBVIOUS
<1>2. /\ Len(R) \in Nat /\ DOMAIN R = 1 .. Len(R)
      /\ \A a, b \in 1 .. Len(R) : R[a].id = R[b].id => a = b
  BY DEF AreRows
<1>3. /\ DOMAIN table = DOMAIN records \cup {R[a].id : a \in 1 .. Len(R)}
      /\ \A a \in 1 .. Len(R) : table[R[a].id] = R[a]
      /\ \A id \in DOMAIN records : (\A a \in 1 .. Len(R) : R[a].id # id) => table[id] = records[id]
  <2>1. Distinct(R)
    BY <1>2 DEF Distinct
  <2> QED
    BY <1>1, <2>1, UpsertedIs
<1>4. CASE d \notin DocumentsOf(r)
  <2>1. \A a \in 1 .. Len(R) : R[a].id[1] # d
    <3> SUFFICES ASSUME NEW a \in 1 .. Len(R) PROVE R[a].id[1] # d
      OBVIOUS
    <3>1. PICK c \in DocumentsOf(r) : \E k \in 1 .. Len(ContentsOf(r, c)) : R[a] = RowOf(r, c, k)
      BY DEF AreRows
    <3>2. R[a].id[1] = c
      BY <3>1, RowFields
    <3> QED
      BY <1>4, <3>2
  <2>2. Same(records, table, d)
    <3> SUFFICES ASSUME NEW id, id[1] = d
                 PROVE  /\ id \in DOMAIN records <=> id \in DOMAIN table
                        /\ id \in DOMAIN records => table[id] = records[id]
      BY DEF Same
    <3>1. \A a \in 1 .. Len(R) : R[a].id # id
      BY <2>1
    <3> QED
      BY <1>3, <3>1
  <2>3. DocumentMeant(table, l, d)
    BY <2>2, SameIsMeant
  <2> QED
    BY <1>1, <1>4, <2>3
<1>5. CASE d \in DocumentsOf(r)
  <2>1. ASSUME NEW k \in 1 .. Len(ContentsOf(r, d))
        PROVE  <<d, k - 1>> \in DOMAIN table /\ table[<<d, k - 1>>] = RowOf(r, d, k)
    <3>1. PICK a \in 1 .. Len(R) : R[a] = RowOf(r, d, k)
      BY <1>5 DEF AreRows
    <3>2. R[a].id = <<d, k - 1>>
      BY <3>1, RowFields
    <3> QED
      BY <1>3, <3>1, <3>2
  <2> QED
    BY <1>1, <1>5, <2>1 DEF Current
<1> QED
  BY <1>4, <1>5

\* A record is deleted, and what was in it is known to be gone.
LEMMA DeletedIsMeant ==
  ASSUME NEW id \in DOMAIN records, NEW d, id = <<d, id[2]>>, NEW l, DocumentMeant(records, l, d),
         NEW table, table = [other \in DOMAIN records \ {id} |-> records[other]],
         NEW after, after = [l EXCEPT !.gone = @ \cup Range(records[id].content)]
  PROVE  DocumentMeant(table, after, d)
<1>1. id[1] = d
  OBVIOUS
<1>2. ~ Unwritten(records, l, d)
  BY <1>1 DEF Unwritten
<1>3. PICK r \in Request : \E gone : Current(records, l, d, r, gone)
  BY <1>2 DEF DocumentMeant
<1>4. PICK gone : Current(records, l, d, r, gone)
  BY <1>3
<1>5. PICK now : now = gone \cup Range(records[id].content)
  OBVIOUS
<1>6. after = [version |-> r.documents[d], collection |-> r.collection,
               count |-> Len(ContentsOf(r, d)), gone |-> now]
  <2>1. l = [version |-> r.documents[d], collection |-> r.collection,
             count |-> Len(ContentsOf(r, d)), gone |-> gone]
    BY <1>4 DEF Current
  <2> QED
    BY <1>5, <2>1
<1>7. ASSUME NEW k \in 1 .. Len(ContentsOf(r, d))
      PROVE  IF <<d, k - 1>> \in DOMAIN table THEN table[<<d, k - 1>>] = RowOf(r, d, k)
             ELSE Range(ContentsOf(r, d)[k]) \subseteq now
  <2>1. PICK other : other = <<d, k - 1>>
    OBVIOUS
  <2>2. IF other \in DOMAIN records THEN records[other] = RowOf(r, d, k)
        ELSE Range(ContentsOf(r, d)[k]) \subseteq gone
    BY <1>4, <2>1 DEF Current
  <2>3. CASE other = id
    <3>1. records[id].content = ContentsOf(r, d)[k]
      BY <2>2, <2>3, RowFields
    <3>2. other \notin DOMAIN table
      BY <2>3
    <3> QED
      BY <1>5, <2>1, <3>1, <3>2
  <2>4. CASE other # id
    <3>1. /\ other \in DOMAIN table <=> other \in DOMAIN records
          /\ other \in DOMAIN records => table[other] = records[other]
      BY <2>4
    <3> QED
      BY <1>5, <2>1, <2>2, <3>1
  <2> QED
    BY <2>3, <2>4
<1>8. Current(table, after, d, r, now)
  <2>1. d \in DocumentsOf(r)
    BY <1>4 DEF Current
  <2> QED
    BY <1>6, <1>7, <2>1 DEF Current
<1> QED
  BY <1>8 DEF DocumentMeant

-----------------------------------------------------------------------------
(* The steps. *)

LEMMA RunTurns ==
  ASSUME RunsMeant, NEW j \in Run, NEW x, RunMeant(x), run' = [run EXCEPT ![j] = x]
  PROVE  RunsMeant'
BY DEF RunsMeant

NoRun == [phase |-> "over", request |-> None, rows |-> <<>>]

LEMMA IdleRuns == RunMeant(New) /\ RunMeant(NoRun)
BY DEF RunMeant, New, NoRun

LEMMA RunsAreEnded ==
  ASSUME RunsMeant, RunsEnd
  PROVE  RunsMeant'
<1>1. run' = [j \in Run |-> IF run[j].phase = "new" THEN New ELSE NoRun]
  BY DEF RunsEnd, NoRun
<1>2. \A j \in Run : RunMeant(run'[j])
  BY <1>1, IdleRuns
<1>3. run' = [j \in Run |-> run'[j]]
  BY <1>1
<1> QED
  BY <1>2, <1>3 DEF RunsMeant

LEMMA InitMeant == RecallInit => KInv
<1> SUFFICES ASSUME RecallInit PROVE KInv
  OBVIOUS
<1>1. records = <<>> /\ run = [j \in Run |-> New] /\ latest = [d \in Document |-> None]
  BY DEF RecallInit, Init
<1>2. RunsMeant
  BY <1>1, IdleRuns DEF RunsMeant
<1>3. DOMAIN records = {}
  BY <1>1
<1>4. IdsMeant(records)
  BY <1>3 DEF IdsMeant
<1>5. DocumentsMeant
  BY <1>1, <1>3 DEF DocumentsMeant, DocumentMeant, Unwritten
<1> QED
  BY <1>2, <1>4, <1>5 DEF KInv

LEMMA BeginMeant ==
  ASSUME KInv, NEW j \in Run, NEW r \in Request, Begin(j, r)
  PROVE  KInv'
<1>1. PICK x : x = [phase |-> "embedding", request |-> r, rows |-> <<>>]
  OBVIOUS
<1>2. RunMeant(x)
  BY <1>1 DEF RunMeant
<1>3. run' = [run EXCEPT ![j] = x] /\ UNCHANGED <<records, latest>>
  BY <1>1 DEF Begin
<1>4. RunsMeant'
  BY <1>2, <1>3, RunTurns DEF KInv
<1> QED
  BY <1>3, <1>4 DEF KInv, IdsMeant, DocumentsMeant

LEMMA EmbeddedMeant ==
  ASSUME KInv, NEW j \in Run, Embedded(j)
  PROVE  KInv'
<1>1. PICK r : r = run[j].request
  OBVIOUS
<1>2. run[j].phase = "embedding" /\ RunMeant(run[j])
  BY DEF Embedded, KInv, RunsMeant
<1>3. r \in Request
  BY <1>1, <1>2 DEF RunMeant
<1>4. PICK answer \in Answers(Pieces(r)) :
        /\ Complete(answer, Pieces(r))
        /\ run' = [run EXCEPT ![j].phase = "writing", ![j].rows = Rows(answer, Pieces(r), r)]
  BY <1>1 DEF Embedded
<1>5. PICK R : R = Rows(answer, Pieces(r), r)
  OBVIOUS
<1>6. AreRows(R, r)
  BY <1>3, <1>4, <1>5, RowsAre
<1>7. PICK x : x = [phase |-> "writing", request |-> r, rows |-> R]
  OBVIOUS
<1>8. RunMeant(x)
  BY <1>3, <1>6, <1>7 DEF RunMeant
<1>9. run' = [run EXCEPT ![j] = x]
  <2>1. run = [i \in Run |-> run[i]]
    BY DEF KInv, RunsMeant
  <2>2. run[j] = [phase |-> run[j].phase, request |-> r, rows |-> run[j].rows]
    BY <1>1, <1>2 DEF RunMeant
  <2>3. run' = [run EXCEPT ![j].phase = "writing", ![j].rows = R]
    BY <1>4, <1>5
  <2>4. run' = [run EXCEPT ![j] = [[run[j] EXCEPT !.phase = "writing"] EXCEPT !.rows = R]]
    BY <2>1, <2>3
  <2>5. [[run[j] EXCEPT !.phase = "writing"] EXCEPT !.rows = R] = x
    <3>1. PICK y : y = run[j]
      OBVIOUS
    <3>2. PICK p, q : y = [phase |-> p, request |-> r, rows |-> q]
      BY <2>2, <3>1
    <3>3. PICK z : z = [y EXCEPT !.phase = "writing"]
      OBVIOUS
    <3>4. z = [phase |-> "writing", request |-> r, rows |-> q]
      BY <3>2, <3>3
    <3>5. [z EXCEPT !.rows = R] = x
      BY <1>7, <3>4
    <3> QED
      BY <3>1, <3>3, <3>5
  <2> QED
    BY <2>4, <2>5
<1>10. RunsMeant'
  BY <1>8, <1>9, RunTurns DEF KInv
<1>11. UNCHANGED <<records, latest>>
  BY DEF Embedded
<1> QED
  BY <1>10, <1>11 DEF KInv, IdsMeant, DocumentsMeant

LEMMA FailMeant ==
  ASSUME KInv, NEW j \in Run, Fail(j)
  PROVE  KInv'
<1>1. run' = [run EXCEPT ![j] = NoRun] /\ UNCHANGED <<records, latest>>
  BY DEF Fail, Over, NoRun
<1>2. RunsMeant'
  BY <1>1, IdleRuns, RunTurns DEF KInv
<1> QED
  BY <1>1, <1>2 DEF KInv, IdsMeant, DocumentsMeant

LEMMA WriteMeant ==
  ASSUME KInv, NEW j \in Run, Write(j)
  PROVE  KInv'
<1>1. PICK r, R : r = run[j].request /\ R = run[j].rows
  OBVIOUS
<1>2. r \in Request /\ AreRows(R, r)
  <2>1. run[j].phase = "writing" /\ RunMeant(run[j])
    BY DEF Write, KInv, RunsMeant
  <2> QED
    BY <1>1, <2>1 DEF RunMeant
<1>3. /\ records' = Upserted(R)
      /\ latest' = [d \in Document |->
           IF d \in DocumentsOf(r)
           THEN [version |-> r.documents[d], collection |-> r.collection,
                 count |-> Cardinality({i \in DOMAIN R : R[i].id[1] = d}), gone |-> {}]
           ELSE latest[d]]
      /\ run' = [run EXCEPT ![j] = NoRun]
  BY <1>1, Zenon DEF Write, Over, NoRun, DocumentsOf
<1>4. RunsMeant'
  BY <1>3, IdleRuns, RunTurns DEF KInv
<1>5. IdsMeant(records')
  <2>1. DOMAIN records' = DOMAIN records \cup {R[a].id : a \in 1 .. Len(R)}
    <3>1. Distinct(R)
      BY <1>2 DEF AreRows, Distinct
    <3> QED
      BY <1>3, <3>1, UpsertedIs
  <2>2. ASSUME NEW a \in 1 .. Len(R) PROVE R[a].id \in Document \X Nat
    <3>1. PICK d \in DocumentsOf(r) : \E k \in 1 .. Len(ContentsOf(r, d)) : R[a] = RowOf(r, d, k)
      BY <1>2 DEF AreRows
    <3>2. PICK k \in 1 .. Len(ContentsOf(r, d)) : R[a] = RowOf(r, d, k)
      BY <3>1
    <3>3. R[a].id = <<d, k - 1>>
      BY <3>2, RowFields
    <3>4. d \in Document /\ k - 1 \in Nat
      BY <1>2, RequestFacts
    <3> QED
      BY <3>3, <3>4
  <2> QED
    BY <2>1, <2>2 DEF KInv, IdsMeant
<1>6. ASSUME NEW d \in Document PROVE DocumentMeant(records', latest'[d], d)
  <2>1. DocumentMeant(records, latest[d], d)
    BY DEF KInv, DocumentsMeant
  <2>2. CASE d \in DocumentsOf(r)
    <3>1. latest'[d] = [version |-> r.documents[d], collection |-> r.collection,
                        count |-> Len(ContentsOf(r, d)), gone |-> {}]
      BY <1>2, <1>3, <2>2, RowsCount
    <3>2. Current(records', latest'[d], d, r, {})
      BY <1>2, <1>3, <2>1, <2>2, <3>1, WrittenIsMeant
    <3> QED
      BY <1>2, <3>2 DEF DocumentMeant
  <2>3. CASE d \notin DocumentsOf(r)
    <3>1. latest'[d] = latest[d]
      BY <1>3, <2>3
    <3> QED
      BY <1>2, <1>3, <2>1, <2>3, <3>1, WrittenIsMeant
  <2> QED
    BY <2>2, <2>3
<1>7. latest' = [d \in Document |-> latest'[d]]
  BY <1>3
<1> QED
  BY <1>4, <1>5, <1>6, <1>7 DEF KInv, DocumentsMeant

LEMMA DeleteMeant ==
  ASSUME KInv, NEW id \in DOMAIN records, Delete(id)
  PROVE  KInv'
<1>1. /\ id[1] \in Document
      /\ records' = [other \in DOMAIN records \ {id} |-> records[other]]
      /\ latest' = [latest EXCEPT ![id[1]].gone = @ \cup Range(records[id].content)]
      /\ run' = run
  BY DEF Delete
<1>2. RunsMeant'
  BY <1>1 DEF KInv, RunsMeant
<1>3. IdsMeant(records')
  BY <1>1 DEF KInv, IdsMeant
<1>4. PICK c : c = id[1]
  OBVIOUS
<1>5. id = <<c, id[2]>>
  <2>1. id \in Document \X Nat \/ id \in MemoryId
    BY DEF KInv, IdsMeant
  <2>2. id \notin MemoryId
    BY <1>1, RecallAssumption
  <2>3. id \in Document \X Nat
    BY <2>1, <2>2
  <2> QED
    BY <1>4, <2>3
<1>6. latest = [d \in Document |-> latest[d]]
  BY DEF KInv, DocumentsMeant
<1>7. PICK after : after = [latest[c] EXCEPT !.gone = @ \cup Range(records[id].content)]
  OBVIOUS
<1>8. latest' = [latest EXCEPT ![c] = after]
  BY <1>1, <1>4, <1>6, <1>7
<1>9. ASSUME NEW d \in Document PROVE DocumentMeant(records', latest'[d], d)
  <2>1. DocumentMeant(records, latest[d], d)
    BY DEF KInv, DocumentsMeant
  <2>2. CASE d = c
    <3>1. latest'[d] = after
      BY <1>6, <1>8, <2>2
    <3>2. DocumentMeant(records', after, c)
      BY <1>1, <1>5, <1>7, <2>1, <2>2, DeletedIsMeant
    <3> QED
      BY <2>2, <3>1, <3>2
  <2>3. CASE d # c
    <3>1. latest'[d] = latest[d]
      BY <1>6, <1>8, <2>3
    <3>2. Same(records, records', d)
      BY <1>1, <1>4, <2>3 DEF Same
    <3> QED
      BY <2>1, <3>1, <3>2, SameIsMeant
  <2> QED
    BY <2>2, <2>3
<1>10. latest' = [d \in Document |-> latest'[d]]
  BY <1>6, <1>8
<1> QED
  BY <1>2, <1>3, <1>9, <1>10 DEF KInv, DocumentsMeant

\* What concerns facts only.
LEMMA MemoryMeant ==
  ASSUME KInv, UNCHANGED <<run, latest>>, IdsMeant(records'),
         \A d \in Document : Same(records, records', d)
  PROVE  KInv'
<1>1. RunsMeant'
  BY DEF KInv, RunsMeant
<1>2. \A d \in Document : DocumentMeant(records', latest'[d], d)
  BY SameIsMeant DEF KInv, DocumentsMeant
<1>3. latest' = [d \in Document |-> latest'[d]]
  BY DEF KInv, DocumentsMeant
<1> QED
  BY <1>1, <1>2, <1>3 DEF KInv, DocumentsMeant

LEMMA RememberMeant ==
  ASSUME KInv, NEW c \in Fact, NEW id \in MemoryId, RememberFact(c, id)
  PROVE  KInv'
<1>1. PICK R : R = <<MemoryRow(c, id)>>
  OBVIOUS
<1>2. Len(R) = 1 /\ DOMAIN R = 1 .. Len(R) /\ R[1].id = id /\ 1 .. 1 = {1}
  BY <1>1 DEF MemoryRow
<1>3. records' = Upserted(R) /\ UNCHANGED <<run, latest>>
  BY <1>1 DEF RememberFact
<1>4. Distinct(R)
  BY <1>2 DEF Distinct
<1>5. /\ DOMAIN records' = DOMAIN records \cup {R[a].id : a \in 1 .. Len(R)}
      /\ \A other \in DOMAIN records :
           (\A a \in 1 .. Len(R) : R[a].id # other) => records'[other] = records[other]
  BY <1>3, <1>4, UpsertedIs
<1>6. /\ DOMAIN records' = DOMAIN records \cup {id}
      /\ \A other \in DOMAIN records : other # id => records'[other] = records[other]
  BY <1>2, <1>5
<1>7. id[1] \notin Document
  BY RecallAssumption
<1>8. \A d \in Document : Same(records, records', d)
  BY <1>6, <1>7 DEF Same
<1>9. IdsMeant(records')
  BY <1>6 DEF KInv, IdsMeant
<1> QED
  BY <1>3, <1>8, <1>9, MemoryMeant

LEMMA ForgetMeant ==
  ASSUME KInv, NEW id \in MemoryId, ForgetDelete(id)
  PROVE  KInv'
<1>1. /\ records' = [other \in DOMAIN records \ {id} |-> records[other]]
      /\ UNCHANGED <<run, latest>>
  BY DEF ForgetDelete
<1>2. id[1] \notin Document
  BY RecallAssumption
<1>3. \A d \in Document : Same(records, records', d)
  BY <1>1, <1>2 DEF Same
<1>4. IdsMeant(records')
  BY <1>1 DEF KInv, IdsMeant
<1> QED
  BY <1>1, <1>3, <1>4, MemoryMeant

LEMMA StepMeant == KInv /\ [RecallNext]_<<vars, recallVars>> => KInv'
<1> SUFFICES ASSUME KInv, [RecallNext]_<<vars, recallVars>> PROVE KInv'
  OBVIOUS
<1>1. ASSUME UNCHANGED <<run, records, latest>> PROVE KInv'
  BY <1>1 DEF KInv, RunsMeant, IdsMeant, DocumentsMeant
<1>2. CASE Index
  BY <1>2, BeginMeant, EmbeddedMeant, FailMeant, WriteMeant, DeleteMeant DEF Index
<1>3. ASSUME NEW c \in Fact, NEW id \in MemoryId, RememberFact(c, id) PROVE KInv'
  BY <1>3, RememberMeant
<1>4. ASSUME NEW id \in MemoryId, ForgetLook(id) PROVE KInv'
  BY <1>1, <1>4 DEF ForgetLook
<1>5. ASSUME NEW id \in MemoryId, ForgetDelete(id) PROVE KInv'
  BY <1>5, ForgetMeant
<1>6. CASE Restart
  <2>1. RunsMeant' /\ UNCHANGED <<records, latest>>
    BY <1>6, RunsAreEnded DEF Restart, KInv
  <2> QED
    BY <2>1 DEF KInv, IdsMeant, DocumentsMeant
<1>7. CASE UNCHANGED <<vars, recallVars>>
  BY <1>1, <1>7 DEF vars
<1> QED
  BY <1>2, <1>3, <1>4, <1>5, <1>6, <1>7 DEF RecallNext

-----------------------------------------------------------------------------
(* What this means. *)

LEMMA NoneWithinAnother ==
  ASSUME NEW cs, NEW size, NEW low \in Nat, NEW high, Cuts(cs, size, low, high),
         NEW k \in 1 .. Len(cs), NEW l \in 1 .. Len(cs), k # l
  PROVE  ~ (Range(cs[l]) \subseteq Range(cs[k]))
<1>1. PICK a, b : a = cs[k] /\ b = cs[l]
  OBVIOUS
<1>2. Cut(a, size) /\ Cut(b, size)
  BY <1>1 DEF Cuts
<1>3. /\ a \in Seq(Nat) /\ b \in Seq(Nat) /\ DOMAIN a = 1 .. Len(a) /\ DOMAIN b = 1 .. Len(b)
      /\ 1 \in 1 .. Len(b) /\ Len(b) \in 1 .. Len(b)
      /\ Lowest(b) \in Nat /\ Highest(b) \in Nat /\ Lowest(b) # 0 /\ Lowest(b) <= Highest(b)
      /\ Lowest(a) \in Nat /\ Highest(a) \in Nat /\ Lowest(a) # 0 /\ Lowest(a) <= Highest(a)
  BY <1>2 DEF Cut, Lowest, Highest
<1>4. Lowest(b) \in Range(b) /\ Highest(b) \in Range(b)
  BY <1>3 DEF Range, Lowest, Highest
<1>5. ASSUME NEW x \in Range(a) PROVE x = 0 \/ (Lowest(a) <= x /\ x <= Highest(a))
  BY <1>2, <1>3 DEF Range, Cut
<1>6. CASE l < k
  <2>1. Lowest(b) < Lowest(a)
    BY <1>1, <1>6 DEF Cuts
  <2>2. Lowest(b) \notin Range(a)
    <3>1. ~ (Lowest(a) <= Lowest(b)) /\ Lowest(b) # 0
      BY <1>3, <2>1
    <3> QED
      BY <1>5, <3>1
  <2> QED
    BY <1>1, <1>4, <2>2
<1>7. CASE k < l
  <2>1. Highest(a) < Highest(b)
    BY <1>1, <1>7 DEF Cuts
  <2>2. Highest(b) \notin Range(a)
    <3>1. ~ (Highest(b) <= Highest(a)) /\ Highest(b) # 0
      BY <1>3, <2>1
    <3> QED
      BY <1>5, <3>1
  <2> QED
    BY <1>1, <1>4, <2>2
<1>8. Len(cs) \in Nat
  BY DEF Cuts
<1> QED
  BY <1>6, <1>7, <1>8

LEMMA RowsFit ==
  ASSUME KInv, NEW j \in Run
  PROVE  ChunksFit(j)
<1> SUFFICES ASSUME run[j].phase = "writing" PROVE ChunksFit(j)
  BY DEF ChunksFit
<1>1. PICK r, R : r = run[j].request /\ R = run[j].rows
  OBVIOUS
<1>2. r \in Request /\ AreRows(R, r)
  BY <1>1 DEF KInv, RunsMeant, RunMeant
<1>3. DOMAIN R = 1 .. Len(R)
  BY <1>2 DEF AreRows
<1>4. ASSUME NEW i \in 1 .. Len(R)
      PROVE  /\ Len(R[i].content) \in 1 .. r.size
             /\ \A k \in 1 .. Len(R) : R[k].id[1] = R[i].id[1] /\ k # i =>
                  ~ (Range(R[k].content) \subseteq Range(R[i].content))
  <2>1. PICK d \in DocumentsOf(r) : \E k \in 1 .. Len(ContentsOf(r, d)) : R[i] = RowOf(r, d, k)
    BY <1>2 DEF AreRows
  <2>2. PICK m \in 1 .. Len(ContentsOf(r, d)) : R[i] = RowOf(r, d, m)
    BY <2>1
  <2>3. PICK cs : cs = ContentsOf(r, d)
    OBVIOUS
  <2>4. PICK high : Cuts(cs, r.size, 0, high)
    BY <1>2, <2>3, ContentsAre DEF AreContents
  <2>5. m \in 1 .. Len(cs) /\ R[i].content = cs[m] /\ R[i].id = <<d, m - 1>> /\ R[i].id[1] = d
    BY <2>2, <2>3, RowFields
  <2>6. Len(R[i].content) \in 1 .. r.size
    BY <2>4, <2>5 DEF Cuts, Cut
  <2>7. ASSUME NEW k \in 1 .. Len(R), R[k].id[1] = R[i].id[1], k # i
        PROVE  ~ (Range(R[k].content) \subseteq Range(R[i].content))
    <3>1. PICK c \in DocumentsOf(r) : \E n \in 1 .. Len(ContentsOf(r, c)) : R[k] = RowOf(r, c, n)
      BY <1>2 DEF AreRows
    <3>2. PICK n \in 1 .. Len(ContentsOf(r, c)) : R[k] = RowOf(r, c, n)
      BY <3>1
    <3>3. R[k].id[1] = c /\ R[k].id = <<c, n - 1>> /\ R[k].content = ContentsOf(r, c)[n]
      BY <3>2, RowFields
    <3>4. c = d
      BY <2>5, <2>7, <3>3
    <3>5. n \in 1 .. Len(cs) /\ R[k].id = <<d, n - 1>> /\ R[k].content = cs[n]
      BY <2>3, <3>3, <3>4
    <3>6. n # m
      <4>1. ASSUME n = m PROVE FALSE
        <5>1. R[k].id = R[i].id
          BY <2>5, <3>5, <4>1
        <5> QED
          BY <1>2, <2>7, <5>1 DEF AreRows
      <4> QED
        BY <4>1
    <3>7. ~ (Range(cs[n]) \subseteq Range(cs[m]))
      <4>1. 0 \in Nat
        OBVIOUS
      <4> QED
        BY <2>4, <2>5, <3>5, <3>6, <4>1, NoneWithinAnother
    <3> QED
      BY <2>5, <3>5, <3>7
  <2> QED
    BY <2>6, <2>7
<1> QED
  BY <1>1, <1>3, <1>4 DEF ChunksFit

LEMMA DocumentIsWhole ==
  ASSUME KInv, NEW d \in Document, latest[d] # None
  PROVE  LET l == latest[d]
             current == {id \in DOMAIN records : id[1] = d /\ id[2] < l.count}
         IN
         /\ \A id \in current :
              /\ records[id].metadata = ChunkMetadata(l.collection, d, l.version)
              /\ records[id].vector.of = records[id].content
         /\ \A p \in Range(Text[l.version].paragraphs) :
              \A c \in p.start .. p.start + p.length - 1 :
                c \notin l.gone => \E id \in current : c \in Range(records[id].content)
<1>1. PICK l : l = latest[d]
  OBVIOUS
<1>2. PICK r \in Request : \E gone : Current(records, l, d, r, gone)
  BY <1>1 DEF KInv, DocumentsMeant, DocumentMeant, Unwritten
<1>3. PICK gone : Current(records, l, d, r, gone)
  BY <1>2
<1>4. PICK cs, n : cs = ContentsOf(r, d) /\ n = Len(cs)
  OBVIOUS
<1>5. /\ d \in DocumentsOf(r) /\ l.version = r.documents[d] /\ l.collection = r.collection
      /\ l.count = n /\ l.gone = gone
  BY <1>3, <1>4 DEF Current
<1>6. \A k \in 1 .. n : IF <<d, k - 1>> \in DOMAIN records THEN records[<<d, k - 1>>] = RowOf(r, d, k)
                        ELSE Range(cs[k]) \subseteq gone
  BY <1>3, <1>4 DEF Current
<1>7. PICK text : text = Text[r.documents[d]]
  OBVIOUS
<1>8. /\ cs \in Seq(Seq(Nat)) /\ n \in Nat
      /\ Covers(cs, PartOf(text.paragraphs, Len(text.paragraphs)))
      /\ InOrder(text)
  BY <1>4, <1>5, <1>7, ContentsAre, RequestFacts DEF AreContents
<1>9. PICK current : current = {id \in DOMAIN records : id[1] = d /\ id[2] < l.count}
  OBVIOUS
<1>10. ASSUME NEW id \in current
       PROVE  \E k \in 1 .. n : records[id] = RowOf(r, d, k)
  <2>1. id \in DOMAIN records /\ id[1] = d /\ id[2] < n
    BY <1>5, <1>9
  <2>2. id \in Document \X Nat
    <3>1. id \in Document \X Nat \/ id \in MemoryId
      BY <2>1 DEF KInv, IdsMeant
    <3>2. id \notin MemoryId
      BY <2>1, RecallAssumption
    <3> QED
      BY <3>1, <3>2
  <2>3. PICK k : k = id[2] + 1
    OBVIOUS
  <2>4. k \in 1 .. n /\ k - 1 = id[2]
    BY <1>8, <2>1, <2>2, <2>3
  <2>5. id = <<d, k - 1>>
    BY <2>1, <2>2, <2>4
  <2> QED
    BY <1>6, <2>1, <2>4, <2>5
<1>11. ASSUME NEW id \in current
       PROVE  /\ records[id].metadata = ChunkMetadata(l.collection, d, l.version)
              /\ records[id].vector.of = records[id].content
  <2>1. PICK k \in 1 .. n : records[id] = RowOf(r, d, k)
    BY <1>10
  <2>2. /\ records[id].metadata = ChunkMetadata(r.collection, d, r.documents[d])
        /\ records[id].vector.of = records[id].content
    BY <2>1, RowFields
  <2> QED
    BY <1>5, <2>2
<1>12. ASSUME NEW p \in Range(text.paragraphs), NEW c \in p.start .. p.start + p.length - 1,
              c \notin gone
       PROVE  \E id \in current : c \in Range(records[id].content)
  <2>1. PICK ps : ps = text.paragraphs
    OBVIOUS
  <2>2. DOMAIN ps = 1 .. Len(ps)
    BY <1>8, <2>1 DEF InOrder
  <2>3. PICK i \in 1 .. Len(ps) : p = ps[i]
    BY <2>1, <2>2 DEF Range
  <2>4. c \in Nat
    <3>1. p.start \in Nat \ {0} /\ p.length \in Nat \ {0}
      BY <1>8, <2>1, <2>3, ParagraphsInOrder
    <3>2. PICK u \in Nat, w \in Nat : u = p.start /\ w = p.length
      BY <3>1
    <3>3. c \in u .. u + w - 1
      BY <1>12, <3>2
    <3> QED
      BY <3>3
  <2>5. c \in PartOf(ps, Len(ps))
    BY <1>12, <2>3, <2>4 DEF PartOf
  <2>6. PICK k \in 1 .. n : In(c, cs[k])
    BY <1>4, <1>8, <2>1, <2>5 DEF Covers
  <2>7. c \in Range(cs[k])
    <3>1. cs[k] \in Seq(Nat)
      BY <1>4, <1>8, <2>6
    <3>2. DOMAIN cs[k] = 1 .. Len(cs[k])
      BY <3>1
    <3> QED
      BY <2>6, <3>2 DEF In, Range
  <2>8. PICK id : id = <<d, k - 1>>
    OBVIOUS
  <2>9. id \in DOMAIN records /\ records[id] = RowOf(r, d, k)
    BY <1>6, <1>12, <2>7, <2>8
  <2>10. id[1] = d /\ id[2] = k - 1 /\ k - 1 < l.count
    BY <1>5, <1>8, <2>6, <2>8
  <2>11. id \in current
    BY <1>9, <2>9, <2>10
  <2>12. records[id].content = cs[k]
    BY <1>4, <2>9, RowFields
  <2> QED
    BY <2>7, <2>11, <2>12
<1> QED
  BY <1>1, <1>5, <1>7, <1>9, <1>11, <1>12

\* What was written last of a document is whole in every state: its text is in its
\* collection as far as nobody deleted it, each record has the embedding of its own
\* content, and the chunks have the size asked for and repeat no part of one another.
THEOREM LatestAlwaysWhole == RecallSpec => []LatestIsWhole
<1>1. KInv => LatestIsWhole
  BY RowsFit, DocumentIsWhole DEF LatestIsWhole
<1>2. RecallSpec => []KInv
  BY InitMeant, StepMeant, PTL DEF RecallSpec
<1> QED
  BY <1>1, <1>2, PTL

-----------------------------------------------------------------------------
(* Sums over finite sets. *)

Chosen(s) == CHOOSE x \in s : TRUE

LEMMA ChosenIs ==
  ASSUME NEW s, s # {}
  PROVE  Chosen(s) \in s
BY DEF Chosen

LEMMA Without ==
  ASSUME NEW B, IsFiniteSet(B), NEW s \in SUBSET B, s # {}
  PROVE  /\ s \ {Chosen(s)} \in SUBSET B
         /\ Cardinality(s) \in Nat \ {0} /\ Cardinality(s) <= Cardinality(B)
         /\ Cardinality(s \ {Chosen(s)}) = Cardinality(s) - 1
<1>1. IsFiniteSet(s) /\ Cardinality(s) <= Cardinality(B)
  BY FS_Subset
<1>2. Chosen(s) \in s
  BY ChosenIs
<1>3. Cardinality(s) \in Nat /\ Cardinality(s) # 0
  BY <1>1, FS_CardinalityType, FS_EmptySet
<1>4. Cardinality(s \ {Chosen(s)}) = Cardinality(s) - 1
  BY <1>1, <1>2, FS_RemoveElement
<1> QED
  BY <1>1, <1>3, <1>4

\* No set of finite sets goes on with what is left of each without an element.
LEMMA Descent ==
  ASSUME NEW B, IsFiniteSet(B), NEW Bad \in SUBSET SUBSET B,
         \A s \in Bad : s # {} /\ s \ {Chosen(s)} \in Bad
  PROVE  Bad = {}
<1> SUFFICES ASSUME Bad # {} PROVE FALSE
  OBVIOUS
<1>1. PICK T : T = {Cardinality(s) : s \in Bad}
  OBVIOUS
<1>2. \A s \in Bad : s \in SUBSET B /\ Cardinality(s) \in Nat
  <2> SUFFICES ASSUME NEW s \in Bad PROVE s \in SUBSET B /\ Cardinality(s) \in Nat
    OBVIOUS
  <2> QED
    BY FS_Subset, FS_CardinalityType
<1>3. T \subseteq Nat /\ T # {}
  BY <1>1, <1>2
<1>4. PICK n \in T : \A k \in T : n <= k
  BY <1>3, LeastNatural
<1>5. PICK s \in Bad : n = Cardinality(s)
  BY <1>1, <1>4
<1>6. Cardinality(s \ {Chosen(s)}) = n - 1
  BY <1>2, <1>5, Without
<1>7. n - 1 \in T
  BY <1>1, <1>5, <1>6
<1> QED
  BY <1>3, <1>4, <1>7

\* g has the sums of f over the subsets of B.
AddsUp(g, f, B) ==
  /\ g \in [SUBSET B -> Int] /\ g[{}] = 0
  /\ \A s \in SUBSET B : s # {} => g[s] = f[Chosen(s)] + g[s \ {Chosen(s)}]

LEMMA SumsExist ==
  ASSUME NEW B, IsFiniteSet(B), NEW f \in [B -> Int]
  PROVE  \E g : AddsUp(g, f, B)
<1>1. PICK n, A : n = Cardinality(B) /\ A = [SUBSET B -> Int]
  OBVIOUS
<1>2. PICK step : step = [g \in A |->
                            [s \in SUBSET B |-> IF s = {} THEN 0 ELSE f[Chosen(s)] + g[s \ {Chosen(s)}]]]
  OBVIOUS
<1>3. ASSUME NEW g \in A
      PROVE  /\ step[g] \in A /\ step[g][{}] = 0
             /\ \A s \in SUBSET B : s # {} => step[g][s] = f[Chosen(s)] + g[s \ {Chosen(s)}]
  <2>1. ASSUME NEW s \in SUBSET B, s # {} PROVE f[Chosen(s)] + g[s \ {Chosen(s)}] \in Int
    <3>1. Chosen(s) \in B /\ s \ {Chosen(s)} \in SUBSET B
      BY <2>1, ChosenIs
    <3>2. f[Chosen(s)] \in Int /\ g[s \ {Chosen(s)}] \in Int
      BY <1>1, <3>1
    <3> QED
      BY <3>2
  <2>2. step[g] = [s \in SUBSET B |-> IF s = {} THEN 0 ELSE f[Chosen(s)] + g[s \ {Chosen(s)}]]
    BY <1>2
  <2>3. 0 \in Int /\ {} \in SUBSET B
    OBVIOUS
  <2> QED
    BY <1>1, <2>1, <2>2, <2>3
<1>4. PICK F : F = [i \in 1 .. n |-> step]
  OBVIOUS
<1>5. PICK zero : zero = [s \in SUBSET B |-> 0]
  OBVIOUS
<1>6. zero \in A /\ n \in Nat
  BY <1>1, <1>5, FS_CardinalityType
<1>7. step \in [A -> A]
  BY <1>2, <1>3
<1>8. Recursive(A, zero, n, F)
  BY <1>4, <1>6, <1>7 DEF Recursive
<1>9. PICK h \in [0 .. n -> A] : h[0] = zero /\ \A i \in 1 .. n : h[i] = F[i][h[i - 1]]
  BY <1>8, Recursion
<1>10. \A i \in 1 .. n : h[i] = step[h[i - 1]] /\ h[i - 1] \in A
  <2> SUFFICES ASSUME NEW i \in 1 .. n PROVE h[i] = step[h[i - 1]] /\ h[i - 1] \in A
    OBVIOUS
  <2>1. i - 1 \in 0 .. n
    BY <1>6
  <2> QED
    BY <1>4, <1>9, <2>1
<1>11. PICK g : g = [s \in SUBSET B |-> h[Cardinality(s)][s]]
  OBVIOUS
<1>12. g[{}] = 0
  <2>1. Cardinality({}) = 0
    BY FS_EmptySet
  <2> QED
    BY <1>5, <1>9, <1>11, <2>1
<1>13. ASSUME NEW s \in SUBSET B, s # {}
       PROVE  g[s] = f[Chosen(s)] + g[s \ {Chosen(s)}] /\ g[s] \in Int
  <2>1. PICK k, t : k = Cardinality(s) /\ t = s \ {Chosen(s)}
    OBVIOUS
  <2>2. k \in 1 .. n /\ Cardinality(t) = k - 1 /\ t \in SUBSET B
    <3>1. k \in Nat \ {0} /\ k <= n /\ Cardinality(t) = k - 1 /\ t \in SUBSET B
      BY <1>1, <1>13, <2>1, Without
    <3> QED
      BY <1>6, <3>1
  <2>3. h[k][s] = f[Chosen(s)] + h[k - 1][t]
    <3>1. h[k] = step[h[k - 1]] /\ h[k - 1] \in A
      BY <1>10, <2>2
    <3>2. step[h[k - 1]][s] = f[Chosen(s)] + h[k - 1][s \ {Chosen(s)}]
      BY <1>3, <1>13, <3>1
    <3> QED
      BY <2>1, <3>1, <3>2
  <2>4. h[k][s] \in Int
    <3>1. k \in 0 .. n
      BY <1>6, <2>2
    <3>2. h[k] \in A
      BY <1>9, <3>1
    <3> QED
      BY <1>1, <3>2
  <2> QED
    BY <1>11, <2>1, <2>2, <2>3, <2>4
<1>14. g \in [SUBSET B -> Int]
  <2>1. ASSUME NEW s \in SUBSET B PROVE g[s] \in Int
    <3>1. CASE s = {}
      BY <1>12, <3>1
    <3>2. CASE s # {}
      BY <1>13, <3>2
    <3> QED
      BY <3>1, <3>2
  <2> QED
    BY <1>11, <2>1
<1> QED
  BY <1>12, <1>13, <1>14 DEF AddsUp

Totals(h, f, B) ==
  \A s \in SUBSET B : h[s] = IF s = {} THEN 0 ELSE f[Chosen(s)] + h[s \ {Chosen(s)}]

\* There is one way to add up.
LEMMA OneSum ==
  ASSUME NEW B, IsFiniteSet(B), NEW f, NEW g, AddsUp(g, f, B), NEW h, Totals(h, f, B)
  PROVE  h[B] = g[B]
<1>1. PICK Bad : Bad = {s \in SUBSET B : h[s] # g[s]}
  OBVIOUS
<1>2. ASSUME NEW s \in Bad PROVE s # {} /\ s \ {Chosen(s)} \in Bad
  <2>1. s # {}
    BY <1>1 DEF AddsUp, Totals
  <2>2. h[s] = f[Chosen(s)] + h[s \ {Chosen(s)}]
    BY <1>1, <2>1 DEF Totals
  <2>3. g[s] = f[Chosen(s)] + g[s \ {Chosen(s)}]
    BY <1>1, <2>1 DEF AddsUp
  <2> QED
    BY <1>1, <2>1, <2>2, <2>3
<1>3. Bad = {}
  BY <1>1, <1>2, Descent
<1> QED
  BY <1>1, <1>3

\* What the sums of signs are.
LEMMA SumOfSigns ==
  ASSUME NEW W, IsFiniteSet(W), \A w \in W : SignOf[w] \in Int
  PROVE  MapThenSumSet(LAMBDA w : SignOf[w], W) \in Int
<1> DEFINE iter[s \in SUBSET W] ==
             IF s = {} THEN 0 ELSE LET x == CHOOSE x \in s : TRUE IN SignOf[x] + iter[s \ {x}]
<1>1. PICK f : f = [w \in W |-> SignOf[w]]
  OBVIOUS
<1>2. f \in [W -> Int]
  BY <1>1
<1>3. PICK g : AddsUp(g, f, W)
  BY <1>2, SumsExist
<1>4. \A s \in SUBSET W : s # {} => f[Chosen(s)] = SignOf[Chosen(s)]
  BY <1>1, ChosenIs
<1>5. g = [s \in SUBSET W |-> IF s = {} THEN 0 ELSE LET x == CHOOSE x \in s : TRUE IN SignOf[x] + g[s \ {x}]]
  BY <1>3, <1>4 DEF AddsUp, Chosen
<1>6. iter = [s \in SUBSET W |-> IF s = {} THEN 0 ELSE LET x == CHOOSE x \in s : TRUE IN SignOf[x] + iter[s \ {x}]]
  BY <1>5, Zenon
<1>7. MapThenSumSet(LAMBDA w : SignOf[w], W) = iter[W]
  BY Zenon DEF MapThenSumSet, MapThenFoldSet
<1> HIDE DEF iter
<1>8. Totals(iter, f, W)
  BY <1>4, <1>6 DEF Chosen, Totals
<1>9. iter[W] = g[W]
  BY <1>3, <1>8, OneSum
<1> QED
  BY <1>3, <1>7, <1>9 DEF AddsUp

LEMMA ProductIs ==
  ASSUME NEW v \in [Bucket -> Int], NEW w \in [Bucket -> Int]
  PROVE  \E g : AddsUp(g, [b \in Bucket |-> v[b] * w[b]], Bucket) /\ Product(v, w) = g[Bucket]
<1> DEFINE iter[s \in SUBSET Bucket] ==
             IF s = {} THEN 0 ELSE LET x == CHOOSE x \in s : TRUE IN v[x] * w[x] + iter[s \ {x}]
<1>1. PICK f : f = [b \in Bucket |-> v[b] * w[b]]
  OBVIOUS
<1>2. f \in [Bucket -> Int] /\ IsFiniteSet(Bucket)
  BY <1>1, CallAssumption
<1>3. PICK g : AddsUp(g, f, Bucket)
  BY <1>2, SumsExist
<1>4. \A s \in SUBSET Bucket : s # {} => f[Chosen(s)] = v[Chosen(s)] * w[Chosen(s)]
  BY <1>1, ChosenIs
<1>5. g = [s \in SUBSET Bucket |->
             IF s = {} THEN 0 ELSE LET x == CHOOSE x \in s : TRUE IN v[x] * w[x] + g[s \ {x}]]
  BY <1>3, <1>4 DEF AddsUp, Chosen
<1>6. iter = [s \in SUBSET Bucket |->
                IF s = {} THEN 0 ELSE LET x == CHOOSE x \in s : TRUE IN v[x] * w[x] + iter[s \ {x}]]
  BY <1>5, Zenon
<1>7. Product(v, w) = iter[Bucket]
  BY Zenon DEF Product, MapThenSumSet, MapThenFoldSet
<1> HIDE DEF iter
<1>8. Totals(iter, f, Bucket)
  BY <1>4, <1>6 DEF Chosen, Totals
<1>9. iter[Bucket] = g[Bucket]
  BY <1>2, <1>3, <1>8, OneSum
<1> QED
  BY <1>1, <1>3, <1>7, <1>9

-----------------------------------------------------------------------------
(* Products of vectors. *)

\* ft is a sum of multiples of fp, fq and fr.
Combined(B, x, y, z, fp, fq, fr, ft) ==
  /\ x \in Int /\ y \in Int /\ z \in Int
  /\ fp \in [B -> Int] /\ fq \in [B -> Int] /\ fr \in [B -> Int]
  /\ \A b \in B : ft[b] = x * fp[b] + y * fq[b] + z * fr[b]

LEMMA Spread == \A k, a, b \in Int : k * (a + b) = k * a + k * b
OBVIOUS

LEMMA SumOfThree ==
  ASSUME NEW B, IsFiniteSet(B), NEW x, NEW y, NEW z, NEW fp, NEW fq, NEW fr, NEW ft,
         Combined(B, x, y, z, fp, fq, fr, ft),
         NEW p, AddsUp(p, fp, B), NEW q, AddsUp(q, fq, B),
         NEW r, AddsUp(r, fr, B), NEW t, AddsUp(t, ft, B)
  PROVE  t[B] = x * p[B] + y * q[B] + z * r[B]
<1> USE DEF Combined
<1>1. PICK Bad : Bad = {s \in SUBSET B : t[s] # x * p[s] + y * q[s] + z * r[s]}
  OBVIOUS
<1>2. ASSUME NEW s \in Bad PROVE s # {} /\ s \ {Chosen(s)} \in Bad
  <2>1. s # {}
    <3> SUFFICES ASSUME s = {} PROVE FALSE
      OBVIOUS
    <3>1. p[s] = 0 /\ q[s] = 0 /\ r[s] = 0 /\ t[s] = 0
      BY DEF AddsUp
    <3>2. t[s] = x * p[s] + y * q[s] + z * r[s]
      BY <3>1
    <3> QED
      BY <1>1, <3>2
  <2>2. PICK o, c : o = s \ {Chosen(s)} /\ c = Chosen(s)
    OBVIOUS
  <2>3. c \in B /\ o \in SUBSET B /\ s \in SUBSET B
    BY <1>1, <2>1, <2>2, ChosenIs
  <2>4. /\ p[s] = fp[c] + p[o] /\ q[s] = fq[c] + q[o] /\ r[s] = fr[c] + r[o] /\ t[s] = ft[c] + t[o]
        /\ p[o] \in Int /\ q[o] \in Int /\ r[o] \in Int /\ t[o] \in Int
    BY <2>1, <2>2, <2>3 DEF AddsUp
  <2>5. fp[c] \in Int /\ fq[c] \in Int /\ fr[c] \in Int
    BY <2>3
  <2>6. /\ x * p[s] = x * fp[c] + x * p[o] /\ y * q[s] = y * fq[c] + y * q[o]
        /\ z * r[s] = z * fr[c] + z * r[o]
    <3>1. x \in Int /\ y \in Int /\ z \in Int
      OBVIOUS
    <3> HIDE DEF Combined
    <3>2. x * p[s] = x * fp[c] + x * p[o]
      BY <2>4, <2>5, <3>1, Spread
    <3>3. y * q[s] = y * fq[c] + y * q[o]
      BY <2>4, <2>5, <3>1, Spread
    <3>4. z * r[s] = z * fr[c] + z * r[o]
      BY <2>4, <2>5, <3>1, Spread
    <3> QED
      BY <3>2, <3>3, <3>4
  <2>7. ft[c] = x * fp[c] + y * fq[c] + z * fr[c]
    BY <2>3
  <2>8. ASSUME t[o] = x * p[o] + y * q[o] + z * r[o] PROVE FALSE
    <3>1. /\ x * fp[c] \in Int /\ y * fq[c] \in Int /\ z * fr[c] \in Int
          /\ x * p[o] \in Int /\ y * q[o] \in Int /\ z * r[o] \in Int
      BY <2>4, <2>5
    <3>2. PICK a \in Int, b \in Int, d \in Int, i \in Int, j \in Int, k \in Int :
            /\ a = x * fp[c] /\ b = y * fq[c] /\ d = z * fr[c]
            /\ i = x * p[o] /\ j = y * q[o] /\ k = z * r[o]
      BY <3>1
    <3>3. x * p[s] = a + i /\ y * q[s] = b + j /\ z * r[s] = d + k
      BY <2>6, <3>2
    <3>4. t[s] = ft[c] + t[o]
      BY <2>4
    <3>5. ft[c] = a + b + d /\ t[o] = i + j + k
      BY <2>7, <2>8, <3>2
    <3>6. PICK l, m, n : l = x * p[s] /\ m = y * q[s] /\ n = z * r[s]
      OBVIOUS
    <3>7. l = a + i /\ m = b + j /\ n = d + k
      BY <3>3, <3>6
    <3> HIDE DEF Combined
    <3>8. t[s] = l + m + n
      BY <3>4, <3>5, <3>7
    <3>9. t[s] = x * p[s] + y * q[s] + z * r[s]
      BY <3>6, <3>8
    <3> QED
      BY <1>1, <3>9
  <2> QED
    BY <1>1, <2>1, <2>2, <2>3, <2>8
<1>3. Bad = {}
  BY <1>1, <1>2, Descent
<1> QED
  BY <1>1, <1>3

LEMMA SumOfSquares ==
  ASSUME NEW B, IsFiniteSet(B), NEW f \in [B -> Int], \A b \in B : f[b] >= 0,
         NEW g, AddsUp(g, f, B)
  PROVE  /\ \A s \in SUBSET B : g[s] >= 0
         /\ \A b \in B : f[b] <= g[B]
<1>1. \A s \in SUBSET B : s # {} =>
        /\ Chosen(s) \in B /\ Chosen(s) \in s /\ s \ {Chosen(s)} \in SUBSET B
        /\ g[s] = f[Chosen(s)] + g[s \ {Chosen(s)}] /\ g[s \ {Chosen(s)}] \in Int /\ f[Chosen(s)] \in Int
  <2> SUFFICES ASSUME NEW s \in SUBSET B, s # {}
               PROVE  /\ Chosen(s) \in B /\ Chosen(s) \in s /\ s \ {Chosen(s)} \in SUBSET B
                      /\ g[s] = f[Chosen(s)] + g[s \ {Chosen(s)}]
                      /\ g[s \ {Chosen(s)}] \in Int /\ f[Chosen(s)] \in Int
    OBVIOUS
  <2>1. Chosen(s) \in s /\ Chosen(s) \in B /\ s \ {Chosen(s)} \in SUBSET B
    BY ChosenIs
  <2> QED
    BY <2>1 DEF AddsUp
<1>2. ASSUME NEW s \in SUBSET B PROVE g[s] >= 0
  <2>1. PICK Bad : Bad = {u \in SUBSET B : ~ g[u] >= 0}
    OBVIOUS
  <2>2. ASSUME NEW u \in Bad PROVE u # {} /\ u \ {Chosen(u)} \in Bad
    <3>1. u \in SUBSET B /\ ~ g[u] >= 0
      BY <2>1
    <3>2. u # {}
      <4>1. g[{}] = 0
        BY DEF AddsUp
      <4> QED
        BY <3>1, <4>1
    <3>3. ~ g[u \ {Chosen(u)}] >= 0 /\ u \ {Chosen(u)} \in SUBSET B
      <4>1. /\ g[u] = f[Chosen(u)] + g[u \ {Chosen(u)}]
            /\ g[u \ {Chosen(u)}] \in Int /\ f[Chosen(u)] \in Int /\ f[Chosen(u)] >= 0
            /\ u \ {Chosen(u)} \in SUBSET B
        BY <1>1, <3>1, <3>2
      <4> QED
        BY <3>1, <4>1
    <3> QED
      BY <2>1, <3>2, <3>3
  <2>3. Bad = {}
    BY <2>1, <2>2, Descent
  <2> QED
    BY <2>1, <2>3
<1>3. ASSUME NEW b \in B PROVE f[b] <= g[B]
  <2>1. PICK Bad : Bad = {u \in SUBSET B : b \in u /\ ~ f[b] <= g[u]}
    OBVIOUS
  <2>2. ASSUME NEW u \in Bad PROVE u # {} /\ u \ {Chosen(u)} \in Bad
    <3>1. u # {} /\ u \in SUBSET B /\ b \in u /\ ~ f[b] <= g[u]
      BY <2>1
    <3>2. g[u \ {Chosen(u)}] >= 0
      BY <1>1, <1>2, <3>1
    <3>3. Chosen(u) # b
      <4>1. /\ g[u] = f[Chosen(u)] + g[u \ {Chosen(u)}]
            /\ g[u \ {Chosen(u)}] \in Int /\ f[Chosen(u)] \in Int
        BY <1>1, <3>1
      <4> QED
        BY <3>1, <3>2, <4>1
    <3>4. ~ f[b] <= g[u \ {Chosen(u)}]
      BY <1>1, <3>1
    <3> QED
      BY <1>1, <2>1, <3>1, <3>3, <3>4
  <2>3. Bad = {}
    BY <2>1, <2>2, Descent
  <2> QED
    BY <2>1, <2>3
<1> QED
  BY <1>2, <1>3

LEMMA SquareIs ==
  ASSUME NEW x \in Int
  PROVE  x * x \in Int /\ x * x >= 0 /\ (x # 0 => x * x > 0)
OBVIOUS

LEMMA ProductFacts ==
  ASSUME NEW v \in [Bucket -> Int], NEW w \in [Bucket -> Int]
  PROVE  /\ Product(v, w) \in Int /\ Product(v, v) \in Int /\ Product(v, v) >= 0
         /\ (\E b \in Bucket : v[b] # 0) => Product(v, v) > 0
<1>1. Product(v, w) \in Int
  <2>1. PICK g : AddsUp(g, [b \in Bucket |-> v[b] * w[b]], Bucket) /\ Product(v, w) = g[Bucket]
    BY ProductIs
  <2> QED
    BY <2>1 DEF AddsUp
<1>2. PICK f : f = [b \in Bucket |-> v[b] * v[b]]
  OBVIOUS
<1>3. PICK g : AddsUp(g, f, Bucket) /\ Product(v, v) = g[Bucket]
  BY <1>2, ProductIs
<1>4. ASSUME NEW b \in Bucket PROVE f[b] \in Int /\ f[b] >= 0 /\ (v[b] # 0 => f[b] > 0)
  <2>1. v[b] \in Int /\ f[b] = v[b] * v[b]
    BY <1>2
  <2> QED
    BY <2>1, SquareIs
<1>5. f \in [Bucket -> Int] /\ IsFiniteSet(Bucket)
  BY <1>2, <1>4, CallAssumption
<1>6. (\A s \in SUBSET Bucket : g[s] >= 0) /\ \A b \in Bucket : f[b] <= g[Bucket]
  BY <1>3, <1>4, <1>5, SumOfSquares
<1>7. g[Bucket] \in Int
  BY <1>3 DEF AddsUp
<1>8. Product(v, v) \in Int /\ Product(v, v) >= 0
  BY <1>3, <1>6, <1>7
<1>9. ASSUME NEW b \in Bucket, v[b] # 0 PROVE Product(v, v) > 0
  <2>1. f[b] \in Int /\ f[b] > 0 /\ f[b] <= g[Bucket]
    BY <1>4, <1>6, <1>9
  <2> QED
    BY <1>3, <1>7, <2>1
<1> QED
  BY <1>1, <1>8, <1>9

\* The square of a difference
LEMMA DifferenceSquared ==
  ASSUME NEW x \in Int, NEW y \in Int, NEW v \in Int, NEW w \in Int
  PROVE  (x * v - y * w) * (x * v - y * w)
           = (x * x) * (v * v) + (-2 * (x * y)) * (v * w) + (y * y) * (w * w)
OBVIOUS

LEMMA Factors ==
  ASSUME NEW a \in Int, NEW b \in Int, NEW c \in Int, b > 0,
         (b * b) * a + (-2 * (b * c)) * c + (c * c) * b >= 0
  PROVE  c * c <= a * b
<1>1. (b * b) * a + (-2 * (b * c)) * c + (c * c) * b = b * (a * b - c * c)
  OBVIOUS
<1>2. PICK d \in Int : d = a * b - c * c
  OBVIOUS
<1>3. b * d >= 0
  BY <1>1, <1>2
<1>4. d >= 0
  <2> SUFFICES ASSUME d <= -1 PROVE FALSE
    OBVIOUS
  <2>1. b * d <= -1
    BY <1>2
  <2> QED
    BY <1>3, <2>1
<1> QED
  BY <1>2, <1>4

LEMMA CauchySchwarz ==
  ASSUME NEW v \in [Bucket -> Int], NEW w \in [Bucket -> Int], Product(w, w) > 0
  PROVE  Product(v, w) * Product(v, w) <= Product(v, v) * Product(w, w)
<1>1. PICK fp, fq, fr : /\ fp = [b \in Bucket |-> v[b] * v[b]] /\ fq = [b \in Bucket |-> v[b] * w[b]]
                        /\ fr = [b \in Bucket |-> w[b] * w[b]]
  OBVIOUS
<1>2. PICK p : AddsUp(p, fp, Bucket) /\ Product(v, v) = p[Bucket]
  BY <1>1, ProductIs
<1>3. PICK q : AddsUp(q, fq, Bucket) /\ Product(v, w) = q[Bucket]
  BY <1>1, ProductIs
<1>4. PICK r : AddsUp(r, fr, Bucket) /\ Product(w, w) = r[Bucket]
  BY <1>1, ProductIs
<1>5. IsFiniteSet(Bucket)
  BY CallAssumption
<1>6. PICK a, b, c : a = Product(v, v) /\ b = Product(w, w) /\ c = Product(v, w)
  OBVIOUS
<1>7. a \in Int /\ b \in Int /\ c \in Int /\ b > 0
  BY <1>6, ProductFacts
<1>8. PICK ft : ft = [i \in Bucket |-> (b * v[i] - c * w[i]) * (b * v[i] - c * w[i])]
  OBVIOUS
<1>9. ASSUME NEW i \in Bucket
      PROVE  /\ fp[i] \in Int /\ fq[i] \in Int /\ fr[i] \in Int /\ ft[i] \in Int /\ ft[i] >= 0
             /\ ft[i] = (b * b) * fp[i] + (-2 * (b * c)) * fq[i] + (c * c) * fr[i]
  <2>1. PICK x \in Int, y \in Int : x = v[i] /\ y = w[i]
    OBVIOUS
  <2>2. /\ fp[i] = x * x /\ fq[i] = x * y /\ fr[i] = y * y
        /\ ft[i] = (b * x - c * y) * (b * x - c * y)
    BY <1>1, <1>8, <2>1
  <2>3. fp[i] \in Int /\ fq[i] \in Int /\ fr[i] \in Int
    BY <2>2
  <2>4. b * x - c * y \in Int
    BY <1>7
  <2>5. ft[i] \in Int /\ ft[i] >= 0
    BY <2>2, <2>4, SquareIs
  <2>6. ft[i] = (b * b) * (x * x) + (-2 * (b * c)) * (x * y) + (c * c) * (y * y)
    BY <1>7, <2>2, DifferenceSquared
  <2> QED
    BY <2>2, <2>3, <2>5, <2>6
<1>10. /\ fp \in [Bucket -> Int] /\ fq \in [Bucket -> Int] /\ fr \in [Bucket -> Int]
       /\ ft \in [Bucket -> Int]
  BY <1>1, <1>8, <1>9
<1>11. PICK t : AddsUp(t, ft, Bucket)
  BY <1>5, <1>10, SumsExist
<1>12. t[Bucket] >= 0
  BY <1>5, <1>9, <1>10, <1>11, SumOfSquares
<1>13. PICK x \in Int, y \in Int, z \in Int : x = b * b /\ y = -2 * (b * c) /\ z = c * c
  BY <1>7
<1>14. \A i \in Bucket : ft[i] = x * fp[i] + y * fq[i] + z * fr[i]
  BY <1>9, <1>13
<1>15. t[Bucket] = x * p[Bucket] + y * q[Bucket] + z * r[Bucket]
  <2>1. Combined(Bucket, x, y, z, fp, fq, fr, ft)
    BY <1>10, <1>14 DEF Combined
  <2> QED
    BY <1>2, <1>3, <1>4, <1>5, <1>11, <2>1, SumOfThree
<1>16. t[Bucket] = (b * b) * a + (-2 * (b * c)) * c + (c * c) * b
  BY <1>2, <1>3, <1>4, <1>6, <1>13, <1>15
<1>17. c * c <= a * b
  BY <1>7, <1>12, <1>16, Factors
<1> QED
  BY <1>6, <1>17

-----------------------------------------------------------------------------
(* Scores. *)

Fraction == Int \X (Nat \ {0})

NonZero(v) == v \in [Bucket -> Int] /\ \E b \in Bucket : v[b] # 0

LEMMA CosineIs ==
  ASSUME NEW v, NEW w, NonZero(v), NonZero(w)
  PROVE  /\ Cosine(v, w) \in Fraction /\ Cosine(v, w)[1] <= Cosine(v, w)[2]
         /\ Cosine(v, v)[1] = Cosine(v, v)[2]
<1>1. PICK a, b, c : a = Product(v, v) /\ b = Product(w, w) /\ c = Product(v, w)
  OBVIOUS
<1>2. a \in Int /\ b \in Int /\ c \in Int /\ a > 0 /\ b > 0
  BY <1>1, ProductFacts DEF NonZero
<1>3. c * c <= a * b
  BY <1>1, <1>2, CauchySchwarz DEF NonZero
<1>4. a * b \in Nat \ {0}
  <2>1. a * b > 0
    BY <1>2
  <2> QED
    BY <1>2, <2>1
<1>5. Cosine(v, w) = <<(IF c < 0 THEN -c ELSE c) * c, a * b>>
  BY <1>1 DEF Cosine
<1>6. (IF c < 0 THEN -c ELSE c) * c \in Int /\ (IF c < 0 THEN -c ELSE c) * c <= a * b
  <2>1. CASE c < 0
    <3>1. (-c) * c <= 0
      BY <1>2, <2>1
    <3> QED
      BY <1>2, <1>4, <2>1, <3>1
  <2>2. CASE ~ c < 0
    BY <1>2, <1>3, <2>2
  <2> QED
    BY <2>1, <2>2
<1>7. Cosine(v, v) = <<a * a, a * a>>
  <2>1. Cosine(v, v) = <<(IF a < 0 THEN -a ELSE a) * a, a * a>>
    BY <1>1 DEF Cosine
  <2> QED
    BY <1>2, <2>1
<1> QED
  BY <1>4, <1>5, <1>6, <1>7 DEF Fraction

HasWords(words) == IsFiniteSet(words) /\ \A w \in words : SignOf[w] \in Int

LEMMA TextVectorIs ==
  ASSUME NEW words, HasWords(words)
  PROVE  TextVector(words).size = HashSize /\ NonZero(TextVector(words).of)
<1>1. PICK sums : sums = Sums(words)
  OBVIOUS
<1>2. sums \in [Bucket -> Int]
  <2>1. ASSUME NEW b \in Bucket
        PROVE  MapThenSumSet(LAMBDA w : SignOf[w], {w \in words : BucketOf[w] = b}) \in Int
    <3>1. PICK W : W = {w \in words : BucketOf[w] = b}
      OBVIOUS
    <3>2. IsFiniteSet(W) /\ \A w \in W : SignOf[w] \in Int
      BY <3>1, FS_Subset DEF HasWords
    <3>3. MapThenSumSet(LAMBDA w : SignOf[w], W) \in Int
      BY <3>2, SumOfSigns
    <3> QED
      BY <3>1, <3>3, Zenon
  <2> QED
    BY <1>1, <2>1 DEF Sums
<1>3. PICK v : v = IF \A b \in Bucket : sums[b] = 0
                   THEN [b \in Bucket |-> IF b = 1 THEN 1 ELSE 0] ELSE sums
  OBVIOUS
<1>4. NonZero(v)
  BY <1>2, <1>3, CallAssumption DEF NonZero
<1>5. TextVector(words) = [size |-> HashSize, of |-> v]
  BY <1>1, <1>3 DEF TextVector, Vector
<1> QED
  BY <1>4, <1>5

LEMMA BetterIsTransitive ==
  ASSUME NEW x \in Fraction, NEW y \in Fraction, NEW z \in Fraction,
         ~ AtLeast(x, y), ~ AtLeast(y, z)
  PROVE  ~ AtLeast(x, z)
<1>1. PICK a \in Int, b \in Nat \ {0}, c \in Int, d \in Nat \ {0}, e \in Int, f \in Nat \ {0} :
        x = <<a, b>> /\ y = <<c, d>> /\ z = <<e, f>>
  BY DEF Fraction
<1>2. a * d < c * b /\ c * f < e * d
  BY <1>1 DEF AtLeast
<1>3. (a * d) * f < (c * b) * f /\ (c * f) * b < (e * d) * b
  <2>1. \A m \in Int, n \in Int, k \in Nat \ {0} : m < n => m * k < n * k
    OBVIOUS
  <2>2. a * d \in Int /\ c * b \in Int /\ c * f \in Int /\ e * d \in Int
    OBVIOUS
  <2> QED
    BY <1>2, <2>1, <2>2
<1>4. (a * f) * d < (e * b) * d
  BY <1>3
<1>5. a * f < e * b
  <2>1. PICK m \in Int, n \in Int : m = a * f /\ n = e * b
    OBVIOUS
  <2> SUFFICES ASSUME n <= m PROVE FALSE
    BY <2>1
  <2>2. n * d <= m * d
    OBVIOUS
  <2> QED
    BY <1>4, <2>1, <2>2
<1> QED
  BY <1>1, <1>5 DEF AtLeast

-----------------------------------------------------------------------------
(* Searches. *)

IsBest(best, C, s) ==
  best \in SUBSET C /\ \A id \in best, other \in C \ best : AtLeast(s[id], s[other])

LEMMA BestExists ==
  ASSUME NEW C, IsFiniteSet(C), NEW s \in [C -> Fraction], NEW k \in 0 .. Cardinality(C)
  PROVE  \E best : IsBest(best, C, s) /\ Cardinality(best) = k
<1>1. PICK n : n = Cardinality(C)
  OBVIOUS
<1>2. n \in Nat
  BY <1>1, FS_CardinalityType
<1> DEFINE Good(i) == \E best : IsBest(best, C, s) /\ Cardinality(best) = i
           Bad == {i \in 0 .. n : ~ Good(i)}
<1> SUFFICES ASSUME Bad # {} PROVE FALSE
  BY <1>1
<1>3. PICK i \in Bad : \A j \in Bad : i <= j
  <2>1. Bad \subseteq Nat
    OBVIOUS
  <2> HIDE DEF Bad
  <2> QED
    BY <2>1, LeastNatural
<1>4. i \in 0 .. n /\ ~ Good(i)
  OBVIOUS
<1>5. i # 0
  <2>1. IsBest({}, C, s) /\ Cardinality({}) = 0
    BY FS_EmptySet DEF IsBest
  <2> QED
    BY <1>4, <2>1
<1>6. PICK best : IsBest(best, C, s) /\ Cardinality(best) = i - 1
  <2>1. i - 1 \in 0 .. n /\ ~ i <= i - 1
    BY <1>2, <1>4, <1>5
  <2> QED
    BY <1>3, <2>1
<1> HIDE DEF Good, Bad
<1>7. PICK rest : rest = C \ best
  OBVIOUS
<1>8. IsFiniteSet(best) /\ IsFiniteSet(rest) /\ rest # {}
  <2>1. IsFiniteSet(best) /\ IsFiniteSet(rest)
    BY <1>6, <1>7, FS_Subset DEF IsBest
  <2>2. rest # {}
    <3> SUFFICES ASSUME rest = {} PROVE FALSE
      OBVIOUS
    <3>1. best = C
      BY <1>6, <1>7 DEF IsBest
    <3> QED
      BY <1>1, <1>2, <1>4, <1>6, <3>1
  <2> QED
    BY <2>1, <2>2
<1> DEFINE Better(x) == {y \in C : ~ AtLeast(s[x], s[y])}
<1>9. \A x \in C : IsFiniteSet(Better(x)) /\ Cardinality(Better(x)) \in Nat
  <2> SUFFICES ASSUME NEW x \in C
               PROVE  IsFiniteSet(Better(x)) /\ Cardinality(Better(x)) \in Nat
    OBVIOUS
  <2>1. Better(x) \subseteq C
    OBVIOUS
  <2> HIDE DEF Better
  <2> QED
    BY <2>1, FS_Subset, FS_CardinalityType
<1>10. PICK x \in rest : \A y \in rest : Cardinality(Better(x)) <= Cardinality(Better(y))
  <2>1. PICK T : T = {Cardinality(Better(y)) : y \in rest}
    OBVIOUS
  <2> HIDE DEF Better
  <2>2. T \subseteq Nat /\ T # {}
    BY <1>7, <1>8, <1>9, <2>1
  <2>3. PICK m \in T : \A j \in T : m <= j
    BY <2>2, LeastNatural
  <2> QED
    BY <2>1, <2>3
<1>11. ASSUME NEW y \in rest PROVE AtLeast(s[x], s[y])
  <2> SUFFICES ASSUME ~ AtLeast(s[x], s[y]) PROVE FALSE
    OBVIOUS
  <2>1. x \in C /\ y \in C
    BY <1>7
  <2>2. ASSUME NEW z \in Better(y) PROVE z \in Better(x)
    BY <2>1, BetterIsTransitive
  <2>3. y \in Better(x) /\ y \notin Better(y)
    <3>1. AtLeast(s[y], s[y])
      <4>1. PICK a \in Int, b \in Nat \ {0} : s[y] = <<a, b>>
        BY <2>1 DEF Fraction
      <4> QED
        BY <4>1 DEF AtLeast
    <3> QED
      BY <2>1, <3>1
  <2>4. Cardinality(Better(y)) < Cardinality(Better(x))
    <3>1. IsFiniteSet(Better(x))
      BY <1>9, <2>1
    <3> HIDE DEF Better
    <3>2. Better(y) \in SUBSET Better(x) /\ Better(y) # Better(x)
      BY <2>2, <2>3
    <3>3. Cardinality(Better(x)) \in Nat /\ Cardinality(Better(y)) \in Nat
      BY <1>9, <2>1
    <3>4. /\ Cardinality(Better(y)) <= Cardinality(Better(x))
          /\ Cardinality(Better(x)) # Cardinality(Better(y))
      BY <3>1, <3>2, FS_Subset
    <3> QED
      BY <3>3, <3>4
  <2>5. Cardinality(Better(x)) \in Nat /\ Cardinality(Better(y)) \in Nat
    BY <1>9, <2>1
  <2> QED
    BY <1>10, <2>4, <2>5
<1> HIDE DEF Better
<1>12. PICK more : more = best \cup {x}
  OBVIOUS
<1>13. IsBest(more, C, s)
  BY <1>6, <1>7, <1>11, <1>12 DEF IsBest
<1>14. Cardinality(more) = i
  <2>1. x \notin best
    BY <1>7
  <2>2. Cardinality(more) = (i - 1) + 1
    BY <1>6, <1>8, <1>12, <2>1, FS_AddElement
  <2> QED
    BY <1>4, <2>2
<1> QED
  BY <1>4, <1>13, <1>14 DEF Good

ScoreOf(query, id) == Score(query.vector, records[id].vector)

Searchable(query) ==
  /\ IsFiniteSet(DOMAIN records) /\ Cardinality(DOMAIN records) <= MaxCandidates
  /\ query.limit \in Nat
  /\ \A id \in Candidates(query) : ScoreOf(query, id) \in Fraction

\* What a search finds.
LEMMA SearchIs ==
  ASSUME NEW query, Searchable(query)
  PROVE  /\ Search(query) # {}
         /\ \A found \in Search(query) :
              /\ found \in SUBSET Candidates(query)
              /\ Cardinality(found) = query.limit \/ found = Candidates(query)
              /\ \A id \in Candidates(query), other \in found :
                   id \in found \/ AtLeast(ScoreOf(query, other), ScoreOf(query, id))
<1>1. PICK C, n, k : C = Candidates(query) /\ n = Cardinality(C) /\ k = Lesser(query.limit, n)
  OBVIOUS
<1>2. IsFiniteSet(C) /\ n \in Nat
  <2>1. C \subseteq DOMAIN records
    BY <1>1 DEF Candidates
  <2> QED
    BY <1>1, <2>1, FS_Subset, FS_CardinalityType DEF Searchable
<1>3. k \in 0 .. n /\ (k = query.limit \/ k = n)
  BY <1>1, <1>2 DEF Lesser, Searchable
<1>4. PICK s : s = [id \in C |-> ScoreOf(query, id)]
  OBVIOUS
<1>5. s \in [C -> Fraction]
  BY <1>1, <1>4 DEF Searchable
<1>6. \A best : best \in Search(query) <=> IsBest(best, C, s) /\ Cardinality(best) = k
  <2>1. ~ Cardinality(DOMAIN records) > MaxCandidates
    <3>1. Cardinality(DOMAIN records) \in Nat /\ MaxCandidates \in Nat
      BY FS_CardinalityType, RecallAssumption DEF Searchable
    <3> QED
      BY <3>1 DEF Searchable
  <2>2. Search(query) = {best \in kSubset(k, C) :
           \A id \in best, other \in C \ best : AtLeast(ScoreOf(query, id), ScoreOf(query, other))}
    BY <1>1, <2>1 DEF Search, ScoreOf
  <2>3. Search(query) = {best \in {b \in SUBSET C : Cardinality(b) = k} :
           \A id \in best, other \in C \ best : AtLeast(ScoreOf(query, id), ScoreOf(query, other))}
    BY <2>2 DEF kSubset
  <2>4. \A id \in C : s[id] = ScoreOf(query, id)
    BY <1>4
  <2> QED
    BY <2>3, <2>4 DEF IsBest
<1>7. Search(query) # {}
  BY <1>1, <1>2, <1>3, <1>5, <1>6, BestExists
<1>8. ASSUME NEW found \in Search(query), Cardinality(found) # query.limit
      PROVE  found = C
  <2>1. found \in SUBSET C /\ Cardinality(found) = n
    BY <1>3, <1>6, <1>8 DEF IsBest
  <2> QED
    BY <1>1, <1>2, <2>1, FS_Subset
<1>9. ASSUME NEW found \in Search(query), NEW id \in C, NEW other \in found
      PROVE  id \in found \/ AtLeast(ScoreOf(query, other), ScoreOf(query, id))
  <2>1. IsBest(found, C, s)
    BY <1>6
  <2> QED
    BY <1>4, <2>1 DEF IsBest
<1>10. \A found \in Search(query) : found \in SUBSET C
  BY <1>6 DEF IsBest
<1> QED
  BY <1>1, <1>7, <1>8, <1>9, <1>10

-----------------------------------------------------------------------------
(* What is in the table. *)

FactMeant(t) ==
  /\ t \notin {None, Gone}
  /\ DOMAIN t = {"id", "session", "namespace", "words", "extra"}
  /\ HasWords(t.words)

\* A row is kept of each fact that was told and not forgotten.
FactsMeant(table, t) ==
  /\ t = [id \in MemoryId |-> t[id]]
  /\ \A id \in MemoryId :
       IF t[id] \in {None, Gone} THEN id \notin DOMAIN table
       ELSE id \in DOMAIN table /\ table[id] = MemoryRow(t[id], id) /\ FactMeant(t[id])

IsChunk(row, r) == \E d \in DocumentsOf(r) : \E k \in 1 .. Len(ContentsOf(r, d)) : row = RowOf(r, d, k)

\* The other rows are of chunks.
ChunksMeant(table) ==
  \A id \in DOMAIN table : id \in MemoryId \/ \E r \in Request : IsChunk(table[id], r)

TableMeant(table, t) == IsFiniteSet(DOMAIN table) /\ FactsMeant(table, t) /\ ChunksMeant(table)

RInv == KInv /\ TableMeant(records, told)

LEMMA TableStays ==
  ASSUME TableMeant(records, told), UNCHANGED <<records, told>>
  PROVE  TableMeant(records', told')
OBVIOUS

LEMMA InitTable ==
  ASSUME RecallInit
  PROVE  TableMeant(records, told)
<1>1. records = <<>> /\ told = [id \in MemoryId |-> None]
  BY DEF RecallInit, Init
<1>2. DOMAIN records = {}
  BY <1>1
<1>3. IsFiniteSet(DOMAIN records)
  BY <1>2, FS_EmptySet
<1> QED
  BY <1>1, <1>2, <1>3 DEF TableMeant, FactsMeant, ChunksMeant

LEMMA WriteTable ==
  ASSUME RInv, NEW j \in Run, Write(j), told' = told
  PROVE  TableMeant(records', told')
<1>1. PICK r, R : r = run[j].request /\ R = run[j].rows
  OBVIOUS
<1>2. r \in Request /\ AreRows(R, r)
  <2>1. run[j].phase = "writing" /\ RunMeant(run[j])
    BY DEF Write, RInv, KInv, RunsMeant
  <2> QED
    BY <1>1, <2>1 DEF RunMeant
<1>3. records' = Upserted(R) /\ Distinct(R)
  BY <1>1, <1>2 DEF Write, AreRows, Distinct
<1>4. PICK n, ids : n = Len(R) /\ ids = {R[a].id : a \in 1 .. n}
  OBVIOUS
<1>5. /\ DOMAIN records' = DOMAIN records \cup ids
      /\ \A a \in 1 .. n : records'[R[a].id] = R[a]
      /\ \A id \in DOMAIN records :
           (\A a \in 1 .. n : R[a].id # id) => records'[id] = records[id]
  BY <1>3, <1>4, UpsertedIs
<1>6. ASSUME NEW a \in 1 .. n PROVE IsChunk(R[a], r) /\ R[a].id \notin MemoryId
  <2>1. IsChunk(R[a], r)
    BY <1>2, <1>4 DEF AreRows, IsChunk
  <2>2. PICK d \in DocumentsOf(r) : \E k \in 1 .. Len(ContentsOf(r, d)) : R[a] = RowOf(r, d, k)
    BY <2>1 DEF IsChunk
  <2>3. R[a].id[1] = d
    BY <2>2, RowFields
  <2>4. d \in Document
    BY <1>2, RequestFacts
  <2> QED
    BY <2>1, <2>3, <2>4, RecallAssumption
<1>7. IsFiniteSet(DOMAIN records')
  <2>1. PICK f : f = [a \in 1 .. n |-> R[a].id]
    OBVIOUS
  <2>2. n \in Nat
    BY <1>3, <1>4 DEF Distinct
  <2>3. f \in Surjection(1 .. n, ids)
    BY <1>4, <2>1 DEF Surjection
  <2>4. IsFiniteSet(1 .. n)
    BY <2>2, FS_Interval
  <2>5. IsFiniteSet(ids)
    BY <2>3, <2>4, FS_Surjection
  <2> QED
    BY <1>5, <2>5, FS_Union DEF RInv, TableMeant
<1>8. ASSUME NEW id \in MemoryId
      PROVE  /\ id \in DOMAIN records' <=> id \in DOMAIN records
             /\ id \in DOMAIN records => records'[id] = records[id]
  <2>1. \A a \in 1 .. n : R[a].id # id
    BY <1>6
  <2> QED
    BY <1>4, <1>5, <2>1
<1>9. FactsMeant(records', told)
  BY <1>8 DEF RInv, TableMeant, FactsMeant
<1>10. ASSUME NEW id \in DOMAIN records', id \notin MemoryId
       PROVE  \E q \in Request : IsChunk(records'[id], q)
  <2>1. CASE \E a \in 1 .. n : R[a].id = id
    BY <1>2, <1>5, <1>6, <2>1
  <2>2. CASE \A a \in 1 .. n : R[a].id # id
    <3>1. id \in DOMAIN records /\ records'[id] = records[id]
      BY <1>4, <1>5, <2>2
    <3> QED
      BY <1>10, <3>1 DEF RInv, TableMeant, ChunksMeant
  <2> QED
    BY <2>1, <2>2
<1> QED
  BY <1>7, <1>9, <1>10 DEF TableMeant, ChunksMeant

\* A record is deleted, which is of a fact only if that is forgotten.
LEMMA LessTable ==
  ASSUME RInv, NEW id, records' = [other \in DOMAIN records \ {id} |-> records[other]],
         id \in MemoryId => told' = [told EXCEPT ![id] = Gone],
         id \notin MemoryId => told' = told
  PROVE  TableMeant(records', told')
<1>1. /\ DOMAIN records' = DOMAIN records \ {id}
      /\ \A other \in DOMAIN records \ {id} : records'[other] = records[other]
  OBVIOUS
<1>2. IsFiniteSet(DOMAIN records')
  BY <1>1, FS_RemoveElement DEF RInv, TableMeant
<1>3. told = [m \in MemoryId |-> told[m]]
  BY DEF RInv, TableMeant, FactsMeant
<1>4. /\ told' = [m \in MemoryId |-> told'[m]]
      /\ \A m \in MemoryId : told'[m] = IF m = id THEN Gone ELSE told[m]
  BY <1>3
<1>5. FactsMeant(records', told')
  BY <1>1, <1>4 DEF RInv, TableMeant, FactsMeant
<1>6. ChunksMeant(records')
  BY <1>1 DEF RInv, TableMeant, ChunksMeant
<1> QED
  BY <1>2, <1>5, <1>6 DEF TableMeant

LEMMA RememberTable ==
  ASSUME RInv, NEW c \in Fact, NEW id \in MemoryId, RememberFact(c, id)
  PROVE  TableMeant(records', told')
<1>1. PICK row, R : row = MemoryRow(c, id) /\ R = <<row>>
  OBVIOUS
<1>2. Len(R) = 1 /\ DOMAIN R = 1 .. Len(R) /\ R[1] = row /\ row.id = id /\ 1 .. 1 = {1}
  BY <1>1 DEF MemoryRow
<1>3. records' = Upserted(R)
  BY <1>1 DEF RememberFact
<1>4. Distinct(R)
  BY <1>2 DEF Distinct
<1>5. /\ DOMAIN records' = DOMAIN records \cup {R[a].id : a \in 1 .. Len(R)}
      /\ \A a \in 1 .. Len(R) : records'[R[a].id] = R[a]
      /\ \A other \in DOMAIN records :
           (\A a \in 1 .. Len(R) : R[a].id # other) => records'[other] = records[other]
  BY <1>3, <1>4, UpsertedIs
<1>6. /\ DOMAIN records' = DOMAIN records \cup {id} /\ records'[id] = row
      /\ \A other \in DOMAIN records : other # id => records'[other] = records[other]
  BY <1>2, <1>5
<1>7. PICK t : t = [c EXCEPT !.id = id]
  OBVIOUS
<1>8. /\ DOMAIN t = {"id", "session", "namespace", "words", "extra"}
      /\ t.session = c.session /\ t.namespace = c.namespace /\ t.words = c.words /\ t.extra = c.extra
      /\ t \notin {None, Gone} /\ HasWords(t.words)
  <2>1. /\ DOMAIN c = {"id", "session", "namespace", "words", "extra"} /\ HasWords(c.words)
        /\ t \notin {None, Gone}
    BY <1>7, CallAssumption DEF HasWords
  <2>2. /\ DOMAIN t = DOMAIN c /\ t.session = c.session /\ t.namespace = c.namespace
        /\ t.words = c.words /\ t.extra = c.extra
    BY <1>7, <2>1
  <2> QED
    BY <2>1, <2>2
<1>9. row = MemoryRow(t, id) /\ FactMeant(t)
  BY <1>1, <1>8 DEF MemoryRow, MemoryMetadata, FactMeant
<1>10. told = [m \in MemoryId |-> told[m]]
  BY DEF RInv, TableMeant, FactsMeant
<1>11. /\ told' = [m \in MemoryId |-> told'[m]]
       /\ \A m \in MemoryId : told'[m] = IF m = id THEN t ELSE told[m]
  <2>1. told' = [told EXCEPT ![id] = t]
    BY <1>7 DEF RememberFact
  <2> QED
    BY <1>10, <2>1
<1>12. FactsMeant(records', told')
  <2>1. ASSUME NEW m \in MemoryId
        PROVE  IF told'[m] \in {None, Gone} THEN m \notin DOMAIN records'
               ELSE /\ m \in DOMAIN records' /\ records'[m] = MemoryRow(told'[m], m)
                    /\ FactMeant(told'[m])
    <3>1. CASE m = id
      BY <1>6, <1>8, <1>9, <1>11, <3>1
    <3>2. CASE m # id
      BY <1>6, <1>11, <3>2 DEF RInv, TableMeant, FactsMeant
    <3> QED
      BY <3>1, <3>2
  <2> QED
    BY <1>11, <2>1 DEF FactsMeant
<1>13. ChunksMeant(records')
  BY <1>6 DEF RInv, TableMeant, ChunksMeant
<1>14. IsFiniteSet(DOMAIN records')
  BY <1>6, FS_AddElement DEF RInv, TableMeant
<1> QED
  BY <1>12, <1>13, <1>14 DEF TableMeant

LEMMA StepTable == RInv /\ [RecallNext]_<<vars, recallVars>> => RInv'
<1> SUFFICES ASSUME RInv, [RecallNext]_<<vars, recallVars>> PROVE TableMeant(records', told')
  BY StepMeant DEF RInv
<1>1. ASSUME UNCHANGED <<records, told>> PROVE TableMeant(records', told')
  BY <1>1, TableStays DEF RInv
<1>2. CASE Index
  <2>1. told' = told
    BY <1>2 DEF Index, recallVars
  <2>2. ASSUME NEW id \in DOMAIN records, Delete(id) PROVE TableMeant(records', told')
    <3>1. id \notin MemoryId
      BY <2>2, RecallAssumption DEF Delete
    <3> QED
      BY <2>1, <2>2, <3>1, LessTable DEF Delete
  <2>3. ASSUME NEW j \in Run, NEW r \in Request, Begin(j, r) PROVE records' = records
    BY <2>3 DEF Begin
  <2>4. ASSUME NEW j \in Run, Embedded(j) PROVE records' = records
    BY <2>4 DEF Embedded
  <2>5. ASSUME NEW j \in Run, Fail(j) PROVE records' = records
    BY <2>5 DEF Fail
  <2> QED
    BY <1>1, <1>2, <2>1, <2>2, <2>3, <2>4, <2>5, WriteTable DEF Index
<1>3. ASSUME NEW c \in Fact, NEW id \in MemoryId, RememberFact(c, id)
      PROVE  TableMeant(records', told')
  BY <1>3, RememberTable
<1>4. ASSUME NEW id \in MemoryId, ForgetLook(id) PROVE TableMeant(records', told')
  BY <1>1, <1>4 DEF ForgetLook
<1>5. ASSUME NEW id \in MemoryId, ForgetDelete(id) PROVE TableMeant(records', told')
  BY <1>5, LessTable DEF ForgetDelete
<1>6. CASE Restart
  BY <1>1, <1>6 DEF Restart
<1>7. CASE UNCHANGED <<vars, recallVars>>
  BY <1>1, <1>7 DEF vars, recallVars
<1> QED
  BY <1>2, <1>3, <1>4, <1>5, <1>6, <1>7 DEF RecallNext

-----------------------------------------------------------------------------
(* Metadata. *)

\* What a fact has in its metadata, whatever the caller gave.
LEMMA FactMetadata ==
  ASSUME NEW t
  PROVE  LET m == MemoryMetadata(t) IN
         /\ "kind" \in DOMAIN m /\ m["kind"] = AgentMemory
         /\ "namespace" \in DOMAIN m /\ m["namespace"] = Namespace(t.namespace, t.session)
         /\ t.session # None => "session_id" \in DOMAIN m /\ m["session_id"] = t.session
         /\ \A key : key \notin {"kind", "namespace"} /\ (t.session = None \/ key # "session_id") =>
              /\ key \in DOMAIN m <=> key \in DOMAIN t.extra
              /\ key \in DOMAIN m => m[key] = t.extra[key]
<1>1. PICK f, g, e : /\ f = IF t.session = None THEN <<>> ELSE [session_id |-> t.session]
                     /\ g = [kind |-> AgentMemory, namespace |-> Namespace(t.namespace, t.session)]
                     /\ e = t.extra
  OBVIOUS
<1>2. PICK p, m : p = Merged(g, e) /\ m = Merged(f, p)
  OBVIOUS
<1>3. MemoryMetadata(t) = m
  BY <1>1, <1>2 DEF MemoryMetadata
<1>4. /\ t.session = None => DOMAIN f = {}
      /\ t.session # None => DOMAIN f = {"session_id"} /\ f["session_id"] = t.session
      /\ DOMAIN g = {"kind", "namespace"}
      /\ g["kind"] = AgentMemory /\ g["namespace"] = Namespace(t.namespace, t.session)
  BY <1>1
<1>5. /\ DOMAIN p = DOMAIN g \cup DOMAIN e /\ \A x \in DOMAIN g : p[x] = g[x]
      /\ \A x \in DOMAIN e \ DOMAIN g : p[x] = e[x]
  BY <1>2 DEF Merged
<1>6. /\ DOMAIN m = DOMAIN f \cup DOMAIN p /\ \A x \in DOMAIN f : m[x] = f[x]
      /\ \A x \in DOMAIN p \ DOMAIN f : m[x] = p[x]
  BY <1>2 DEF Merged
<1>7. DOMAIN f \subseteq {"session_id"}
  BY <1>4
<1>8. /\ "kind" \in DOMAIN m /\ m["kind"] = AgentMemory
      /\ "namespace" \in DOMAIN m /\ m["namespace"] = Namespace(t.namespace, t.session)
  BY <1>4, <1>5, <1>6, <1>7
<1>9. t.session # None => "session_id" \in DOMAIN m /\ m["session_id"] = t.session
  BY <1>4, <1>6
<1>10. ASSUME NEW key, key \notin {"kind", "namespace"}, t.session = None \/ key # "session_id"
       PROVE  /\ key \in DOMAIN m <=> key \in DOMAIN e
              /\ key \in DOMAIN m => m[key] = e[key]
  <2>1. key \notin DOMAIN f /\ key \notin DOMAIN g
    BY <1>4, <1>10
  <2> QED
    BY <1>5, <1>6, <2>1
<1> QED
  BY <1>1, <1>3, <1>8, <1>9, <1>10

\* What a search for facts filters by.
MemoryFilters(q) ==
  Merged([kind |-> AgentMemory, namespace |-> Namespace(q.namespace, q.session)], q.filters)

LEMMA MemoryFiltersAre ==
  ASSUME NEW q
  PROVE  LET f == MemoryFilters(q) IN
         /\ DOMAIN f = {"kind", "namespace"} \cup DOMAIN q.filters
         /\ f["kind"] = AgentMemory /\ f["namespace"] = Namespace(q.namespace, q.session)
         /\ \A key \in DOMAIN q.filters \ {"kind", "namespace"} : f[key] = q.filters[key]
<1>1. PICK g : g = [kind |-> AgentMemory, namespace |-> Namespace(q.namespace, q.session)]
  OBVIOUS
<1>2. DOMAIN g = {"kind", "namespace"} /\ g["kind"] = AgentMemory
      /\ g["namespace"] = Namespace(q.namespace, q.session)
  BY <1>1
<1>3. PICK f, e : e = q.filters /\ f = Merged(g, e)
  OBVIOUS
<1>4. MemoryFilters(q) = f
  BY <1>1, <1>3 DEF MemoryFilters
<1>5. /\ DOMAIN f = DOMAIN g \cup DOMAIN e /\ \A x \in DOMAIN g : f[x] = g[x]
      /\ \A x \in DOMAIN e \ DOMAIN g : f[x] = e[x]
  BY <1>3 DEF Merged
<1> QED
  BY <1>2, <1>3, <1>4, <1>5

\* What a fact matches is what was meant.
LEMMA FactMatches ==
  ASSUME NEW q, NEW id
  PROVE  MetadataMatches(MemoryMetadata(told[id]), MemoryFilters(q)) <=>
           /\ Namespace(told[id].namespace, told[id].session) = Namespace(q.namespace, q.session)
           /\ \A key \in DOMAIN q.filters : Said(id, key, q.filters[key])
<1>1. PICK t, m, f : t = told[id] /\ m = MemoryMetadata(t) /\ f = MemoryFilters(q)
  OBVIOUS
<1>2. /\ "kind" \in DOMAIN m /\ m["kind"] = AgentMemory
      /\ "namespace" \in DOMAIN m /\ m["namespace"] = Namespace(t.namespace, t.session)
      /\ t.session # None => "session_id" \in DOMAIN m /\ m["session_id"] = t.session
      /\ \A key : key \notin {"kind", "namespace"} /\ (t.session = None \/ key # "session_id") =>
           /\ key \in DOMAIN m <=> key \in DOMAIN t.extra
           /\ key \in DOMAIN m => m[key] = t.extra[key]
  BY <1>1, FactMetadata
<1>3. /\ DOMAIN f = {"kind", "namespace"} \cup DOMAIN q.filters
      /\ f["kind"] = AgentMemory /\ f["namespace"] = Namespace(q.namespace, q.session)
      /\ \A key \in DOMAIN q.filters \ {"kind", "namespace"} : f[key] = q.filters[key]
  BY <1>1, MemoryFiltersAre
<1>4. ASSUME NEW key, key \notin {"kind", "namespace"}, NEW value
      PROVE  Said(id, key, value) <=> key \in DOMAIN m /\ m[key] = value
  <2>1. CASE key = "session_id" /\ t.session # None
    <3>1. Said(id, key, value) <=> t.session = value
      BY <1>1, <1>4, <2>1 DEF Said
    <3> QED
      BY <1>2, <2>1, <3>1
  <2>2. CASE ~ (key = "session_id" /\ t.session # None)
    <3>1. Said(id, key, value) <=> key \in DOMAIN t.extra /\ t.extra[key] = value
      BY <1>1, <1>4, <2>2 DEF Said
    <3>2. /\ key \in DOMAIN m <=> key \in DOMAIN t.extra
          /\ key \in DOMAIN m => m[key] = t.extra[key]
      BY <1>2, <1>4, <2>2
    <3> QED
      BY <3>1, <3>2
  <2> QED
    BY <2>1, <2>2
<1>5. ASSUME NEW key \in {"kind", "namespace"}, NEW value PROVE Said(id, key, value)
  BY <1>5 DEF Said
<1>6. MetadataMatches(m, f) <=>
        /\ m["namespace"] = f["namespace"]
        /\ \A key \in DOMAIN q.filters \ {"kind", "namespace"} :
             key \in DOMAIN m /\ m[key] = q.filters[key]
  BY <1>2, <1>3 DEF MetadataMatches
<1>7. (\A key \in DOMAIN q.filters : Said(id, key, q.filters[key])) <=>
        \A key \in DOMAIN q.filters \ {"kind", "namespace"} :
             key \in DOMAIN m /\ m[key] = q.filters[key]
  BY <1>4, <1>5
<1> QED
  BY <1>1, <1>2, <1>3, <1>6, <1>7

\* A chunk is in the collection it was written to.
LEMMA ChunkMatches ==
  ASSUME NEW c, NEW d, NEW version
  PROVE  MetadataMatches(ChunkMetadata(c, d, version), Merged(InCollection(c), <<>>))
<1>1. PICK f, g, e : /\ f = InCollection(c) /\ g = [document_id |-> d, version |-> version] /\ e = <<>>
  OBVIOUS
<1>2. DOMAIN e = {}
  BY <1>1
<1>3. /\ DOMAIN Merged(f, g) = DOMAIN f \cup DOMAIN g /\ \A x \in DOMAIN f : Merged(f, g)[x] = f[x]
      /\ DOMAIN Merged(f, e) = DOMAIN f \cup DOMAIN e /\ \A x \in DOMAIN f : Merged(f, e)[x] = f[x]
  BY DEF Merged
<1> QED
  BY <1>1, <1>2, <1>3 DEF MetadataMatches, ChunkMetadata

-----------------------------------------------------------------------------
(* What is found. *)

LEMMA FactRow ==
  ASSUME FactsMeant(records, told), NEW id \in MemoryId, id \in DOMAIN records
  PROVE  /\ id \in Kept /\ HasWords(told[id].words)
         /\ records[id].metadata = MemoryMetadata(told[id])
         /\ records[id].vector = TextVector(told[id].words)
<1>1. /\ told[id] \notin {None, Gone} /\ records[id] = MemoryRow(told[id], id)
      /\ HasWords(told[id].words)
  BY DEF FactsMeant, FactMeant
<1> QED
  BY <1>1 DEF Kept, MemoryRow

LEMMA ChunkRow ==
  ASSUME ChunksMeant(records), NEW id \in DOMAIN records, id \notin MemoryId
  PROVE  \E r \in Request : IsChunk(records[id], r) /\ records[id].vector.size = r.dimensions
<1>1. PICK r \in Request : IsChunk(records[id], r)
  BY DEF ChunksMeant
<1>2. PICK d \in DocumentsOf(r) : \E k \in 1 .. Len(ContentsOf(r, d)) : records[id] = RowOf(r, d, k)
  BY <1>1 DEF IsChunk
<1>3. PICK k \in 1 .. Len(ContentsOf(r, d)) : records[id] = RowOf(r, d, k)
  BY <1>2
<1>4. RowOf(r, d, k).vector = Vector(r.dimensions, ContentsOf(r, d)[k])
  BY DEF RowOf, Row
<1> QED
  BY <1>1, <1>3, <1>4 DEF Vector

\* The query of search_memory.
MemoryQuery(q) ==
  [vector |-> TextVector(q.words), least |-> q.least,
   limit |-> IF q.limit = None THEN DefaultLimit ELSE Lesser(q.limit, MaxLimit),
   filters |-> MemoryFilters(q)]

\* The score that a question has with the words of a fact.
FactScore(q, id) == Cosine(TextVector(q.words).of, TextVector(told[id].words).of)

LEMMA MemoryCandidates ==
  ASSUME RInv, NEW q \in Question
  PROVE  Candidates(MemoryQuery(q)) =
           {id \in Meant(q) : q.least # None => AtLeast(FactScore(q, id), q.least)}
<1>1. PICK query, v : query = MemoryQuery(q) /\ v = TextVector(q.words)
  OBVIOUS
<1>2. query.vector = v /\ query.least = q.least /\ query.filters = MemoryFilters(q)
  BY <1>1 DEF MemoryQuery
<1>3. v.size = HashSize
  <2>1. HasWords(q.words)
    BY CallAssumption DEF HasWords
  <2> QED
    BY <1>1, <2>1, TextVectorIs
<1>4. FactsMeant(records, told) /\ ChunksMeant(records)
  BY DEF RInv, TableMeant
<1>5. ASSUME NEW id \in MemoryId, id \in DOMAIN records
      PROVE  /\ id \in Kept
             /\ MetadataMatches(records[id].metadata, query.filters) <=> id \in Meant(q)
             /\ records[id].vector.size = query.vector.size
             /\ Score(query.vector, records[id].vector) = FactScore(q, id)
  <2>1. /\ id \in Kept /\ HasWords(told[id].words)
        /\ records[id].metadata = MemoryMetadata(told[id])
        /\ records[id].vector = TextVector(told[id].words)
    BY <1>4, <1>5, FactRow
  <2>2. records[id].vector.size = HashSize
    BY <2>1, TextVectorIs
  <2>3. MetadataMatches(records[id].metadata, query.filters) <=> id \in Meant(q)
    BY <1>2, <2>1, FactMatches DEF Meant
  <2>4. Score(query.vector, records[id].vector) = FactScore(q, id)
    BY <1>1, <1>2, <1>3, <2>1 DEF Score, FactScore
  <2> QED
    BY <1>2, <1>3, <2>1, <2>2, <2>3, <2>4
<1>6. ASSUME NEW id \in DOMAIN records, id \notin MemoryId
      PROVE  records[id].vector.size # query.vector.size
  <2>1. PICK r \in Request : records[id].vector.size = r.dimensions
    BY <1>4, <1>6, ChunkRow
  <2> QED
    BY <1>2, <1>3, <2>1, RecallAssumption
<1>7. ASSUME NEW id \in Meant(q) PROVE id \in MemoryId /\ id \in DOMAIN records
  BY <1>4, <1>7 DEF Meant, Kept, FactsMeant
<1>8. \A id : id \in Candidates(query) <=>
        /\ id \in DOMAIN records
        /\ MetadataMatches(records[id].metadata, query.filters)
        /\ records[id].vector.size = query.vector.size
        /\ q.least # None => AtLeast(Score(query.vector, records[id].vector), q.least)
  BY <1>2 DEF Candidates
<1>9. ASSUME NEW id
      PROVE  id \in Candidates(query) <=>
               id \in Meant(q) /\ (q.least # None => AtLeast(FactScore(q, id), q.least))
  <2>1. CASE id \in DOMAIN records /\ id \in MemoryId
    BY <1>5, <1>8, <2>1
  <2>2. CASE id \in DOMAIN records /\ id \notin MemoryId
    BY <1>6, <1>7, <1>8, <2>2
  <2>3. CASE id \notin DOMAIN records
    BY <1>7, <1>8, <2>3
  <2> QED
    BY <2>1, <2>2, <2>3
<1> QED
  BY <1>1, <1>9

LEMMA FactScoreIs ==
  ASSUME RInv, NEW q \in Question, NEW id \in Meant(q)
  PROVE  /\ FactScore(q, id) \in Fraction /\ FactScore(q, id)[1] <= FactScore(q, id)[2]
         /\ told[id].words = q.words => FactScore(q, id)[1] = FactScore(q, id)[2]
<1>1. HasWords(q.words)
  BY CallAssumption DEF HasWords
<1>2. HasWords(told[id].words)
  BY DEF RInv, TableMeant, FactsMeant, FactMeant, Meant, Kept
<1>3. PICK v, w : v = TextVector(q.words).of /\ w = TextVector(told[id].words).of
  OBVIOUS
<1>4. NonZero(v) /\ NonZero(w)
  BY <1>1, <1>2, <1>3, TextVectorIs
<1>5. FactScore(q, id) = Cosine(v, w)
  BY <1>3 DEF FactScore
<1>6. told[id].words = q.words => v = w
  BY <1>3
<1>7. /\ Cosine(v, w) \in Fraction /\ Cosine(v, w)[1] <= Cosine(v, w)[2]
      /\ Cosine(v, v)[1] = Cosine(v, v)[2]
  BY <1>4, CosineIs
<1> QED
  BY <1>5, <1>6, <1>7

\* What is at least one, and at most that, is one.
LEMMA AsMuchAsOne ==
  ASSUME NEW x \in Fraction, NEW y \in Fraction, x[1] <= x[2], y[1] = y[2], AtLeast(x, y)
  PROVE  x[1] = x[2]
<1>1. PICK a \in Int, b \in Nat \ {0}, c \in Nat \ {0} : x = <<a, b>> /\ y = <<c, c>>
  BY DEF Fraction
<1>2. a * c >= c * b /\ a <= b
  BY <1>1 DEF AtLeast
<1>3. a >= b
  <2> SUFFICES ASSUME a + 1 <= b PROVE FALSE
    OBVIOUS
  <2>1. (a + 1) * c <= b * c
    OBVIOUS
  <2>2. a * c + c <= c * b
    BY <2>1
  <2> QED
    BY <1>2, <2>2
<1> QED
  BY <1>1, <1>2, <1>3

\* One is at least what is at most one.
LEMMA OneIsAtLeast ==
  ASSUME NEW x \in Fraction, NEW y \in Fraction, x[1] = x[2], y[1] <= y[2]
  PROVE  AtLeast(x, y)
<1>1. PICK a \in Int, b \in Nat \ {0}, c \in Nat \ {0} : y = <<a, b>> /\ x = <<c, c>>
  BY DEF Fraction
<1>2. a <= b
  BY <1>1
<1>3. c * b >= a * c
  BY <1>2
<1> QED
  BY <1>1, <1>3 DEF AtLeast

Limit(q) == IF q.limit = None THEN DefaultLimit ELSE Lesser(q.limit, MaxLimit)

LEMMA FactsFound ==
  ASSUME RInv, Cardinality(DOMAIN records) <= MaxCandidates, NEW q \in Question
  PROVE  LET score(id) == FactScore(q, id)
         IN /\ SearchMemory(q) # {}
            /\ \A found \in SearchMemory(q) :
                 /\ found \subseteq Meant(q)
                 /\ Cardinality(found) = Limit(q) \/ q.least # None \/ found = Meant(q)
                 /\ q.least = None \/ q.least[1] < q.least[2] =>
                      \A id \in Meant(q) : told[id].words = q.words => FoundFirst(id, found, Limit(q), score)
<1>1. PICK query, C : query = MemoryQuery(q) /\ C = Candidates(query)
  OBVIOUS
<1>2. SearchMemory(q) = Search(query)
  BY <1>1 DEF SearchMemory, MemoryQuery, MemoryFilters
<1>3. C = {id \in Meant(q) : q.least # None => AtLeast(FactScore(q, id), q.least)}
  BY <1>1, MemoryCandidates
<1>4. query.limit = Limit(q) /\ query.limit \in Nat
  <2>1. query.limit = Limit(q)
    BY <1>1 DEF MemoryQuery, Limit
  <2>2. Limit(q) \in Nat
    BY CallAssumption, RecallAssumption DEF Limit, Lesser
  <2> QED
    BY <2>1, <2>2
<1>5. ASSUME NEW id \in Meant(q)
      PROVE  ScoreOf(query, id) = FactScore(q, id)
  <2>1. records[id].vector = TextVector(told[id].words)
    <3>1. id \in MemoryId /\ id \in DOMAIN records /\ FactsMeant(records, told)
      BY DEF RInv, TableMeant, FactsMeant, Meant, Kept
    <3> QED
      BY <3>1, FactRow
  <2>2. query.vector = TextVector(q.words) /\ TextVector(q.words).size = HashSize
    <3>1. HasWords(q.words)
      BY CallAssumption DEF HasWords
    <3> QED
      BY <1>1, <3>1, TextVectorIs DEF MemoryQuery
  <2> QED
    BY <2>1, <2>2 DEF ScoreOf, Score, FactScore
<1>6. Searchable(query)
  <2>1. \A id \in C : ScoreOf(query, id) \in Fraction
    BY <1>3, <1>5, FactScoreIs
  <2> QED
    BY <1>1, <1>4, <2>1 DEF Searchable, RInv, TableMeant
<1>7. Search(query) # {}
  BY <1>6, SearchIs
<1>8. ASSUME NEW found \in Search(query)
      PROVE  /\ found \in SUBSET C
             /\ Cardinality(found) = Limit(q) \/ found = C
             /\ \A id \in C, other \in found :
                  id \in found \/ AtLeast(ScoreOf(query, other), ScoreOf(query, id))
  BY <1>1, <1>4, <1>6, SearchIs
<1>9. ASSUME NEW found \in Search(query)
      PROVE  /\ found \subseteq Meant(q)
             /\ Cardinality(found) = Limit(q) \/ q.least # None \/ found = Meant(q)
  <2>1. q.least = None => C = Meant(q)
    BY <1>3
  <2> QED
    BY <1>3, <1>8, <2>1
<1>10. ASSUME NEW found \in Search(query), q.least = None \/ q.least[1] < q.least[2],
              NEW id \in Meant(q), told[id].words = q.words
       PROVE  \/ id \in found
              \/ /\ Cardinality(found) = Limit(q)
                 /\ \A other \in found : FactScore(q, other)[1] = FactScore(q, other)[2]
  <2>1. FactScore(q, id) \in Fraction /\ FactScore(q, id)[1] = FactScore(q, id)[2]
    BY <1>10, FactScoreIs
  <2>2. id \in C
    <3>1. CASE q.least = None
      BY <1>3, <3>1
    <3>2. CASE q.least # None
      <4>1. q.least \in Fraction
        BY <3>2, CallAssumption DEF Fraction
      <4>2. q.least[1] <= q.least[2]
        BY <1>10, <3>2, <4>1 DEF Fraction
      <4>3. AtLeast(FactScore(q, id), q.least)
        BY <2>1, <4>1, <4>2, OneIsAtLeast
      <4> QED
        BY <1>3, <4>3
    <3> QED
      BY <3>1, <3>2
  <2>3. ASSUME id \notin found, NEW other \in found
        PROVE  FactScore(q, other)[1] = FactScore(q, other)[2]
    <3>1. other \in Meant(q) /\ AtLeast(ScoreOf(query, other), ScoreOf(query, id))
      BY <1>8, <1>9, <2>2, <2>3
    <3>2. AtLeast(FactScore(q, other), FactScore(q, id))
      BY <1>5, <3>1
    <3> QED
      BY <2>1, <3>1, <3>2, FactScoreIs, AsMuchAsOne
  <2> QED
    BY <1>8, <2>2, <2>3
<1> QED
  BY <1>2, <1>7, <1>9, <1>10 DEF FoundFirst

\* A chunk that was written last of a document.
LEMMA LastChunk ==
  ASSUME KInv, NEW id \in DOMAIN records, id[1] \in Document, id[2] < latest[id[1]].count
  PROVE  \E r \in Request : IsChunk(records[id], r) /\ latest[id[1]].collection = r.collection
<1>1. PICK d, l : d = id[1] /\ l = latest[d]
  OBVIOUS
<1>2. PICK r \in Request : \E gone : Current(records, l, d, r, gone)
  BY <1>1 DEF KInv, DocumentsMeant, DocumentMeant, Unwritten
<1>3. PICK gone : Current(records, l, d, r, gone)
  BY <1>2
<1>4. PICK n : n = Len(ContentsOf(r, d))
  OBVIOUS
<1>5. /\ d \in DocumentsOf(r) /\ l.collection = r.collection /\ l.count = n
      /\ \A k \in 1 .. n : <<d, k - 1>> \in DOMAIN records => records[<<d, k - 1>>] = RowOf(r, d, k)
  BY <1>3, <1>4 DEF Current
<1>6. n \in Nat
  BY <1>4, <1>5, ContentsAre DEF AreContents
<1>7. id \in Document \X Nat
  <2>1. id \in Document \X Nat \/ id \in MemoryId
    BY DEF KInv, IdsMeant
  <2> QED
    BY <2>1, RecallAssumption
<1>8. PICK k : k = id[2] + 1
  OBVIOUS
<1>9. k \in 1 .. n /\ id = <<d, k - 1>>
  BY <1>1, <1>5, <1>6, <1>7, <1>8
<1>10. IsChunk(records[id], r)
  BY <1>4, <1>5, <1>9 DEF IsChunk
<1> QED
  BY <1>1, <1>5, <1>10

\* What the row of a chunk has.
LEMMA ChunkIs ==
  ASSUME NEW r \in Request, NEW row, IsChunk(row, r)
  PROVE  /\ row.vector = Vector(r.dimensions, row.content)
         /\ MetadataMatches(row.metadata, Merged(InCollection(r.collection), <<>>))
         /\ \E p \in Range(Pieces(r)) : p.content = row.content
<1>1. PICK d \in DocumentsOf(r) : \E k \in 1 .. Len(ContentsOf(r, d)) : row = RowOf(r, d, k)
  BY DEF IsChunk
<1>2. PICK k \in 1 .. Len(ContentsOf(r, d)) : row = RowOf(r, d, k)
  BY <1>1
<1>3. row.content = ContentsOf(r, d)[k] /\ row.metadata = ChunkMetadata(r.collection, d, r.documents[d])
  BY <1>2, RowFields
<1>4. row.vector = Vector(r.dimensions, ContentsOf(r, d)[k])
  BY <1>2 DEF RowOf, Row
<1>5. PICK P : P = Pieces(r)
  OBVIOUS
<1>6. PICK a \in 1 .. Len(P) : P[a] = PieceOf(r, d, k)
  BY <1>5, PiecesAre DEF ArePieces
<1>7. P[a] \in Range(P)
  <2>1. P \in Seq(Piece)
    BY <1>5, PiecesAre DEF ArePieces
  <2> QED
    BY <1>6, <2>1 DEF Range
<1>8. P[a].content = row.content
  BY <1>3, <1>6 DEF PieceOf
<1> QED
  BY <1>3, <1>4, <1>5, <1>7, <1>8, ChunkMatches

LEMMA LikenessIs ==
  ASSUME NEW r \in Request, NEW row, IsChunk(row, r), NEW s \in Request, NEW other, IsChunk(other, s)
  PROVE  LET likeness == Likeness[row.content][other.content] IN
         /\ likeness \in Fraction /\ likeness[1] <= likeness[2]
         /\ row.content = other.content => likeness[1] = likeness[2]
<1>1. PICK p \in Range(Pieces(r)) : p.content = row.content
  BY ChunkIs
<1>2. PICK o \in Range(Pieces(s)) : o.content = other.content
  BY ChunkIs
<1> QED
  BY <1>1, <1>2, LikenessAssumption DEF Fraction

LEMMA ChunksFound ==
  ASSUME RInv, Cardinality(DOMAIN records) <= MaxCandidates,
         NEW id \in DOMAIN records, NEW limit \in 1 .. 2,
         id[1] \in Document, id[2] < latest[id[1]].count
  PROVE  LET asked == [dimensions |-> records[id].vector.size, content |-> records[id].content,
                       collection |-> latest[id[1]].collection, filters |-> <<>>,
                       least |-> None, limit |-> limit]
             score(other) == Likeness[asked.content][records[other].content]
         IN /\ Retrieve(asked) # {}
            /\ \A found \in Retrieve(asked) :
                 found \cap MemoryId = {} /\ FoundFirst(id, found, limit, score)
<1>1. PICK r \in Request : IsChunk(records[id], r) /\ latest[id[1]].collection = r.collection
  BY LastChunk DEF RInv
<1>2. PICK c : c = records[id].content
  OBVIOUS
<1>3. records[id].vector = Vector(r.dimensions, c) /\ records[id].vector.size = r.dimensions
  BY <1>1, <1>2, ChunkIs DEF Vector
<1>4. PICK asked : asked = [dimensions |-> r.dimensions, content |-> c, collection |-> r.collection,
                            filters |-> <<>>, least |-> None, limit |-> limit]
  OBVIOUS
<1>5. PICK query : query = [vector |-> Vector(r.dimensions, c), least |-> None, limit |-> limit,
                            filters |-> Merged(InCollection(r.collection), <<>>)]
  OBVIOUS
<1>6. Retrieve(asked) = Search(query)
  <2>1. ~ Conflict(asked)
    <3>1. DOMAIN asked.filters = {}
      BY <1>4
    <3> QED
      BY <3>1 DEF Conflict
  <2>2. /\ asked.dimensions = r.dimensions /\ asked.content = c /\ asked.collection = r.collection
        /\ asked.filters = <<>> /\ asked.least = None /\ asked.limit = limit
    BY <1>4
  <2> QED
    BY <1>5, <2>1, <2>2 DEF Retrieve
<1>7. /\ query.vector.size = r.dimensions /\ query.vector.of = c /\ query.least = None
      /\ query.limit = limit /\ query.filters = Merged(InCollection(r.collection), <<>>)
  BY <1>5 DEF Vector
<1>8. PICK C : C = Candidates(query)
  OBVIOUS
<1>9. r.dimensions # HashSize
  BY RecallAssumption
<1>10. ASSUME NEW other \in C
       PROVE  other \notin MemoryId /\ \E s \in Request : IsChunk(records[other], s)
  <2>1. other \in DOMAIN records /\ records[other].vector.size = r.dimensions
    BY <1>7, <1>8 DEF Candidates
  <2>2. other \notin MemoryId
    <3> SUFFICES ASSUME other \in MemoryId PROVE FALSE
      OBVIOUS
    <3>1. HasWords(told[other].words) /\ records[other].vector = TextVector(told[other].words)
      BY <2>1, FactRow DEF RInv, TableMeant
    <3> QED
      BY <1>9, <2>1, <3>1, TextVectorIs
  <2> QED
    BY <2>1, <2>2 DEF RInv, TableMeant, ChunksMeant
<1>11. ASSUME NEW other \in C
       PROVE  /\ ScoreOf(query, other) = Likeness[c][records[other].content]
              /\ ScoreOf(query, other) \in Fraction
              /\ ScoreOf(query, other)[1] <= ScoreOf(query, other)[2]
  <2>1. PICK s \in Request : IsChunk(records[other], s)
    BY <1>10
  <2>2. records[other].vector.of = records[other].content
    <3>1. records[other].vector = Vector(s.dimensions, records[other].content)
      BY <2>1, ChunkIs
    <3> QED
      BY <3>1 DEF Vector
  <2>3. ScoreOf(query, other) = Likeness[c][records[other].content]
    BY <1>7, <1>9, <2>2 DEF ScoreOf, Score
  <2> QED
    BY <1>1, <1>2, <2>1, <2>3, LikenessIs
<1>12. id \in C /\ ScoreOf(query, id)[1] = ScoreOf(query, id)[2]
  <2>1. id \in C
    BY <1>1, <1>3, <1>7, <1>8, ChunkIs DEF Candidates
  <2> QED
    BY <1>1, <1>2, <1>11, <2>1, LikenessIs
<1>13. Searchable(query)
  BY <1>7, <1>8, <1>11 DEF Searchable, RInv, TableMeant
<1>14. Search(query) # {}
  BY <1>13, SearchIs
<1>15. ASSUME NEW found \in Search(query)
       PROVE  /\ found \in SUBSET C
              /\ Cardinality(found) = limit \/ found = C
              /\ \A other \in found : id \in found \/ AtLeast(ScoreOf(query, other), ScoreOf(query, id))
  BY <1>7, <1>8, <1>12, <1>13, SearchIs
<1>16. ASSUME NEW found \in Search(query)
       PROVE  /\ found \cap MemoryId = {}
              /\ \/ id \in found
                 \/ /\ Cardinality(found) = limit
                    /\ \A other \in found : Likeness[c][records[other].content][1]
                                              = Likeness[c][records[other].content][2]
  <2>1. found \cap MemoryId = {}
    BY <1>10, <1>15
  <2>2. ASSUME id \notin found, NEW other \in found
        PROVE  Likeness[c][records[other].content][1] = Likeness[c][records[other].content][2]
    <3>1. other \in C /\ AtLeast(ScoreOf(query, other), ScoreOf(query, id))
      BY <1>15, <2>2
    <3> QED
      BY <1>11, <1>12, <3>1, AsMuchAsOne
  <2> QED
    BY <1>12, <1>15, <2>1, <2>2
<1>17. asked = [dimensions |-> records[id].vector.size, content |-> records[id].content,
                collection |-> latest[id[1]].collection, filters |-> <<>>,
                least |-> None, limit |-> limit]
  BY <1>1, <1>2, <1>3, <1>4
<1>18. asked.content = c
  BY <1>4
<1> QED
  BY <1>6, <1>14, <1>16, <1>17, <1>18 DEF FoundFirst

\* In every state a search of a namespace finds the facts that were told last in it, are not
\* forgotten and have the metadata asked for, and nothing else, those with the words of the
\* question before what is less like it; and retrieval from a collection finds, for the text
\* of a chunk of what was written last, that chunk, and no fact.
THEOREM SearchesAlwaysFind == RecallSpec => []SearchesFind
<1>1. RecallInit => RInv
  BY InitMeant, InitTable DEF RInv
<1>2. RecallSpec => []RInv
  BY <1>1, StepTable, PTL DEF RecallSpec
<1>3. ASSUME RInv, Cardinality(DOMAIN records) <= MaxCandidates PROVE FactsAreRecalled
  BY <1>3, FactsFound DEF FactsAreRecalled, FactScore, Limit
<1>4. ASSUME RInv, Cardinality(DOMAIN records) <= MaxCandidates PROVE ChunksAreRetrieved
  BY <1>4, ChunksFound DEF ChunksAreRetrieved
<1>5. RInv => SearchesFind
  BY <1>3, <1>4 DEF SearchesFind
<1> QED
  BY <1>2, <1>5, PTL

=============================================================================
