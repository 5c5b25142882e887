----------------------------- MODULE ExchangeProofs -----------------------------
(***************************************************************************)
(* What StreamedReply and Exchange promise holds for every number of       *)
(* blocks, pieces and requests.                                            *)
(***************************************************************************)
EXTENDS Exchange, SequenceTheorems, FiniteSetTheorems, WellFoundedInduction, TLAPS

-----------------------------------------------------------------------------
(* Numbers, recursive functions, lists of lists. *)

\* Numbers have a least one: what stands for induction below.
LEMMA LeastNatural ==
  ASSUME NEW T, T \subseteq Nat, T # {}
  PROVE  \E x \in T : \A y \in T : x <= y
<1> DEFINE R == OpToRel(<, Nat)
<1>1. \A x, y \in Nat : y < x => <<y, x>> \in R
  BY DEF OpToRel
<1>2. \E x \in T : \A y \in T : ~ (<<y, x>> \in R)
  <2> HIDE DEF R
  <2>1. IsWellFoundedOn(R, Nat)
    BY NatLessThanWellFounded, Zenon DEF R
  <2> QED
    BY <2>1, WFMin, Zenon
<1> HIDE DEF R
<1>3. PICK x \in T : \A y \in T : ~ (<<y, x>> \in R)
  BY <1>2
<1>4. ASSUME NEW y \in T PROVE x <= y
  <2>1. ~ (y < x)
    BY <1>1, <1>3
  <2> QED
    BY <2>1
<1> QED
  BY <1>4

\* What agrees wherever it agreed before agrees everywhere.
Alike(f, g, n) == \A i \in 1 .. n : f[i] = g[i]

GoOnAlike(f, g, n) ==
  \A i \in 1 .. n : (\A j \in 1 .. n : j < i => f[j] = g[j]) => f[i] = g[i]

\* Two functions that go on alike from number to number are alike.
LEMMA Agree ==
  ASSUME NEW n \in Nat, NEW f, NEW g, GoOnAlike(f, g, n)
  PROVE  Alike(f, g, n)
<1> DEFINE Bad == {i \in 1 .. n : f[i] # g[i]}
<1> SUFFICES ASSUME Bad # {} PROVE FALSE
  BY DEF Alike
<1>1. PICK i \in Bad : \A j \in Bad : i <= j
  <2>1. Bad \subseteq Nat
    OBVIOUS
  <2> HIDE DEF Bad
  <2> QED
    BY <2>1, LeastNatural
<1>2. \A j \in 1 .. n : j < i => f[j] = g[j]
  BY <1>1
<1> QED
  BY <1>1, <1>2 DEF GoOnAlike

\* The function that F defines step by step.
Recursive(A, base, n, F) == n \in Nat /\ base \in A /\ F \in [1 .. n -> [A -> A]]

\* A recursive definition over 0 .. n has a function.
LEMMA Recursion ==
  ASSUME NEW A, NEW base, NEW n, NEW F, Recursive(A, base, n, F)
  PROVE  \E f \in [0 .. n -> A] : f[0] = base /\ \A i \in 1 .. n : f[i] = F[i][f[i - 1]]
<1> USE DEF Recursive
<1> DEFINE Good(k) == \E f \in [0 .. k -> A] :
                        f[0] = base /\ \A i \in 1 .. k : f[i] = F[i][f[i - 1]]
           Bad == {k \in 0 .. n : ~ Good(k)}
<1>1. Good(0)
  <2>1. PICK f : f = [i \in 0 .. 0 |-> base]
    OBVIOUS
  <2>2. f \in [0 .. 0 -> A] /\ f[0] = base
    BY <2>1
  <2>3. 1 .. 0 = {}
    OBVIOUS
  <2> QED
    BY <2>2, <2>3
<1>2. ASSUME NEW k \in 0 .. n, k < n, Good(k) PROVE Good(k + 1)
  <2>1. PICK f \in [0 .. k -> A] : f[0] = base /\ \A i \in 1 .. k : f[i] = F[i][f[i - 1]]
    BY <1>2
  <2>2. PICK l : l = k + 1
    OBVIOUS
  <2>3. /\ l \in 1 .. n /\ k \in 0 .. k /\ l - 1 = k /\ l # 0
        /\ \A i \in 0 .. l : i # l => i \in 0 .. k
        /\ \A i \in 1 .. l : i \in 0 .. l /\ i - 1 \in 0 .. k /\ i - 1 \in 0 .. l /\ i - 1 # l
                              /\ (i # l => i \in 1 .. k)
        /\ 0 \in 0 .. l
    BY <1>2, <2>2
  <2>4. PICK x : x = F[l][f[k]]
    OBVIOUS
  <2>5. x \in A
    BY <2>3, <2>4
  <2>6. PICK g : g = [i \in 0 .. l |-> IF i = l THEN x ELSE f[i]]
    OBVIOUS
  <2>7. g \in [0 .. l -> A] /\ g[0] = base
    BY <2>1, <2>3, <2>5, <2>6
  <2>8. ASSUME NEW i \in 1 .. l PROVE g[i] = F[i][g[i - 1]]
    <3>1. g[i - 1] = f[i - 1]
      BY <2>3, <2>6
    <3>2. CASE i = l
      BY <2>3, <2>4, <2>6, <3>1, <3>2
    <3>3. CASE i # l
      <4>1. g[i] = f[i]
        BY <2>3, <2>6, <3>3
      <4> QED
        BY <2>1, <2>3, <3>1, <3>3, <4>1
    <3> QED
      BY <3>2, <3>3
  <2>9. Good(l)
    BY <2>7, <2>8
  <2> QED
    BY <2>2, <2>9
<1>3. Bad = {}
  <2> SUFFICES ASSUME Bad # {} PROVE FALSE
    OBVIOUS
  <2>1. PICK k \in Bad : \A j \in Bad : k <= j
    <3>1. Bad \subseteq Nat
      OBVIOUS
    <3> HIDE DEF Bad
    <3> QED
      BY <3>1, LeastNatural
  <2>2. k \in 0 .. n /\ ~ Good(k)
    OBVIOUS
  <2> HIDE DEF Good
  <2>3. k # 0
    BY <1>1, <2>2
  <2>4. k - 1 \in 0 .. n /\ k - 1 < n /\ (k - 1) + 1 = k /\ ~ (k <= k - 1)
    BY <2>2, <2>3
  <2>5. Good(k - 1)
    BY <2>1, <2>4
  <2> QED
    BY <1>2, <2>2, <2>4, <2>5
<1>4. Good(n)
  <2> HIDE DEF Good
  <2>1. n \in 0 .. n
    OBVIOUS
  <2> QED
    BY <1>3, <2>1
<1> QED
  BY <1>4

\* What FlattenSeq computes.
LEMMA Flattens ==
  ASSUME NEW M, NEW s \in Seq(Seq(M)), s # <<>>
  PROVE  \E f \in [1 .. Len(s) -> Seq(M)] :
           /\ f[1] = s[1]
           /\ \A i \in 2 .. Len(s) : f[i] = f[i - 1] \o s[i]
           /\ FlattenSeq(s) = f[Len(s)]
<1> DEFINE n == Len(s)
           flatten[i \in 1 .. n] == IF i = 1 THEN s[i] ELSE flatten[i - 1] \o s[i]
<1>1. n \in Nat /\ n # 0 /\ \A i \in 1 .. n : s[i] \in Seq(M)
  OBVIOUS
<1>2. PICK F : F = [i \in 1 .. n |-> [t \in Seq(M) |-> IF i = 1 THEN s[1] ELSE t \o s[i]]]
  OBVIOUS
<1>3. /\ F \in [1 .. n -> [Seq(M) -> Seq(M)]]
      /\ \A i \in 1 .. n, t \in Seq(M) : F[i][t] = IF i = 1 THEN s[1] ELSE t \o s[i]
  BY <1>1, <1>2
<1>4. PICK h \in [0 .. n -> Seq(M)] : \A i \in 1 .. n : h[i] = F[i][h[i - 1]]
  <2>1. <<>> \in Seq(M)
    OBVIOUS
  <2>2. \E h \in [0 .. n -> Seq(M)] : h[0] = <<>> /\ \A i \in 1 .. n : h[i] = F[i][h[i - 1]]
    <3>1. PICK A : A = Seq(M)
      OBVIOUS
    <3> HIDE DEF n
    <3>2. Recursive(A, <<>>, n, F)
      BY <1>1, <1>3, <2>1, <3>1 DEF Recursive
    <3>3. \E h \in [0 .. n -> A] : h[0] = <<>> /\ \A i \in 1 .. n : h[i] = F[i][h[i - 1]]
      BY <3>2, Recursion
    <3> QED
      BY <3>1, <3>3
  <2> QED
    BY <2>2
<1>5. \A i \in 1 .. n : h[i] = IF i = 1 THEN s[i] ELSE h[i - 1] \o s[i]
  <2> SUFFICES ASSUME NEW i \in 1 .. n PROVE h[i] = IF i = 1 THEN s[i] ELSE h[i - 1] \o s[i]
    OBVIOUS
  <2>1. i - 1 \in 0 .. n
    BY <1>1
  <2>2. h[i - 1] \in Seq(M)
    BY <1>4, <2>1
  <2> QED
    BY <1>3, <1>4, <2>2
<1>6. PICK f : f = [i \in 1 .. n |-> h[i]]
  OBVIOUS
<1> HIDE DEF n
<1>7. \A i \in 1 .. n : f[i] = IF i = 1 THEN s[i] ELSE f[i - 1] \o s[i]
  <2> SUFFICES ASSUME NEW i \in 1 .. n PROVE f[i] = IF i = 1 THEN s[i] ELSE f[i - 1] \o s[i]
    OBVIOUS
  <2>1. i # 1 => i - 1 \in 1 .. n
    BY <1>1
  <2> QED
    BY <1>5, <1>6, <2>1
<1>8. f = [i \in 1 .. n |-> IF i = 1 THEN s[i] ELSE f[i - 1] \o s[i]]
  BY <1>6, <1>7
<1> USE DEF n
<1>9. flatten = [i \in 1 .. n |-> IF i = 1 THEN s[i] ELSE flatten[i - 1] \o s[i]]
  BY Zenon, <1>8
<1>10. FlattenSeq(s) = flatten[n]
  BY Zenon, <1>1 DEF FlattenSeq
<1> HIDE DEF flatten
<1>11. \A i \in 1 .. n : flatten[i] = f[i]
  <2>1. ASSUME NEW i \in 1 .. n, \A j \in 1 .. n : j < i => flatten[j] = f[j]
        PROVE  flatten[i] = f[i]
    <3>1. i # 1 => i - 1 \in 1 .. n /\ i - 1 < i
      BY <1>1
    <3>2. flatten[i] = IF i = 1 THEN s[i] ELSE flatten[i - 1] \o s[i]
      BY <1>9
    <3> QED
      BY <1>7, <2>1, <3>1, <3>2
  <2> HIDE DEF n
  <2>2. GoOnAlike(flatten, f, n)
    BY <2>1 DEF GoOnAlike
  <2> QED
    BY <1>1, <2>2, Agree DEF Alike
<1>12. f \in [1 .. n -> Seq(M)] /\ f[1] = s[1] /\ \A i \in 2 .. n : f[i] = f[i - 1] \o s[i]
  <2>1. \A i \in 1 .. n : i \in 0 .. n /\ h[i] \in Seq(M)
    <3>1. \A i \in 1 .. n : i \in 0 .. n
      BY <1>1
    <3> HIDE DEF n
    <3> QED
      BY <1>4, <3>1
  <2>2. f \in [1 .. n -> Seq(M)]
    BY <1>6, <2>1
  <2>3. 1 \in 1 .. n /\ \A i \in 2 .. n : i \in 1 .. n /\ i # 1
    BY <1>1
  <2> HIDE DEF n
  <2> QED
    BY <1>7, <2>2, <2>3
<1>13. FlattenSeq(s) = f[n]
  <2>1. n \in 1 .. n
    BY <1>1
  <2> HIDE DEF n
  <2> QED
    BY <1>10, <1>11, <2>1
<1> QED
  BY <1>12, <1>13

\* What one more sequence adds to it.
LEMMA FlattenAppend ==
  ASSUME NEW M, NEW s \in Seq(Seq(M)), NEW x \in Seq(M)
  PROVE  /\ FlattenSeq(s) \in Seq(M)
         /\ FlattenSeq(Append(s, x)) = FlattenSeq(s) \o x
<1> DEFINE n == Len(s)
<1>1. PICK t : t = Append(s, x)
  OBVIOUS
<1>2. /\ n \in Nat /\ t \in Seq(Seq(M)) /\ t # <<>> /\ Len(t) = n + 1 /\ t[n + 1] = x
      /\ \A i \in 1 .. n : t[i] = s[i] /\ s[i] \in Seq(M)
  BY <1>1
<1>3. PICK g \in [1 .. n + 1 -> Seq(M)] :
        /\ g[1] = t[1]
        /\ \A i \in 2 .. n + 1 : g[i] = g[i - 1] \o t[i]
        /\ FlattenSeq(t) = g[n + 1]
  <2>1. \E h \in [1 .. Len(t) -> Seq(M)] :
          /\ h[1] = t[1]
          /\ \A i \in 2 .. Len(t) : h[i] = h[i - 1] \o t[i]
          /\ FlattenSeq(t) = h[Len(t)]
    BY <1>2, Flattens
  <2> QED
    BY <1>2, <2>1
<1>4. CASE s = <<>>
  <2>1. FlattenSeq(s) = <<>>
    BY <1>4 DEF FlattenSeq
  <2>2. n = 0 /\ FlattenSeq(t) = x
    BY <1>2, <1>3, <1>4
  <2> QED
    BY <1>1, <2>1, <2>2
<1>5. CASE s # <<>>
  <2>1. PICK f \in [1 .. n -> Seq(M)] :
          /\ f[1] = s[1]
          /\ \A i \in 2 .. n : f[i] = f[i - 1] \o s[i]
          /\ FlattenSeq(s) = f[n]
    BY <1>5, Flattens
  <2>2. n \in 1 .. n /\ n + 1 \in 2 .. n + 1 /\ (n + 1) - 1 = n
    BY <1>2, <1>5
  <2>3. \A i \in 1 .. n : g[i] = f[i]
    <3> HIDE DEF n
    <3>1. ASSUME NEW i \in 1 .. n, \A j \in 1 .. n : j < i => g[j] = f[j]
          PROVE  g[i] = f[i]
      <4>1. CASE i = 1
        BY <1>2, <1>3, <2>1, <4>1
      <4>2. CASE i # 1
        <5>1. i \in 2 .. n /\ i \in 2 .. n + 1 /\ i - 1 \in 1 .. n /\ i - 1 < i
          BY <1>2, <4>2
        <5>2. g[i - 1] = f[i - 1]
          BY <3>1, <5>1
        <5>3. g[i] = g[i - 1] \o t[i] /\ f[i] = f[i - 1] \o s[i]
          BY <1>3, <2>1, <5>1
        <5> QED
          BY <1>2, <5>2, <5>3
      <4> QED
        BY <4>1, <4>2
    <3>2. GoOnAlike(g, f, n)
      BY <3>1 DEF GoOnAlike
    <3>3. n \in Nat
      BY <1>2
    <3>4. Alike(g, f, n)
      BY <3>2, <3>3, Agree
    <3> QED
      BY <3>4 DEF Alike
  <2>4. FlattenSeq(t) = g[n] \o x
    BY <1>2, <1>3, <2>2
  <2> QED
    BY <1>1, <2>1, <2>2, <2>3, <2>4
<1> QED
  BY <1>4, <1>5

-----------------------------------------------------------------------------
(* What is said, and what is called. *)

Piece == Nat \X Nat
Block == [kind : Kinds, pieces : Nat, open : BOOLEAN]
Call == [id : Nat, args : Seq(Piece)]

SaidOf(b, m, kinds) == IF m.kind \in kinds THEN Pieces(b, m.pieces) ELSE <<>>
CallOf(b, m) == [id |-> b, args |-> Pieces(b, m.pieces)]
CalledOf(b, m) == IF m.kind = "call" THEN <<CallOf(b, m)>> ELSE <<>>

\* What it takes for a list to be another one with an element more.
LEMMA AppendIs ==
  ASSUME NEW S, NEW s \in Seq(S), NEW x \in S, NEW n \in Nat, n = Len(s),
         NEW t, t = [i \in 1 .. n + 1 |-> IF i = n + 1 THEN x ELSE s[i]]
  PROVE  t = Append(s, x)
<1>1. \A i \in 1 .. n + 1 : i # n + 1 => i \in 1 .. n
  OBVIOUS
<1>2. \A i \in 1 .. n + 1 : t[i] \in S
  <2>1. \A i \in 1 .. n : s[i] \in S
    OBVIOUS
  <2> QED
    BY <1>1, <2>1
<1>3. n + 1 \in Nat
  OBVIOUS
<1>4. t \in [1 .. n + 1 -> S]
  BY <1>2
<1>5. t \in Seq(S) /\ Len(t) = n + 1
  BY <1>3, <1>4
<1>6. PICK u : u = Append(s, x)
  OBVIOUS
<1>7. u \in Seq(S) /\ Len(u) = n + 1 /\ u[n + 1] = x /\ \A i \in 1 .. n : u[i] = s[i]
  BY <1>6
<1>8. \A i \in 1 .. n + 1 : t[i] = u[i]
  BY <1>1, <1>7
<1> QED
  BY <1>5, <1>6, <1>7, <1>8, SeqEqual

\* The pieces of a block, and one more of them.
LEMMA PiecesType ==
  ASSUME NEW b \in Nat, NEW n \in Nat
  PROVE  /\ Pieces(b, n) \in Seq(Piece) /\ Len(Pieces(b, n)) = n
         /\ Pieces(b, n + 1) = Append(Pieces(b, n), <<b, n + 1>>)
         /\ n = 0 => Pieces(b, n) = <<>>
<1>1. PICK s : s = [k \in 1 .. n |-> <<b, k>>]
  OBVIOUS
<1>2. PICK t : t = [k \in 1 .. n + 1 |-> <<b, k>>]
  OBVIOUS
<1>3. s \in Seq(Piece) /\ Len(s) = n
  BY <1>1 DEF Piece
<1>4. t \in Seq(Piece) /\ Len(t) = n + 1
  BY <1>2 DEF Piece
<1>5. t = Append(s, <<b, n + 1>>)
  <2>1. <<b, n + 1>> \in Piece
    BY DEF Piece
  <2>2. \A k \in 1 .. n + 1 : t[k] = Append(s, <<b, n + 1>>)[k]
    BY <1>1, <1>2, <1>3
  <2> QED
    BY <1>3, <1>4, <2>1, <2>2
<1> QED
  BY <1>1, <1>2, <1>3, <1>5 DEF Pieces

\* One more block says what it says after what the others say.
LEMMA SaidAppend ==
  ASSUME NEW blocks \in Seq(Block), NEW m \in Block, NEW kinds
  PROVE  /\ Said(blocks, kinds) \in Seq(Piece)
         /\ Said(Append(blocks, m), kinds) = Said(blocks, kinds) \o SaidOf(Len(blocks) + 1, m, kinds)
<1> DEFINE of(b, k) == SaidOf(b, k, kinds)
<1>1. PICK n \in Nat : n = Len(blocks)
  OBVIOUS
<1>2. PICK s : s = [b \in DOMAIN blocks |-> SaidOf(b, blocks[b], kinds)]
  OBVIOUS
<1>3. PICK more : more = Append(blocks, m)
  OBVIOUS
<1>4. PICK t : t = [b \in DOMAIN more |-> SaidOf(b, more[b], kinds)]
  OBVIOUS
<1>5. /\ DOMAIN blocks = 1 .. n /\ DOMAIN more = 1 .. n + 1 /\ more[n + 1] = m
      /\ \A b \in 1 .. n : more[b] = blocks[b] /\ blocks[b] \in Block
  BY <1>1, <1>3
<1>6. ASSUME NEW b \in Nat, NEW k \in Block PROVE SaidOf(b, k, kinds) \in Seq(Piece)
  <2>1. k.pieces \in Nat
    BY DEF Block
  <2>2. Pieces(b, k.pieces) \in Seq(Piece)
    BY <2>1, PiecesType
  <2> QED
    BY <2>2 DEF SaidOf
<1>7. PICK x \in Seq(Piece) : x = SaidOf(n + 1, m, kinds)
  BY <1>1, <1>6
<1>8. s \in Seq(Seq(Piece)) /\ Len(s) = n
  <2>1. \A b \in 1 .. n : SaidOf(b, blocks[b], kinds) \in Seq(Piece)
    BY <1>5, <1>6
  <2> QED
    BY <1>1, <1>2, <1>5, <2>1
<1>9. t = Append(s, x)
  <2>1. \A b \in 1 .. n + 1 : t[b] = IF b = n + 1 THEN x ELSE s[b]
    <3>1. \A b \in 1 .. n + 1 : b # n + 1 => b \in 1 .. n
      BY <1>1
    <3> QED
      BY <1>2, <1>4, <1>5, <1>7, <3>1
  <2>2. DOMAIN t = 1 .. n + 1
    BY <1>4, <1>5
  <2>3. t = [b \in 1 .. n + 1 |-> IF b = n + 1 THEN x ELSE s[b]]
    BY <1>4, <1>5, <2>1, <2>2
  <2>4. x \in Seq(Piece)
    BY <1>7
  <2> QED
    BY <1>1, <1>8, <2>3, <2>4, AppendIs
<1>10. FlattenSeq(s) \in Seq(Piece) /\ FlattenSeq(Append(s, x)) = FlattenSeq(s) \o x
  BY <1>8, FlattenAppend
<1>11. Said(blocks, kinds) = FlattenSeq(s)
  BY <1>2 DEF Said, SaidOf
<1>12. Said(more, kinds) = FlattenSeq(t)
  BY <1>4 DEF Said, SaidOf
<1> QED
  BY <1>1, <1>3, <1>7, <1>9, <1>10, <1>11, <1>12

\* One more block makes its call after those of the others.
LEMMA CalledAppend ==
  ASSUME NEW blocks \in Seq(Block), NEW m \in Block
  PROVE  /\ Called(blocks) \in Seq(Call)
         /\ Called(Append(blocks, m)) = Called(blocks) \o CalledOf(Len(blocks) + 1, m)
<1>1. PICK n \in Nat : n = Len(blocks)
  OBVIOUS
<1>2. PICK s : s = [b \in DOMAIN blocks |-> CalledOf(b, blocks[b])]
  OBVIOUS
<1>3. PICK more : more = Append(blocks, m)
  OBVIOUS
<1>4. PICK t : t = [b \in DOMAIN more |-> CalledOf(b, more[b])]
  OBVIOUS
<1>5. /\ DOMAIN blocks = 1 .. n /\ DOMAIN more = 1 .. n + 1 /\ more[n + 1] = m
      /\ \A b \in 1 .. n : more[b] = blocks[b] /\ blocks[b] \in Block
  BY <1>1, <1>3
<1>6. ASSUME NEW b \in Nat, NEW k \in Block PROVE CalledOf(b, k) \in Seq(Call)
  <2>1. k.pieces \in Nat
    BY DEF Block
  <2>2. Pieces(b, k.pieces) \in Seq(Piece)
    BY <2>1, PiecesType
  <2>3. CallOf(b, k) \in Call
    BY <2>2 DEF CallOf, Call
  <2> QED
    BY <2>3 DEF CalledOf
<1>7. PICK x \in Seq(Call) : x = CalledOf(n + 1, m)
  BY <1>1, <1>6
<1>8. s \in Seq(Seq(Call)) /\ Len(s) = n
  <2>1. \A b \in 1 .. n : CalledOf(b, blocks[b]) \in Seq(Call)
    BY <1>5, <1>6
  <2> QED
    BY <1>1, <1>2, <1>5, <2>1
<1>9. t = Append(s, x)
  <2>1. \A b \in 1 .. n + 1 : t[b] = IF b = n + 1 THEN x ELSE s[b]
    <3>1. \A b \in 1 .. n + 1 : b # n + 1 => b \in 1 .. n
      BY <1>1
    <3> QED
      BY <1>2, <1>4, <1>5, <1>7, <3>1
  <2>2. DOMAIN t = 1 .. n + 1
    BY <1>4, <1>5
  <2>3. t = [b \in 1 .. n + 1 |-> IF b = n + 1 THEN x ELSE s[b]]
    BY <1>4, <1>5, <2>1, <2>2
  <2>4. x \in Seq(Call)
    BY <1>7
  <2> QED
    BY <1>1, <1>8, <2>3, <2>4, AppendIs
<1>10. FlattenSeq(s) \in Seq(Call) /\ FlattenSeq(Append(s, x)) = FlattenSeq(s) \o x
  BY <1>8, FlattenAppend
<1>11. Called(blocks) = FlattenSeq(s)
  BY <1>2 DEF Called, CalledOf, CallOf
<1>12. Called(more) = FlattenSeq(t)
  BY <1>4 DEF Called, CalledOf, CallOf
<1> QED
  BY <1>1, <1>3, <1>7, <1>9, <1>10, <1>11, <1>12

\* The calls of some blocks, as a set of blocks.
CallSet(blocks) == {b \in DOMAIN blocks : blocks[b].kind = "call"}

CallsAreBlocks(blocks) ==
  /\ IsFiniteSet(CallSet(blocks)) /\ Cardinality(CallSet(blocks)) = Len(Called(blocks))
  /\ \A i \in DOMAIN Called(blocks) :
       LET b == Called(blocks)[i].id IN
       /\ b \in DOMAIN blocks /\ blocks[b].kind = "call"
       /\ Called(blocks)[i] = CallOf(b, blocks[b])

\* CallsAreBlocks goes on with one more block.
LEMMA OneMoreBlock ==
  ASSUME NEW blocks \in Seq(Block), NEW m \in Block, CallsAreBlocks(blocks)
  PROVE  CallsAreBlocks(Append(blocks, m))
<1>1. PICK n \in Nat : n = Len(blocks)
  OBVIOUS
<1>2. PICK more : more = Append(blocks, m)
  OBVIOUS
<1>3. /\ DOMAIN blocks = 1 .. n /\ DOMAIN more = 1 .. n + 1 /\ more[n + 1] = m
      /\ \A b \in 1 .. n : more[b] = blocks[b]
  BY <1>1, <1>2
<1>4. PICK called \in Seq(Call) : called = Called(blocks)
  BY CalledAppend
<1>5. Called(more) = called \o CalledOf(n + 1, m)
  BY <1>1, <1>2, <1>4, CalledAppend
<1>6. /\ IsFiniteSet(CallSet(blocks)) /\ Cardinality(CallSet(blocks)) = Len(called)
      /\ \A i \in DOMAIN called :
           /\ called[i].id \in 1 .. n /\ blocks[called[i].id].kind = "call"
           /\ called[i] = CallOf(called[i].id, blocks[called[i].id])
  BY <1>3, <1>4 DEF CallsAreBlocks
<1>7. n + 1 \notin CallSet(blocks)
  BY <1>1, <1>3 DEF CallSet
<1>8. \A i \in DOMAIN called :
        /\ called[i].id \in DOMAIN more /\ more[called[i].id].kind = "call"
        /\ called[i] = CallOf(called[i].id, more[called[i].id])
  <2>1. \A b \in 1 .. n : b \in DOMAIN more /\ more[b] = blocks[b]
    BY <1>1, <1>3
  <2> QED
    BY <1>6, <2>1
<1>9. CASE m.kind = "call"
  <2>1. PICK c : c = CallOf(n + 1, m)
    OBVIOUS
  <2>2. c.id = n + 1 /\ c \in Call
    <3>1. m.pieces \in Nat /\ n + 1 \in Nat
      BY <1>1 DEF Block
    <3>2. Pieces(n + 1, m.pieces) \in Seq(Piece)
      BY <3>1, PiecesType
    <3> QED
      BY <1>1, <2>1, <3>2 DEF CallOf, Call
  <2>3. Called(more) = Append(called, c)
    BY <1>4, <1>5, <1>9, <2>1, <2>2 DEF CalledOf
  <2>4. CallSet(more) = CallSet(blocks) \cup {n + 1}
    <3>1. \A b : b \in 1 .. n + 1 <=> b \in 1 .. n \/ b = n + 1
      BY <1>1
    <3> QED
      BY <1>3, <1>9, <3>1 DEF CallSet
  <2>5. IsFiniteSet(CallSet(more)) /\ Cardinality(CallSet(more)) = Len(called) + 1
    BY <1>6, <1>7, <2>4, FS_AddElement
  <2>6. PICK k \in Nat : k = Len(called)
    BY <1>4
  <2>7. /\ Len(Append(called, c)) = k + 1 /\ DOMAIN Append(called, c) = 1 .. k + 1
        /\ DOMAIN called = 1 .. k
        /\ \A i \in 1 .. k + 1 : Append(called, c)[i] = IF i = k + 1 THEN c ELSE called[i]
    BY <1>4, <2>2, <2>6
  <2>8. ASSUME NEW i \in 1 .. k + 1
        PROVE  LET d == Append(called, c)[i] IN
               /\ d.id \in DOMAIN more /\ more[d.id].kind = "call" /\ d = CallOf(d.id, more[d.id])
    <3>1. CASE i = k + 1
      <4>1. n + 1 \in DOMAIN more
        BY <1>1, <1>3
      <4> QED
        BY <1>3, <1>9, <2>1, <2>2, <2>7, <3>1, <4>1
    <3>2. CASE i # k + 1
      <4>1. i \in 1 .. k
        BY <2>6, <3>2
      <4> QED
        BY <1>8, <2>7, <3>2, <4>1
    <3> QED
      BY <3>1, <3>2
  <2> QED
    BY <1>2, <2>3, <2>5, <2>6, <2>7, <2>8 DEF CallsAreBlocks
<1>10. CASE m.kind # "call"
  <2>1. Called(more) = called
    BY <1>4, <1>5, <1>10 DEF CalledOf
  <2>2. CallSet(more) = CallSet(blocks)
    <3>1. \A b : b \in 1 .. n + 1 <=> b \in 1 .. n \/ b = n + 1
      BY <1>1
    <3> QED
      BY <1>3, <1>10, <3>1 DEF CallSet
  <2> QED
    BY <1>2, <1>6, <1>8, <2>1, <2>2 DEF CallsAreBlocks
<1> QED
  BY <1>9, <1>10

\* Nothing is said and called in no blocks.
LEMMA NoBlocks ==
  /\ CallsAreBlocks(<<>>) /\ Called(<<>>) = <<>>
  /\ \A kinds : Said(<<>>, kinds) = <<>>
<1>1. PICK none : none = <<>>
  OBVIOUS
<1>2. Len(none) = 0 /\ DOMAIN none = {}
  BY <1>1
<1>3. \A f : DOMAIN f = {} /\ f = [b \in DOMAIN f |-> f[b]] => f = <<>>
  OBVIOUS
<1>4. Called(none) = <<>>
  <2>1. [b \in DOMAIN none |-> IF none[b].kind = "call" THEN <<[id |-> b, args |-> Pieces(b, none[b].pieces)]>> ELSE <<>>] = none
    BY <1>1, <1>2
  <2> QED
    BY <1>1, <1>2, <2>1 DEF Called, FlattenSeq
<1>5. ASSUME NEW kinds PROVE Said(none, kinds) = <<>>
  <2>1. [b \in DOMAIN none |-> IF none[b].kind \in kinds THEN Pieces(b, none[b].pieces) ELSE <<>>] = none
    BY <1>1, <1>2
  <2> QED
    BY <1>1, <1>2, <2>1 DEF Said, FlattenSeq
<1>6. CallSet(none) = {}
  BY <1>2 DEF CallSet
<1>7. CallsAreBlocks(none)
  <2>1. IsFiniteSet({}) /\ Cardinality({}) = 0
    BY FS_EmptySet
  <2>2. DOMAIN Called(none) = {} /\ Len(Called(none)) = 0
    BY <1>1, <1>2, <1>4
  <2> QED
    BY <1>6, <2>1, <2>2 DEF CallsAreBlocks
<1> QED
  BY <1>1, <1>4, <1>5, <1>7

\* A list of blocks is empty, or has a last one.
LEMMA LastBlock ==
  ASSUME NEW S, NEW blocks \in Seq(S), blocks # <<>>
  PROVE  \E front \in Seq(S), m \in S :
           blocks = Append(front, m) /\ Len(front) = Len(blocks) - 1 /\ m = blocks[Len(blocks)]
<1>1. PICK n \in Nat : n = Len(blocks)
  OBVIOUS
<1>2. n # 0 /\ n - 1 \in Nat /\ n \in 1 .. n
  BY <1>1
<1>3. PICK front : front = [b \in 1 .. n - 1 |-> blocks[b]]
  OBVIOUS
<1>4. \A b \in 1 .. n : blocks[b] \in S
  BY <1>1
<1>5. front \in Seq(S) /\ Len(front) = n - 1
  <2>1. \A b \in 1 .. n - 1 : blocks[b] \in S
    BY <1>1, <1>4
  <2> QED
    BY <1>2, <1>3, <2>1
<1>6. blocks = Append(front, blocks[n])
  BY <1>1, <1>2, <1>3, <1>4, <1>5
<1> QED
  BY <1>1, <1>2, <1>4, <1>5, <1>6

\* The calls are the blocks of calls, each under the number of its block, by induction.
LEMMA CallsAlwaysBlocks ==
  ASSUME NEW blocks \in Seq(Block)
  PROVE  CallsAreBlocks(blocks)
<1> DEFINE Bad == {n \in Nat : \E s \in Seq(Block) : Len(s) = n /\ ~ CallsAreBlocks(s)}
<1> SUFFICES ASSUME ~ CallsAreBlocks(blocks) PROVE FALSE
  OBVIOUS
<1>1. Len(blocks) \in Bad
  OBVIOUS
<1>2. PICK n \in Bad : \A k \in Bad : n <= k
  <2>1. Bad \subseteq Nat /\ Bad # {}
    BY <1>1
  <2> HIDE DEF Bad
  <2> QED
    BY <2>1, LeastNatural
<1>3. PICK s \in Seq(Block) : Len(s) = n /\ ~ CallsAreBlocks(s)
  BY <1>2
<1>4. s # <<>>
  BY <1>3, NoBlocks
<1>5. PICK front \in Seq(Block), m \in Block : s = Append(front, m) /\ Len(front) = Len(s) - 1
  BY <1>4, LastBlock
<1>6. ~ CallsAreBlocks(front)
  BY <1>3, <1>5, OneMoreBlock
<1>7. Len(front) \in Bad /\ Len(front) < n
  BY <1>3, <1>5, <1>6
<1> QED
  BY <1>2, <1>7

-----------------------------------------------------------------------------
(* The buffers of the accumulator. *)

Added == [index : Nat, id : Nat, args : Seq(Piece)]

\* A chunk has two deltas at most; this is how they are taken in.
LEMMA PutAllIs ==
  ASSUME NEW buffers, NEW ds \in Seq(Added), Len(ds) <= 2
  PROVE  PutAll(buffers, ds) =
           IF Len(ds) = 0 THEN buffers
           ELSE IF Len(ds) = 1 THEN Put(buffers, ds[1]) ELSE Put(Put(buffers, ds[1]), ds[2])
<1>1. PICK k : k = Len(ds)
  OBVIOUS
<1>2. k \in Nat /\ k <= 2
  BY <1>1
<1>3. PICK size \in 0 .. 2 : size = Len(ds)
  BY <1>1, <1>2
<1> DEFINE put[n \in 0 .. Len(ds)] == IF n = 0 THEN buffers ELSE Put(put[n - 1], ds[n])
<1>4. PICK one : one = Put(buffers, ds[1])
  OBVIOUS
<1>5. PICK two : two = Put(one, ds[2])
  OBVIOUS
<1>6. PICK f : f = [n \in 0 .. size |-> IF n = 0 THEN buffers ELSE IF n = 1 THEN one ELSE two]
  OBVIOUS
<1>7. ASSUME NEW n \in 0 .. size PROVE f[n] = IF n = 0 THEN buffers ELSE Put(f[n - 1], ds[n])
  <2>1. CASE n = 0
    BY <1>6, <2>1
  <2>2. CASE n = 1
    <3>1. 0 \in 0 .. size /\ n - 1 = 0
      BY <1>3, <2>2
    <3> QED
      BY <1>4, <1>6, <2>2, <3>1
  <2>3. CASE n = 2
    <3>1. 1 \in 0 .. size /\ n - 1 = 1
      BY <1>3, <1>7, <2>3
    <3> QED
      BY <1>5, <1>6, <2>3, <3>1
  <2> QED
    BY <1>3, <2>1, <2>2, <2>3
<1>8. f = [n \in 0 .. Len(ds) |-> IF n = 0 THEN buffers ELSE Put(f[n - 1], ds[n])]
  BY <1>3, <1>6, <1>7
<1>9. put = [n \in 0 .. Len(ds) |-> IF n = 0 THEN buffers ELSE Put(put[n - 1], ds[n])]
  BY <1>8, Zenon
<1>10. PutAll(buffers, ds) = put[Len(ds)]
  BY Zenon DEF PutAll
<1> HIDE DEF put
<1>11. \A n \in 0 .. size : put[n] = IF n = 0 THEN buffers ELSE Put(put[n - 1], ds[n])
  BY <1>3, <1>9
<1>12. put[0] = buffers
  BY <1>3, <1>11
<1>13. size >= 1 => put[1] = one
  <2>1. size >= 1 => 1 \in 0 .. size /\ 1 - 1 = 0
    OBVIOUS
  <2> QED
    BY <1>4, <1>11, <1>12, <2>1
<1>14. size = 2 => put[2] = two
  <2>1. size = 2 => 2 \in 0 .. size /\ 2 - 1 = 1
    OBVIOUS
  <2> QED
    BY <1>5, <1>11, <1>13, <2>1
<1> QED
  BY <1>3, <1>4, <1>5, <1>10, <1>12, <1>13, <1>14

\* No delta.
LEMMA PutNone ==
  ASSUME NEW buffers
  PROVE  PutAll(buffers, <<>>) = buffers
<1>1. PICK ds : ds = <<>>
  OBVIOUS
<1>2. ds \in Seq(Added) /\ Len(ds) = 0
  BY <1>1
<1>3. PutAll(buffers, ds) = buffers
  <2>1. Len(ds) <= 2
    BY <1>2
  <2>2. PutAll(buffers, ds) =
          IF Len(ds) = 0 THEN buffers
          ELSE IF Len(ds) = 1 THEN Put(buffers, ds[1]) ELSE Put(Put(buffers, ds[1]), ds[2])
    BY <1>2, <2>1, PutAllIs, Zenon
  <2> QED
    BY <1>2, <2>2
<1> QED
  BY <1>1, <1>3

\* One delta.
LEMMA PutOne ==
  ASSUME NEW buffers, NEW d \in Added
  PROVE  PutAll(buffers, <<d>>) = Put(buffers, d)
<1>1. PICK ds : ds = <<d>>
  OBVIOUS
<1>2. ds \in Seq(Added) /\ Len(ds) = 1 /\ ds[1] = d
  BY <1>1
<1>3. PutAll(buffers, ds) = Put(buffers, d)
  <2>1. Len(ds) <= 2
    BY <1>2
  <2>2. PutAll(buffers, ds) =
          IF Len(ds) = 0 THEN buffers
          ELSE IF Len(ds) = 1 THEN Put(buffers, ds[1]) ELSE Put(Put(buffers, ds[1]), ds[2])
    BY <1>2, <2>1, PutAllIs, Zenon
  <2> QED
    BY <1>2, <2>2
<1> QED
  BY <1>1, <1>3

\* Two deltas.
LEMMA PutTwo ==
  ASSUME NEW buffers, NEW d \in Added, NEW e \in Added
  PROVE  PutAll(buffers, <<d, e>>) = Put(Put(buffers, d), e)
<1>1. PICK ds : ds = <<d, e>>
  OBVIOUS
<1>2. ds \in Seq(Added) /\ Len(ds) = 2 /\ ds[1] = d /\ ds[2] = e
  BY <1>1
<1>3. PutAll(buffers, ds) = Put(Put(buffers, d), e)
  <2>1. Len(ds) <= 2
    BY <1>2
  <2>2. PutAll(buffers, ds) =
          IF Len(ds) = 0 THEN buffers
          ELSE IF Len(ds) = 1 THEN Put(buffers, ds[1]) ELSE Put(Put(buffers, ds[1]), ds[2])
    BY <1>2, <2>1, PutAllIs, Zenon
  <2> QED
    BY <1>2, <2>2
<1> QED
  BY <1>1, <1>3

PutRight(buffers, d, put) ==
  /\ DOMAIN put = DOMAIN buffers \cup {d.index}
  /\ \A i \in DOMAIN buffers : i # d.index => put[i] = buffers[i]
  /\ d.index \notin DOMAIN buffers /\ d.id # 0 /\ d.args \in Seq(Piece) =>
       put[d.index] = [id |-> d.id, args |-> d.args]
  /\ d.index \in DOMAIN buffers =>
       put[d.index] = [id |-> IF d.id = 0 THEN buffers[d.index].id ELSE d.id,
                       args |-> buffers[d.index].args \o d.args]

\* What a delta changes of the buffers.
LEMMA PutIs ==
  ASSUME NEW buffers, NEW d
  PROVE  PutRight(buffers, d, Put(buffers, d))
<1>1. PICK i : i = d.index
  OBVIOUS
<1>2. PICK old : old = IF i \in DOMAIN buffers THEN buffers[i] ELSE [id |-> Unknown, args |-> <<>>]
  OBVIOUS
<1>3. PICK x : x = [id |-> IF d.id = Unknown THEN old.id ELSE d.id, args |-> old.args \o d.args]
  OBVIOUS
<1>4. Put(buffers, d) = [k \in DOMAIN buffers \cup {i} |-> IF k = i THEN x ELSE buffers[k]]
  BY <1>1, <1>2, <1>3 DEF Put
<1>5. /\ DOMAIN Put(buffers, d) = DOMAIN buffers \cup {i} /\ Put(buffers, d)[i] = x
      /\ \A k \in DOMAIN buffers : k # i => Put(buffers, d)[k] = buffers[k]
  BY <1>4
<1>6. i \notin DOMAIN buffers /\ d.id # 0 /\ d.args \in Seq(Piece) => x = [id |-> d.id, args |-> d.args]
  <2>1. d.args \in Seq(Piece) => <<>> \o d.args = d.args
    BY ConcatEmptySeq
  <2> QED
    BY <1>2, <1>3, <2>1 DEF Unknown
<1>7. i \in DOMAIN buffers =>
        x = [id |-> IF d.id = 0 THEN buffers[i].id ELSE d.id, args |-> buffers[i].args \o d.args]
  BY <1>2, <1>3 DEF Unknown
<1> QED
  BY <1>1, <1>5, <1>6, <1>7 DEF PutRight

\* The buffers hold these calls, under indices that go up.
Indexes(index, buffers, held) ==
  /\ index \in Seq(Nat) /\ held \in Seq(Call) /\ Len(index) = Len(held)
  /\ \A i, j \in DOMAIN index : i < j => index[i] < index[j]
  /\ \A x : x \in DOMAIN buffers <=> \E i \in DOMAIN index : x = index[i]
  /\ \A i \in DOMAIN index : buffers[index[i]] = held[i] /\ held[i].id # 0

\* The same, with the number of calls.
IndexesOf(index, buffers, held, n) ==
  /\ index \in Seq(Nat) /\ held \in Seq(Call) /\ n = Len(index) /\ Len(held) = n
  /\ DOMAIN index = 1 .. n
  /\ \A i, j \in 1 .. n : i < j => index[i] < index[j]
  /\ \A x : x \in DOMAIN buffers <=> \E i \in 1 .. n : x = index[i]
  /\ \A i \in 1 .. n : buffers[index[i]] = held[i] /\ held[i].id # 0

\* The number of calls is the length of the index.
LEMMA IndexesNumber ==
  ASSUME NEW index, NEW buffers, NEW held, Indexes(index, buffers, held)
  PROVE  \E n \in Nat : IndexesOf(index, buffers, held, n)
<1>1. index \in Seq(Nat) /\ held \in Seq(Call) /\ Len(index) = Len(held)
  BY DEF Indexes
<1>2. PICK n \in Nat : n = Len(index)
  BY <1>1, LenProperties
<1>3. DOMAIN index = 1 .. n /\ Len(held) = n
  BY <1>1, <1>2, LenProperties
<1>4. /\ \A i, j \in 1 .. n : i < j => index[i] < index[j]
      /\ \A x : x \in DOMAIN buffers <=> \E i \in 1 .. n : x = index[i]
      /\ \A i \in 1 .. n : buffers[index[i]] = held[i] /\ held[i].id # 0
  BY <1>3, Zenon DEF Indexes
<1> QED
  BY <1>1, <1>2, <1>3, <1>4 DEF IndexesOf

\* A delta beyond all others begins a call.
LEMMA IndexesAdd ==
  ASSUME NEW index, NEW buffers, NEW held, Indexes(index, buffers, held),
         NEW d \in Added, d.id # 0, \A i \in DOMAIN buffers : i < d.index
  PROVE  Indexes(Append(index, d.index), Put(buffers, d), Append(held, [id |-> d.id, args |-> d.args]))
<1>1. PICK n \in Nat : IndexesOf(index, buffers, held, n)
  BY IndexesNumber
<1>2. /\ index \in Seq(Nat) /\ held \in Seq(Call) /\ Len(index) = n /\ Len(held) = n
      /\ DOMAIN index = 1 .. n
      /\ \A i, j \in 1 .. n : i < j => index[i] < index[j]
      /\ \A x : x \in DOMAIN buffers <=> \E i \in 1 .. n : x = index[i]
      /\ \A i \in 1 .. n : buffers[index[i]] = held[i] /\ held[i].id # 0
  BY <1>1 DEF IndexesOf
<1>3. PICK x : x = [id |-> d.id, args |-> d.args]
  OBVIOUS
<1>4. d.index \in Nat /\ d.args \in Seq(Piece) /\ d.id \in Nat /\ x \in Call /\ x.id # 0
  BY <1>3 DEF Added, Call
<1>5. PICK more : more = Append(index, d.index)
  OBVIOUS
<1>6. PICK all : all = Append(held, x)
  OBVIOUS
<1>7. PICK put : put = Put(buffers, d)
  OBVIOUS
<1>8. d.index \notin DOMAIN buffers
  BY <1>4
<1>9. /\ DOMAIN put = DOMAIN buffers \cup {d.index} /\ put[d.index] = x
      /\ \A i \in DOMAIN buffers : i # d.index => put[i] = buffers[i]
  <2>1. PutRight(buffers, d, put)
    BY <1>7, PutIs
  <2> QED
    BY <1>3, <1>4, <1>8, <2>1 DEF PutRight
<1>10. /\ more \in Seq(Nat) /\ Len(more) = n + 1 /\ DOMAIN more = 1 .. n + 1 /\ more[n + 1] = d.index
       /\ \A i \in 1 .. n : more[i] = index[i]
  BY <1>2, <1>4, <1>5
<1>11. /\ all \in Seq(Call) /\ Len(all) = n + 1 /\ all[n + 1] = x
       /\ \A i \in 1 .. n : all[i] = held[i]
  BY <1>2, <1>4, <1>6
<1>12. \A i \in 1 .. n + 1 : i = n + 1 \/ i \in 1 .. n
  BY <1>1
<1>13. \A i \in 1 .. n : i \in 1 .. n + 1 /\ index[i] \in DOMAIN buffers /\ index[i] < d.index
  BY <1>1, <1>2
<1>14. n + 1 \in 1 .. n + 1
  BY <1>1
<1>15. ASSUME NEW i \in 1 .. n + 1, NEW j \in 1 .. n + 1, i < j PROVE more[i] < more[j]
  <2>1. i \in 1 .. n
    BY <1>1, <1>15
  <2>2. CASE j = n + 1
    BY <1>10, <1>13, <2>1, <2>2
  <2>3. CASE j \in 1 .. n
    BY <1>2, <1>10, <1>15, <2>1, <2>3
  <2> QED
    BY <1>12, <2>2, <2>3
<1>16. ASSUME NEW i \in 1 .. n + 1 PROVE put[more[i]] = all[i] /\ all[i].id # 0
  <2>1. CASE i = n + 1
    BY <1>4, <1>9, <1>10, <1>11, <2>1
  <2>2. CASE i \in 1 .. n
    <3>1. index[i] \in DOMAIN buffers /\ index[i] # d.index
      BY <1>8, <1>13, <2>2
    <3> QED
      BY <1>2, <1>9, <1>10, <1>11, <2>2, <3>1
  <2> QED
    BY <1>12, <2>1, <2>2
<1>17. ASSUME NEW k PROVE k \in DOMAIN put <=> \E i \in 1 .. n + 1 : k = more[i]
  <2>1. ASSUME k \in DOMAIN put PROVE \E i \in 1 .. n + 1 : k = more[i]
    <3>1. CASE k = d.index
      BY <1>10, <1>14, <3>1
    <3>2. CASE k \in DOMAIN buffers
      <4>1. PICK i \in 1 .. n : k = index[i]
        BY <1>2, <3>2
      <4> QED
        BY <1>10, <1>13, <4>1
    <3> QED
      BY <1>9, <2>1, <3>1, <3>2
  <2>2. ASSUME NEW i \in 1 .. n + 1, k = more[i] PROVE k \in DOMAIN put
    <3>1. CASE i = n + 1
      BY <1>9, <1>10, <2>2, <3>1
    <3>2. CASE i \in 1 .. n
      BY <1>9, <1>10, <1>13, <2>2, <3>2
    <3> QED
      BY <1>12, <3>1, <3>2
  <2> QED
    BY <2>1, <2>2
<1>18. Indexes(more, put, all)
  <2>1. more \in Seq(Nat) /\ all \in Seq(Call) /\ Len(more) = Len(all) /\ DOMAIN more = 1 .. n + 1
    BY <1>10, <1>11
  <2>2. \A i, j \in DOMAIN more : i < j => more[i] < more[j]
    BY <1>15, <2>1
  <2>3. \A k : k \in DOMAIN put <=> \E i \in DOMAIN more : k = more[i]
    BY <1>17, <2>1
  <2>4. \A i \in DOMAIN more : put[more[i]] = all[i] /\ all[i].id # 0
    BY <1>16, <2>1
  <2> QED
    BY <2>1, <2>2, <2>3, <2>4, Zenon DEF Indexes
<1> QED
  BY <1>3, <1>5, <1>6, <1>7, <1>18

\* A delta under the last index adds to the last call.
LEMMA IndexesChange ==
  ASSUME NEW index, NEW buffers, NEW front \in Seq(Call), NEW c \in Call,
         Indexes(index, buffers, Append(front, c)),
         NEW d \in Added, d.index = index[Len(index)], NEW x \in Call,
         x = [id |-> IF d.id = 0 THEN c.id ELSE d.id, args |-> c.args \o d.args], x.id # 0
  PROVE  Indexes(index, Put(buffers, d), Append(front, x))
<1>1. PICK held : held = Append(front, c)
  OBVIOUS
<1>2. PICK n \in Nat : IndexesOf(index, buffers, held, n)
  BY <1>1, IndexesNumber
<1>3. /\ index \in Seq(Nat) /\ held \in Seq(Call) /\ Len(index) = n /\ Len(held) = n
      /\ DOMAIN index = 1 .. n
      /\ \A i, j \in 1 .. n : i < j => index[i] < index[j]
      /\ \A k : k \in DOMAIN buffers <=> \E i \in 1 .. n : k = index[i]
      /\ \A i \in 1 .. n : buffers[index[i]] = held[i] /\ held[i].id # 0
  BY <1>2 DEF IndexesOf
<1>4. n # 0 /\ n = Len(front) + 1 /\ held[n] = c /\ n \in 1 .. n
  BY <1>1, <1>3
<1>5. PICK all : all = Append(front, x)
  OBVIOUS
<1>6. PICK put : put = Put(buffers, d)
  OBVIOUS
<1>7. index[n] \in DOMAIN buffers /\ buffers[index[n]] = c /\ d.index = index[n]
  BY <1>1, <1>3, <1>4
<1>8. /\ DOMAIN put = DOMAIN buffers \cup {index[n]} /\ put[index[n]] = x
      /\ \A i \in DOMAIN buffers : i # index[n] => put[i] = buffers[i]
  <2>1. PutRight(buffers, d, put)
    BY <1>6, PutIs
  <2> QED
    BY <1>7, <2>1 DEF PutRight
<1>9. DOMAIN put = DOMAIN buffers
  BY <1>7, <1>8
<1>10. /\ all \in Seq(Call) /\ Len(all) = n /\ all[n] = x
       /\ \A i \in 1 .. n : i # n => all[i] = held[i]
  BY <1>1, <1>4, <1>5
<1>11. ASSUME NEW i \in 1 .. n PROVE put[index[i]] = all[i] /\ all[i].id # 0
  <2>1. CASE i = n
    BY <1>8, <1>10, <2>1
  <2>2. CASE i # n
    <3>1. i < n
      BY <1>1, <2>2
    <3>2. index[i] < index[n]
      BY <1>3, <1>4, <3>1
    <3>3. index[i] \in DOMAIN buffers /\ index[i] # index[n]
      <4>1. index[i] \in Nat /\ index[n] \in Nat
        BY <1>3, <1>4
      <4> QED
        BY <1>3, <3>2, <4>1
    <3> QED
      BY <1>3, <1>8, <1>10, <2>2, <3>3
  <2> QED
    BY <2>1, <2>2
<1>12. Indexes(index, put, all)
  BY <1>3, <1>9, <1>10, <1>11 DEF Indexes
<1> QED
  BY <1>5, <1>6, <1>12

\* A function that goes up within 1 .. n is the identity.
LEMMA GoesUp ==
  ASSUME NEW n \in Nat, NEW p \in [1 .. n -> 1 .. n],
         \A i, j \in 1 .. n : i < j => p[i] < p[j]
  PROVE  \A i \in 1 .. n : p[i] = i
<1> DEFINE Low == {i \in 1 .. n : p[i] < i}
           High == {k \in 0 .. n : k < n /\ p[n - k] > n - k}
<1>1. Low = {}
  <2> SUFFICES ASSUME Low # {} PROVE FALSE
    OBVIOUS
  <2>1. PICK i \in Low : \A j \in Low : i <= j
    <3>1. Low \subseteq Nat
      OBVIOUS
    <3> HIDE DEF Low
    <3> QED
      BY <3>1, LeastNatural
  <2>2. i \in 1 .. n /\ p[i] < i /\ p[i] \in 1 .. n
    OBVIOUS
  <2>3. i - 1 \in 1 .. n /\ i - 1 < i
    BY <2>2
  <2>4. p[i - 1] < p[i] /\ p[i - 1] \in 1 .. n
    BY <2>2, <2>3
  <2>5. p[i - 1] < i - 1
    BY <2>2, <2>3, <2>4
  <2>6. i - 1 \in Low
    BY <2>3, <2>5
  <2> QED
    BY <2>1, <2>2, <2>6
<1>2. High = {}
  <2> SUFFICES ASSUME High # {} PROVE FALSE
    OBVIOUS
  <2>1. PICK k \in High : \A j \in High : k <= j
    <3>1. High \subseteq Nat
      OBVIOUS
    <3> HIDE DEF High
    <3> QED
      BY <3>1, LeastNatural
  <2>2. PICK i \in Int : i = n - k
    OBVIOUS
  <2>3. k \in 0 .. n /\ i \in 1 .. n /\ p[i] > i /\ p[i] \in 1 .. n
    BY <2>2
  <2>4. k # 0 /\ i + 1 \in 1 .. n /\ i < i + 1 /\ k - 1 \in 0 .. n /\ k - 1 < n /\ n - (k - 1) = i + 1
    BY <2>2, <2>3
  <2>5. p[i] < p[i + 1] /\ p[i + 1] \in 1 .. n
    BY <2>3, <2>4
  <2>6. p[i + 1] > i + 1
    BY <2>3, <2>5
  <2>7. k - 1 \in High
    BY <2>4, <2>6
  <2>8. ~ (k <= k - 1)
    BY <2>3
  <2> HIDE DEF High
  <2> QED
    BY <2>1, <2>7, <2>8
<1>3. ASSUME NEW i \in 1 .. n PROVE p[i] = i
  <2>1. ~ (p[i] < i)
    BY <1>1
  <2>2. PICK k \in Int : k = n - i
    OBVIOUS
  <2>3. k \in 0 .. n /\ k < n /\ n - k = i
    BY <2>2
  <2>4. ~ (p[i] > i)
    BY <1>2, <2>3
  <2> QED
    BY <2>1, <2>4
<1> QED
  BY <1>3

\* The calls that are built are those of the buffers, in the order of their indices.
LEMMA BuildIs ==
  ASSUME NEW index, NEW buffers, NEW held, Indexes(index, buffers, held)
  PROVE  BuildToolCalls(buffers) = held
<1> DEFINE rising(o) == \A i, j \in DOMAIN o : i < j => o[i] < o[j]
<1>1. PICK n \in Nat : IndexesOf(index, buffers, held, n)
  BY IndexesNumber
<1>2. PICK known : known = {i \in DOMAIN buffers : buffers[i].id # Unknown}
  OBVIOUS
<1>3. /\ index \in [1 .. n -> Nat] /\ held \in Seq(Call) /\ Len(held) = n
      /\ DOMAIN index = 1 .. n
      /\ \A i, j \in 1 .. n : i < j => index[i] < index[j]
      /\ \A k : k \in DOMAIN buffers <=> \E i \in 1 .. n : k = index[i]
      /\ \A i \in 1 .. n : buffers[index[i]] = held[i] /\ held[i].id # 0
  <2>1. index \in [1 .. n -> Nat]
    BY <1>1 DEF IndexesOf
  <2> QED
    BY <1>1, <2>1 DEF IndexesOf
<1>4. \A k : k \in known <=> \E i \in 1 .. n : k = index[i]
  BY <1>2, <1>3 DEF Unknown
<1>5. index \in Bijection(1 .. n, known)
  <2>1. index \in [1 .. n -> known]
    BY <1>3, <1>4
  <2>2. \A i, j \in 1 .. n : index[i] = index[j] => i = j
    <3>1. \A i, j \in 1 .. n : i # j => i < j \/ j < i
      OBVIOUS
    <3>2. \A i \in 1 .. n : index[i] \in Nat
      BY <1>3
    <3> QED
      BY <1>3, <3>1, <3>2
  <2>3. \A k \in known : \E i \in 1 .. n : index[i] = k
    BY <1>4
  <2> QED
    BY <2>1, <2>2, <2>3 DEF Bijection, Injection, Surjection, IsInjective
<1>6. Cardinality(known) = n
  <2>1. ExistsBijection(1 .. n, known)
    BY <1>5 DEF ExistsBijection
  <2> QED
    BY <1>1, <2>1, FS_CountingElements
<1>7. index \in [1 .. n -> known] /\ rising(index)
  BY <1>3, <1>4
<1>8. ASSUME NEW o \in [1 .. n -> known], rising(o) PROVE o = index
  <2>1. \A i \in 1 .. n : \E k \in 1 .. n : o[i] = index[k]
    BY <1>4
  <2>2. PICK p : p = [i \in 1 .. n |-> CHOOSE k \in 1 .. n : o[i] = index[k]]
    OBVIOUS
  <2>3. p \in [1 .. n -> 1 .. n] /\ \A i \in 1 .. n : o[i] = index[p[i]]
    BY <2>1, <2>2
  <2>4. ASSUME NEW i \in 1 .. n, NEW j \in 1 .. n, i < j PROVE p[i] < p[j]
    <3>1. o[i] < o[j]
      BY <1>8, <2>4
    <3>2. p[i] \in 1 .. n /\ p[j] \in 1 .. n /\ o[i] = index[p[i]] /\ o[j] = index[p[j]]
      BY <2>3
    <3>3. index[p[i]] \in Nat /\ index[p[j]] \in Nat
      BY <1>3, <3>2
    <3>4. CASE p[i] = p[j]
      BY <3>1, <3>2, <3>3, <3>4
    <3>5. CASE p[j] < p[i]
      <4>1. index[p[j]] < index[p[i]]
        BY <1>3, <3>2, <3>5
      <4> QED
        BY <3>1, <3>2, <3>3, <4>1
    <3> QED
      BY <3>2, <3>4, <3>5
  <2>5. \A i \in 1 .. n : p[i] = i
    BY <2>3, <2>4, GoesUp
  <2> QED
    BY <1>3, <2>3, <2>5
<1>9. PICK order : order = CHOOSE o \in [1 .. Cardinality(known) -> known] : rising(o)
  OBVIOUS
<1>10. order = index
  BY <1>6, <1>7, <1>8, <1>9
<1>11. BuildToolCalls(buffers) = [i \in DOMAIN order |-> buffers[order[i]]]
  BY <1>2, <1>9 DEF BuildToolCalls
<1> QED
  BY <1>3, <1>10, <1>11

-----------------------------------------------------------------------------
(* What the accumulator has folded. *)

TextKinds(d) == IF d = "tagged" THEN {"text", "thought"} ELSE {"text"}
ThoughtKinds(d) == IF d = "tagged" THEN {} ELSE {"thought"}

\* The arguments of a call that is being made are with the item that is done, for Responses.
HeldArgs(d, b, m) == IF d = "responses" /\ m.open THEN <<>> ELSE Pieces(b, m.pieces)
HeldOf(d, b, m) == [id |-> b, args |-> HeldArgs(d, b, m)]
Held(d, blocks) ==
  [i \in DOMAIN Called(blocks) |-> HeldOf(d, Called(blocks)[i].id, blocks[Called(blocks)[i].id])]

Placed(d, index, blocks) ==
  \A i \in DOMAIN index :
    index[i] = IF d \in {"anthropic", "responses"} THEN Called(blocks)[i].id - 1 ELSE i - 1

Reasoned(d, blocks) == IF d = "tagged" THEN <<>> ELSE Said(blocks, {"thought"})

Folded(d, blocks, text, reasoning) ==
  text = Said(blocks, TextKinds(d)) /\ reasoning = Reasoned(d, blocks)

Buffered(d, blocks, buffers) ==
  \E index : Indexes(index, buffers, Held(d, blocks)) /\ (d # "gemini" => Placed(d, index, blocks))

\* What is held of a block is typed.
LEMMA HeldTypes ==
  ASSUME NEW d, NEW b \in Nat, NEW m \in Block
  PROVE  /\ HeldArgs(d, b, m) \in Seq(Piece) /\ HeldOf(d, b, m) \in Call /\ CallOf(b, m) \in Call
         /\ HeldOf(d, b, m).id = b /\ CallOf(b, m).id = b
         /\ m.pieces \in Nat /\ m.kind \in Kinds /\ m.open \in BOOLEAN
<1>1. m.pieces \in Nat /\ m.kind \in Kinds /\ m.open \in BOOLEAN
  BY DEF Block
<1>2. Pieces(b, m.pieces) \in Seq(Piece)
  BY <1>1, PiecesType
<1>3. HeldArgs(d, b, m) \in Seq(Piece)
  BY <1>2 DEF HeldArgs
<1> QED
  BY <1>1, <1>2, <1>3 DEF HeldOf, CallOf, Call

\* One more block is one more call held and called, if it is one.
LEMMA HeldAppend ==
  ASSUME NEW d, NEW blocks \in Seq(Block), NEW m \in Block
  PROVE  /\ Held(d, blocks) \in Seq(Call) /\ Len(Held(d, blocks)) = Len(Called(blocks))
         /\ m.kind = "call" =>
              /\ Held(d, Append(blocks, m)) = Append(Held(d, blocks), HeldOf(d, Len(blocks) + 1, m))
              /\ Called(Append(blocks, m)) = Append(Called(blocks), CallOf(Len(blocks) + 1, m))
         /\ m.kind # "call" => /\ Held(d, Append(blocks, m)) = Held(d, blocks)
                               /\ Called(Append(blocks, m)) = Called(blocks)
<1>1. PICK n \in Nat : n = Len(blocks)
  OBVIOUS
<1>2. PICK more : more = Append(blocks, m)
  OBVIOUS
<1>3. more \in Seq(Block) /\ more[n + 1] = m /\ \A b \in 1 .. n : more[b] = blocks[b] /\ blocks[b] \in Block
  BY <1>1, <1>2
<1>4. PICK called \in Seq(Call) : called = Called(blocks)
  BY CalledAppend
<1>5. PICK k \in Nat : k = Len(called)
  OBVIOUS
<1>6. DOMAIN called = 1 .. k /\ \A i \in 1 .. k : called[i].id \in 1 .. n /\ called[i].id \in Nat
  <2>1. \A i \in DOMAIN called : called[i].id \in DOMAIN blocks
    BY <1>4, CallsAlwaysBlocks DEF CallsAreBlocks
  <2> QED
    BY <1>1, <1>5, <2>1
<1>7. PICK held : held = Held(d, blocks)
  OBVIOUS
<1>8. held = [i \in 1 .. k |-> HeldOf(d, called[i].id, blocks[called[i].id])]
  BY <1>4, <1>6, <1>7 DEF Held
<1>9. \A i \in 1 .. k : held[i] \in Call
  <2>1. \A i \in 1 .. k : HeldOf(d, called[i].id, blocks[called[i].id]) \in Call
    BY <1>3, <1>6, HeldTypes
  <2> QED
    BY <1>8, <2>1
<1>10. held \in Seq(Call) /\ Len(held) = k
  BY <1>5, <1>8, <1>9
<1>11. Called(more) = called \o CalledOf(n + 1, m)
  BY <1>1, <1>2, <1>4, CalledAppend
<1>12. ASSUME m.kind = "call"
       PROVE  /\ Held(d, more) = Append(held, HeldOf(d, n + 1, m))
              /\ Called(more) = Append(called, CallOf(n + 1, m))
  <2>1. PICK c : c = CallOf(n + 1, m)
    OBVIOUS
  <2>2. c \in Call /\ c.id = n + 1
    <3>1. n + 1 \in Nat
      BY <1>1
    <3> QED
      BY <2>1, <3>1, HeldTypes
  <2>3. PICK all : all = Append(called, c)
    OBVIOUS
  <2>4. Called(more) = all
    BY <1>11, <1>12, <2>1, <2>2, <2>3 DEF CalledOf
  <2>5. /\ DOMAIN all = 1 .. k + 1 /\ all[k + 1] = c
        /\ \A i \in 1 .. k : all[i] = called[i]
    BY <1>5, <2>2, <2>3
  <2>6. PICK x \in Call : x = HeldOf(d, n + 1, m)
    BY <1>1, HeldTypes
  <2>7. ASSUME NEW i \in 1 .. k + 1
        PROVE  HeldOf(d, all[i].id, more[all[i].id]) = IF i = k + 1 THEN x ELSE held[i]
    <3>1. CASE i = k + 1
      BY <1>3, <2>2, <2>5, <2>6, <3>1
    <3>2. CASE i # k + 1
      <4>1. i \in 1 .. k
        BY <1>5, <3>2
      <4>2. all[i] = called[i] /\ more[called[i].id] = blocks[called[i].id]
        BY <1>3, <1>6, <2>5, <4>1
      <4> QED
        BY <1>8, <3>2, <4>1, <4>2
    <3> QED
      BY <3>1, <3>2
  <2>8. Held(d, more) = [i \in 1 .. k + 1 |-> IF i = k + 1 THEN x ELSE held[i]]
    <3>1. Held(d, more) = [i \in 1 .. k + 1 |-> HeldOf(d, all[i].id, more[all[i].id])]
      BY <2>4, <2>5 DEF Held
    <3> QED
      BY <2>7, <3>1
  <2>9. Held(d, more) = Append(held, x)
    BY <1>5, <1>10, <2>8, AppendIs
  <2> QED
    BY <2>1, <2>3, <2>4, <2>6, <2>9
<1>13. ASSUME m.kind # "call" PROVE Held(d, more) = held /\ Called(more) = called
  <2>1. Called(more) = called
    BY <1>4, <1>11, <1>13 DEF CalledOf
  <2>2. \A i \in 1 .. k : more[called[i].id] = blocks[called[i].id]
    BY <1>3, <1>6
  <2>3. Held(d, more) = [i \in 1 .. k |-> HeldOf(d, called[i].id, more[called[i].id])]
    BY <1>6, <2>1 DEF Held
  <2> QED
    BY <1>8, <2>1, <2>2, <2>3
<1> QED
  BY <1>1, <1>2, <1>4, <1>5, <1>7, <1>10, <1>12, <1>13

\* The calls held and called are as many, and typed.
LEMMA CalledTypes ==
  ASSUME NEW d, NEW blocks \in Seq(Block)
  PROVE  /\ Called(blocks) \in Seq(Call) /\ Held(d, blocks) \in Seq(Call)
         /\ Len(Held(d, blocks)) = Len(Called(blocks)) /\ Len(Called(blocks)) \in Nat
<1>1. PICK m : m = [kind |-> "text", pieces |-> 0, open |-> FALSE]
  OBVIOUS
<1>2. m \in Block
  BY <1>1 DEF Block, Kinds
<1>3. Called(blocks) \in Seq(Call)
  BY <1>2, CalledAppend
<1>4. Len(Called(blocks)) \in Nat
  BY <1>3
<1> QED
  BY <1>2, <1>3, <1>4, HeldAppend

\* One more block in terms of what the accumulator keeps apart.
LEMMA SaidMore ==
  ASSUME NEW d, NEW blocks \in Seq(Block), NEW m \in Block
  PROVE  /\ Said(blocks, TextKinds(d)) \in Seq(Piece) /\ Reasoned(d, blocks) \in Seq(Piece)
         /\ Said(Append(blocks, m), TextKinds(d)) =
              Said(blocks, TextKinds(d)) \o SaidOf(Len(blocks) + 1, m, TextKinds(d))
         /\ Reasoned(d, Append(blocks, m)) =
              Reasoned(d, blocks) \o SaidOf(Len(blocks) + 1, m, ThoughtKinds(d))
         /\ SaidOf(Len(blocks) + 1, m, TextKinds(d)) \in Seq(Piece)
         /\ SaidOf(Len(blocks) + 1, m, ThoughtKinds(d)) \in Seq(Piece)
<1>1. <<>> \in Seq(Piece) /\ <<>> \o <<>> = <<>>
  OBVIOUS
<1>2. \A kinds : SaidOf(Len(blocks) + 1, m, kinds) \in Seq(Piece)
  <2>1. m.pieces \in Nat /\ Len(blocks) + 1 \in Nat
    BY DEF Block
  <2>2. Pieces(Len(blocks) + 1, m.pieces) \in Seq(Piece)
    BY <2>1, PiecesType
  <2> QED
    BY <1>1, <2>2 DEF SaidOf
<1>3. /\ Reasoned(d, blocks) \in Seq(Piece)
      /\ Reasoned(d, Append(blocks, m)) =
           Reasoned(d, blocks) \o SaidOf(Len(blocks) + 1, m, ThoughtKinds(d))
  <2>1. CASE d = "tagged"
    <3>1. SaidOf(Len(blocks) + 1, m, ThoughtKinds(d)) = <<>>
      BY <2>1 DEF SaidOf, ThoughtKinds
    <3>2. Reasoned(d, blocks) = <<>> /\ Reasoned(d, Append(blocks, m)) = <<>>
      BY <2>1 DEF Reasoned
    <3> QED
      BY <1>1, <3>1, <3>2
  <2>2. CASE d # "tagged"
    <3>1. ThoughtKinds(d) = {"thought"}
      BY <2>2 DEF ThoughtKinds
    <3>2. \A s : Reasoned(d, s) = Said(s, {"thought"})
      BY <2>2 DEF Reasoned
    <3> QED
      BY <3>1, <3>2, SaidAppend
  <2> QED
    BY <2>1, <2>2
<1> QED
  BY <1>2, <1>3, SaidAppend

\* The buffers after the call of a new block.
LEMMA NextCall ==
  ASSUME NEW d, NEW blocks \in Seq(Block), NEW m \in Block, m.kind = "call",
         NEW index, NEW buffers, Indexes(index, buffers, Held(d, blocks)),
         NEW x \in Nat, \A i \in DOMAIN buffers : i < x,
         NEW n \in Nat, n = Len(blocks) + 1
  PROVE  Indexes(Append(index, x), Put(buffers, Delta(x, n, HeldArgs(d, n, m))),
                 Held(d, Append(blocks, m)))
<1>1. n # 0
  <2>1. Len(blocks) \in Nat
    OBVIOUS
  <2> QED
    BY <2>1
<1>2. PICK e : e = Delta(x, n, HeldArgs(d, n, m))
  OBVIOUS
<1>3. HeldArgs(d, n, m) \in Seq(Piece)
  BY HeldTypes
<1>4. e \in Added /\ e.id # 0 /\ e.index = x /\ [id |-> e.id, args |-> e.args] = HeldOf(d, n, m)
  BY <1>1, <1>2, <1>3 DEF Delta, Added, HeldOf
<1>5. Indexes(Append(index, e.index), Put(buffers, e), Append(Held(d, blocks), [id |-> e.id, args |-> e.args]))
  BY <1>4, IndexesAdd
<1>6. Held(d, Append(blocks, m)) = Append(Held(d, blocks), HeldOf(d, n, m))
  BY HeldAppend
<1> QED
  BY <1>2, <1>4, <1>5, <1>6

\* The last block is replaced by one of its kind.
LEMMA SamePlaces ==
  ASSUME NEW d, NEW front \in Seq(Block), NEW m \in Block, NEW new \in Block, new.kind = m.kind,
         NEW index, Len(index) = Len(Called(Append(front, m))), index \in Seq(Nat),
         Placed(d, index, Append(front, m))
  PROVE  Placed(d, index, Append(front, new))
<1>1. PICK called \in Seq(Call) : called = Called(front)
  BY CalledAppend
<1>2. PICK n \in Nat : n = Len(front) + 1
  BY LenProperties
<1>3. CASE m.kind # "call"
  BY <1>3, HeldAppend DEF Placed
<1>4. CASE m.kind = "call"
  <2>1. PICK c \in Call : c = CallOf(n, m)
    BY <1>2, HeldTypes
  <2>2. PICK e \in Call : e = CallOf(n, new)
    BY <1>2, HeldTypes
  <2>3. c.id = e.id
    BY <2>1, <2>2 DEF CallOf
  <2>4. Called(Append(front, m)) = Append(called, c) /\ Called(Append(front, new)) = Append(called, e)
    BY <1>1, <1>2, <1>4, <2>1, <2>2, HeldAppend
  <2>5. PICK k \in Nat : k = Len(called)
    BY LenProperties
  <2>6. DOMAIN index = 1 .. k + 1
    BY <2>4, <2>5
  <2>7. \A i \in 1 .. k + 1 : Append(called, c)[i].id = Append(called, e)[i].id
    <3>1. \A i \in 1 .. k + 1 : i = k + 1 \/ i \in 1 .. k
      OBVIOUS
    <3>2. Append(called, c)[k + 1] = c /\ Append(called, e)[k + 1] = e
      BY <2>5
    <3>3. \A i \in 1 .. k : Append(called, c)[i] = called[i] /\ Append(called, e)[i] = called[i]
      BY <2>5
    <3> QED
      BY <2>3, <3>1, <3>2, <3>3
  <2> QED
    BY <2>4, <2>6, <2>7 DEF Placed
<1> QED
  BY <1>3, <1>4

\* Replacing the last block changes nothing where the arguments stay the same.
LEMMA SameHeld ==
  ASSUME NEW d, NEW front \in Seq(Block), NEW m \in Block, NEW new \in Block, new.kind = m.kind,
         NEW n \in Nat, n = Len(front) + 1,
         m.kind = "call" => HeldArgs(d, n, new) = HeldArgs(d, n, m)
  PROVE  Held(d, Append(front, new)) = Held(d, Append(front, m))
<1>1. CASE m.kind = "call"
  <2>1. HeldOf(d, n, new) = HeldOf(d, n, m)
    BY <1>1 DEF HeldOf
  <2>2. Held(d, Append(front, m)) = Append(Held(d, front), HeldOf(d, n, m))
    BY <1>1, HeldAppend
  <2>3. Held(d, Append(front, new)) = Append(Held(d, front), HeldOf(d, n, new))
    BY <1>1, HeldAppend
  <2> QED
    BY <2>1, <2>2, <2>3
<1>2. CASE m.kind # "call"
  <2>1. Held(d, Append(front, m)) = Held(d, front)
    BY <1>2, HeldAppend
  <2>2. Held(d, Append(front, new)) = Held(d, front)
    BY <1>2, HeldAppend
  <2> QED
    BY <2>1, <2>2
<1> QED
  BY <1>1, <1>2

\* The buffers after more of the last call.
LEMMA MoreOfCall ==
  ASSUME NEW d, NEW front \in Seq(Block), NEW m \in Block, NEW new \in Block,
         new.kind = "call", m.kind = "call", NEW n \in Nat, n = Len(front) + 1,
         NEW index, NEW buffers, Indexes(index, buffers, Held(d, Append(front, m))),
         NEW e \in Added, e.index = index[Len(index)], e.id \in {0, n},
         HeldArgs(d, n, new) = HeldArgs(d, n, m) \o e.args
  PROVE  Indexes(index, Put(buffers, e), Held(d, Append(front, new)))
<1>1. PICK held \in Seq(Call) : held = Held(d, front)
  BY HeldAppend
<1>2. PICK c \in Call : c = HeldOf(d, n, m)
  BY HeldTypes
<1>3. PICK x \in Call : x = HeldOf(d, n, new)
  BY HeldTypes
<1>4. Held(d, Append(front, m)) = Append(held, c) /\ Held(d, Append(front, new)) = Append(held, x)
  BY <1>1, <1>2, <1>3, HeldAppend
<1>5. n # 0
  <2>1. Len(front) \in Nat
    OBVIOUS
  <2> QED
    BY <2>1
<1>6. x = [id |-> IF e.id = 0 THEN c.id ELSE e.id, args |-> c.args \o e.args] /\ x.id # 0
  BY <1>2, <1>3, <1>5 DEF HeldOf
<1>7. Indexes(index, buffers, Append(held, c))
  BY <1>4
<1> QED
  BY <1>4, <1>6, <1>7, IndexesChange

\* Where the call under way is in the buffers.
IndexAt(d, b) == IF d \in {"anthropic", "responses"} THEN b - 1 ELSE CallsBefore(b)

\* The number of calls before a block is the number of calls made by those before it.
LEMMA BeforeIs ==
  ASSUME NEW front \in Seq(Block), NEW n \in Nat, n = Len(front) + 1,
         \A b \in 1 .. n - 1 : b \in DOMAIN made /\ made[b] = front[b]
  PROVE  CallsBefore(n) = Len(Called(front))
<1>1. {c \in 1 .. n - 1 : made[c].kind = "call"} = CallSet(front)
  <2>1. DOMAIN front = 1 .. n - 1
    <3>1. Len(front) = n - 1
      BY LenProperties
    <3> QED
      BY <3>1
  <2> QED
    BY <2>1 DEF CallSet
<1>2. CallsBefore(n) = Cardinality(CallSet(front))
  BY <1>1, Zenon DEF CallsBefore
<1> QED
  BY <1>2, CallsAlwaysBlocks DEF CallsAreBlocks

\* What the chunks of the adapters that number blocks or calls hold when a block begins,
LEMMA BeginChunk ==
  ASSUME NEW b, NEW m \in Block
  PROVE  /\ ChunkOf("begin", b, m).text = <<>> /\ ChunkOf("begin", b, m).reasoning = <<>>
         /\ ChunkOf("begin", b, m).finish = "none"
         /\ ChunkOf("begin", b, m).deltas =
              IF m.kind = "call" THEN <<Delta(IndexAt(dialect, b), b, <<>>)>> ELSE <<>>
<1>1. CASE dialect = "anthropic"
  BY <1>1 DEF ChunkOf, AnthropicChunk, Deltas, Nothing, IndexAt
<1>2. CASE dialect = "responses"
  BY <1>2 DEF ChunkOf, ResponsesChunk, Deltas, Nothing, IndexAt
<1>3. CASE dialect \notin {"anthropic", "responses"}
  BY <1>3 DEF ChunkOf, OpenAIChunk, Deltas, Nothing, IndexAt
<1> QED
  BY <1>1, <1>2, <1>3

\* when it grows by a piece,
LEMMA GrowChunk ==
  ASSUME NEW b, NEW m \in Block
  PROVE  /\ ChunkOf("grow", b, m).text =
              IF m.kind \in TextKinds(dialect) THEN <<<<b, m.pieces>>>> ELSE <<>>
         /\ ChunkOf("grow", b, m).reasoning =
              IF m.kind \in ThoughtKinds(dialect) THEN <<<<b, m.pieces>>>> ELSE <<>>
         /\ ChunkOf("grow", b, m).finish = "none"
         /\ ChunkOf("grow", b, m).deltas =
              IF m.kind = "call" /\ dialect # "responses"
              THEN <<Delta(IndexAt(dialect, b), Unknown, <<<<b, m.pieces>>>>)>> ELSE <<>>
<1>1. m.kind \in {"text", "thought", "call"}
  BY DEF Block, Kinds
<1>2. CASE dialect = "anthropic"
  BY <1>1, <1>2 DEF ChunkOf, AnthropicChunk, Deltas, Text, Reasoning, Nothing, IndexAt, TextKinds, ThoughtKinds
<1>3. CASE dialect = "responses"
  BY <1>1, <1>3 DEF ChunkOf, ResponsesChunk, Deltas, Text, Reasoning, Nothing, IndexAt, TextKinds, ThoughtKinds
<1>4. CASE dialect \notin {"anthropic", "responses"}
  BY <1>1, <1>4 DEF ChunkOf, OpenAIChunk, Deltas, Text, Reasoning, Nothing, IndexAt, TextKinds, ThoughtKinds
<1> QED
  BY <1>2, <1>3, <1>4

\* and when it is complete.
LEMMA CloseChunk ==
  ASSUME NEW b, NEW m \in Block
  PROVE  /\ ChunkOf("close", b, m).text = <<>> /\ ChunkOf("close", b, m).reasoning = <<>>
         /\ ChunkOf("close", b, m).finish = "none"
         /\ ChunkOf("close", b, m).deltas =
              IF m.kind = "call" /\ dialect = "responses"
              THEN <<Delta(IndexAt(dialect, b), b, Pieces(b, m.pieces))>> ELSE <<>>
<1>1. CASE dialect = "anthropic"
  BY <1>1 DEF ChunkOf, AnthropicChunk, Nothing
<1>2. CASE dialect = "responses"
  BY <1>2 DEF ChunkOf, ResponsesChunk, Deltas, Nothing, IndexAt
<1>3. CASE dialect \notin {"anthropic", "responses"}
  BY <1>3 DEF ChunkOf, OpenAIChunk, Nothing
<1> QED
  BY <1>1, <1>2, <1>3

-----------------------------------------------------------------------------
(* The invariant of a stream. *)

Sound(d, blocks, a, mis) ==
  /\ blocks \in Seq(Block)
  /\ \A b \in DOMAIN blocks : blocks[b].open => b = Len(blocks) /\ d # "gemini"
  /\ Folded(d, blocks, a.text, a.reasoning)
  /\ mis \in BOOLEAN /\ (d # "gemini" => ~ mis)
  /\ ~ mis => Buffered(d, blocks, a.buffers)

Quiet == ending = "none" => acc.finish = "none" /\ acc.told = FALSE /\ announced = <<>>

StreamInv ==
  /\ ending \in {"none", "whole", "cut", "broken", "failed"}
  /\ Sound(dialect, made, acc, misplaced) /\ Quiet /\ AnnouncedOnce

\* What is taken in while nothing has been announced.
LEMMA Consumed ==
  ASSUME acc.finish = "none", acc.told = FALSE, announced = <<>>, NEW c, Consume(c)
  PROVE  /\ acc'.text = acc.text \o c.text /\ acc'.reasoning = acc.reasoning \o c.reasoning
         /\ acc'.buffers = PutAll(acc.buffers, c.deltas) /\ acc'.finish = c.finish
         /\ c.finish = "none" => acc'.told = FALSE /\ announced' = <<>>
         /\ c.finish = "tool_calls" /\ DOMAIN acc'.buffers # {} =>
              announced' = <<BuildToolCalls(acc'.buffers)>>
<1>1. PICK buffers : buffers = PutAll(acc.buffers, c.deltas)
  OBVIOUS
<1>2. PICK finish : finish = c.finish
  OBVIOUS
<1>3. /\ acc' = [text |-> acc.text \o c.text, reasoning |-> acc.reasoning \o c.reasoning,
                 buffers |-> buffers, finish |-> finish,
                 told |-> acc.told \/ (finish = "tool_calls" /\ DOMAIN buffers # {} /\ ~ acc.told)]
      /\ announced' = IF finish = "tool_calls" /\ DOMAIN buffers # {} /\ ~ acc.told
                      THEN Append(announced, BuildToolCalls(buffers)) ELSE announced
  <2>1. finish = IF c.finish = "none" THEN acc.finish ELSE c.finish
    BY <1>2
  <2> QED
    BY <1>1, <2>1, Zenon DEF Consume
<1>4. acc'.text = acc.text \o c.text /\ acc'.reasoning = acc.reasoning \o c.reasoning
  BY <1>3
<1>5. acc'.buffers = buffers /\ acc'.finish = finish
  BY <1>3
<1>6. finish = "none" => acc'.told = FALSE
  BY <1>3
<1>7. finish = "none" => announced' = <<>>
  BY <1>3
<1>8. finish = "tool_calls" /\ DOMAIN buffers # {} => announced' = <<BuildToolCalls(buffers)>>
  BY <1>3
<1> QED
  BY <1>1, <1>2, <1>4, <1>5, <1>6, <1>7, <1>8

\* Empty buffers hold no calls,
LEMMA NoIndexes ==
  ASSUME NEW buffers, DOMAIN buffers = {}, NEW d, NEW blocks
  PROVE  Indexes(<<>>, buffers, <<>>) /\ Placed(d, <<>>, blocks)
<1>1. PICK none : none = <<>>
  OBVIOUS
<1>2. none \in Seq(Nat) /\ none \in Seq(Call) /\ DOMAIN none = {}
  BY <1>1
<1>3. Indexes(none, buffers, none)
  BY <1>2 DEF Indexes
<1>4. Placed(d, none, blocks)
  BY <1>2 DEF Placed
<1> QED
  BY <1>1, <1>3, <1>4

\* and none are built from them.
LEMMA BuildNone ==
  ASSUME NEW buffers, DOMAIN buffers = {}
  PROVE  BuildToolCalls(buffers) = <<>>
<1>1. Indexes(<<>>, buffers, <<>>)
  BY NoIndexes
<1> QED
  BY <1>1, BuildIs

\* A fresh accumulator is sound.
LEMMA StreamStarts ==
  ASSUME made = <<>>, ending = "none", acc = Fresh, announced = <<>>, misplaced = FALSE
  PROVE  StreamInv
<1>1. made \in Seq(Block) /\ DOMAIN made = {}
  OBVIOUS
<1>2. Called(made) = <<>> /\ \A kinds : Said(made, kinds) = <<>>
  BY NoBlocks
<1>3. /\ acc.text = <<>> /\ acc.reasoning = <<>> /\ acc.buffers = <<>>
      /\ acc.finish = "none" /\ acc.told = FALSE
  BY DEF Fresh
<1>4. Folded(dialect, made, acc.text, acc.reasoning)
  BY <1>2, <1>3 DEF Folded, Reasoned
<1>5. Held(dialect, made) = <<>>
  BY <1>2 DEF Held
<1>6. Indexes(<<>>, acc.buffers, Held(dialect, made)) /\ Placed(dialect, <<>>, made)
  <2>1. DOMAIN acc.buffers = {}
    BY <1>3
  <2> QED
    BY <1>5, <2>1, NoIndexes
<1>7. Buffered(dialect, made, acc.buffers)
  BY <1>6 DEF Buffered
<1>8. Sound(dialect, made, acc, misplaced)
  BY <1>1, <1>4, <1>7 DEF Sound
<1> QED
  BY <1>3, <1>8 DEF StreamInv, Quiet, AnnouncedOnce

\* The pieces that a stream has said follow from Sound.
LEMMA SoundKeepsUp ==
  ASSUME Sound(dialect, made, acc, misplaced)
  PROVE  FoldKeepsUp /\ (~ misplaced /\ ToolCalls # <<>> => HasCalls)
<1>1. /\ acc.text = IF dialect = "tagged" THEN Said(made, {"text", "thought"}) ELSE Said(made, {"text"})
      /\ acc.reasoning = IF dialect = "tagged" THEN <<>> ELSE Said(made, {"thought"})
  BY DEF Sound, Folded, TextKinds, Reasoned
<1>2. made \in Seq(Block)
  BY DEF Sound
<1>3. PICK called \in Seq(Call) : called = Called(made)
  BY <1>2, CalledTypes
<1>4. ASSUME ~ misplaced
      PROVE  ToolCalls = Held(dialect, made)
  <2>1. PICK index : Indexes(index, acc.buffers, Held(dialect, made))
    BY <1>4 DEF Sound, Buffered
  <2> QED
    BY <2>1, BuildIs DEF ToolCalls
<1>5. Len(Held(dialect, made)) = Len(called) /\ DOMAIN called = 1 .. Len(called)
  BY <1>3, <1>2, CalledTypes
<1>6. ASSUME NEW i \in DOMAIN called
      PROVE  /\ called[i].id \in DOMAIN made /\ made[called[i].id] \in Block
             /\ called[i].id \in Nat /\ made[called[i].id].kind = "call"
             /\ called[i].args = Pieces(called[i].id, made[called[i].id].pieces)
  <2>1. /\ called[i].id \in DOMAIN made /\ made[called[i].id].kind = "call"
        /\ called[i] = CallOf(called[i].id, made[called[i].id])
    BY <1>3, <1>2, CallsAlwaysBlocks DEF CallsAreBlocks
  <2>2. called[i].id \in Nat /\ made[called[i].id] \in Block
    BY <1>2, <2>1
  <2> QED
    BY <2>1, <2>2 DEF CallOf
<1>7. ASSUME ~ misplaced, NEW i \in DOMAIN called
      PROVE  /\ ToolCalls[i].id = called[i].id /\ IsPrefix(ToolCalls[i].args, called[i].args)
             /\ ~ made[called[i].id].open => ToolCalls[i].args = called[i].args
  <2>1. PICK m : m = made[called[i].id]
    OBVIOUS
  <2>2. PICK b \in Nat : b = called[i].id
    BY <1>6
  <2>3. ToolCalls[i] = HeldOf(dialect, b, m)
    BY <1>3, <1>4, <1>7, <2>1, <2>2 DEF Held
  <2>4. m \in Block /\ called[i].args = Pieces(b, m.pieces)
    BY <1>6, <2>1, <2>2
  <2>5. ToolCalls[i].id = b /\ ToolCalls[i].args = HeldArgs(dialect, b, m)
    BY <2>3 DEF HeldOf
  <2>6. ~ m.open => ToolCalls[i].args = called[i].args
    BY <2>4, <2>5 DEF HeldArgs
  <2>7. called[i].args \in Seq(Piece)
    <3>1. called[i] \in Call
      BY <1>3
    <3> QED
      BY <3>1 DEF Call
  <2>8. ToolCalls[i].args = <<>> \/ ToolCalls[i].args = called[i].args
    BY <2>4, <2>5 DEF HeldArgs
  <2>9. IsPrefix(ToolCalls[i].args, called[i].args)
    <3>1. CASE ToolCalls[i].args = <<>>
      <4>1. PICK t \in Seq(Piece) : t = called[i].args
        BY <2>7
      <4>2. Len(<<>>) = 0 /\ Len(t) \in Nat
        BY <4>1
      <4>3. SubSeq(<<>>, 1, 0) = <<>> /\ SubSeq(t, 1, 0) = <<>>
        BY <4>1, SubSeqEmpty
      <4> QED
        BY <3>1, <4>1, <4>2, <4>3 DEF IsPrefix
    <3>2. CASE ToolCalls[i].args = called[i].args
      <4>1. Len(called[i].args) \in Nat
        BY <2>7
      <4> QED
        BY <3>2, <4>1 DEF IsPrefix
    <3> QED
      BY <2>8, <3>1, <3>2
  <2> QED
    BY <2>1, <2>2, <2>5, <2>6, <2>9
<1>8. ~ misplaced =>
        /\ Len(ToolCalls) = Len(called)
        /\ \A i \in DOMAIN called :
             /\ ToolCalls[i].id = called[i].id /\ IsPrefix(ToolCalls[i].args, called[i].args)
             /\ ~ made[called[i].id].open => ToolCalls[i].args = called[i].args
  BY <1>4, <1>5, <1>7
<1>9. FoldKeepsUp
  BY <1>1, <1>3, <1>8 DEF FoldKeepsUp
<1>10. ASSUME ~ misplaced, ToolCalls # <<>> PROVE HasCalls
  <2>1. PICK held \in Seq(Call) : held = Held(dialect, made)
    BY <1>2, CalledTypes
  <2>2. held # <<>> /\ Len(held) = Len(called)
    BY <1>4, <1>5, <1>10, <2>1
  <2>3. 1 \in DOMAIN called
    BY <1>3, <2>2
  <2> QED
    BY <1>6, <2>3 DEF HasCalls
<1> QED
  BY <1>9, <1>10

\* A block begins: a call comes under an index beyond those before it.
LEMMA BeginKeeps ==
  ASSUME StreamInv, NEW kind \in Kinds, Begin(kind)
  PROVE  StreamInv'
<1>1. PICK n \in Nat : n = Len(made) + 1
  BY DEF StreamInv, Sound
<1>2. PICK m : m = [kind |-> kind, pieces |-> 0, open |-> TRUE]
  OBVIOUS
<1>3. m \in Block /\ m.kind = kind /\ m.pieces = 0 /\ m.open = TRUE
  BY <1>2 DEF Block
<1>4. /\ ending = "none" /\ dialect' = dialect /\ dialect # "gemini" /\ misplaced' = misplaced
      /\ ending' = "none" /\ made' = Append(made, m) /\ \A b \in DOMAIN made : ~ made[b].open
  BY <1>2 DEF Begin, Streaming, Closed
<1>5. /\ made \in Seq(Block) /\ Folded(dialect, made, acc.text, acc.reasoning) /\ misplaced = FALSE
      /\ Buffered(dialect, made, acc.buffers)
      /\ acc.finish = "none" /\ acc.told = FALSE /\ announced = <<>>
  BY <1>4 DEF StreamInv, Sound, Quiet
<1>6. made' \in Seq(Block) /\ Len(made') = n /\ Last(made') = m
  BY <1>1, <1>3, <1>4, <1>5 DEF Last
<1>7. PICK c : c = ChunkOf("begin", n, m)
  OBVIOUS
<1>8. Consume(c)
  BY <1>6, <1>7 DEF Begin
<1>9. /\ c.text = <<>> /\ c.reasoning = <<>> /\ c.finish = "none"
      /\ c.deltas = IF kind = "call" THEN <<Delta(IndexAt(dialect, n), n, <<>>)>> ELSE <<>>
  BY <1>3, <1>7, BeginChunk
<1>10. /\ acc'.text = acc.text \o <<>> /\ acc'.reasoning = acc.reasoning \o <<>>
       /\ acc'.buffers = PutAll(acc.buffers, c.deltas) /\ acc'.finish = "none"
       /\ acc'.told = FALSE /\ announced' = <<>>
  BY <1>5, <1>8, <1>9, Consumed
<1>11. Folded(dialect, made', acc'.text, acc'.reasoning)
  <2>1. \A kinds : SaidOf(n, m, kinds) = <<>>
    BY <1>3, PiecesType DEF SaidOf
  <2>2. /\ Said(Append(made, m), TextKinds(dialect)) =
             Said(made, TextKinds(dialect)) \o SaidOf(Len(made) + 1, m, TextKinds(dialect))
        /\ Reasoned(dialect, Append(made, m)) =
             Reasoned(dialect, made) \o SaidOf(Len(made) + 1, m, ThoughtKinds(dialect))
    BY <1>3, <1>5, SaidMore
  <2>3. /\ Said(made', TextKinds(dialect)) = Said(made, TextKinds(dialect)) \o <<>>
        /\ Reasoned(dialect, made') = Reasoned(dialect, made) \o <<>>
    BY <1>1, <1>4, <2>1, <2>2
  <2>4. acc.text = Said(made, TextKinds(dialect)) /\ acc.reasoning = Reasoned(dialect, made)
    BY <1>5 DEF Folded
  <2>5. acc'.text = Said(made', TextKinds(dialect)) /\ acc'.reasoning = Reasoned(dialect, made')
    BY <1>10, <2>3, <2>4
  <2> QED
    BY <2>5 DEF Folded
<1>12. PICK index : Indexes(index, acc.buffers, Held(dialect, made)) /\ Placed(dialect, index, made)
  BY <1>4, <1>5 DEF Buffered
<1>13. Buffered(dialect, made', acc'.buffers)
  <2>1. CASE kind # "call"
    <3>1. acc'.buffers = acc.buffers
      BY <1>9, <1>10, <2>1, PutNone
    <3>2. Held(dialect, made') = Held(dialect, made) /\ Called(made') = Called(made)
      BY <1>3, <1>4, <1>5, <2>1, HeldAppend
    <3>3. Placed(dialect, index, made')
      BY <1>12, <3>2 DEF Placed
    <3> QED
      BY <1>12, <3>1, <3>2, <3>3 DEF Buffered
  <2>2. CASE kind = "call"
    <3>1. PICK x : x = IndexAt(dialect, n)
      OBVIOUS
    <3>2. PICK k \in Nat : k = Len(index) /\ k = Len(Called(made)) /\ index \in Seq(Nat)
      BY <1>5, <1>12, CalledTypes DEF Indexes
    <3>3. index \in Seq(Nat) /\ DOMAIN index = 1 .. k /\ Len(index) = k
      <4>1. index \in Seq(Nat) /\ Len(index) = k
        BY <3>2
      <4> QED
        BY <4>1, LenProperties
    <3>4. Called(made) \in Seq(Call) /\ \A i \in 1 .. k : Called(made)[i].id \in 1 .. n - 1
      <4>1. DOMAIN made = 1 .. n - 1
        BY <1>1, <1>5
      <4>2. Called(made) \in Seq(Call)
        BY <1>5, CalledTypes
      <4>3. DOMAIN Called(made) = 1 .. k
        BY <3>2, <4>2
      <4>4. \A i \in DOMAIN Called(made) : Called(made)[i].id \in DOMAIN made
        BY <1>5, CallsAlwaysBlocks DEF CallsAreBlocks
      <4> QED
        BY <4>1, <4>2, <4>3, <4>4
    <3>5. CallsBefore(n) = k
      <4>1. \A b \in 1 .. n - 1 : b \in DOMAIN made
        BY <1>1, <1>5
      <4> QED
        BY <1>1, <1>5, <3>2, <4>1, BeforeIs
    <3>6. x \in Nat /\ \A i \in 1 .. k : index[i] < x
      <4>1. CASE dialect \in {"anthropic", "responses"}
        <5>1. x = n - 1 /\ n - 1 \in Nat
          BY <1>1, <1>5, <3>1, <4>1 DEF IndexAt
        <5>2. \A i \in 1 .. k : index[i] = Called(made)[i].id - 1
          BY <1>12, <3>3, <4>1 DEF Placed
        <5> QED
          BY <3>4, <5>1, <5>2
      <4>2. CASE dialect \notin {"anthropic", "responses"}
        <5>1. x = k
          BY <3>1, <3>5, <4>2 DEF IndexAt
        <5>2. \A i \in 1 .. k : index[i] = i - 1
          BY <1>12, <3>3, <4>2 DEF Placed
        <5> QED
          BY <5>1, <5>2
      <4> QED
        BY <4>1, <4>2
    <3>7. \A i \in DOMAIN acc.buffers : i < x
      BY <1>12, <3>3, <3>6 DEF Indexes
    <3>8. HeldArgs(dialect, n, m) = <<>>
      BY <1>3, PiecesType DEF HeldArgs
    <3>9. PICK e : e = Delta(x, n, <<>>)
      OBVIOUS
    <3>10. e \in Added
      BY <3>6, <3>9 DEF Delta, Added
    <3>11. acc'.buffers = Put(acc.buffers, e)
      BY <1>9, <1>10, <2>2, <3>1, <3>9, <3>10, PutOne
    <3>12. Indexes(Append(index, x), acc'.buffers, Held(dialect, made'))
      BY <1>1, <1>3, <1>4, <1>5, <1>12, <2>2, <3>6, <3>7, <3>8, <3>9, <3>11, NextCall
    <3>13. Placed(dialect, Append(index, x), made')
      <4>1. PICK called \in Seq(Call) : called = Called(made)
        BY <3>4
      <4>2. PICK b \in Call : b = CallOf(n, m)
        BY <1>3, HeldTypes
      <4>3. Called(made') = Append(called, b) /\ b.id = n
        BY <1>1, <1>3, <1>4, <1>5, <2>2, <4>1, <4>2, HeldAppend DEF CallOf
      <4>4. /\ DOMAIN Append(index, x) = 1 .. k + 1 /\ Append(index, x)[k + 1] = x
            /\ \A i \in 1 .. k : Append(index, x)[i] = index[i]
        <5>1. x \in Nat
          BY <3>6
        <5> QED
          BY <3>3, <5>1
      <4>5. Append(called, b)[k + 1] = b /\ \A i \in 1 .. k : Append(called, b)[i] = called[i]
        BY <3>2, <4>1
      <4>6. \A i \in 1 .. k + 1 : i = k + 1 \/ i \in 1 .. k
        OBVIOUS
      <4>7. x = IF dialect \in {"anthropic", "responses"} THEN n - 1 ELSE k
        BY <3>1, <3>5 DEF IndexAt
      <4>8. \A i \in 1 .. k : index[i] = IF dialect \in {"anthropic", "responses"} THEN called[i].id - 1 ELSE i - 1
        BY <1>12, <3>3, <4>1 DEF Placed
      <4>9. ASSUME NEW i \in 1 .. k + 1
            PROVE  Append(index, x)[i] =
                     IF dialect \in {"anthropic", "responses"} THEN Append(called, b)[i].id - 1 ELSE i - 1
        <5>1. CASE i = k + 1
          <6>1. Append(index, x)[i] = x /\ Append(called, b)[i].id = n /\ i - 1 = k
            <7>1. Append(called, b)[i] = b
              BY <4>5, <5>1
            <7>2. i - 1 = k
              BY <3>2, <5>1
            <7> QED
              BY <4>3, <4>4, <5>1, <7>1, <7>2
          <6> QED
            BY <4>7, <6>1
        <5>2. CASE i \in 1 .. k
          BY <4>4, <4>5, <4>8, <5>2
        <5> QED
          BY <4>6, <5>1, <5>2
      <4> QED
        BY <4>3, <4>4, <4>9 DEF Placed
    <3> QED
      BY <3>12, <3>13 DEF Buffered
  <2> QED
    BY <2>1, <2>2
<1>14. \A b \in DOMAIN made' : made'[b].open => b = Len(made') /\ dialect # "gemini"
  <2>1. \A b \in DOMAIN made' : b # n => b \in DOMAIN made /\ made'[b] = made[b]
    BY <1>1, <1>3, <1>4, <1>5
  <2> QED
    BY <1>4, <1>6, <2>1
<1>15. Sound(dialect, made', acc', misplaced')
  BY <1>4, <1>5, <1>6, <1>11, <1>13, <1>14 DEF Sound
<1> QED
  BY <1>4, <1>10, <1>15 DEF StreamInv, Quiet, AnnouncedOnce

\* A list whose last element is replaced.
LEMMA ReplaceLast ==
  ASSUME NEW front \in Seq(Block), NEW m \in Block, NEW x \in Block, NEW n \in Nat, n = Len(front) + 1
  PROVE  [Append(front, m) EXCEPT ![n] = x] = Append(front, x)
<1>1. PICK k \in Nat : k = Len(front)
  BY LenProperties
<1>2. PICK blocks : blocks = Append(front, m)
  OBVIOUS
<1>3. DOMAIN blocks = 1 .. k + 1 /\ \A b \in 1 .. k : blocks[b] = front[b]
  <2>1. blocks \in Seq(Block) /\ Len(blocks) = k + 1
    BY <1>1, <1>2
  <2> QED
    BY <1>1, <1>2, <2>1
<1>4. PICK t : t = [blocks EXCEPT ![n] = x]
  OBVIOUS
<1>5. t = [b \in 1 .. k + 1 |-> IF b = k + 1 THEN x ELSE blocks[b]]
  BY <1>1, <1>3, <1>4
<1>6. \A b \in 1 .. k + 1 : b # k + 1 => b \in 1 .. k
  BY <1>1
<1>7. t = [b \in 1 .. k + 1 |-> IF b = k + 1 THEN x ELSE front[b]]
  BY <1>3, <1>5, <1>6
<1>8. t = Append(front, x)
  <2>1. k \in Nat /\ k = Len(front)
    BY <1>1
  <2> QED
    BY <1>7, <2>1, AppendIs, ZenonT(60)
<1> QED
  BY <1>2, <1>4, <1>8

\* The block under way, and where its call is, if it is one.
LEMMA UnderWay ==
  ASSUME StreamInv, Streaming, ~ Closed
  PROVE  \E front \in Seq(Block), m \in Block, n \in Nat :
           /\ n = Len(front) + 1 /\ n = Len(made) /\ made = Append(front, m) /\ m.open = TRUE
           /\ dialect # "gemini" /\ ending = "none" /\ dialect' = dialect
           /\ \A b \in 1 .. n - 1 : made[b].open = FALSE
           /\ \E index :
                /\ Indexes(index, acc.buffers, Held(dialect, made)) /\ Placed(dialect, index, made)
                /\ index \in Seq(Nat) /\ Len(index) = Len(Called(made))
                /\ m.kind = "call" => IndexAt(dialect, n) = index[Len(index)] /\ IndexAt(dialect, n) \in Nat
<1>1. PICK b \in DOMAIN made : made[b].open
  BY DEF Closed
<1>2. /\ made \in Seq(Block) /\ b = Len(made) /\ dialect # "gemini" /\ misplaced = FALSE
      /\ \A c \in DOMAIN made : made[c].open => c = Len(made)
      /\ Buffered(dialect, made, acc.buffers) /\ ending = "none" /\ dialect' = dialect
  BY <1>1 DEF StreamInv, Sound, Streaming
<1>3. made # <<>>
  BY <1>1, <1>2
<1>4. PICK front \in Seq(Block), m \in Block :
        made = Append(front, m) /\ Len(front) = Len(made) - 1 /\ m = made[Len(made)]
  BY <1>2, <1>3, LastBlock
<1>5. PICK n \in Nat : n = Len(made)
  BY <1>2, LenProperties
<1>6. n = Len(front) + 1 /\ m.open = TRUE
  <2>1. Len(front) \in Nat
    BY LenProperties
  <2>2. m.open \in BOOLEAN
    BY DEF Block
  <2> QED
    BY <1>1, <1>2, <1>4, <1>5, <2>1, <2>2
<1>7. ASSUME NEW c \in 1 .. n - 1 PROVE made[c].open = FALSE
  <2>1. c \in DOMAIN made /\ c # Len(made) /\ made[c] \in Block
    BY <1>2, <1>5
  <2>2. made[c].open \in BOOLEAN
    BY <2>1 DEF Block
  <2> QED
    BY <1>2, <2>1, <2>2
<1>8. PICK index : Indexes(index, acc.buffers, Held(dialect, made)) /\ Placed(dialect, index, made)
  BY <1>2 DEF Buffered
<1>9. index \in Seq(Nat) /\ Len(index) = Len(Called(made))
  BY <1>2, <1>8, CalledTypes DEF Indexes
<1>10. ASSUME m.kind = "call"
       PROVE  IndexAt(dialect, n) = index[Len(index)] /\ IndexAt(dialect, n) \in Nat
  <2>1. PICK called \in Seq(Call) : called = Called(front)
    BY CalledTypes
  <2>2. PICK c \in Call : c = CallOf(n, m)
    BY HeldTypes
  <2>3. Called(made) = Append(called, c) /\ c.id = n
    BY <1>4, <1>6, <1>10, <2>1, <2>2, HeldAppend DEF CallOf
  <2>4. PICK k \in Nat : k = Len(called)
    BY LenProperties
  <2>5. Len(index) = k + 1 /\ Called(made)[k + 1] = c /\ k + 1 \in DOMAIN index
    BY <1>9, <2>3, <2>4
  <2>6. CallsBefore(n) = k
    <3>1. \A a \in 1 .. n - 1 : a \in DOMAIN made /\ made[a] = front[a]
      BY <1>2, <1>4, <1>5, <1>6
    <3> QED
      BY <1>6, <2>1, <2>4, <3>1, BeforeIs
  <2>7. index[k + 1] = IF dialect \in {"anthropic", "responses"} THEN n - 1 ELSE k
    <3>1. index[k + 1] = IF dialect \in {"anthropic", "responses"} THEN Called(made)[k + 1].id - 1
                         ELSE (k + 1) - 1
      BY <1>8, <2>5 DEF Placed
    <3>2. (k + 1) - 1 = k
      OBVIOUS
    <3> QED
      BY <2>3, <2>5, <3>1, <3>2
  <2>8. n - 1 \in Nat
    BY <1>6, LenProperties
  <2> QED
    BY <2>4, <2>5, <2>6, <2>7, <2>8 DEF IndexAt
<1> QED
  BY <1>2, <1>4, <1>5, <1>6, <1>7, <1>8, <1>9, <1>10

\* Three lists may be joined in either order.
Regroups(s, t, u) == (s \o t) \o u = s \o (t \o u)

\* Lists may be regrouped.
LEMMA Regrouped ==
  ASSUME NEW S, NEW s \in Seq(S), NEW t \in Seq(S), NEW u \in Seq(S)
  PROVE  Regroups(s, t, u)
<1> QED
  BY DEF Regroups

\* What remains to be shown of a step that replaces the block under way.
LEMMA Replaced ==
  ASSUME StreamInv, NEW front \in Seq(Block), NEW m \in Block, NEW new \in Block,
         NEW n \in Nat, n = Len(front) + 1, made = Append(front, m), made' = Append(front, new),
         new.kind = m.kind, \A b \in 1 .. n - 1 : made[b].open = FALSE,
         dialect # "gemini", dialect' = dialect, ending = "none", ending' = "none", misplaced' = misplaced,
         NEW c, Consume(c), c.finish = "none",
         NEW index, Indexes(index, acc.buffers, Held(dialect, made)), Placed(dialect, index, made),
         index \in Seq(Nat), Len(index) = Len(Called(made)),
         Indexes(index, PutAll(acc.buffers, c.deltas), Held(dialect, made')),
         c.text \in Seq(Piece), c.reasoning \in Seq(Piece),
         SaidOf(n, new, TextKinds(dialect)) = SaidOf(n, m, TextKinds(dialect)) \o c.text,
         SaidOf(n, new, ThoughtKinds(dialect)) = SaidOf(n, m, ThoughtKinds(dialect)) \o c.reasoning
  PROVE  StreamInv'
<1>1. /\ made \in Seq(Block) /\ Folded(dialect, made, acc.text, acc.reasoning) /\ misplaced = FALSE
      /\ acc.finish = "none" /\ acc.told = FALSE /\ announced = <<>>
  BY DEF StreamInv, Sound, Quiet
<1>2. /\ acc'.text = acc.text \o c.text /\ acc'.reasoning = acc.reasoning \o c.reasoning
      /\ acc'.buffers = PutAll(acc.buffers, c.deltas) /\ acc'.finish = "none"
      /\ acc'.told = FALSE /\ announced' = <<>>
  BY <1>1, Consumed
<1>3. acc'.text = Said(made', TextKinds(dialect))
  <2>1. PICK s \in Seq(Piece) : s = Said(front, TextKinds(dialect))
    BY SaidMore
  <2>2. PICK t \in Seq(Piece) : t = SaidOf(n, m, TextKinds(dialect))
    BY SaidMore
  <2>3. acc.text = s \o t /\ Said(made', TextKinds(dialect)) = s \o (t \o c.text)
    <3>1. /\ Said(Append(front, m), TextKinds(dialect)) = s \o SaidOf(Len(front) + 1, m, TextKinds(dialect))
          /\ Said(Append(front, new), TextKinds(dialect)) = s \o SaidOf(Len(front) + 1, new, TextKinds(dialect))
      BY <2>1, SaidMore
    <3>2. Said(made, TextKinds(dialect)) = s \o t /\ Said(made', TextKinds(dialect)) = s \o (t \o c.text)
      BY <2>2, <3>1
    <3> QED
      BY <1>1, <3>2 DEF Folded
  <2>4. PICK u \in Seq(Piece) : u = c.text
    OBVIOUS
  <2>5. Regroups(s, t, u)
    BY Regrouped
  <2> QED
    BY <1>2, <2>3, <2>4, <2>5 DEF Regroups
<1>4. acc'.reasoning = Reasoned(dialect, made')
  <2>1. PICK s \in Seq(Piece) : s = Reasoned(dialect, front)
    BY SaidMore
  <2>2. PICK t \in Seq(Piece) : t = SaidOf(n, m, ThoughtKinds(dialect))
    BY SaidMore
  <2>3. acc.reasoning = s \o t /\ Reasoned(dialect, made') = s \o (t \o c.reasoning)
    <3>1. /\ Reasoned(dialect, Append(front, m)) = s \o SaidOf(Len(front) + 1, m, ThoughtKinds(dialect))
          /\ Reasoned(dialect, Append(front, new)) = s \o SaidOf(Len(front) + 1, new, ThoughtKinds(dialect))
      BY <2>1, SaidMore
    <3>2. Reasoned(dialect, made) = s \o t /\ Reasoned(dialect, made') = s \o (t \o c.reasoning)
      BY <2>2, <3>1
    <3> QED
      BY <1>1, <3>2 DEF Folded
  <2>4. PICK u \in Seq(Piece) : u = c.reasoning
    OBVIOUS
  <2>5. Regroups(s, t, u)
    BY Regrouped
  <2> QED
    BY <1>2, <2>3, <2>4, <2>5 DEF Regroups
<1>5. Placed(dialect, index, made')
  BY SamePlaces
<1>6. Buffered(dialect, made', acc'.buffers)
  BY <1>2, <1>5 DEF Buffered
<1>7. made' \in Seq(Block) /\ Len(made') = n
  OBVIOUS
<1>8. \A b \in DOMAIN made' : made'[b].open => b = Len(made') /\ dialect # "gemini"
  <2>1. \A b \in DOMAIN made' : b # n => b \in 1 .. n - 1 /\ made'[b] = made[b]
    BY <1>7
  <2> QED
    BY <1>7, <2>1
<1>9. Sound(dialect, made', acc', misplaced')
  BY <1>1, <1>3, <1>4, <1>6, <1>7, <1>8 DEF Sound, Folded
<1> QED
  BY <1>2, <1>9 DEF StreamInv, Quiet, AnnouncedOnce

\* A block grows by a piece.
LEMMA GrowKeeps ==
  ASSUME StreamInv, Grow
  PROVE  StreamInv'
<1>1. Streaming /\ ~ Closed /\ ending' = ending /\ misplaced' = misplaced
  BY DEF Grow
<1>2. PICK front \in Seq(Block), m \in Block, n \in Nat :
        /\ n = Len(front) + 1 /\ n = Len(made) /\ made = Append(front, m) /\ m.open = TRUE
        /\ dialect # "gemini" /\ ending = "none" /\ dialect' = dialect
        /\ \A b \in 1 .. n - 1 : made[b].open = FALSE
        /\ \E index :
             /\ Indexes(index, acc.buffers, Held(dialect, made)) /\ Placed(dialect, index, made)
             /\ index \in Seq(Nat) /\ Len(index) = Len(Called(made))
             /\ m.kind = "call" => IndexAt(dialect, n) = index[Len(index)] /\ IndexAt(dialect, n) \in Nat
  BY <1>1, UnderWay
<1>3. PICK index :
        /\ Indexes(index, acc.buffers, Held(dialect, made)) /\ Placed(dialect, index, made)
        /\ index \in Seq(Nat) /\ Len(index) = Len(Called(made))
        /\ m.kind = "call" => IndexAt(dialect, n) = index[Len(index)] /\ IndexAt(dialect, n) \in Nat
  BY <1>2
<1>4. PICK p \in Nat : p = m.pieces
  BY HeldTypes, <1>2
<1>5. PICK new : new = [m EXCEPT !.pieces = p + 1]
  OBVIOUS
<1>6. new \in Block /\ new.kind = m.kind /\ new.open = m.open /\ new.pieces = p + 1
  BY <1>4, <1>5 DEF Block
<1>7. made' = Append(front, new) /\ Last(made') = new
  <2>1. made[n] = m
    BY <1>2
  <2>2. made' = [made EXCEPT ![n] = new]
    <3>1. made' = [made EXCEPT ![n] = [made[n] EXCEPT !.pieces = made[n].pieces + 1]]
      BY <1>2 DEF Grow
    <3> QED
      BY <1>4, <1>5, <2>1, <3>1
  <2>3. made' = Append(front, new)
    BY <1>2, <1>6, <2>2, ReplaceLast
  <2> QED
    BY <1>2, <1>6, <2>3 DEF Last
<1>8. PICK c : c = ChunkOf("grow", n, new)
  OBVIOUS
<1>9. Consume(c)
  BY <1>2, <1>7, <1>8 DEF Grow
<1>10. PICK s : s = <<<<n, p + 1>>>>
  OBVIOUS
<1>11. /\ c.text = IF m.kind \in TextKinds(dialect) THEN s ELSE <<>>
       /\ c.reasoning = IF m.kind \in ThoughtKinds(dialect) THEN s ELSE <<>>
       /\ c.finish = "none"
       /\ c.deltas = IF m.kind = "call" /\ dialect # "responses"
                     THEN <<Delta(IndexAt(dialect, n), Unknown, s)>> ELSE <<>>
  BY <1>6, <1>8, <1>10, GrowChunk
<1>12. s \in Seq(Piece) /\ Pieces(n, p + 1) = Pieces(n, p) \o s /\ Pieces(n, p) \in Seq(Piece)
  <2>1. <<n, p + 1>> \in Piece
    BY DEF Piece
  <2>2. PICK t \in Seq(Piece) : t = Pieces(n, p)
    BY PiecesType
  <2>3. Append(t, <<n, p + 1>>) = t \o s
    BY <1>10, <2>1, AppendIsConcat, Zenon
  <2>4. s \in Seq(Piece)
    BY <1>10, <2>1
  <2>5. Pieces(n, p + 1) = Append(t, <<n, p + 1>>)
    BY <2>2, PiecesType
  <2> QED
    BY <2>2, <2>3, <2>4, <2>5
<1>13. c.text \in Seq(Piece) /\ c.reasoning \in Seq(Piece)
  BY <1>11, <1>12
<1>14. \A kinds : SaidOf(n, new, kinds) =
                    SaidOf(n, m, kinds) \o (IF m.kind \in kinds THEN s ELSE <<>>)
  <2>1. <<>> \o <<>> = <<>>
    OBVIOUS
  <2> QED
    BY <1>4, <1>6, <1>12, <2>1 DEF SaidOf
<1>15. Indexes(index, PutAll(acc.buffers, c.deltas), Held(dialect, made'))
  <2>1. CASE m.kind = "call" /\ dialect # "responses"
    <3>1. PICK e : e = Delta(IndexAt(dialect, n), Unknown, s)
      OBVIOUS
    <3>2. e \in Added /\ e.index = index[Len(index)] /\ e.id \in {0, n} /\ e.args = s
      BY <1>3, <1>12, <2>1, <3>1 DEF Added, Delta, Unknown
    <3>3. HeldArgs(dialect, n, new) = HeldArgs(dialect, n, m) \o e.args
      BY <1>4, <1>6, <1>12, <2>1, <3>2 DEF HeldArgs
    <3>4. Indexes(index, Put(acc.buffers, e), Held(dialect, Append(front, new)))
      BY <1>2, <1>3, <1>6, <2>1, <3>2, <3>3, MoreOfCall
    <3>5. PutAll(acc.buffers, c.deltas) = Put(acc.buffers, e)
      BY <1>11, <2>1, <3>1, <3>2, PutOne
    <3> QED
      BY <1>7, <3>4, <3>5
  <2>2. CASE ~ (m.kind = "call" /\ dialect # "responses")
    <3>1. PutAll(acc.buffers, c.deltas) = acc.buffers
      BY <1>11, <2>2, PutNone
    <3>2. m.kind = "call" => HeldArgs(dialect, n, new) = HeldArgs(dialect, n, m)
      BY <1>2, <1>6, <2>2 DEF HeldArgs
    <3>3. Held(dialect, Append(front, new)) = Held(dialect, Append(front, m))
      BY <1>2, <1>6, <3>2, SameHeld
    <3> QED
      BY <1>2, <1>3, <1>7, <3>1, <3>3
  <2> QED
    BY <2>1, <2>2
<1>16. /\ SaidOf(n, new, TextKinds(dialect)) = SaidOf(n, m, TextKinds(dialect)) \o c.text
       /\ SaidOf(n, new, ThoughtKinds(dialect)) = SaidOf(n, m, ThoughtKinds(dialect)) \o c.reasoning
  BY <1>11, <1>14
<1>17. ending' = "none"
  BY <1>1, <1>2
<1> QED
  BY <1>1, <1>2, <1>3, <1>6, <1>7, <1>9, <1>11, <1>13, <1>15, <1>16, <1>17, Replaced

\* A block is complete.
LEMMA CloseKeeps ==
  ASSUME StreamInv, Close
  PROVE  StreamInv'
<1>1. Streaming /\ ~ Closed /\ ending' = ending /\ misplaced' = misplaced
  BY DEF Close
<1>2. PICK front \in Seq(Block), m \in Block, n \in Nat :
        /\ n = Len(front) + 1 /\ n = Len(made) /\ made = Append(front, m) /\ m.open = TRUE
        /\ dialect # "gemini" /\ ending = "none" /\ dialect' = dialect
        /\ \A b \in 1 .. n - 1 : made[b].open = FALSE
        /\ \E index :
             /\ Indexes(index, acc.buffers, Held(dialect, made)) /\ Placed(dialect, index, made)
             /\ index \in Seq(Nat) /\ Len(index) = Len(Called(made))
             /\ m.kind = "call" => IndexAt(dialect, n) = index[Len(index)] /\ IndexAt(dialect, n) \in Nat
  BY <1>1, UnderWay
<1>3. PICK index :
        /\ Indexes(index, acc.buffers, Held(dialect, made)) /\ Placed(dialect, index, made)
        /\ index \in Seq(Nat) /\ Len(index) = Len(Called(made))
        /\ m.kind = "call" => IndexAt(dialect, n) = index[Len(index)] /\ IndexAt(dialect, n) \in Nat
  BY <1>2
<1>4. m.pieces \in Nat
  BY HeldTypes, <1>2
<1>5. PICK new : new = [m EXCEPT !.open = FALSE]
  OBVIOUS
<1>6. new \in Block /\ new.kind = m.kind /\ new.open = FALSE /\ new.pieces = m.pieces
  BY <1>5 DEF Block
<1>7. made' = Append(front, new) /\ Last(made') = new
  <2>1. made[n] = m
    BY <1>2
  <2>2. made' = [made EXCEPT ![n] = new]
    <3>1. made' = [made EXCEPT ![n] = [made[n] EXCEPT !.open = FALSE]]
      BY <1>2 DEF Close
    <3> QED
      BY <1>5, <2>1, <3>1
  <2>3. made' = Append(front, new)
    BY <1>2, <1>6, <2>2, ReplaceLast
  <2> QED
    BY <1>2, <1>6, <2>3 DEF Last
<1>8. PICK c : c = ChunkOf("close", n, new)
  OBVIOUS
<1>9. Consume(c)
  BY <1>2, <1>7, <1>8 DEF Close
<1>10. PICK s \in Seq(Piece) : s = Pieces(n, m.pieces)
  BY <1>4, PiecesType
<1>11. /\ c.text = <<>> /\ c.reasoning = <<>> /\ c.finish = "none"
       /\ c.deltas = IF m.kind = "call" /\ dialect = "responses"
                     THEN <<Delta(IndexAt(dialect, n), n, s)>> ELSE <<>>
  BY <1>6, <1>8, <1>10, CloseChunk
<1>12. <<>> \in Seq(Piece)
  OBVIOUS
<1>13. c.text \in Seq(Piece) /\ c.reasoning \in Seq(Piece)
  BY <1>11, <1>12
<1>14. \A kinds : SaidOf(n, new, kinds) = SaidOf(n, m, kinds) \o <<>>
  <2>1. <<>> \o <<>> = <<>> /\ s \o <<>> = s
    OBVIOUS
  <2> QED
    BY <1>6, <1>10, <2>1 DEF SaidOf
<1>15. Indexes(index, PutAll(acc.buffers, c.deltas), Held(dialect, made'))
  <2>1. CASE m.kind = "call" /\ dialect = "responses"
    <3>1. PICK e : e = Delta(IndexAt(dialect, n), n, s)
      OBVIOUS
    <3>2. e \in Added /\ e.index = index[Len(index)] /\ e.id \in {0, n} /\ e.args = s
      BY <1>3, <2>1, <3>1 DEF Added, Delta
    <3>3. HeldArgs(dialect, n, new) = HeldArgs(dialect, n, m) \o e.args
      <4>1. HeldArgs(dialect, n, m) = <<>>
        BY <1>2, <2>1 DEF HeldArgs
      <4>2. HeldArgs(dialect, n, new) = s
        BY <1>6, <1>10 DEF HeldArgs
      <4>3. <<>> \o s = s
        OBVIOUS
      <4> QED
        BY <3>2, <4>1, <4>2, <4>3
    <3>4. Indexes(index, Put(acc.buffers, e), Held(dialect, Append(front, new)))
      BY <1>2, <1>3, <1>6, <2>1, <3>2, <3>3, MoreOfCall
    <3>5. PutAll(acc.buffers, c.deltas) = Put(acc.buffers, e)
      BY <1>11, <2>1, <3>1, <3>2, PutOne
    <3> QED
      BY <1>7, <3>4, <3>5
  <2>2. CASE ~ (m.kind = "call" /\ dialect = "responses")
    <3>1. PutAll(acc.buffers, c.deltas) = acc.buffers
      BY <1>11, <2>2, PutNone
    <3>2. m.kind = "call" => HeldArgs(dialect, n, new) = HeldArgs(dialect, n, m)
      BY <1>6, <2>2 DEF HeldArgs
    <3>3. Held(dialect, Append(front, new)) = Held(dialect, Append(front, m))
      BY <1>2, <1>6, <3>2, SameHeld
    <3> QED
      BY <1>2, <1>3, <1>7, <3>1, <3>3
  <2> QED
    BY <2>1, <2>2
<1>16. /\ SaidOf(n, new, TextKinds(dialect)) = SaidOf(n, m, TextKinds(dialect)) \o c.text
       /\ SaidOf(n, new, ThoughtKinds(dialect)) = SaidOf(n, m, ThoughtKinds(dialect)) \o c.reasoning
  BY <1>11, <1>14
<1>17. ending' = "none"
  BY <1>1, <1>2
<1> QED
  BY <1>1, <1>2, <1>3, <1>6, <1>7, <1>9, <1>11, <1>13, <1>15, <1>16, <1>17, Replaced

-----------------------------------------------------------------------------
(* A chunk of Gemini. *)

\* One list, and two, flattened.
LEMMA FlattenFew ==
  ASSUME NEW M, NEW s \in Seq(Seq(M))
  PROVE  /\ Len(s) = 1 => FlattenSeq(s) = s[1]
         /\ Len(s) = 2 => FlattenSeq(s) = s[1] \o s[2]
<1>1. CASE s = <<>>
  BY <1>1
<1>2. CASE s # <<>>
  <2>1. PICK f \in [1 .. Len(s) -> Seq(M)] :
          /\ f[1] = s[1]
          /\ \A i \in 2 .. Len(s) : f[i] = f[i - 1] \o s[i]
          /\ FlattenSeq(s) = f[Len(s)]
    BY <1>2, Flattens
  <2>2. CASE Len(s) = 1
    BY <2>1, <2>2
  <2>3. CASE Len(s) = 2
    <3>1. 2 \in 2 .. Len(s) /\ 2 - 1 = 1
      BY <2>3
    <3>2. f[2] = f[2 - 1] \o s[2]
      BY <2>1, <3>1
    <3> QED
      BY <2>1, <2>3, <3>1, <3>2
  <2> QED
    BY <2>2, <2>3
<1> QED
  BY <1>1, <1>2

DeltaOf(index, b, m) == IF m.kind = "call" THEN <<Delta(index, b, Pieces(b, m.pieces))>> ELSE <<>>

\* A part is a complete block.
LEMMA PartIsBlock ==
  ASSUME NEW m \in Part
  PROVE  m \in Block /\ m.open = FALSE /\ m.kind \in Kinds /\ m.pieces \in Nat
<1>1. m.kind \in Kinds /\ m.pieces \in 0 .. 1 /\ m.open = FALSE
  BY DEF Part
<1>2. m = [kind |-> m.kind, pieces |-> m.pieces, open |-> m.open]
  BY DEF Part
<1>3. m.pieces \in Nat
  BY <1>1
<1>4. m.open \in BOOLEAN
  BY <1>1, Zenon
<1> QED
  BY <1>1, <1>2, <1>3, <1>4 DEF Block

\* The delta of a part is typed.
LEMMA DeltaTypes ==
  ASSUME NEW index \in Nat, NEW b \in Nat, NEW m \in Block
  PROVE  Delta(index, b, Pieces(b, m.pieces)) \in Added /\ DeltaOf(index, b, m) \in Seq(Added)
<1>1. m.pieces \in Nat
  BY DEF Block
<1>2. Pieces(b, m.pieces) \in Seq(Piece)
  BY <1>1, PiecesType
<1>3. PICK e : e = Delta(index, b, Pieces(b, m.pieces))
  OBVIOUS
<1>4. e \in Added
  BY <1>2, <1>3 DEF Delta, Added
<1>5. DeltaOf(index, b, m) = IF m.kind = "call" THEN <<e>> ELSE <<>>
  BY <1>3 DEF DeltaOf
<1> QED
  BY <1>3, <1>4, <1>5

\* A chunk of Gemini tells the parts one after the other.
TellsOne(c, n, p) ==
  /\ c.text = SaidOf(n + 1, p, {"text"}) /\ c.reasoning = SaidOf(n + 1, p, {"thought"})
  /\ c.deltas = DeltaOf(0, n + 1, p)

TellsTwo(c, n, p, q) ==
  /\ c.text = SaidOf(n + 1, p, {"text"}) \o SaidOf(n + 2, q, {"text"})
  /\ c.reasoning = SaidOf(n + 1, p, {"thought"}) \o SaidOf(n + 2, q, {"thought"})
  /\ c.deltas = DeltaOf(0, n + 1, p) \o DeltaOf(1, n + 2, q)

\* So it does, for one part and for two.
LEMMA PartsChunk ==
  ASSUME NEW n \in Nat, NEW k \in 1 .. 2, NEW parts \in [1 .. k -> Part], NEW c, c = GeminiChunk(n, parts)
  PROVE  /\ k = 1 => TellsOne(c, n, parts[1])
         /\ k = 2 => TellsTwo(c, n, parts[1], parts[2])
<1>1. \A i \in 1 .. k : parts[i] \in Block /\ parts[i].pieces \in Nat /\ n + i \in Nat /\ i - 1 \in Nat
  <2>1. \A i \in 1 .. k : parts[i] \in Part
    OBVIOUS
  <2>2. \A i \in 1 .. k : n + i \in Nat /\ i - 1 \in Nat
    OBVIOUS
  <2> QED
    BY <2>1, <2>2, PartIsBlock
<1>2. DOMAIN parts = 1 .. k
  OBVIOUS
<1>3. PICK t : t = [i \in 1 .. k |-> SaidOf(n + i, parts[i], {"text"})]
  OBVIOUS
<1>4. PICK r : r = [i \in 1 .. k |-> SaidOf(n + i, parts[i], {"thought"})]
  OBVIOUS
<1>5. PICK d : d = [i \in 1 .. k |-> DeltaOf(i - 1, n + i, parts[i])]
  OBVIOUS
<1>6. \A i \in 1 .. k : Pieces(n + i, parts[i].pieces) \in Seq(Piece)
  BY <1>1, PiecesType
<1>7. <<>> \in Seq(Piece)
  OBVIOUS
<1>8. t \in Seq(Seq(Piece)) /\ Len(t) = k /\ r \in Seq(Seq(Piece)) /\ Len(r) = k
  <2>1. \A i \in 1 .. k : t[i] \in Seq(Piece) /\ r[i] \in Seq(Piece)
    BY <1>3, <1>4, <1>6, <1>7 DEF SaidOf
  <2>2. t \in [1 .. k -> Seq(Piece)] /\ r \in [1 .. k -> Seq(Piece)]
    BY <1>3, <1>4, <2>1
  <2> QED
    BY <2>2
<1>9. d \in Seq(Seq(Added)) /\ Len(d) = k
  <2>1. \A i \in 1 .. k : d[i] \in Seq(Added)
    BY <1>1, <1>5, DeltaTypes
  <2>2. d \in [1 .. k -> Seq(Added)]
    BY <1>5, <2>1
  <2> QED
    BY <2>2
<1>10. c.text = FlattenSeq(t)
  <2>1. [i \in DOMAIN parts |-> IF parts[i].kind = "text" THEN Pieces(n + i, parts[i].pieces) ELSE <<>>] = t
    BY <1>2, <1>3 DEF SaidOf
  <2> QED
    BY <2>1 DEF GeminiChunk, Nothing
<1>11. c.reasoning = FlattenSeq(r)
  <2>1. [i \in DOMAIN parts |-> IF parts[i].kind = "thought" THEN Pieces(n + i, parts[i].pieces) ELSE <<>>] = r
    BY <1>2, <1>4 DEF SaidOf
  <2> QED
    BY <2>1 DEF GeminiChunk, Nothing
<1>12. c.deltas = FlattenSeq(d)
  <2>1. [i \in DOMAIN parts |-> IF parts[i].kind # "call" THEN <<>>
                                ELSE <<Delta(i - 1, n + i, Pieces(n + i, parts[i].pieces))>>] = d
    BY <1>2, <1>5 DEF DeltaOf
  <2> QED
    BY <2>1 DEF GeminiChunk, Nothing
<1>13. ASSUME k = 1
       PROVE  FlattenSeq(t) = t[1] /\ FlattenSeq(r) = r[1] /\ FlattenSeq(d) = d[1]
  BY <1>8, <1>9, <1>13, FlattenFew
<1>14. ASSUME k = 2
       PROVE  FlattenSeq(t) = t[1] \o t[2] /\ FlattenSeq(r) = r[1] \o r[2] /\ FlattenSeq(d) = d[1] \o d[2]
  BY <1>8, <1>9, <1>14, FlattenFew
<1>15. t[1] = SaidOf(n + 1, parts[1], {"text"}) /\ r[1] = SaidOf(n + 1, parts[1], {"thought"})
       /\ d[1] = DeltaOf(0, n + 1, parts[1])
  BY <1>3, <1>4, <1>5
<1>16. k = 2 => /\ t[2] = SaidOf(n + 2, parts[2], {"text"}) /\ r[2] = SaidOf(n + 2, parts[2], {"thought"})
                /\ d[2] = DeltaOf(1, n + 2, parts[2])
  BY <1>3, <1>4, <1>5
<1> QED
  BY <1>10, <1>11, <1>12, <1>13, <1>14, <1>15, <1>16 DEF TellsOne, TellsTwo

\* The buffers after the call of a part, if it is one, came beyond those before it.
PlacedNext(blocks, buffers, x, n, m) ==
  /\ \E more : Indexes(more, PutAll(buffers, DeltaOf(x, n, m)), Held("gemini", Append(blocks, m)))
  /\ \A i \in DOMAIN PutAll(buffers, DeltaOf(x, n, m)) :
       i \in DOMAIN buffers \/ (i = x /\ m.kind = "call")

\* The call of a part that comes beyond those before it is placed next.
LEMMA PartPlaced ==
  ASSUME NEW blocks \in Seq(Block), NEW m \in Block, m.open = FALSE,
         NEW index, NEW buffers, Indexes(index, buffers, Held("gemini", blocks)),
         NEW x \in Nat, m.kind = "call" => \A i \in DOMAIN buffers : i < x,
         NEW n \in Nat, n = Len(blocks) + 1
  PROVE  PlacedNext(blocks, buffers, x, n, m)
<1>1. CASE m.kind # "call"
  <2>1. PutAll(buffers, DeltaOf(x, n, m)) = buffers
    BY <1>1, PutNone DEF DeltaOf
  <2>2. Held("gemini", Append(blocks, m)) = Held("gemini", blocks)
    BY <1>1, HeldAppend
  <2> QED
    BY <2>1, <2>2 DEF PlacedNext
<1>2. CASE m.kind = "call"
  <2>1. PICK e : e = Delta(x, n, Pieces(n, m.pieces))
    OBVIOUS
  <2>2. e \in Added /\ e.index = x
    BY <2>1, DeltaTypes DEF Delta
  <2>3. PutAll(buffers, DeltaOf(x, n, m)) = Put(buffers, e)
    BY <1>2, <2>1, <2>2, PutOne DEF DeltaOf
  <2>4. HeldArgs("gemini", n, m) = Pieces(n, m.pieces)
    BY DEF HeldArgs
  <2>5. Indexes(Append(index, x), Put(buffers, e), Held("gemini", Append(blocks, m)))
    BY <1>2, <2>1, <2>4, NextCall
  <2>6. DOMAIN Put(buffers, e) = DOMAIN buffers \cup {x}
    BY <2>2, PutIs DEF PutRight
  <2> QED
    BY <1>2, <2>3, <2>5, <2>6 DEF PlacedNext
<1> QED
  BY <1>1, <1>2

\* Two lists of one element.
LEMMA Pair ==
  ASSUME NEW S, NEW d \in S, NEW e \in S
  PROVE  <<d>> \o <<e>> = <<d, e>>
<1>1. PICK s : s = <<d>>
  OBVIOUS
<1>2. PICK t : t = <<e>>
  OBVIOUS
<1>3. PICK u : u = <<d, e>>
  OBVIOUS
<1>4. s \in Seq(S) /\ Len(s) = 1 /\ s[1] = d /\ t \in Seq(S) /\ Len(t) = 1 /\ t[1] = e
  BY <1>1, <1>2
<1>5. u \in Seq(S) /\ Len(u) = 2 /\ u[1] = d /\ u[2] = e
  BY <1>3
<1>6. PICK j : j = s \o t
  OBVIOUS
<1>7. /\ j \in Seq(S) /\ Len(j) = Len(s) + Len(t)
      /\ \A i \in 1 .. Len(s) + Len(t) : j[i] = IF i <= Len(s) THEN s[i] ELSE t[i - Len(s)]
  BY <1>4, <1>6, ConcatProperties, Zenon
<1>8. \A i \in 1 .. 2 : j[i] = u[i]
  BY <1>4, <1>5, <1>7
<1>9. j = u
  BY <1>4, <1>5, <1>7, <1>8, SeqEqual
<1> QED
  BY <1>1, <1>2, <1>3, <1>6, <1>9

\* The deltas of two parts are taken in one after the other.
LEMMA PutParts ==
  ASSUME NEW buffers, NEW m \in Block, NEW k \in Block, NEW x \in Nat, NEW y \in Nat, NEW a \in Nat, NEW b \in Nat
  PROVE  PutAll(buffers, DeltaOf(x, a, m) \o DeltaOf(y, b, k)) =
           PutAll(PutAll(buffers, DeltaOf(x, a, m)), DeltaOf(y, b, k))
<1>1. PICK d \in Added : d = Delta(x, a, Pieces(a, m.pieces))
  BY DeltaTypes
<1>2. PICK e \in Added : e = Delta(y, b, Pieces(b, k.pieces))
  BY DeltaTypes
<1>3. DeltaOf(x, a, m) = IF m.kind = "call" THEN <<d>> ELSE <<>>
  BY <1>1 DEF DeltaOf
<1>4. DeltaOf(y, b, k) = IF k.kind = "call" THEN <<e>> ELSE <<>>
  BY <1>2 DEF DeltaOf
<1>5. <<d>> \o <<e>> = <<d, e>> /\ <<d>> \o <<>> = <<d>> /\ <<>> \o <<e>> = <<e>> /\ <<>> \o <<>> = <<>>
  <2>1. PICK s, t : s = <<d>> /\ t = <<e>>
    OBVIOUS
  <2>2. s \in Seq(Added) /\ t \in Seq(Added) /\ <<>> \in Seq(Added)
    BY <2>1
  <2>3. s \o <<>> = s /\ <<>> \o t = t /\ <<>> \o <<>> = <<>>
    BY <2>2, ConcatEmptySeq
  <2>4. s \o t = <<d, e>>
    BY <2>1, Pair
  <2> QED
    BY <2>1, <2>3, <2>4
<1>6. \A f : PutAll(f, <<>>) = f /\ PutAll(f, <<d>>) = Put(f, d) /\ PutAll(f, <<e>>) = Put(f, e)
  BY PutNone, PutOne
<1>7. PutAll(buffers, <<d, e>>) = Put(Put(buffers, d), e)
  BY PutTwo
<1>8. CASE m.kind = "call" /\ k.kind = "call"
  BY <1>3, <1>4, <1>5, <1>6, <1>7, <1>8
<1>9. CASE m.kind = "call" /\ k.kind # "call"
  BY <1>3, <1>4, <1>5, <1>6, <1>9
<1>10. CASE m.kind # "call" /\ k.kind = "call"
  BY <1>3, <1>4, <1>5, <1>6, <1>10
<1>11. CASE m.kind # "call" /\ k.kind # "call"
  BY <1>3, <1>4, <1>5, <1>6, <1>11
<1> QED
  BY <1>8, <1>9, <1>10, <1>11

\* What a joined list holds.
LEMMA InJoined ==
  ASSUME NEW S, NEW x \in Seq(S), NEW y \in Seq(S), NEW d, NEW e
  PROVE  /\ x = <<d>> => d \in Range(x \o y)
         /\ y = <<e>> => e \in Range(x \o y)
<1>1. PICK j : j = x \o y
  OBVIOUS
<1>2. PICK m \in Nat, n \in Nat : m = Len(x) /\ n = Len(y)
  BY LenProperties
<1>3. /\ j \in Seq(S) /\ Len(j) = m + n
      /\ \A i \in 1 .. m + n : j[i] = IF i <= m THEN x[i] ELSE y[i - m]
  BY <1>1, <1>2, ConcatProperties, Zenon
<1>4. DOMAIN j = 1 .. m + n
  BY <1>2, <1>3
<1>5. ASSUME x = <<d>> PROVE d \in Range(j)
  <2>1. m = 1 /\ x[1] = d
    BY <1>2, <1>5
  <2>2. 1 \in DOMAIN j /\ j[1] = d
    BY <1>2, <1>3, <1>4, <2>1
  <2> QED
    BY <2>2 DEF Range
<1>6. ASSUME y = <<e>> PROVE e \in Range(j)
  <2>1. n = 1 /\ y[1] = e
    BY <1>2, <1>6
  <2>2. m + 1 \in DOMAIN j /\ j[m + 1] = e
    BY <1>2, <1>3, <1>4, <2>1
  <2> QED
    BY <2>2 DEF Range
<1> QED
  BY <1>1, <1>5, <1>6
\* A function on 1 .. n is a list.
LEMMA ShortList ==
  ASSUME NEW S, NEW n \in Nat, NEW f \in [1 .. n -> S]
  PROVE  f \in Seq(S) /\ Len(f) = n
<1> QED
  OBVIOUS

\* A chunk makes one block or two.
LEMMA JoinParts ==
  ASSUME NEW blocks \in Seq(Block), NEW k \in 1 .. 2, NEW parts \in [1 .. k -> Part]
  PROVE  blocks \o parts = IF k = 1 THEN Append(blocks, parts[1])
                           ELSE Append(Append(blocks, parts[1]), parts[2])
<1>1. PICK p \in Block : p = parts[1]
  <2>1. parts[1] \in Part
    OBVIOUS
  <2> QED
    BY <2>1, PartIsBlock
<1>2. CASE k = 1
  <2>1. PICK s : s = <<p>>
    OBVIOUS
  <2>2. s \in Seq(Block) /\ Len(s) = 1 /\ s[1] = p
    BY <2>1
  <2>3. parts \in Seq(Block) /\ Len(parts) = 1
    <3>1. \A i \in 1 .. 1 : parts[i] \in Block
      BY <1>1, <1>2
    <3>2. parts \in [1 .. 1 -> Block]
      BY <1>2, <3>1
    <3>3. 1 \in Nat
      OBVIOUS
    <3> QED
      BY <3>2, <3>3, ShortList, Zenon
  <2>4. parts = s
    <3>1. \A i \in 1 .. 1 : parts[i] = s[i]
      BY <1>1, <2>2
    <3> QED
      BY <2>2, <2>3, <3>1, SeqEqual
  <2>5. blocks \o <<p>> = Append(blocks, p)
    BY AppendIsConcat, Zenon
  <2> QED
    BY <1>1, <1>2, <2>1, <2>4, <2>5
<1>3. CASE k = 2
  <2>1. PICK q \in Block : q = parts[2]
    BY <1>3, PartIsBlock
  <2>2. PICK s : s = <<p, q>>
    OBVIOUS
  <2>3. s \in Seq(Block) /\ Len(s) = 2 /\ s[1] = p /\ s[2] = q
    BY <2>2
  <2>4. \A i \in 1 .. 2 : i = 1 \/ i = 2
    OBVIOUS
  <2>5. \A i \in 1 .. 2 : parts[i] = s[i]
    BY <1>1, <2>1, <2>3, <2>4
  <2>6. parts \in Seq(Block) /\ Len(parts) = 2
    <3>1. \A i \in 1 .. 2 : parts[i] \in Block
      BY <2>3, <2>5
    <3>2. parts \in [1 .. 2 -> Block]
      BY <1>3, <3>1
    <3>3. 2 \in Nat
      OBVIOUS
    <3> QED
      BY <3>2, <3>3, ShortList, Zenon
  <2>7. parts = s
    BY <2>3, <2>5, <2>6, SeqEqual
  <2>8. <<p>> \o <<q>> = <<p, q>>
    BY Pair
  <2>9. Append(blocks, p) = blocks \o <<p>> /\ Append(Append(blocks, p), q) = Append(blocks, p) \o <<q>>
    <3>1. Append(blocks, p) \in Seq(Block)
      OBVIOUS
    <3> QED
      BY <3>1, AppendIsConcat, Zenon
  <2>10. Regroups(blocks, <<p>>, <<q>>)
    <3>1. <<p>> \in Seq(Block) /\ <<q>> \in Seq(Block)
      OBVIOUS
    <3> QED
      BY <3>1, Regrouped
  <2> QED
    BY <1>1, <1>3, <2>1, <2>2, <2>7, <2>8, <2>9, <2>10 DEF Regroups
<1> QED
  BY <1>2, <1>3

\* What remains to be shown of the last chunk of a stream and of a chunk of Gemini.
LEMMA Chunked ==
  ASSUME StreamInv, ending = "none", dialect' = dialect, NEW c, Consume(c),
         ending' \in {"none", "whole", "cut"}, ending' = "none" => c.finish = "none",
         Sound(dialect, made', acc', misplaced'),
         ending' = "whole" /\ dialect # "gemini" /\ ToolCalls' # <<>> => c.finish = "tool_calls"
  PROVE  StreamInv'
<1>1. acc.finish = "none" /\ acc.told = FALSE /\ announced = <<>>
  BY DEF StreamInv, Quiet
<1>2. /\ acc'.finish = c.finish
      /\ c.finish = "none" => acc'.told = FALSE /\ announced' = <<>>
      /\ c.finish = "tool_calls" /\ DOMAIN acc'.buffers # {} =>
           announced' = <<BuildToolCalls(acc'.buffers)>>
  BY <1>1, Consumed
<1>3. Quiet'
  BY <1>2 DEF Quiet
<1>4. ToolCalls' = BuildToolCalls(acc'.buffers)
  BY DEF ToolCalls
<1>5. DOMAIN acc'.buffers = {} => ToolCalls' = <<>>
  BY <1>4, BuildNone
<1>6. AnnouncedOnce'
  <2> SUFFICES ASSUME ending' \in {"whole", "cut", "broken"}, ToolCalls' # <<>>,
                      acc'.finish = "tool_calls" \/ (ending' = "whole" /\ dialect' # "gemini")
               PROVE  announced' = <<ToolCalls'>>
    BY DEF AnnouncedOnce
  <2>1. c.finish = "tool_calls"
    BY <1>2
  <2> QED
    BY <1>2, <1>4, <1>5, <2>1
<1> QED
  BY <1>3, <1>6 DEF StreamInv

\* A part of Gemini is told whole.
LEMMA PartTold ==
  ASSUME NEW blocks \in Seq(Block), NEW m \in Block, NEW text, NEW reasoning,
         Folded("gemini", blocks, text, reasoning), NEW n \in Nat, n = Len(blocks) + 1
  PROVE  /\ Folded("gemini", Append(blocks, m), text \o SaidOf(n, m, {"text"}),
                   reasoning \o SaidOf(n, m, {"thought"}))
         /\ text \in Seq(Piece) /\ reasoning \in Seq(Piece)
         /\ SaidOf(n, m, {"text"}) \in Seq(Piece) /\ SaidOf(n, m, {"thought"}) \in Seq(Piece)
<1>1. TextKinds("gemini") = {"text"} /\ ThoughtKinds("gemini") = {"thought"}
  BY DEF TextKinds, ThoughtKinds
<1>2. /\ Said(blocks, TextKinds("gemini")) \in Seq(Piece) /\ Reasoned("gemini", blocks) \in Seq(Piece)
      /\ Said(Append(blocks, m), TextKinds("gemini")) =
           Said(blocks, TextKinds("gemini")) \o SaidOf(n, m, TextKinds("gemini"))
      /\ Reasoned("gemini", Append(blocks, m)) =
           Reasoned("gemini", blocks) \o SaidOf(n, m, ThoughtKinds("gemini"))
      /\ SaidOf(n, m, TextKinds("gemini")) \in Seq(Piece)
      /\ SaidOf(n, m, ThoughtKinds("gemini")) \in Seq(Piece)
  BY SaidMore
<1> QED
  BY <1>1, <1>2 DEF Folded

\* A chunk of Gemini arrives.
LEMMA PartsKeeps ==
  ASSUME StreamInv, NEW k \in 1 .. 2, NEW parts \in [1 .. k -> Part],
         NEW how \in {"none", "whole", "cut"}, Parts(parts, how)
  PROVE  StreamInv'
<1>1. PICK chunk : chunk = GeminiChunk(Len(made), parts)
  OBVIOUS
<1>2. PICK finish : finish = IF how = "none" THEN "none" ELSE FinishOf(how, chunk)
  OBVIOUS
<1>3. PICK c : c = [chunk EXCEPT !.finish = finish]
  OBVIOUS
<1>4. /\ ending = "none" /\ dialect = "gemini" /\ dialect' = dialect
      /\ made' = made \o parts /\ Consume(c) /\ ending' = how
      /\ misplaced' = (misplaced \/ \E d \in Range(chunk.deltas), i \in DOMAIN acc.buffers : d.index <= i)
  BY <1>1, <1>2, <1>3 DEF Parts, Streaming
<1>5. /\ c.text = chunk.text /\ c.reasoning = chunk.reasoning /\ c.deltas = chunk.deltas
      /\ c.finish = finish
  BY <1>1, <1>3 DEF GeminiChunk, Nothing
<1>6. /\ made \in Seq(Block) /\ Folded("gemini", made, acc.text, acc.reasoning)
      /\ misplaced \in BOOLEAN
      /\ ~ misplaced => Buffered("gemini", made, acc.buffers)
      /\ acc.finish = "none" /\ acc.told = FALSE /\ announced = <<>>
      /\ \A b \in DOMAIN made : made[b].open = FALSE
  <2>1. \A b \in DOMAIN made : made[b] \in Block
    BY DEF StreamInv, Sound
  <2>2. \A b \in DOMAIN made : made[b].open \in BOOLEAN
    BY <2>1 DEF Block
  <2> QED
    BY <1>4, <2>2 DEF StreamInv, Sound, Quiet
<1>7. PICK n \in Nat : n = Len(made)
  BY <1>6, LenProperties
<1>8. PICK p \in Block : p = parts[1] /\ p.open = FALSE
  <2>1. parts[1] \in Part
    OBVIOUS
  <2> QED
    BY <2>1, PartIsBlock
<1>9. PICK one \in Seq(Block) : one = Append(made, p) /\ Len(one) = n + 1
  <2>1. Append(made, p) \in Seq(Block) /\ Len(Append(made, p)) = Len(made) + 1
    BY <1>6
  <2> QED
    BY <1>7, <2>1
<1>10. /\ acc'.text = acc.text \o chunk.text /\ acc'.reasoning = acc.reasoning \o chunk.reasoning
       /\ acc'.buffers = PutAll(acc.buffers, chunk.deltas)
  BY <1>4, <1>5, <1>6, Consumed
<1>11. PICK t \in Seq(Piece), r \in Seq(Piece) :
         t = SaidOf(n + 1, p, {"text"}) /\ r = SaidOf(n + 1, p, {"thought"})
  BY <1>6, <1>7, PartTold
<1>12. Folded("gemini", one, acc.text \o t, acc.reasoning \o r)
       /\ acc.text \in Seq(Piece) /\ acc.reasoning \in Seq(Piece)
  BY <1>6, <1>7, <1>9, <1>11, PartTold
<1>13. ASSUME ~ misplaced'
       PROVE  /\ ~ misplaced
              /\ \A d \in Range(chunk.deltas), i \in DOMAIN acc.buffers : ~ (d.index <= i)
  BY <1>4, <1>13
<1>14. ASSUME ~ misplaced
       PROVE  \E index : Indexes(index, acc.buffers, Held("gemini", made)) /\ DOMAIN acc.buffers \subseteq Nat
  <2>1. PICK index : Indexes(index, acc.buffers, Held("gemini", made))
    BY <1>6, <1>14 DEF Buffered
  <2>2. DOMAIN acc.buffers \subseteq Nat
    BY <2>1 DEF Indexes
  <2> QED
    BY <2>1, <2>2
<1>15. ASSUME k = 1
       PROVE  Sound(dialect, made', acc', misplaced')
  <2>1. made' = one
    BY <1>4, <1>6, <1>8, <1>9, <1>15, JoinParts
  <2>2. chunk.text = t /\ chunk.reasoning = r /\ chunk.deltas = DeltaOf(0, n + 1, p)
    <3>1. chunk = GeminiChunk(n, parts)
      BY <1>1, <1>7
    <3>2. TellsOne(chunk, n, parts[1])
      BY <1>15, <3>1, PartsChunk
    <3> QED
      BY <1>8, <1>11, <3>2 DEF TellsOne
  <2>3. Folded(dialect, made', acc'.text, acc'.reasoning)
    BY <1>4, <1>10, <1>12, <2>1, <2>2
  <2>4. ASSUME ~ misplaced' PROVE Buffered(dialect, made', acc'.buffers)
    <3>1. PICK index : Indexes(index, acc.buffers, Held("gemini", made)) /\ DOMAIN acc.buffers \subseteq Nat
      BY <1>13, <1>14, <2>4
    <3>2. p.kind = "call" => \A i \in DOMAIN acc.buffers : i < 0
      <4>1. SUFFICES ASSUME p.kind = "call", NEW i \in DOMAIN acc.buffers PROVE i < 0
        OBVIOUS
      <4>2. PICK d : d = Delta(0, n + 1, Pieces(n + 1, p.pieces))
        OBVIOUS
      <4>3. d.index = 0 /\ chunk.deltas = <<d>>
        BY <2>2, <4>1, <4>2 DEF Delta, DeltaOf
      <4>4. d \in Range(chunk.deltas)
        BY <4>3 DEF Range
      <4> QED
        BY <1>13, <2>4, <3>1, <4>3, <4>4
    <3>3. n + 1 \in Nat /\ 0 \in Nat
      OBVIOUS
    <3>4. \E more : Indexes(more, PutAll(acc.buffers, DeltaOf(0, n + 1, p)), Held("gemini", one))
      <4>1. n + 1 \in Nat /\ n + 1 = Len(made) + 1 /\ 0 \in Nat /\ one = Append(made, p) /\ p.open = FALSE
        BY <1>7, <1>8, <1>9
      <4> QED
        BY <1>6, <3>1, <3>2, <4>1, PartPlaced DEF PlacedNext
    <3> QED
      BY <1>4, <1>10, <2>1, <2>2, <3>4 DEF Buffered
  <2>5. misplaced' \in BOOLEAN
    BY <1>4, <1>6
  <2>6. \A b \in DOMAIN made' : made'[b].open = FALSE
    <3>1. \A b \in DOMAIN one : b = n + 1 \/ (b \in DOMAIN made /\ one[b] = made[b])
      BY <1>6, <1>7, <1>9
    <3>2. one[n + 1] = p
      BY <1>6, <1>7, <1>9
    <3> QED
      BY <1>6, <1>8, <2>1, <3>1, <3>2
  <2> QED
    BY <1>4, <1>9, <2>1, <2>3, <2>4, <2>5, <2>6 DEF Sound
<1>16. ASSUME k = 2
       PROVE  Sound(dialect, made', acc', misplaced')
  <2>1. PICK q \in Block : q = parts[2] /\ q.open = FALSE
    <3>1. parts[2] \in Part
      BY <1>16
    <3> QED
      BY <3>1, PartIsBlock
  <2>2. made' = Append(one, q)
    BY <1>4, <1>6, <1>8, <1>9, <1>16, <2>1, JoinParts
  <2>3. PICK u \in Seq(Piece), v \in Seq(Piece) :
          u = SaidOf(n + 2, q, {"text"}) /\ v = SaidOf(n + 2, q, {"thought"})
    <3>1. n + 2 \in Nat /\ n + 2 = Len(one) + 1
      BY <1>9
    <3> QED
      BY <1>9, <1>12, <3>1, PartTold
  <2>4. /\ chunk.text = t \o u /\ chunk.reasoning = r \o v
        /\ chunk.deltas = DeltaOf(0, n + 1, p) \o DeltaOf(1, n + 2, q)
    <3>1. chunk = GeminiChunk(n, parts)
      BY <1>1, <1>7
    <3>2. TellsTwo(chunk, n, parts[1], parts[2])
      BY <1>16, <3>1, PartsChunk
    <3> QED
      BY <1>8, <1>11, <2>1, <2>3, <3>2 DEF TellsTwo
  <2>5. Folded(dialect, made', acc'.text, acc'.reasoning)
    <3>1. Folded("gemini", made', (acc.text \o t) \o u, (acc.reasoning \o r) \o v)
      <4>1. n + 2 \in Nat /\ n + 2 = Len(one) + 1
        BY <1>9
      <4> QED
        BY <1>9, <1>12, <2>2, <2>3, <4>1, PartTold
    <3>2. Regroups(acc.text, t, u) /\ Regroups(acc.reasoning, r, v)
      BY <1>12, Regrouped
    <3> QED
      BY <1>4, <1>10, <2>4, <3>1, <3>2 DEF Regroups
  <2>6. ASSUME ~ misplaced' PROVE Buffered(dialect, made', acc'.buffers)
    <3>1. PICK index : Indexes(index, acc.buffers, Held("gemini", made)) /\ DOMAIN acc.buffers \subseteq Nat
      BY <1>13, <1>14, <2>6
    <3>2. n + 1 \in Nat /\ 0 \in Nat /\ n + 2 \in Nat /\ 1 \in Nat /\ n + 2 = n + 1 + 1
      OBVIOUS
    <3>3. PICK d \in Added : d = Delta(0, n + 1, Pieces(n + 1, p.pieces)) /\ d.index = 0
      BY <3>2, DeltaTypes DEF Delta
    <3>4. PICK e \in Added : e = Delta(1, n + 2, Pieces(n + 2, q.pieces)) /\ e.index = 1
      BY <3>2, DeltaTypes DEF Delta
    <3>5. /\ p.kind = "call" => d \in Range(chunk.deltas)
          /\ q.kind = "call" => e \in Range(chunk.deltas)
      <4>1. PICK x \in Seq(Added) : x = DeltaOf(0, n + 1, p)
        BY <3>2, DeltaTypes
      <4>2. PICK y \in Seq(Added) : y = DeltaOf(1, n + 2, q)
        BY <3>2, DeltaTypes
      <4>3. (p.kind = "call" => x = <<d>>) /\ (q.kind = "call" => y = <<e>>)
        BY <3>3, <3>4, <4>1, <4>2 DEF DeltaOf
      <4>4. chunk.deltas = x \o y
        BY <2>4, <4>1, <4>2
      <4> QED
        BY <4>3, <4>4, InJoined
    <3>6. p.kind = "call" => \A i \in DOMAIN acc.buffers : i < 0
      BY <1>13, <2>6, <3>1, <3>3, <3>5
    <3>7. q.kind = "call" => \A i \in DOMAIN acc.buffers : i < 1
      BY <1>13, <2>6, <3>1, <3>4, <3>5
    <3>8. PICK buffers : buffers = PutAll(acc.buffers, DeltaOf(0, n + 1, p))
      OBVIOUS
    <3>9. /\ \E more : Indexes(more, buffers, Held("gemini", one))
          /\ \A i \in DOMAIN buffers : i \in DOMAIN acc.buffers \/ (i = 0 /\ p.kind = "call")
      <4>1. n + 1 \in Nat /\ n + 1 = Len(made) + 1 /\ 0 \in Nat /\ one = Append(made, p) /\ p.open = FALSE
        BY <1>7, <1>8, <1>9
      <4>2. PlacedNext(made, acc.buffers, 0, n + 1, p)
        BY <1>6, <3>1, <3>6, <4>1, PartPlaced
      <4> QED
        BY <3>8, <4>1, <4>2 DEF PlacedNext
    <3>10. PICK more : Indexes(more, buffers, Held("gemini", one))
      BY <3>9
    <3>11. q.kind = "call" => \A i \in DOMAIN buffers : i < 1
      BY <3>7, <3>9
    <3>12. \E m : Indexes(m, PutAll(buffers, DeltaOf(1, n + 2, q)), Held("gemini", Append(one, q)))
      <4>1. n + 2 \in Nat /\ n + 2 = Len(one) + 1 /\ 1 \in Nat
        BY <1>9
      <4>2. PlacedNext(one, buffers, 1, n + 2, q)
        BY <2>1, <3>10, <3>11, <4>1, PartPlaced
      <4> QED
        BY <4>2 DEF PlacedNext
    <3>13. acc'.buffers = PutAll(buffers, DeltaOf(1, n + 2, q))
      <4>1. n + 1 \in Nat /\ n + 2 \in Nat /\ 0 \in Nat /\ 1 \in Nat
        OBVIOUS
      <4>2. PutAll(acc.buffers, DeltaOf(0, n + 1, p) \o DeltaOf(1, n + 2, q)) =
              PutAll(PutAll(acc.buffers, DeltaOf(0, n + 1, p)), DeltaOf(1, n + 2, q))
        BY <4>1, PutParts
      <4> QED
        BY <1>10, <2>4, <3>8, <4>2
    <3> QED
      BY <1>4, <2>2, <3>12, <3>13 DEF Buffered
  <2>7. misplaced' \in BOOLEAN
    BY <1>4, <1>6
  <2>8. \A b \in DOMAIN made' : made'[b].open = FALSE
    <3>1. PICK two : two = Append(one, q)
      OBVIOUS
    <3>2. \A b \in DOMAIN two : b = n + 2 \/ (b \in DOMAIN one /\ two[b] = one[b])
      BY <1>9, <3>1
    <3>3. two[n + 2] = q
      BY <1>9, <3>1
    <3>4. \A b \in DOMAIN one : b = n + 1 \/ (b \in DOMAIN made /\ one[b] = made[b])
      BY <1>6, <1>7, <1>9
    <3>5. one[n + 1] = p
      BY <1>6, <1>7, <1>9
    <3>6. \A b \in DOMAIN one : one[b].open = FALSE
      BY <1>6, <1>8, <3>4, <3>5
    <3>7. \A b \in DOMAIN two : two[b].open = FALSE
      BY <2>1, <3>2, <3>3, <3>6
    <3> QED
      BY <2>2, <3>1, <3>7
  <2>9. made' \in Seq(Block)
    BY <2>2
  <2> QED
    BY <1>4, <2>5, <2>6, <2>7, <2>8, <2>9 DEF Sound
<1>17. Sound(dialect, made', acc', misplaced')
  BY <1>15, <1>16
<1> QED
  BY <1>2, <1>4, <1>5, <1>17, Chunked

\* The event with the finish reason arrives.
LEMMA FinishKeeps ==
  ASSUME StreamInv, NEW how \in {"whole", "cut"}, Finish(how)
  PROVE  StreamInv'
<1>1. PICK finish : finish = FinishOf(how, Nothing)
  OBVIOUS
<1>2. PICK c : c = [Nothing EXCEPT !.finish = finish]
  OBVIOUS
<1>3. /\ ending = "none" /\ dialect' = dialect /\ Consume(c) /\ ending' = how
      /\ made' = made /\ misplaced' = misplaced
  BY <1>1, <1>2 DEF Finish, Streaming
<1>4. c.text = <<>> /\ c.reasoning = <<>> /\ c.deltas = <<>> /\ c.finish = finish
  BY <1>2 DEF Nothing
<1>5. acc.finish = "none" /\ acc.told = FALSE /\ announced = <<>> /\ Sound(dialect, made, acc, misplaced)
  BY <1>3 DEF StreamInv, Quiet
<1>6. /\ acc'.text = acc.text \o <<>> /\ acc'.reasoning = acc.reasoning \o <<>>
      /\ acc'.buffers = PutAll(acc.buffers, <<>>)
  BY <1>3, <1>4, <1>5, Consumed
<1>7. acc'.buffers = acc.buffers
  BY <1>6, PutNone
<1>8. acc'.text = acc.text /\ acc'.reasoning = acc.reasoning
  <2>1. PICK t \in Seq(Piece), r \in Seq(Piece) : t = acc.text /\ r = acc.reasoning
    <3>1. PICK m : m \in Block
      <4>1. [kind |-> "text", pieces |-> 0, open |-> FALSE] \in Block
        BY DEF Block, Kinds
      <4> QED
        BY <4>1
    <3> QED
      BY <1>5, <3>1, SaidMore DEF Sound, Folded
  <2>2. t \o <<>> = t /\ r \o <<>> = r
    BY ConcatEmptySeq
  <2> QED
    BY <1>6, <2>1, <2>2
<1>9. Sound(dialect, made', acc', misplaced')
  BY <1>3, <1>5, <1>7, <1>8 DEF Sound
<1>10. ASSUME how = "whole", dialect # "gemini", ToolCalls' # <<>>
       PROVE  c.finish = "tool_calls"
  <2>1. ToolCalls' = ToolCalls
    BY <1>7 DEF ToolCalls
  <2>2. ~ misplaced
    BY <1>5, <1>10 DEF Sound
  <2>3. HasCalls
    BY <1>5, <1>10, <2>1, <2>2, SoundKeepsUp
  <2> QED
    BY <1>1, <1>4, <1>10, <2>3 DEF FinishOf
<1> QED
  BY <1>3, <1>9, <1>10, Chunked

\* The stream ends without one.
LEMMA BreakKeeps ==
  ASSUME StreamInv, NEW how \in {"broken", "failed"}, Break(how)
  PROVE  StreamInv'
<1>1. /\ ending = "none" /\ dialect' = dialect /\ ending' = how /\ made' = made /\ acc' = acc
      /\ announced' = announced /\ misplaced' = misplaced
  BY DEF Break, Streaming
<1>2. acc'.finish = "none"
  BY <1>1 DEF StreamInv, Quiet
<1>3. AnnouncedOnce'
  BY <1>1, <1>2 DEF AnnouncedOnce
<1>4. Quiet' /\ Sound(dialect, made', acc', misplaced')
  BY <1>1 DEF StreamInv, Quiet
<1> QED
  BY <1>1, <1>3, <1>4 DEF StreamInv

-----------------------------------------------------------------------------
(* The streams of a session. *)

\* Every step of a stream keeps its invariant.
LEMMA StreamKeeps ==
  ASSUME StreamInv, Next
  PROVE  StreamInv'
<1>1. CASE \E kind \in Kinds : Begin(kind)
  BY <1>1, BeginKeeps
<1>2. CASE Grow
  BY <1>2, GrowKeeps
<1>3. CASE Close
  BY <1>3, CloseKeeps
<1>4. CASE \E n \in 1 .. 2 : \E parts \in [1 .. n -> Part], how \in {"none", "whole", "cut"} : Parts(parts, how)
  BY <1>4, PartsKeeps
<1>5. CASE \E how \in {"whole", "cut"} : Finish(how)
  BY <1>5, FinishKeeps
<1>6. CASE \E how \in {"broken", "failed"} : Break(how)
  BY <1>6, BreakKeeps
<1> QED
  BY <1>1, <1>2, <1>3, <1>4, <1>5, <1>6 DEF Next

\* Nothing happens.
LEMMA StreamStutters ==
  ASSUME StreamInv, UNCHANGED vars
  PROVE  StreamInv'
<1>1. /\ dialect' = dialect /\ made' = made /\ ending' = ending /\ acc' = acc
      /\ announced' = announced /\ misplaced' = misplaced
  BY DEF vars
<1>2. Quiet' /\ AnnouncedOnce'
  BY <1>1 DEF StreamInv, Quiet, AnnouncedOnce, ToolCalls
<1>3. Sound(dialect, made', acc', misplaced')
  BY <1>1 DEF StreamInv
<1> QED
  BY <1>1, <1>2, <1>3 DEF StreamInv

\* A request begins a stream of its own.
LEMMA AskStarts ==
  ASSUME Ask
  PROVE  StreamInv'
<1>1. made' = <<>> /\ ending' = "none" /\ acc' = Fresh /\ announced' = <<>> /\ misplaced' = FALSE
  BY DEF Ask
<1>2. (made = <<>> /\ ending = "none" /\ acc = Fresh /\ announced = <<>> /\ misplaced = FALSE => StreamInv)'
  BY StreamStarts, PTL
<1>3. acc' = Fresh'
  BY <1>1 DEF Fresh
<1> QED
  BY <1>1, <1>2, <1>3

\* What StreamInv says of a stream is what StreamIsFaithful promises.
LEMMA StreamInvIsFaithful ==
  ASSUME StreamInv
  PROVE  StreamIsFaithful
<1>1. Sound(dialect, made, acc, misplaced) /\ AnnouncedOnce
  BY DEF StreamInv
<1> QED
  BY <1>1, SoundKeepsUp DEF StreamIsFaithful

\* Of the chats, every step keeps the invariant of the stream at hand.
LEMMA ExchangeKeeps ==
  ASSUME StreamInv, [ExchangeNext]_<<vars, chatVars>>
  PROVE  StreamInv'
<1>1. CASE Ask
  BY <1>1, AskStarts
<1>2. CASE StreamStep
  BY <1>2, StreamKeeps DEF StreamStep
<1>3. CASE GiveUp \/ TakeStream \/ TakeWhole \/ UNCHANGED <<vars, chatVars>>
  <2>1. UNCHANGED vars
    BY <1>3 DEF GiveUp, TakeStream, TakeWhole, vars
  <2> QED
    BY <2>1, StreamStutters
<1> QED
  BY <1>1, <1>2, <1>3 DEF ExchangeNext
-----------------------------------------------------------------------------
(* Lists that a function makes of the elements of a list. *)

\* A property of the empty list that every element more preserves is one of all lists.
LEMMA ByAppending ==
  ASSUME NEW A, NEW P, <<>> \in P,
         \A s \in Seq(A), x \in A : s \in P => Append(s, x) \in P
  PROVE  Seq(A) \subseteq P
<1> DEFINE T == {n \in Nat : \E s \in Seq(A) : Len(s) = n /\ s \notin P}
<1> SUFFICES ASSUME NEW t \in Seq(A), t \notin P PROVE FALSE
  OBVIOUS
<1>1. Len(t) \in T
  <2>1. Len(t) \in Nat
    BY LenProperties
  <2> QED
    BY <2>1
<1>2. PICK n \in T : \A k \in T : n <= k
  <2>1. T \subseteq Nat /\ T # {}
    BY <1>1
  <2> HIDE DEF T
  <2> QED
    BY <2>1, LeastNatural
<1>3. n \in Nat
  OBVIOUS
<1>4. PICK s \in Seq(A) : Len(s) = n /\ s \notin P
  OBVIOUS
<1>5. s # <<>>
  BY <1>4
<1>6. PICK front \in Seq(A), x \in A : s = Append(front, x) /\ Len(front) = Len(s) - 1
  BY <1>5, LastBlock
<1>7. front \notin P
  BY <1>4, <1>6
<1>8. Len(front) \in Nat
  BY LenProperties
<1>9. Len(front) \in T
  BY <1>7, <1>8
<1>10. Len(front) = n - 1
  BY <1>4, <1>6
<1> HIDE DEF T
<1>11. n <= n - 1
  BY <1>2, <1>9, <1>10
<1> QED
  BY <1>3, <1>11

\* A function over the elements of a list, each of which it makes a list of.
FlatMap(g, s) == FlattenSeq([i \in DOMAIN s |-> g[s[i]]])

\* The list made of every element.
LEMMA MadeOfEach ==
  ASSUME NEW A, NEW B, NEW g \in [A -> Seq(B)], NEW s \in Seq(A)
  PROVE  [i \in DOMAIN s |-> g[s[i]]] \in Seq(Seq(B))
<1>1. PICK n \in Nat : n = Len(s)
  BY LenProperties
<1>2. PICK f : f = [i \in DOMAIN s |-> g[s[i]]]
  OBVIOUS
<1>3. DOMAIN s = 1 .. n /\ \A i \in 1 .. n : s[i] \in A
  BY <1>1
<1>4. \A i \in 1 .. n : g[s[i]] \in Seq(B)
  BY <1>3
<1>5. f \in [1 .. n -> Seq(B)]
  BY <1>2, <1>3, <1>4
<1> QED
  BY <1>2, <1>5

\* Nothing is made of nothing.
LEMMA FlatMapNone ==
  ASSUME NEW g
  PROVE  FlatMap(g, <<>>) = <<>>
<1>1. [i \in DOMAIN <<>> |-> g[<<>>[i]]] = <<>>
  OBVIOUS
<1>2. FlattenSeq(<<>>) = <<>>
  BY DEF FlattenSeq
<1> QED
  BY <1>1, <1>2, Zenon DEF FlatMap

\* What is made of an element more.
FlatMapAdds(g, s, x) == FlatMap(g, Append(s, x)) = FlatMap(g, s) \o g[x]

\* One element more adds what is made of it.
LEMMA FlatMapAppend ==
  ASSUME NEW A, NEW B, NEW g \in [A -> Seq(B)], NEW s \in Seq(A), NEW x \in A
  PROVE  FlatMap(g, s) \in Seq(B) /\ FlatMapAdds(g, s, x)
<1>1. PICK n \in Nat : n = Len(s)
  BY LenProperties
<1>2. PICK f : f = [i \in DOMAIN s |-> g[s[i]]]
  OBVIOUS
<1>3. f \in Seq(Seq(B)) /\ DOMAIN f = 1 .. n
  BY <1>1, <1>2, MadeOfEach
<1>4. PICK t : t = Append(s, x)
  OBVIOUS
<1>5. DOMAIN t = 1 .. n + 1 /\ t[n + 1] = x /\ \A i \in 1 .. n : t[i] = s[i]
  BY <1>1, <1>4
<1>6. PICK h : h = [i \in DOMAIN t |-> g[t[i]]]
  OBVIOUS
<1>7. PICK y \in Seq(B) : y = g[x]
  OBVIOUS
<1>8. h = [i \in 1 .. n + 1 |-> IF i = n + 1 THEN y ELSE f[i]]
  <2>1. \A i \in 1 .. n + 1 : i # n + 1 => i \in 1 .. n
    OBVIOUS
  <2>2. DOMAIN s = 1 .. n
    BY <1>1
  <2> QED
    BY <1>2, <1>5, <1>6, <1>7, <2>1, <2>2
<1>9. h = Append(f, y)
  <2>1. n = Len(f)
    BY <1>3
  <2> QED
    BY <1>3, <1>8, <2>1, AppendIs, ZenonT(60)
<1>10. FlattenSeq(f) \in Seq(B) /\ FlattenSeq(Append(f, y)) = FlattenSeq(f) \o y
  BY <1>3, FlattenAppend
<1> QED
  BY <1>2, <1>4, <1>6, <1>7, <1>9, <1>10, Zenon DEF FlatMap, FlatMapAdds

\* What is made of a list is made of elements.
LEMMA FlatMapType ==
  ASSUME NEW A, NEW B, NEW g \in [A -> Seq(B)], NEW s \in Seq(A)
  PROVE  FlatMap(g, s) \in Seq(B)
<1>1. CASE s = <<>>
  <2>1. <<>> \in Seq(B)
    OBVIOUS
  <2> QED
    BY <1>1, <2>1, FlatMapNone
<1>2. CASE s # <<>>
  <2>1. PICK x : x \in A
    BY <1>2, LastBlock
  <2> QED
    BY <2>1, FlatMapAppend
<1> QED
  BY <1>1, <1>2

\* What is made of a single element.
LEMMA FlatMapOne ==
  ASSUME NEW A, NEW B, NEW g \in [A -> Seq(B)], NEW x \in A
  PROVE  FlatMap(g, <<x>>) = g[x]
<1>1. PICK none : none = <<>>
  OBVIOUS
<1>2. Append(none, x) = <<x>>
  BY <1>1
<1>3. none \in Seq(A)
  BY <1>1
<1>4. FlatMapAdds(g, none, x)
  BY <1>3, FlatMapAppend
<1>5. FlatMap(g, none) = <<>>
  BY <1>1, FlatMapNone
<1>6. PICK y \in Seq(B) : y = g[x]
  OBVIOUS
<1>7. <<>> \o y = y
  BY ConcatEmptySeq
<1> QED
  BY <1>2, <1>4, <1>5, <1>6, <1>7, Zenon DEF FlatMapAdds

\* What is made of two lists, one after the other.
FlatMapJoins(g, s, t) == FlatMap(g, s \o t) = FlatMap(g, s) \o FlatMap(g, t)

\* What is made of two lists is joined as they are.
LEMMA FlatMapConcat ==
  ASSUME NEW A, NEW B, NEW g \in [A -> Seq(B)], NEW s \in Seq(A), NEW t \in Seq(A)
  PROVE  FlatMapJoins(g, s, t)
<1> DEFINE P == {u \in Seq(A) : FlatMapJoins(g, s, u)}
<1>1. PICK m \in Seq(B) : m = FlatMap(g, s)
  BY FlatMapType
<1>2. <<>> \in P
  <2>1. s \o <<>> = s /\ m \o <<>> = m
    BY ConcatEmptySeq
  <2>2. FlatMapJoins(g, s, <<>>)
    BY <1>1, <2>1, FlatMapNone, Zenon DEF FlatMapJoins
  <2>3. <<>> \in Seq(A)
    OBVIOUS
  <2> QED
    BY <2>2, <2>3
<1>3. ASSUME NEW u \in Seq(A), NEW x \in A, u \in P PROVE Append(u, x) \in P
  <2>1. FlatMap(g, s \o u) = m \o FlatMap(g, u)
    BY <1>1, <1>3 DEF FlatMapJoins
  <2>2. PICK k \in Seq(B), y \in Seq(B) : k = FlatMap(g, u) /\ y = g[x]
    BY FlatMapType
  <2>3. PICK v \in Seq(A) : v = s \o u
    <3>1. s \o u \in Seq(A)
      BY ConcatProperties, Zenon
    <3> QED
      BY <3>1
  <2>4. FlatMapAdds(g, v, x) /\ FlatMapAdds(g, u, x)
    BY FlatMapAppend
  <2>5. s \o Append(u, x) = Append(v, x)
    <3>1. PICK o : o = <<x>>
      OBVIOUS
    <3>2. o \in Seq(A)
      BY <3>1
    <3>3. Regroups(s, u, o)
      BY <3>2, Regrouped
    <3>4. Append(u, x) = u \o o /\ Append(v, x) = v \o o
      BY <3>1, AppendIsConcat, Zenon
    <3> QED
      BY <2>3, <3>3, <3>4 DEF Regroups
  <2>6. Regroups(m, k, y)
    BY Regrouped
  <2>7. FlatMapJoins(g, s, Append(u, x))
    BY <1>1, <2>1, <2>2, <2>3, <2>4, <2>5, <2>6, Zenon DEF FlatMapAdds, FlatMapJoins, Regroups
  <2>8. Append(u, x) \in Seq(A)
    OBVIOUS
  <2> QED
    BY <2>7, <2>8
<1>4. t \in P
  <2> HIDE DEF P
  <2>1. Seq(A) \subseteq P
    BY <1>2, <1>3, ByAppending
  <2> QED
    BY <2>1
<1> QED
  BY <1>4

\* What is made of what was made.
MadeTwice(f, g, h, s) == FlatMap(f, FlatMap(g, s)) = FlatMap(h, s)

\* To make something of what is made of each is to make it of each.
LEMMA FlatMapTwice ==
  ASSUME NEW A, NEW B, NEW C, NEW g \in [A -> Seq(B)], NEW f \in [B -> Seq(C)],
         NEW h \in [A -> Seq(C)], \A x \in A : h[x] = FlatMap(f, g[x]),
         NEW s \in Seq(A)
  PROVE  MadeTwice(f, g, h, s)
<1> DEFINE P == {u \in Seq(A) : MadeTwice(f, g, h, u)}
<1>1. <<>> \in P
  <2>1. MadeTwice(f, g, h, <<>>)
    <3>1. FlatMap(g, <<>>) = <<>> /\ FlatMap(f, <<>>) = <<>> /\ FlatMap(h, <<>>) = <<>>
      BY FlatMapNone
    <3> QED
      BY <3>1 DEF MadeTwice
  <2>2. <<>> \in Seq(A)
    OBVIOUS
  <2> QED
    BY <2>1, <2>2
<1>2. ASSUME NEW u \in Seq(A), NEW x \in A, u \in P PROVE Append(u, x) \in P
  <2>1. PICK k \in Seq(B), y \in Seq(B) : k = FlatMap(g, u) /\ y = g[x]
    BY FlatMapType
  <2>2. FlatMap(f, k) = FlatMap(h, u) /\ FlatMap(f, y) = h[x]
    BY <1>2, <2>1 DEF MadeTwice
  <2>3. FlatMapAdds(g, u, x) /\ FlatMapAdds(h, u, x)
    BY FlatMapAppend
  <2>4. FlatMapJoins(f, k, y)
    BY FlatMapConcat
  <2>5. MadeTwice(f, g, h, Append(u, x))
    BY <2>1, <2>2, <2>3, <2>4, Zenon DEF FlatMapAdds, FlatMapJoins, MadeTwice
  <2>6. Append(u, x) \in Seq(A)
    OBVIOUS
  <2> QED
    BY <2>5, <2>6
<1>3. s \in P
  <2> HIDE DEF P
  <2>1. Seq(A) \subseteq P
    BY <1>1, <1>2, ByAppending
  <2> QED
    BY <2>1
<1> QED
  BY <1>3

\* One made of each.
Mapped(k, s) == [i \in DOMAIN s |-> k[s[i]]]

MapsInto(k, s, B) == Mapped(k, s) \in Seq(B) /\ Len(Mapped(k, s)) = Len(s)

\* A list that is mapped is a list of values, and as long.
LEMMA MappedType ==
  ASSUME NEW A, NEW B, NEW k \in [A -> B], NEW s \in Seq(A)
  PROVE  MapsInto(k, s, B)
<1>1. PICK n \in Nat : n = Len(s)
  BY LenProperties
<1>2. PICK f : f = Mapped(k, s)
  OBVIOUS
<1>3. DOMAIN s = 1 .. n /\ \A i \in 1 .. n : s[i] \in A
  BY <1>1
<1>4. f \in [1 .. n -> B]
  BY <1>2, <1>3 DEF Mapped
<1> QED
  BY <1>1, <1>2, <1>4 DEF MapsInto

\* It is a list of one that is made of each.
Singly(k, g, A) == \A x \in A : g[x] = <<k[x]>>
MappedAs(k, g, s) == Mapped(k, s) = FlatMap(g, s)

\* To map is to make a list of one of each.
LEMMA MappedIs ==
  ASSUME NEW A, NEW B, NEW k \in [A -> B], NEW g \in [A -> Seq(B)], Singly(k, g, A), NEW s \in Seq(A)
  PROVE  MappedAs(k, g, s)
<1> DEFINE P == {u \in Seq(A) : Mapped(k, u) = FlatMap(g, u)}
<1>1. <<>> \in P
  <2>1. Mapped(k, <<>>) = <<>>
    BY DEF Mapped
  <2>2. <<>> \in Seq(A)
    OBVIOUS
  <2> QED
    BY <2>1, <2>2, FlatMapNone
<1>2. ASSUME NEW u \in Seq(A), NEW x \in A, u \in P PROVE Append(u, x) \in P
  <2>1. PICK n \in Nat : n = Len(u)
    BY LenProperties
  <2>2. PICK m \in Seq(B) : m = Mapped(k, u) /\ Len(m) = n
    <3>1. MapsInto(k, u, B)
      BY MappedType
    <3> QED
      BY <2>1, <3>1 DEF MapsInto
  <2>3. PICK t : t = Append(u, x)
    OBVIOUS
  <2>4. DOMAIN t = 1 .. n + 1 /\ t[n + 1] = x /\ \A i \in 1 .. n : t[i] = u[i]
    BY <2>1, <2>3
  <2>5. PICK y \in B : y = k[x]
    OBVIOUS
  <2>6. Mapped(k, t) = [i \in 1 .. n + 1 |-> IF i = n + 1 THEN y ELSE m[i]]
    <3>1. \A i \in 1 .. n + 1 : i # n + 1 => i \in 1 .. n
      OBVIOUS
    <3>2. DOMAIN u = 1 .. n
      BY <2>1
    <3> QED
      BY <2>2, <2>4, <2>5, <3>1, <3>2 DEF Mapped
  <2>7. Mapped(k, t) = Append(m, y)
    <3>1. n = Len(m)
      BY <2>2
    <3> QED
      BY <2>6, <3>1, AppendIs, ZenonT(60)
  <2>8. Append(m, y) = m \o <<y>>
    BY AppendIsConcat, Zenon
  <2>9. FlatMapAdds(g, u, x)
    BY FlatMapAppend
  <2>10. m = FlatMap(g, u) /\ g[x] = <<y>>
    BY <1>2, <2>2, <2>5 DEF Singly
  <2>11. Mapped(k, t) = FlatMap(g, t)
    BY <2>3, <2>7, <2>8, <2>9, <2>10, Zenon DEF FlatMapAdds
  <2>12. t \in Seq(A)
    BY <2>3
  <2> QED
    BY <2>3, <2>11, <2>12
<1>3. s \in P
  <2> HIDE DEF P
  <2>1. Seq(A) \subseteq P
    BY <1>1, <1>2, ByAppending
  <2> QED
    BY <2>1
<1> QED
  BY <1>3 DEF MappedAs

\* Nothing is made just if nothing is made of any.
NoneMade(g, s) == FlatMap(g, s) = <<>> <=> \A i \in DOMAIN s : g[s[i]] = <<>>

\* Nothing is made of a list if nothing is made of its elements.
LEMMA FlatMapEmpty ==
  ASSUME NEW A, NEW B, NEW g \in [A -> Seq(B)], NEW s \in Seq(A)
  PROVE  NoneMade(g, s)
<1> DEFINE P == {u \in Seq(A) : NoneMade(g, u)}
<1>1. <<>> \in P
  <2>1. NoneMade(g, <<>>)
    BY FlatMapNone DEF NoneMade
  <2>2. <<>> \in Seq(A)
    OBVIOUS
  <2> QED
    BY <2>1, <2>2
<1>2. ASSUME NEW u \in Seq(A), NEW x \in A, u \in P PROVE Append(u, x) \in P
  <2>1. PICK m \in Seq(B), y \in Seq(B) : m = FlatMap(g, u) /\ y = g[x]
    BY FlatMapType
  <2>2. FlatMapAdds(g, u, x)
    BY FlatMapAppend
  <2>3. m \o y = <<>> <=> m = <<>> /\ y = <<>>
    OBVIOUS
  <2>4. m = <<>> <=> \A i \in DOMAIN u : g[u[i]] = <<>>
    BY <1>2, <2>1 DEF NoneMade
  <2>5. PICK t : t = Append(u, x)
    OBVIOUS
  <2>6. (\A i \in DOMAIN t : g[t[i]] = <<>>) <=> (\A i \in DOMAIN u : g[u[i]] = <<>>) /\ y = <<>>
    <3>1. PICK n \in Nat : n = Len(u)
      BY LenProperties
    <3>2. DOMAIN t = 1 .. n + 1 /\ t[n + 1] = x /\ \A i \in 1 .. n : t[i] = u[i]
      BY <2>5, <3>1
    <3>3. DOMAIN u = 1 .. n /\ n + 1 \in 1 .. n + 1 /\ \A i \in 1 .. n : i \in 1 .. n + 1
      BY <3>1
    <3>4. \A i \in 1 .. n + 1 : i # n + 1 => i \in 1 .. n
      OBVIOUS
    <3> QED
      BY <2>1, <3>2, <3>3, <3>4
  <2>7. FlatMap(g, t) = m \o y
    BY <2>1, <2>2, <2>5 DEF FlatMapAdds
  <2>8. NoneMade(g, t)
    BY <2>3, <2>4, <2>6, <2>7 DEF NoneMade
  <2>9. t \in Seq(A)
    BY <2>5
  <2> QED
    BY <2>5, <2>8, <2>9
<1>3. s \in P
  <2> HIDE DEF P
  <2>1. Seq(A) \subseteq P
    BY <1>1, <1>2, ByAppending
  <2> QED
    BY <2>1
<1> QED
  BY <1>3

\* Functions that agree on a list make the same of it.
LEMMA FlatMapAgree ==
  ASSUME NEW f, NEW g, NEW s, \A i \in DOMAIN s : f[s[i]] = g[s[i]]
  PROVE  FlatMap(f, s) = FlatMap(g, s)
<1>1. [i \in DOMAIN s |-> f[s[i]]] = [i \in DOMAIN s |-> g[s[i]]]
  OBVIOUS
<1> QED
  BY <1>1, Zenon DEF FlatMap

-----------------------------------------------------------------------------
(* What items say. *)

Token == (Nat \X Nat) \cup (Nat \X Nat \X Nat)
ItemTypes == {"text", "image", "call", "result", "thought"}
Items == [type : ItemTypes, of : Seq(Token)]
Speakers == {"model", "caller"}
Utterance == Speakers \X ItemTypes \X Token

Tells(by, type) == [t \in Token |-> <<by, type, t>>]
TellsEach(by, type) == [t \in Token |-> <<<<by, type, t>>>>]
ItemTells(by) == [item \in Items |-> Mapped(Tells(by, item.type), item.of)]
Say(by, items) == FlatMap(ItemTells(by), items)

\* The functions are typed.
LEMMA TellsTypes ==
  ASSUME NEW by \in Speakers
  PROVE  /\ \A type \in ItemTypes : /\ Tells(by, type) \in [Token -> Utterance]
                                    /\ TellsEach(by, type) \in [Token -> Seq(Utterance)]
         /\ ItemTells(by) \in [Items -> Seq(Utterance)]
<1>1. ASSUME NEW type \in ItemTypes
      PROVE  /\ Tells(by, type) \in [Token -> Utterance]
             /\ TellsEach(by, type) \in [Token -> Seq(Utterance)]
  <2>1. ASSUME NEW t \in Token
        PROVE  <<by, type, t>> \in Utterance /\ <<<<by, type, t>>>> \in Seq(Utterance)
    <3>1. <<by, type, t>> \in Utterance
      BY DEF Utterance
    <3> HIDE DEF Utterance
    <3> QED
      BY <3>1
  <2> QED
    BY <2>1 DEF Tells, TellsEach
<1>2. ASSUME NEW item \in Items
      PROVE  Mapped(Tells(by, item.type), item.of) \in Seq(Utterance)
  <2>1. item.type \in ItemTypes /\ item.of \in Seq(Token)
    BY DEF Items
  <2>2. PICK k \in [Token -> Utterance] : k = Tells(by, item.type)
    BY <1>1, <2>1
  <2> QED
    BY <2>1, <2>2, MappedType DEF MapsInto
<1> QED
  BY <1>1, <1>2 DEF ItemTells

\* What a list of items says.
LEMMA UtterancesAre ==
  ASSUME NEW role, NEW items \in Seq(Items)
  PROVE  /\ Utterances(role, items) = Say(Speaker(role), items)
         /\ Say(Speaker(role), items) \in Seq(Utterance) /\ Speaker(role) \in Speakers
<1>1. PICK by \in Speakers : by = Speaker(role)
  BY DEF Speaker, Speakers
<1>2. ASSUME NEW i \in DOMAIN items
      PROVE  [k \in DOMAIN items[i].of |-> <<by, items[i].type, items[i].of[k]>>] = ItemTells(by)[items[i]]
  <2>1. PICK item \in Items : item = items[i]
    OBVIOUS
  <2>2. item.type \in ItemTypes /\ item.of \in Seq(Token)
    BY DEF Items
  <2>3. \A k \in DOMAIN item.of : item.of[k] \in Token
    BY <2>2
  <2>4. ItemTells(by)[item] = Mapped(Tells(by, item.type), item.of)
    BY DEF ItemTells
  <2>5. Mapped(Tells(by, item.type), item.of) = [k \in DOMAIN item.of |-> <<by, item.type, item.of[k]>>]
    BY <2>3 DEF Mapped, Tells
  <2> QED
    BY <2>1, <2>4, <2>5
<1>3. PICK f : f = [i \in DOMAIN items |-> [k \in DOMAIN items[i].of |-> <<by, items[i].type, items[i].of[k]>>]]
  OBVIOUS
<1>4. f = [i \in DOMAIN items |-> ItemTells(by)[items[i]]]
  BY <1>2, <1>3
<1>5. Utterances(role, items) = FlattenSeq(f)
  BY <1>1, <1>3, Zenon DEF Utterances
<1>6. Utterances(role, items) = Say(by, items)
  BY <1>4, <1>5, Zenon DEF Say, FlatMap
<1>7. Say(by, items) \in Seq(Utterance)
  BY TellsTypes, FlatMapType, Zenon DEF Say
<1> QED
  BY <1>1, <1>6, <1>7

\* What one item says.
LEMMA OneItem ==
  ASSUME NEW by \in Speakers, NEW type \in ItemTypes, NEW of \in Seq(Token)
  PROVE  /\ Item(type, of) \in Items /\ <<Item(type, of)>> \in Seq(Items)
         /\ Say(by, <<Item(type, of)>>) = FlatMap(TellsEach(by, type), of)
         /\ ItemTells(by)[Item(type, of)] = FlatMap(TellsEach(by, type), of)
<1>1. PICK item : item = Item(type, of)
  OBVIOUS
<1>2. item \in Items /\ item.type = type /\ item.of = of
  BY <1>1 DEF Item, Items
<1>3. PICK k \in [Token -> Utterance] : k = Tells(by, type)
  BY TellsTypes
<1>4. PICK g \in [Token -> Seq(Utterance)] : g = TellsEach(by, type)
  BY TellsTypes
<1>5. Mapped(k, of) = FlatMap(g, of)
  <2>1. Singly(k, g, Token)
    BY <1>3, <1>4 DEF Singly, Tells, TellsEach
  <2>2. MappedAs(k, g, of)
    BY <2>1, MappedIs
  <2> QED
    BY <2>2 DEF MappedAs
<1>6. ItemTells(by)[item] = Mapped(k, of)
  BY <1>2, <1>3 DEF ItemTells
<1>7. Say(by, <<item>>) = ItemTells(by)[item]
  BY <1>2, TellsTypes, FlatMapOne DEF Say
<1>8. <<item>> \in Seq(Items)
  BY <1>2
<1> QED
  BY <1>1, <1>2, <1>4, <1>5, <1>6, <1>7, <1>8

\* Those that pass.
Keep(A, P) == [x \in A |-> IF x \in P THEN <<x>> ELSE <<>>]

\* Of each, at most itself is kept.
LEMMA KeepType ==
  ASSUME NEW A, NEW P
  PROVE  Keep(A, P) \in [A -> Seq(A)]
<1>1. \A x \in A : (IF x \in P THEN <<x>> ELSE <<>>) \in Seq(A)
  OBVIOUS
<1> QED
  BY <1>1 DEF Keep

\* All that is kept passes.
LEMMA KeptPass ==
  ASSUME NEW A, NEW P, NEW s \in Seq(A)
  PROVE  /\ FlatMap(Keep(A, P), s) \in Seq(A \cap P)
<1>1. PICK g : g = Keep(A, P)
  OBVIOUS
<1>2. \A x \in A : g[x] \in Seq(A \cap P)
  <2>1. ASSUME NEW x \in A PROVE g[x] \in Seq(A \cap P)
    <3>1. g[x] = IF x \in P THEN <<x>> ELSE <<>>
      BY <1>1 DEF Keep
    <3>2. CASE x \in P
      <4>1. PICK B : B = A \cap P
        OBVIOUS
      <4>2. x \in B
        BY <3>2, <4>1
      <4>3. <<x>> \in Seq(B)
        BY <4>2
      <4> QED
        BY <3>1, <3>2, <4>1, <4>3
    <3>3. CASE x \notin P
      BY <3>1, <3>3
    <3> QED
      BY <3>2, <3>3
  <2> QED
    BY <2>1
<1>3. g \in [A -> Seq(A \cap P)]
  BY <1>1, <1>2 DEF Keep
<1> QED
  BY <1>1, <1>3, FlatMapType

\* All that is said is what each item says, one after the other.
LEMMA SayJoins ==
  ASSUME NEW by \in Speakers, NEW s \in Seq(Items), NEW t \in Seq(Items)
  PROVE  /\ Say(by, s \o t) = Say(by, s) \o Say(by, t)
         /\ Say(by, s) \in Seq(Utterance) /\ Say(by, <<>>) = <<>>
<1>1. PICK g \in [Items -> Seq(Utterance)] : g = ItemTells(by)
  BY TellsTypes
<1>2. FlatMapJoins(g, s, t)
  BY FlatMapConcat
<1>3. FlatMap(g, s) \in Seq(Utterance)
  BY FlatMapType
<1> QED
  BY <1>1, <1>2, <1>3, FlatMapNone, Zenon DEF Say, FlatMapJoins

-----------------------------------------------------------------------------
(* What is made of the parts of a message. *)

PartItems == [type : {"text", "image"}, of : Spoken]
Plain(parts) == \A i \in DOMAIN parts : parts[i].type = "image" => parts[i].of = <<>>
Empty(parts) == \A i \in DOMAIN parts : parts[i].of = <<>>

\* A part is an item.
LEMMA PartsAreItems ==
  /\ PartItems \subseteq Items /\ Spoken \subseteq Seq(Token)
  /\ \A parts \in Seq(PartItems) : parts \in Seq(Items)
<1>1. Spoken \subseteq Seq(Token)
  <2>1. Nat \X Nat \X Nat \subseteq Token
    BY DEF Token
  <2> QED
    BY <2>1, SeqMonotonic DEF Spoken
<1>2. PartItems \subseteq Items
  <2>1. ASSUME NEW p \in PartItems PROVE p \in Items
    <3>1. p = [type |-> p.type, of |-> p.of] /\ p.type \in {"text", "image"} /\ p.of \in Spoken
      BY DEF PartItems
    <3>2. p.of \in Seq(Token) /\ p.type \in ItemTypes
      BY <1>1, <3>1 DEF ItemTypes
    <3> QED
      BY <3>1, <3>2 DEF Items
  <2> QED
    BY <2>1
<1>3. ASSUME NEW parts \in Seq(PartItems) PROVE parts \in Seq(Items)
  BY <1>2, SeqMonotonic
<1> QED
  BY <1>1, <1>2, <1>3

\* The texts of parts, and what they say.
PartTexts == [p \in PartItems |-> IF p.type = "text" THEN p.of ELSE <<>>]

\* TextsOf of Exchange is made of the parts one by one.
LEMMA TextsAre ==
  ASSUME NEW parts \in Seq(PartItems)
  PROVE  /\ PartTexts \in [PartItems -> Seq(Token)]
         /\ TextsOf(parts) = FlatMap(PartTexts, parts) /\ TextsOf(parts) \in Seq(Token)
<1>1. PartTexts \in [PartItems -> Seq(Token)]
  <2>1. ASSUME NEW p \in PartItems PROVE (IF p.type = "text" THEN p.of ELSE <<>>) \in Seq(Token)
    <3>1. p.of \in Seq(Token)
      BY PartsAreItems DEF PartItems
    <3>2. <<>> \in Seq(Token)
      OBVIOUS
    <3> QED
      BY <3>1, <3>2
  <2> QED
    BY <2>1 DEF PartTexts
<1>2. [i \in DOMAIN parts |-> IF parts[i].type = "text" THEN parts[i].of ELSE <<>>] =
      [i \in DOMAIN parts |-> PartTexts[parts[i]]]
  <2>1. \A i \in DOMAIN parts : parts[i] \in PartItems
    OBVIOUS
  <2> QED
    BY <2>1 DEF PartTexts
<1>3. TextsOf(parts) = FlatMap(PartTexts, parts)
  BY <1>2, Zenon DEF TextsOf, FlatMap
<1>4. FlatMap(PartTexts, parts) \in Seq(Token)
  BY <1>1, FlatMapType
<1> QED
  BY <1>1, <1>3, <1>4

\* Texts that are joined say what they say apart.
LEMMA JoinedSays ==
  ASSUME NEW by \in Speakers, NEW parts \in Seq(PartItems), Plain(parts)
  PROVE  /\ Joined(parts) \in Seq(Items)
         /\ Say(by, Joined(parts)) = Say(by, parts)
         /\ Say(by, parts) = FlatMap(TellsEach(by, "text"), TextsOf(parts))
         /\ Joined(parts) = <<>> => Empty(parts)
<1>1. PICK t \in Seq(Token) : t = TextsOf(parts)
  BY TextsAre
<1>2. "text" \in ItemTypes
  BY DEF ItemTypes
<1>3. /\ Item("text", t) \in Items /\ <<Item("text", t)>> \in Seq(Items)
      /\ Say(by, <<Item("text", t)>>) = FlatMap(TellsEach(by, "text"), t)
  BY <1>2, OneItem
<1>4. Joined(parts) = IF t = <<>> THEN <<>> ELSE <<Item("text", t)>>
  BY <1>1 DEF Joined
<1>5. Joined(parts) \in Seq(Items)
  <2>1. <<>> \in Seq(Items)
    OBVIOUS
  <2> QED
    BY <1>3, <1>4, <2>1
<1>6. Say(by, Joined(parts)) = FlatMap(TellsEach(by, "text"), t)
  <2>1. CASE t = <<>>
    <3>1. Say(by, <<>>) = <<>> /\ FlatMap(TellsEach(by, "text"), <<>>) = <<>>
      BY FlatMapNone DEF Say
    <3> QED
      BY <1>4, <2>1, <3>1
  <2>2. CASE t # <<>>
    BY <1>3, <1>4, <2>2
  <2> QED
    BY <2>1, <2>2
<1>7. PICK f \in [Token -> Seq(Utterance)] : f = TellsEach(by, "text")
  BY <1>2, TellsTypes
<1>8. PICK h \in [PartItems -> Seq(Utterance)] : \A p \in PartItems : h[p] = FlatMap(f, PartTexts[p])
  <2>1. \A p \in PartItems : FlatMap(f, PartTexts[p]) \in Seq(Utterance)
    BY TextsAre, FlatMapType
  <2>2. PICK h : h = [p \in PartItems |-> FlatMap(f, PartTexts[p])]
    OBVIOUS
  <2> QED
    BY <2>1, <2>2
<1>9. FlatMap(f, t) = FlatMap(h, parts)
  <2>1. PartTexts \in [PartItems -> Seq(Token)] /\ t = FlatMap(PartTexts, parts)
    BY <1>1, TextsAre
  <2>2. MadeTwice(f, PartTexts, h, parts)
    BY <1>8, <2>1, FlatMapTwice
  <2> QED
    BY <2>1, <2>2 DEF MadeTwice
<1>10. ASSUME NEW i \in DOMAIN parts PROVE h[parts[i]] = ItemTells(by)[parts[i]]
  <2>1. PICK p \in PartItems : p = parts[i]
    OBVIOUS
  <2>2. /\ p = Item(p.type, p.of) /\ p.type \in {"text", "image"} /\ p.of \in Seq(Token)
        /\ p.type = "image" => p.of = <<>>
    BY <2>1, PartsAreItems DEF PartItems, Plain, Item
  <2>3. p.type \in ItemTypes
    BY <2>2 DEF ItemTypes
  <2>4. ItemTells(by)[p] = FlatMap(TellsEach(by, p.type), p.of)
    <3>1. ItemTells(by)[Item(p.type, p.of)] = FlatMap(TellsEach(by, p.type), p.of)
      <4>1. p.type \in ItemTypes /\ p.of \in Seq(Token)
        BY <2>2, <2>3
      <4> QED
        BY <4>1, OneItem, Zenon
    <3> QED
      BY <2>2, <3>1, Zenon
  <2>5. CASE p.type = "text"
    BY <1>7, <1>8, <2>1, <2>4, <2>5 DEF PartTexts
  <2>6. CASE p.type = "image"
    <3>1. PartTexts[p] = <<>> /\ p.of = <<>>
      BY <2>2, <2>6 DEF PartTexts
    <3> QED
      BY <1>8, <2>1, <2>4, <3>1, FlatMapNone
  <2> QED
    BY <2>2, <2>5, <2>6
<1>11. FlatMap(h, parts) = Say(by, parts)
  BY <1>10, FlatMapAgree DEF Say
<1>12. t = <<>> => Empty(parts)
  <2> SUFFICES ASSUME t = <<>>, NEW i \in DOMAIN parts PROVE parts[i].of = <<>>
    BY DEF Empty
  <2>1. NoneMade(PartTexts, parts)
    BY TextsAre, FlatMapEmpty
  <2>2. PartTexts[parts[i]] = <<>>
    BY <1>1, <2>1, TextsAre DEF NoneMade
  <2>3. parts[i] \in PartItems
    OBVIOUS
  <2>4. parts[i].type \in {"text", "image"}
    BY <2>3 DEF PartItems
  <2> QED
    BY <2>2, <2>3, <2>4 DEF PartTexts, Plain
<1>13. Joined(parts) = <<>> => t = <<>>
  BY <1>4
<1> QED
  BY <1>1, <1>5, <1>6, <1>7, <1>9, <1>11, <1>12, <1>13

\* The blocks of a message say what its parts say.
LEMMA BlocksSay ==
  ASSUME NEW by \in Speakers, NEW parts \in Seq(PartItems)
  PROVE  /\ Blocks(parts) \in Seq(Items)
         /\ Say(by, Blocks(parts)) = Say(by, parts)
         /\ Blocks(parts) = <<>> => Empty(parts)
         /\ \A i \in DOMAIN Blocks(parts) : Blocks(parts)[i].type \in {"text", "image"}
<1> DEFINE P == {p \in PartItems : p.of # <<>>}
           shown == \E i \in DOMAIN parts : parts[i].type = "image" /\ parts[i].of # <<>>
<1>1. PICK g \in [PartItems -> Seq(PartItems)] : g = Keep(PartItems, P)
  BY KeepType
<1>2. \A p \in PartItems : g[p] = IF p.of # <<>> THEN <<p>> ELSE <<>>
  BY <1>1 DEF Keep
<1>3. PICK full : full = Full(parts)
  OBVIOUS
<1>4. full = FlatMap(g, parts)
  <2>1. \A i \in DOMAIN parts : parts[i] \in PartItems
    OBVIOUS
  <2>2. [i \in DOMAIN parts |-> IF parts[i].of # <<>> THEN <<parts[i]>> ELSE <<>>] =
        [i \in DOMAIN parts |-> g[parts[i]]]
    BY <1>2, <2>1
  <2> QED
    BY <1>3, <2>2, Zenon DEF Full, Where, FlatMap
<1>5. full \in Seq(PartItems)
  BY <1>4, FlatMapType
<1>6. CASE shown
  <2>1. [i \in DOMAIN full |-> Item(full[i].type, full[i].of)] = full
    <3>1. ASSUME NEW i \in DOMAIN full PROVE Item(full[i].type, full[i].of) = full[i]
      <4>1. full[i] \in PartItems
        BY <1>5
      <4> QED
        BY <4>1 DEF PartItems, Item
    <3>2. full = [i \in DOMAIN full |-> full[i]]
      BY <1>5
    <3> QED
      BY <3>1, <3>2
  <2>2. Blocks(parts) = full
    BY <1>3, <1>6, <2>1, Zenon DEF Blocks
  <2>3. PICK f \in [Items -> Seq(Utterance)] : f = ItemTells(by)
    BY TellsTypes
  <2>4. PICK h \in [PartItems -> Seq(Utterance)] : \A p \in PartItems : h[p] = FlatMap(f, g[p])
    <3>1. \A p \in PartItems : g[p] \in Seq(Items)
      BY PartsAreItems
    <3>2. \A p \in PartItems : FlatMap(f, g[p]) \in Seq(Utterance)
      BY <3>1, FlatMapType
    <3>3. PICK h : h = [p \in PartItems |-> FlatMap(f, g[p])]
      OBVIOUS
    <3> QED
      BY <3>2, <3>3
  <2>5. MadeTwice(f, g, h, parts)
    <3>1. g \in [PartItems -> Seq(Items)]
      <4>1. \A p \in PartItems : g[p] \in Seq(Items)
        BY PartsAreItems
      <4> QED
        BY <4>1
    <3> QED
      BY <2>4, <3>1, FlatMapTwice
  <2>6. ASSUME NEW i \in DOMAIN parts PROVE h[parts[i]] = f[parts[i]]
    <3>1. PICK p \in PartItems : p = parts[i]
      OBVIOUS
    <3>2. p \in Items /\ g[p] = IF p.of # <<>> THEN <<p>> ELSE <<>>
      BY <1>2, PartsAreItems
    <3>3. FlatMap(f, <<p>>) = f[p] /\ FlatMap(f, <<>>) = <<>>
      BY <3>2, FlatMapOne, FlatMapNone
    <3>4. p.of = <<>> => f[p] = <<>>
      <4>1. f[p] = Mapped(Tells(by, p.type), p.of)
        BY <2>3, <3>2 DEF ItemTells
      <4>2. Mapped(Tells(by, p.type), <<>>) = <<>>
        BY DEF Mapped
      <4> QED
        BY <4>1, <4>2
    <3> QED
      BY <2>4, <3>1, <3>2, <3>3, <3>4
  <2>7. FlatMap(h, parts) = FlatMap(f, parts)
    BY <2>6, FlatMapAgree
  <2>8. Say(by, full) = Say(by, parts)
    BY <1>4, <2>3, <2>5, <2>7, Zenon DEF MadeTwice, Say
  <2>9. full # <<>>
    <3>1. PICK i \in DOMAIN parts : parts[i].of # <<>>
      BY <1>6
    <3>2. PICK p \in PartItems : p = parts[i]
      OBVIOUS
    <3>3. g[parts[i]] # <<>>
      <4>1. g[p] = <<p>>
        BY <1>2, <3>1, <3>2
      <4>2. <<p>> # <<>>
        OBVIOUS
      <4> QED
        BY <3>2, <4>1, <4>2
    <3>4. NoneMade(g, parts)
      BY FlatMapEmpty
    <3> QED
      BY <1>4, <3>3, <3>4 DEF NoneMade
  <2>10. full \in Seq(Items)
    BY <1>5, PartsAreItems
  <2>11. \A i \in DOMAIN full : full[i].type \in {"text", "image"}
    <3>1. \A i \in DOMAIN full : full[i] \in PartItems
      BY <1>5
    <3> QED
      BY <3>1 DEF PartItems
  <2> QED
    BY <2>2, <2>8, <2>9, <2>10, <2>11
<1>7. CASE ~ shown
  <2>1. Plain(parts)
    BY <1>7 DEF Plain
  <2>2. Blocks(parts) = Joined(parts)
    BY <1>7, Zenon DEF Blocks
  <2>3. ASSUME NEW i \in DOMAIN Joined(parts) PROVE Joined(parts)[i].type \in {"text", "image"}
    <3>1. Joined(parts) = <<>> \/ Joined(parts) = <<Item("text", TextsOf(parts))>>
      BY DEF Joined
    <3> QED
      BY <3>1 DEF Item
  <2> QED
    BY <2>1, <2>2, <2>3, JoinedSays
<1> QED
  BY <1>6, <1>7

\* The calls of a message, each an item, say what one item of all of them says.
CallRefs == Nat \X Nat
CallItems == [c \in CallRefs |-> Item("call", <<c>>)]

\* They are items, as many as the calls, and say the calls.
LEMMA UsesSay ==
  ASSUME NEW by \in Speakers, NEW m, m.calls \in Seq(CallRefs)
  PROVE  /\ Uses(m) \in Seq(Items) /\ Uses(m) = Mapped(CallItems, m.calls)
         /\ Say(by, Uses(m)) = FlatMap(TellsEach(by, "call"), m.calls)
         /\ Uses(m) = <<>> <=> m.calls = <<>>
<1>1. PICK calls \in Seq(CallRefs) : calls = m.calls
  OBVIOUS
<1>2. PICK k \in [CallRefs -> Items] : k = CallItems /\ \A c \in CallRefs : k[c] = Item("call", <<c>>)
  <2>1. ASSUME NEW c \in CallRefs PROVE Item("call", <<c>>) \in Items
    <3>1. c \in Token /\ "call" \in ItemTypes
      BY DEF CallRefs, Token, ItemTypes
    <3>2. <<c>> \in Seq(Token)
      BY <3>1
    <3> QED
      BY <3>1, <3>2 DEF Item, Items
  <2>2. PICK k : k = CallItems
    OBVIOUS
  <2>3. k = [c \in CallRefs |-> Item("call", <<c>>)]
    BY <2>2 DEF CallItems
  <2>4. k \in [CallRefs -> Items] /\ \A c \in CallRefs : k[c] = Item("call", <<c>>)
    BY <2>1, <2>3
  <2> QED
    BY <2>2, <2>4
<1>3. PICK uses : uses = Uses(m)
  OBVIOUS
<1>4. uses = Mapped(k, calls)
  <2>1. [i \in DOMAIN calls |-> Item("call", <<calls[i]>>)] = [i \in DOMAIN calls |-> k[calls[i]]]
    <3>1. \A i \in DOMAIN calls : calls[i] \in CallRefs
      OBVIOUS
    <3> QED
      BY <1>2, <3>1
  <2> QED
    BY <1>1, <1>3, <2>1, Zenon DEF Uses, Mapped
<1>5. uses \in Seq(Items) /\ Len(uses) = Len(calls)
  <2>1. MapsInto(k, calls, Items)
    BY MappedType
  <2> QED
    BY <1>4, <2>1 DEF MapsInto
<1>6. PICK f \in [Items -> Seq(Utterance)] : f = ItemTells(by)
  BY TellsTypes
<1>7. PICK g \in [CallRefs -> Seq(Items)] : g = [c \in CallRefs |-> <<k[c]>>]
  <2>1. \A c \in CallRefs : <<k[c]>> \in Seq(Items)
    <3>1. \A c \in CallRefs : k[c] \in Items
      OBVIOUS
    <3> QED
      BY <3>1
  <2> QED
    BY <2>1
<1>8. uses = FlatMap(g, calls)
  <2>1. Singly(k, g, CallRefs)
    BY <1>7 DEF Singly
  <2>2. MappedAs(k, g, calls)
    BY <2>1, MappedIs
  <2> QED
    BY <1>4, <2>2 DEF MappedAs
<1>9. PICK h \in [CallRefs -> Seq(Utterance)] : \A c \in CallRefs : h[c] = FlatMap(f, g[c])
  <2>1. ASSUME NEW c \in CallRefs PROVE FlatMap(f, g[c]) \in Seq(Utterance)
    <3>1. PICK s \in Seq(Items) : s = g[c]
      OBVIOUS
    <3>2. FlatMap(f, s) \in Seq(Utterance)
      BY FlatMapType
    <3> QED
      BY <3>1, <3>2
  <2>2. PICK h : h = [c \in CallRefs |-> FlatMap(f, g[c])]
    OBVIOUS
  <2>3. h \in [CallRefs -> Seq(Utterance)]
    BY <2>1, <2>2
  <2>4. \A c \in CallRefs : h[c] = FlatMap(f, g[c])
    BY <2>2
  <2> QED
    BY <2>3, <2>4
<1>10. FlatMap(f, uses) = FlatMap(h, calls)
  <2>1. MadeTwice(f, g, h, calls)
    BY <1>9, FlatMapTwice
  <2> QED
    BY <1>8, <2>1 DEF MadeTwice
<1>11. ASSUME NEW i \in DOMAIN calls PROVE h[calls[i]] = TellsEach(by, "call")[calls[i]]
  <2>1. PICK c \in CallRefs : c = calls[i]
    OBVIOUS
  <2>2. c \in Token /\ "call" \in ItemTypes
    BY DEF CallRefs, Token, ItemTypes
  <2>3. <<c>> \in Seq(Token) /\ k[c] \in Items
    BY <2>2
  <2>4. FlatMap(f, <<k[c]>>) = f[k[c]]
    <3>1. PICK x \in Items : x = k[c]
      OBVIOUS
    <3>2. FlatMap(f, <<x>>) = f[x]
      BY FlatMapOne
    <3> QED
      BY <3>1, <3>2
  <2>5. f[k[c]] = FlatMap(TellsEach(by, "call"), <<c>>)
    BY <1>2, <1>6, <2>2, <2>3, OneItem
  <2>6. FlatMap(TellsEach(by, "call"), <<c>>) = TellsEach(by, "call")[c]
    <3>1. TellsEach(by, "call") \in [Token -> Seq(Utterance)]
      BY <2>2, TellsTypes
    <3> QED
      BY <2>2, <3>1, FlatMapOne
  <2> QED
    BY <1>7, <1>9, <2>1, <2>4, <2>5, <2>6
<1>12. FlatMap(h, calls) = FlatMap(TellsEach(by, "call"), calls)
  BY <1>11, FlatMapAgree
<1>13. uses = <<>> <=> calls = <<>>
  BY <1>5
<1> QED
  BY <1>1, <1>2, <1>3, <1>4, <1>5, <1>6, <1>10, <1>12, <1>13, Zenon DEF Say

\* If all pass, all are kept.
LEMMA KeepAll ==
  ASSUME NEW A, NEW s \in Seq(A)
  PROVE  FlatMap(Keep(A, A), s) = s
<1>1. PICK k \in [A -> A] : \A x \in A : k[x] = x
  <2>1. [x \in A |-> x] \in [A -> A]
    OBVIOUS
  <2>2. \A x \in A : [y \in A |-> y][x] = x
    OBVIOUS
  <2> QED
    BY <2>1, <2>2
<1>2. PICK g \in [A -> Seq(A)] : g = Keep(A, A)
  BY KeepType
<1>3. Singly(k, g, A)
  BY <1>1, <1>2 DEF Singly, Keep
<1>4. MappedAs(k, g, s)
  BY <1>3, MappedIs
<1>5. Mapped(k, s) = s
  <2>1. \A i \in DOMAIN s : k[s[i]] = s[i]
    BY <1>1
  <2>2. [i \in DOMAIN s |-> k[s[i]]] = [i \in DOMAIN s |-> s[i]]
    BY <2>1
  <2>3. s = [i \in DOMAIN s |-> s[i]]
    OBVIOUS
  <2> QED
    BY <2>2, <2>3, Zenon DEF Mapped
<1> QED
  BY <1>2, <1>4, <1>5 DEF MappedAs

-----------------------------------------------------------------------------
(* What a message means. *)

Sayable == {m \in Messages : WellFormed(m)}
Roles == {"system", "user", "assistant", "tool"}

\* What is known of a message that may be sent.
LEMMA SayableHas ==
  ASSUME NEW m \in Sayable
  PROVE  /\ m.role \in Roles /\ m.parts \in Seq(PartItems) /\ m.calls \in Seq(CallRefs)
         /\ m.answers \in Seq(CallRefs) /\ m.reasoning \in Spoken
         /\ m.calls # <<>> => m.role = "assistant" /\ Plain(m.parts)
<1>1. m \in Messages /\ WellFormed(m)
  BY DEF Sayable
<1>2. /\ m.role \in Roles /\ m.parts \in Seq(PartItems) /\ m.calls \in Seq(CallRefs)
      /\ m.answers \in Seq(CallRefs) /\ m.reasoning \in Spoken
  BY <1>1, Zenon DEF Messages, Roles, PartItems, CallRefs
<1>3. m.calls # <<>> => m.role = "assistant" /\ Plain(m.parts)
  BY <1>1, Zenon DEF WellFormed, Plain
<1> QED
  BY <1>2, <1>3

\* The calls of a message that a request of an adapter may hold.
Known(d, answered) == IF d = "responses" THEN answered ELSE CallRefs

Means(d, answered, m) ==
  LET by == Speaker(m.role) IN
  (IF d = "deepseek" THEN Say(by, <<Item("thought", m.reasoning)>>) ELSE <<>>)
    \o Say(by, Content(d, m))
    \o Say(by, <<Item("call", FlatMap(Keep(CallRefs, Known(d, answered)), m.calls))>>)

\* The result of a tool is an item.
LEMMA ResultIs ==
  ASSUME NEW m \in Sayable
  PROVE  Result(m) \in Seq(Items) /\ Result(m) # <<>> /\ Result(m)[1].type = "result" /\ Len(Result(m)) = 1
<1>1. m.answers \in Seq(Token) /\ TextsOf(m.parts) \in Seq(Token)
  <2>1. m.answers \in Seq(CallRefs) /\ m.parts \in Seq(PartItems)
    BY SayableHas
  <2>2. CallRefs \subseteq Token
    BY DEF CallRefs, Token
  <2> QED
    BY <2>1, <2>2, SeqMonotonic, TextsAre
<1>2. PICK of \in Seq(Token) : of = m.answers \o TextsOf(m.parts)
  <2>1. m.answers \o TextsOf(m.parts) \in Seq(Token)
    BY <1>1, ConcatProperties, Zenon
  <2> QED
    BY <2>1
<1>3. "result" \in ItemTypes
  BY DEF ItemTypes
<1>4. <<Item("result", of)>> \in Seq(Items)
  <2>1. "model" \in Speakers
    BY DEF Speakers
  <2> QED
    BY <1>3, <2>1, OneItem
<1>5. Result(m) = <<Item("result", of)>>
  BY <1>2 DEF Result
<1>6. Item("result", of).type = "result"
  BY DEF Item
<1> QED
  BY <1>4, <1>5, <1>6

\* What its parts are worth saying.
LEMMA MeansTypes ==
  ASSUME NEW m \in Sayable, NEW d, NEW answered
  PROVE  LET by == Speaker(m.role)
             calls == FlatMap(Keep(CallRefs, Known(d, answered)), m.calls)
         IN  /\ by \in Speakers
             /\ calls \in Seq(CallRefs) /\ calls \in Seq(Token)
             /\ d # "responses" => calls = m.calls
             /\ m.calls = <<>> => calls = <<>>
             /\ Say(by, <<Item("call", calls)>>) = FlatMap(TellsEach(by, "call"), calls)
             /\ Say(by, <<Item("call", calls)>>) \in Seq(Utterance)
             /\ calls = <<>> => Say(by, <<Item("call", calls)>>) = <<>>
             /\ <<Item("thought", m.reasoning)>> \in Seq(Items)
             /\ Say(by, <<Item("thought", m.reasoning)>>) \in Seq(Utterance)
             /\ m.reasoning = <<>> => Say(by, <<Item("thought", m.reasoning)>>) = <<>>
             /\ Content(d, m) \in Seq(Items) /\ Say(by, Content(d, m)) \in Seq(Utterance)
             /\ d # "anthropic" \/ m.role # "system" =>
                  Content(d, m) = IF m.role = "tool" THEN Result(m) ELSE m.parts
<1>1. PICK by \in Speakers : by = Speaker(m.role)
  BY DEF Speaker, Speakers
<1>2. PICK calls : calls = FlatMap(Keep(CallRefs, Known(d, answered)), m.calls)
  OBVIOUS
<1>3. calls \in Seq(CallRefs)
  BY <1>2, KeepType, FlatMapType, SayableHas
<1>4. calls \in Seq(Token)
  <2>1. CallRefs \subseteq Token
    BY DEF CallRefs, Token
  <2> QED
    BY <1>3, <2>1, SeqMonotonic
<1>5. d # "responses" => calls = m.calls
  BY <1>2, KeepAll, SayableHas DEF Known
<1>6. m.calls = <<>> => calls = <<>>
  BY <1>2, FlatMapNone
<1>7. "call" \in ItemTypes /\ "thought" \in ItemTypes
  BY DEF ItemTypes
<1>8. /\ <<Item("call", calls)>> \in Seq(Items)
      /\ Say(by, <<Item("call", calls)>>) = FlatMap(TellsEach(by, "call"), calls)
  BY <1>4, <1>7, OneItem
<1>9. PICK r \in Seq(Token) : r = m.reasoning
  BY SayableHas, PartsAreItems
<1>10. /\ <<Item("thought", r)>> \in Seq(Items)
       /\ Say(by, <<Item("thought", r)>>) = FlatMap(TellsEach(by, "thought"), r)
  BY <1>7, OneItem
<1>11. PICK content \in Seq(Items) : content = Content(d, m)
  <2>1. m.parts \in Seq(PartItems) /\ m.parts \in Seq(Items) /\ Result(m) \in Seq(Items)
    BY SayableHas, PartsAreItems, ResultIs
  <2>2. <<Item("text", TextsOf(m.parts))>> \in Seq(Items)
    <3>1. TextsOf(m.parts) \in Seq(Token)
      BY <2>1, TextsAre
    <3> QED
      BY <3>1, OneItem DEF ItemTypes
  <2> QED
    BY <2>1, <2>2 DEF Content
<1>12. ASSUME NEW s \in Seq(Items) PROVE Say(by, s) \in Seq(Utterance)
  BY SayJoins
<1>13. /\ Say(by, <<Item("call", calls)>>) \in Seq(Utterance)
       /\ Say(by, <<Item("thought", r)>>) \in Seq(Utterance)
       /\ Say(by, content) \in Seq(Utterance)
  BY <1>8, <1>10, <1>11, <1>12
<1>14. d # "anthropic" \/ m.role # "system" =>
         Content(d, m) = IF m.role = "tool" THEN Result(m) ELSE m.parts
  BY DEF Content
<1>15. calls = <<>> => Say(by, <<Item("call", calls)>>) = <<>>
  BY <1>8, FlatMapNone
<1>16. r = <<>> => Say(by, <<Item("thought", r)>>) = <<>>
  BY <1>10, FlatMapNone
<1> QED
  BY <1>1, <1>2, <1>3, <1>4, <1>5, <1>6, <1>8, <1>9, <1>10, <1>11, <1>13, <1>15, <1>16, <1>14

\* Meant of Exchange, as a function of the adapter and the calls that are answered.
LEMMA MeantIs ==
  ASSUME NEW m \in Sayable
  PROVE  Meant(m) = Means(dialect, Answered, m)
<1>1. PICK by \in Speakers : by = Speaker(m.role)
  BY DEF Speaker, Speakers
<1>2. PICK calls : calls = FlatMap(Keep(CallRefs, Known(dialect, Answered)), m.calls)
  OBVIOUS
<1>3. Where(m.calls, LAMBDA c : dialect # "responses" \/ c \in Answered) = calls
  <2>1. PICK g : g = Keep(CallRefs, Known(dialect, Answered))
    OBVIOUS
  <2>2. ASSUME NEW i \in DOMAIN m.calls
        PROVE  g[m.calls[i]] =
                 IF dialect # "responses" \/ m.calls[i] \in Answered THEN <<m.calls[i]>> ELSE <<>>
    <3>1. PICK c \in CallRefs : c = m.calls[i]
      BY SayableHas
    <3>2. c \in Known(dialect, Answered) <=> dialect # "responses" \/ c \in Answered
      BY DEF Known
    <3>3. g[c] = IF c \in Known(dialect, Answered) THEN <<c>> ELSE <<>>
      BY <2>1 DEF Keep
    <3> QED
      BY <3>1, <3>2, <3>3
  <2>3. [i \in DOMAIN m.calls |->
           IF dialect # "responses" \/ m.calls[i] \in Answered THEN <<m.calls[i]>> ELSE <<>>] =
        [i \in DOMAIN m.calls |-> g[m.calls[i]]]
    BY <2>2
  <2> QED
    BY <1>2, <2>1, <2>3, Zenon DEF Where, FlatMap
<1>4. /\ <<Item("call", calls)>> \in Seq(Items)
      /\ <<Item("thought", m.reasoning)>> \in Seq(Items)
      /\ Content(dialect, m) \in Seq(Items)
  <2>1. calls \in Seq(Token)
    BY <1>2, MeansTypes
  <2>2. <<Item("call", calls)>> \in Seq(Items)
    BY <2>1, OneItem DEF ItemTypes
  <2> QED
    BY <2>2, MeansTypes
<1>5. ASSUME NEW items \in Seq(Items) PROVE Utterances(m.role, items) = Say(by, items)
  BY <1>1, UtterancesAre
<1>6. /\ Utterances(m.role, <<Item("call", calls)>>) = Say(by, <<Item("call", calls)>>)
      /\ Utterances(m.role, <<Item("thought", m.reasoning)>>) = Say(by, <<Item("thought", m.reasoning)>>)
      /\ Utterances(m.role, Content(dialect, m)) = Say(by, Content(dialect, m))
  BY <1>4, <1>5
<1>7. Meant(m) =
        (IF dialect = "deepseek" THEN Utterances(m.role, <<Item("thought", m.reasoning)>>) ELSE <<>>)
          \o Utterances(m.role, Content(dialect, m))
          \o Utterances(m.role, <<Item("call", calls)>>)
  BY <1>3, Zenon DEF Meant
<1>8. Means(dialect, Answered, m) =
        (IF dialect = "deepseek" THEN Say(by, <<Item("thought", m.reasoning)>>) ELSE <<>>)
          \o Say(by, Content(dialect, m))
          \o Say(by, <<Item("call", calls)>>)
  BY <1>1, <1>2, Zenon DEF Means
<1>9. PICK k, t, o :
        /\ k = Say(by, <<Item("call", calls)>>) /\ t = Say(by, <<Item("thought", m.reasoning)>>)
        /\ o = Say(by, Content(dialect, m))
  OBVIOUS
<1>10. PICK d : d = IF dialect = "deepseek" THEN t ELSE <<>>
  OBVIOUS
<1>11. Meant(m) = d \o o \o k
  BY <1>6, <1>7, <1>9, <1>10
<1>12. Means(dialect, Answered, m) = d \o o \o k
  BY <1>8, <1>9, <1>10
<1> QED
  BY <1>11, <1>12

-----------------------------------------------------------------------------
(* What the adapters make of a message. *)

Envelopes == [role : Roles, items : Seq(Items)]
EnvelopeTells == [e \in Envelopes |-> Say(Speaker(e.role), e.items)]

\* What one envelope says.
LEMMA EnvelopeIs ==
  ASSUME NEW role \in Roles, NEW items \in Seq(Items)
  PROVE  /\ EnvelopeTells \in [Envelopes -> Seq(Utterance)]
         /\ Envelope(role, items) \in Envelopes
         /\ Envelope(role, items).role = role /\ Envelope(role, items).items = items
         /\ EnvelopeTells[Envelope(role, items)] = Say(Speaker(role), items)
         /\ FlatMap(EnvelopeTells, <<Envelope(role, items)>>) = Say(Speaker(role), items)
<1>1. EnvelopeTells \in [Envelopes -> Seq(Utterance)]
  <2>1. ASSUME NEW e \in Envelopes PROVE Say(Speaker(e.role), e.items) \in Seq(Utterance)
    <3>1. e.items \in Seq(Items)
      BY DEF Envelopes
    <3> QED
      BY <3>1, UtterancesAre
  <2> QED
    BY <2>1 DEF EnvelopeTells
<1>2. PICK e : e = Envelope(role, items)
  OBVIOUS
<1>3. e \in Envelopes /\ e.role = role /\ e.items = items
  BY <1>2 DEF Envelope, Envelopes
<1>4. EnvelopeTells[e] = Say(Speaker(role), items)
  BY <1>3 DEF EnvelopeTells
<1>5. FlatMap(EnvelopeTells, <<e>>) = EnvelopeTells[e]
  BY <1>1, <1>3, FlatMapOne
<1> QED
  BY <1>1, <1>2, <1>3, <1>4, <1>5

\* The whole of a payload, of envelopes.
LEMMA OnTheWireIs ==
  ASSUME wire \in Seq(Envelopes)
  PROVE  OnTheWire = FlatMap(EnvelopeTells, wire)
<1>1. ASSUME NEW i \in DOMAIN wire
      PROVE  Utterances(wire[i].role, wire[i].items) = EnvelopeTells[wire[i]]
  <2>1. PICK e \in Envelopes : e = wire[i]
    OBVIOUS
  <2>2. e.items \in Seq(Items)
    BY DEF Envelopes
  <2>3. Utterances(e.role, e.items) = Say(Speaker(e.role), e.items)
    BY <2>2, UtterancesAre
  <2> QED
    BY <2>1, <2>3 DEF EnvelopeTells
<1>2. [i \in DOMAIN wire |-> Utterances(wire[i].role, wire[i].items)] =
      [i \in DOMAIN wire |-> EnvelopeTells[wire[i]]]
  BY <1>1
<1> QED
  BY <1>2, Zenon DEF OnTheWire, FlatMap

\* What Anthropic and Gemini are sent of a message: one of three.
Direct(m) ==
  IF m.role = "tool" THEN Result(m)
  ELSE IF m.calls # <<>> THEN Joined(m.parts) \o Uses(m)
  ELSE Blocks(m.parts)

\* It says what the message means to Gemini, and is empty only for a silent one.
LEMMA DirectSays ==
  ASSUME NEW m \in Sayable, NEW answered
  PROVE  /\ Direct(m) \in Seq(Items)
         /\ Say(Speaker(m.role), Direct(m)) = Means("gemini", answered, m)
         /\ Direct(m) = <<>> => Silent(m)
<1>1. PICK by \in Speakers : by = Speaker(m.role)
  BY DEF Speaker, Speakers
<1>2. /\ m.parts \in Seq(PartItems) /\ m.calls \in Seq(CallRefs)
      /\ m.calls # <<>> => m.role = "assistant" /\ Plain(m.parts)
  BY SayableHas
<1>3. PICK told \in Seq(Utterance) : told = Say(by, <<Item("call", m.calls)>>)
  BY <1>1, MeansTypes
<1>4. /\ told = FlatMap(TellsEach(by, "call"), m.calls)
      /\ m.calls = <<>> => told = <<>>
  BY <1>1, <1>3, MeansTypes
<1>5. PICK p \in Seq(Utterance) : p = Say(by, Content("gemini", m))
  BY <1>1, MeansTypes
<1>6. Content("gemini", m) = IF m.role = "tool" THEN Result(m) ELSE m.parts
  BY MeansTypes
<1>7. Means("gemini", answered, m) = <<>> \o p \o told
  <2>1. FlatMap(Keep(CallRefs, Known("gemini", answered)), m.calls) = m.calls
    BY MeansTypes
  <2>2. "gemini" # "deepseek"
    OBVIOUS
  <2> QED
    BY <1>1, <1>3, <1>5, <2>1, <2>2 DEF Means
<1>8. Means("gemini", answered, m) = p \o told
  BY <1>7
<1>9. CASE m.role = "tool"
  <2>1. told = <<>> /\ p \o <<>> = p
    BY <1>2, <1>4, <1>9, ConcatEmptySeq
  <2>2. Direct(m) = Result(m)
    BY <1>9 DEF Direct
  <2> QED
    BY <1>1, <1>5, <1>6, <1>8, <1>9, <2>1, <2>2, ResultIs
<1>10. CASE m.role # "tool" /\ m.calls # <<>>
  <2>1. PICK joined \in Seq(Items) : joined = Joined(m.parts) /\ Say(by, joined) = p
    BY <1>1, <1>2, <1>5, <1>6, <1>10, JoinedSays
  <2>2. PICK uses \in Seq(Items) : uses = Uses(m) /\ Say(by, uses) = told /\ uses # <<>>
    BY <1>2, <1>4, <1>10, UsesSay
  <2>3. Say(by, joined \o uses) = p \o told
    BY <2>1, <2>2, SayJoins
  <2>4. Direct(m) = joined \o uses
    BY <1>10, <2>1, <2>2 DEF Direct
  <2>5. joined \o uses \in Seq(Items) /\ joined \o uses # <<>>
    BY <2>2
  <2> QED
    BY <1>1, <1>8, <1>10, <2>3, <2>4, <2>5
<1>11. CASE m.role # "tool" /\ m.calls = <<>>
  <2>1. told = <<>> /\ p \o <<>> = p
    BY <1>4, <1>11, ConcatEmptySeq
  <2>2. Direct(m) = Blocks(m.parts)
    BY <1>11 DEF Direct
  <2>3. /\ Blocks(m.parts) \in Seq(Items) /\ Say(by, Blocks(m.parts)) = Say(by, m.parts)
        /\ Blocks(m.parts) = <<>> => Empty(m.parts)
    BY <1>2, BlocksSay
  <2> QED
    BY <1>1, <1>5, <1>6, <1>8, <1>11, <2>1, <2>2, <2>3 DEF Silent, Empty
<1> QED
  BY <1>9, <1>10, <1>11

\* What is made of elements is within what is made of each.
LEMMA FlatMapWithin ==
  ASSUME NEW A, NEW B, NEW g \in [A -> Seq(B)], NEW s \in Seq(A), NEW C,
         \A i \in DOMAIN s : g[s[i]] \in Seq(C)
  PROVE  FlatMap(g, s) \in Seq(C)
<1> DEFINE D == {x \in A : g[x] \in Seq(C)}
<1>1. PICK n \in Nat : n = Len(s)
  BY LenProperties
<1>2. DOMAIN s = 1 .. n /\ \A i \in 1 .. n : s[i] \in A
  BY <1>1
<1>3. \A i \in 1 .. n : s[i] \in D
  BY <1>2
<1>4. PICK h : h = [x \in D |-> g[x]]
  OBVIOUS
<1>5. h \in [D -> Seq(C)]
  BY <1>4
<1>6. \A i \in DOMAIN s : h[s[i]] = g[s[i]]
  BY <1>2, <1>3, <1>4
<1> HIDE DEF D
<1>7. s \in Seq(D)
  <2>1. s \in [1 .. n -> D]
    <3>1. s = [i \in 1 .. n |-> s[i]]
      BY <1>2
    <3> QED
      BY <1>3, <3>1
  <2> QED
    BY <2>1
<1>8. FlatMap(h, s) \in Seq(C)
  BY <1>5, <1>7, FlatMapType
<1>9. FlatMap(h, s) = FlatMap(g, s)
  BY <1>6, FlatMapAgree
<1> QED
  BY <1>8, <1>9

\* What is made of one of each.
MadeOfOne(f, k, h, s) == \A i \in DOMAIN s : h[s[i]] = f[k[s[i]]]

\* What is made of one of each is made of each.
LEMMA MappedThen ==
  ASSUME NEW f, NEW k, NEW h, NEW s, MadeOfOne(f, k, h, s)
  PROVE  FlatMap(f, Mapped(k, s)) = FlatMap(h, s)
<1>1. PICK t : t = Mapped(k, s)
  OBVIOUS
<1>2. DOMAIN t = DOMAIN s /\ \A i \in DOMAIN s : t[i] = k[s[i]]
  BY <1>1 DEF Mapped
<1>3. [i \in DOMAIN t |-> f[t[i]]] = [i \in DOMAIN s |-> h[s[i]]]
  BY <1>2 DEF MadeOfOne
<1> QED
  BY <1>1, <1>3, Zenon DEF FlatMap

\* What messages mean, one after the other.
Meaning(d, answered) == [m \in Sayable |-> Means(d, answered, m)]

\* It is a list of utterances.
LEMMA MeaningType ==
  ASSUME NEW d, NEW answered
  PROVE  Meaning(d, answered) \in [Sayable -> Seq(Utterance)]
<1>1. ASSUME NEW m \in Sayable PROVE Means(d, answered, m) \in Seq(Utterance)
  <2>1. PICK by \in Speakers : by = Speaker(m.role)
    BY DEF Speaker, Speakers
  <2>2. PICK calls : calls = FlatMap(Keep(CallRefs, Known(d, answered)), m.calls)
    OBVIOUS
  <2>3. PICK t \in Seq(Utterance) :
          t = IF d = "deepseek" THEN Say(by, <<Item("thought", m.reasoning)>>) ELSE <<>>
    <3>1. <<>> \in Seq(Utterance)
      OBVIOUS
    <3> QED
      BY <2>1, <3>1, MeansTypes
  <2>4. PICK p \in Seq(Utterance) : p = Say(by, Content(d, m))
    BY <2>1, MeansTypes
  <2>5. PICK k \in Seq(Utterance) : k = Say(by, <<Item("call", calls)>>)
    BY <2>1, <2>2, MeansTypes
  <2>6. Means(d, answered, m) = t \o p \o k
    BY <2>1, <2>2, <2>3, <2>4, <2>5, Zenon DEF Means
  <2>7. PICK q \in Seq(Utterance) : q = t \o p
    <3>1. t \o p \in Seq(Utterance)
      BY ConcatProperties, Zenon
    <3> QED
      BY <3>1
  <2>8. q \o k \in Seq(Utterance)
    BY ConcatProperties, Zenon
  <2> QED
    BY <2>6, <2>7, <2>8
<1> QED
  BY <1>1 DEF Meaning

-----------------------------------------------------------------------------
(* Gemini. *)

\* An envelope with what is sent directly, in the name of the same speaker.
Sends(e, m) ==
  \E role \in Roles : Speaker(role) = Speaker(m.role) /\ e = Envelope(role, Direct(m))

\* Each of the three that Gemini is sent is such an envelope.
LEMMA GeminiSends ==
  ASSUME NEW m \in Sayable
  PROVE  Sends(GeminiContent(m), m)
<1>1. m.role \in Roles /\ (m.calls # <<>> => m.role = "assistant")
  BY SayableHas
<1>2. CASE m.role = "tool"
  <2>1. GeminiContent(m) = Envelope("user", Direct(m))
    BY <1>2 DEF GeminiContent, Direct
  <2> QED
    BY <1>2, <2>1 DEF Sends, Speaker, Roles
<1>3. CASE m.role = "assistant" /\ m.calls # <<>>
  <2>1. GeminiContent(m) = Envelope("assistant", Direct(m))
    BY <1>3 DEF GeminiContent, Direct
  <2> QED
    BY <1>3, <2>1 DEF Sends, Speaker, Roles
<1>4. CASE m.role # "tool" /\ m.calls = <<>>
  <2>1. GeminiContent(m) = Envelope(IF m.role = "assistant" THEN m.role ELSE "user", Direct(m))
    BY <1>4 DEF GeminiContent, Direct
  <2> QED
    BY <2>1 DEF Sends, Speaker, Roles
<1> QED
  BY <1>1, <1>2, <1>3, <1>4

\* What is sent of a message says what it means to Gemini.
LEMMA SendsSays ==
  ASSUME NEW m \in Sayable, NEW e, Sends(e, m), NEW answered
  PROVE  /\ e \in Envelopes /\ EnvelopeTells[e] = Means("gemini", answered, m)
         /\ e.items = <<>> => Silent(m)
<1>1. PICK role \in Roles : Speaker(role) = Speaker(m.role) /\ e = Envelope(role, Direct(m))
  BY DEF Sends
<1>2. PICK items \in Seq(Items) :
        /\ items = Direct(m) /\ Say(Speaker(m.role), items) = Means("gemini", answered, m)
        /\ items = <<>> => Silent(m)
  BY DirectSays
<1>3. /\ Envelope(role, items) \in Envelopes /\ Envelope(role, items).items = items
      /\ EnvelopeTells[Envelope(role, items)] = Say(Speaker(role), items)
  BY EnvelopeIs
<1> QED
  BY <1>1, <1>2, <1>3

\* What remains to be shown of a payload.
Told(sent, d, answered, messages) ==
  sent \in Seq(Envelopes) /\ FlatMap(EnvelopeTells, sent) = FlatMap(Meaning(d, answered), messages)

Spares(sent, d, messages) ==
  (\E i \in DOMAIN sent : sent[i].items = <<>>) =>
    \E i \in DOMAIN messages :
      Silent(messages[i]) /\ (d \in OpenAI => messages[i].role # "assistant")

\* Messages that are sent one by one.
LEMMA SentOneByOne ==
  ASSUME NEW answered, NEW messages \in Seq(Sayable),
         NEW k, DOMAIN k = Sayable, k = [m \in Sayable |-> k[m]], \A m \in Sayable : Sends(k[m], m)
  PROVE  /\ Told(Mapped(k, messages), "gemini", answered, messages)
         /\ Spares(Mapped(k, messages), "gemini", messages)
<1>1. \A m \in Sayable : /\ k[m] \in Envelopes /\ EnvelopeTells[k[m]] = Means("gemini", answered, m)
                         /\ k[m].items = <<>> => Silent(m)
  BY SendsSays
<1>2. k \in [Sayable -> Envelopes]
  BY <1>1
<1>3. MapsInto(k, messages, Envelopes)
  BY <1>2, MappedType
<1>4. MadeOfOne(EnvelopeTells, k, Meaning("gemini", answered), messages)
  <2>1. \A i \in DOMAIN messages : messages[i] \in Sayable
    OBVIOUS
  <2> QED
    BY <1>1, <2>1 DEF MadeOfOne, Meaning
<1>5. FlatMap(EnvelopeTells, Mapped(k, messages)) = FlatMap(Meaning("gemini", answered), messages)
  BY <1>4, MappedThen
<1>6. Spares(Mapped(k, messages), "gemini", messages)
  <2> SUFFICES ASSUME NEW i \in DOMAIN Mapped(k, messages), Mapped(k, messages)[i].items = <<>>
               PROVE  \E j \in DOMAIN messages :
                        Silent(messages[j]) /\ ("gemini" \in OpenAI => messages[j].role # "assistant")
    BY DEF Spares
  <2>1. i \in DOMAIN messages /\ Mapped(k, messages)[i] = k[messages[i]]
    BY DEF Mapped
  <2>2. messages[i] \in Sayable
    BY <2>1
  <2>3. Silent(messages[i])
    BY <1>1, <2>1, <2>2
  <2>4. "gemini" \notin OpenAI
    BY DEF OpenAI
  <2> QED
    BY <2>1, <2>3, <2>4
<1> QED
  BY <1>3, <1>5, <1>6 DEF Told, MapsInto

\* Gemini's payload says what the messages mean (map_gemini_request).
LEMMA GeminiSays ==
  ASSUME NEW answered, NEW messages \in Seq(Sayable)
  PROVE  /\ Told(GeminiWire(messages), "gemini", answered, messages)
         /\ Spares(GeminiWire(messages), "gemini", messages)
<1>1. PICK k : k = [m \in Sayable |-> GeminiContent(m)]
  OBVIOUS
<1>2. DOMAIN k = Sayable /\ k = [m \in Sayable |-> k[m]] /\ \A m \in Sayable : Sends(k[m], m)
  BY <1>1, GeminiSends
<1>3. GeminiWire(messages) = Mapped(k, messages)
  <2>1. \A i \in DOMAIN messages : messages[i] \in Sayable
    OBVIOUS
  <2> QED
    BY <1>1, <2>1 DEF GeminiWire, Mapped
<1>4. /\ Told(Mapped(k, messages), "gemini", answered, messages)
      /\ Spares(Mapped(k, messages), "gemini", messages)
  BY <1>2, SentOneByOne
<1> QED
  BY <1>3, <1>4

-----------------------------------------------------------------------------
(* OpenAI and those like it. *)

\* Lists of nothing join to nothing, and no others do.
JoinEmpty(s, t) == s \o t = <<>> => s = <<>> /\ t = <<>>

\* So it is of all lists.
LEMMA JoinedEmpty ==
  ASSUME NEW S, NEW s \in Seq(S), NEW t \in Seq(S)
  PROVE  JoinEmpty(s, t)
<1> QED
  BY DEF JoinEmpty

\* An envelope that is not empty.
Filled == {e \in Envelopes : e.items # <<>>}

\* What is sent of a message says what it means.
LEMMA OpenAIMessageSays ==
  ASSUME NEW m \in Sayable, NEW d \in OpenAI, NEW answered,
         NEW sent, sent = OpenAIMessage(m, d = "deepseek")
  PROVE  /\ sent \in Seq(Envelopes) /\ FlatMap(EnvelopeTells, sent) = Means(d, answered, m)
         /\ sent \in Seq(Filled) \/ (Silent(m) /\ m.role # "assistant")
<1>1. PICK by \in Speakers : by = Speaker(m.role)
  BY DEF Speaker, Speakers
<1>2. m.role \in Roles /\ m.parts \in Seq(PartItems) /\ m.calls \in Seq(CallRefs)
  BY SayableHas
<1>3. PICK told \in Seq(Utterance) : told = Say(by, <<Item("call", m.calls)>>)
  BY <1>1, MeansTypes
<1>4. told = FlatMap(TellsEach(by, "call"), m.calls)
  <2>1. d # "responses"
    BY DEF OpenAI
  <2> QED
    BY <1>1, <1>3, <2>1, MeansTypes
<1>5. PICK uses \in Seq(Items) :
        uses = Uses(m) /\ Say(by, uses) = told /\ (uses = <<>> <=> m.calls = <<>>)
  BY <1>2, <1>4, UsesSay
<1>6. PICK thoughts \in Seq(Items) :
        /\ thoughts = IF d = "deepseek" /\ m.reasoning # <<>> THEN <<Item("thought", m.reasoning)>> ELSE <<>>
  <2>1. <<>> \in Seq(Items)
    OBVIOUS
  <2> QED
    BY <2>1, MeansTypes
<1>7. PICK t \in Seq(Utterance) : t = Say(by, thoughts)
  BY SayJoins
<1>8. t = IF d = "deepseek" THEN Say(by, <<Item("thought", m.reasoning)>>) ELSE <<>>
  <2>1. Say(by, <<>>) = <<>>
    BY FlatMapNone DEF Say
  <2>2. m.reasoning = <<>> => Say(by, <<Item("thought", m.reasoning)>>) = <<>>
    BY <1>1, MeansTypes
  <2> QED
    BY <1>6, <1>7, <2>1, <2>2
<1>9. PICK middle \in Seq(Items) :
        /\ middle = IF m.role = "tool" THEN Result(m) ELSE Blocks(m.parts)
        /\ Say(by, middle) = Say(by, Content(d, m))
        /\ middle = <<>> => Empty(m.parts)
  <2>1. /\ Blocks(m.parts) \in Seq(Items) /\ Say(by, Blocks(m.parts)) = Say(by, m.parts)
        /\ Blocks(m.parts) = <<>> => Empty(m.parts)
    BY <1>2, BlocksSay
  <2>2. Result(m) \in Seq(Items) /\ Result(m) # <<>>
    BY ResultIs
  <2>3. Content(d, m) = IF m.role = "tool" THEN Result(m) ELSE m.parts
    <3>1. d # "anthropic"
      BY DEF OpenAI
    <3> QED
      BY <3>1, MeansTypes
  <2> QED
    BY <2>1, <2>2, <2>3
<1>10. PICK o \in Seq(Utterance) : o = Say(by, middle)
  BY SayJoins
<1>11. Means(d, answered, m) = t \o o \o told
  <2>1. FlatMap(Keep(CallRefs, Known(d, answered)), m.calls) = m.calls
    <3>1. d # "responses"
      BY DEF OpenAI
    <3> QED
      BY <3>1, MeansTypes
  <2>2. Means(d, answered, m) =
          (IF d = "deepseek" THEN Say(by, <<Item("thought", m.reasoning)>>) ELSE <<>>)
            \o Say(by, Content(d, m))
            \o Say(by, <<Item("call", m.calls)>>)
    BY <1>1, <2>1, Zenon DEF Means
  <2> QED
    BY <1>3, <1>8, <1>9, <1>10, <2>2
<1>12. PICK front \in Seq(Items) : front = thoughts \o middle
  <2>1. thoughts \o middle \in Seq(Items)
    BY ConcatProperties, Zenon
  <2> QED
    BY <2>1
<1>13. PICK items \in Seq(Items) : items = front \o uses
  <2>1. front \o uses \in Seq(Items)
    BY ConcatProperties, Zenon
  <2> QED
    BY <2>1
<1>14. Say(by, items) = t \o o \o told
  <2>1. Say(by, front) = t \o o
    BY <1>7, <1>10, <1>12, SayJoins
  <2>2. Say(by, items) = Say(by, front) \o told
    BY <1>5, <1>13, SayJoins
  <2> QED
    BY <2>1, <2>2
<1>15. items = <<>> => front = <<>> /\ uses = <<>>
  <2>1. JoinEmpty(front, uses)
    BY JoinedEmpty
  <2> QED
    BY <1>13, <2>1, Zenon DEF JoinEmpty
<1>16. front = <<>> => middle = <<>>
  <2>1. JoinEmpty(thoughts, middle)
    BY JoinedEmpty
  <2> QED
    BY <1>12, <2>1, Zenon DEF JoinEmpty
<1>17. sent = IF m.role = "assistant" /\ items = <<>> THEN <<>> ELSE <<Envelope(m.role, items)>>
  <2>1. OpenAIMessage(m, d = "deepseek") =
          IF m.role = "assistant" /\ items = <<>> THEN <<>> ELSE <<Envelope(m.role, items)>>
    BY <1>5, <1>6, <1>9, <1>12, <1>13, Zenon DEF OpenAIMessage
  <2> QED
    BY <2>1
<1>18. CASE m.role = "assistant" /\ items = <<>>
  <2>1. FlatMap(EnvelopeTells, sent) = <<>> /\ sent = <<>>
    BY <1>17, <1>18, FlatMapNone
  <2>2. Say(by, items) = <<>>
    BY <1>18, FlatMapNone DEF Say
  <2>3. <<>> \in Seq(Envelopes) /\ <<>> \in Seq(Filled)
    OBVIOUS
  <2> QED
    BY <1>11, <1>14, <2>1, <2>2, <2>3
<1>19. CASE ~ (m.role = "assistant" /\ items = <<>>)
  <2>1. PICK e \in Envelopes :
          e = Envelope(m.role, items) /\ e.items = items /\ FlatMap(EnvelopeTells, <<e>>) = Say(by, items)
    BY <1>1, <1>2, EnvelopeIs
  <2>2. sent = <<e>>
    BY <1>17, <1>19, <2>1
  <2>3. <<e>> \in Seq(Envelopes)
    OBVIOUS
  <2>4. CASE items # <<>>
    <3>1. e \in Filled
      BY <2>1, <2>4 DEF Filled
    <3>2. <<e>> \in Seq(Filled)
      BY <3>1
    <3> QED
      BY <1>11, <1>14, <2>1, <2>2, <2>3, <3>2
  <2>5. CASE items = <<>>
    <3>1. Silent(m)
      BY <1>5, <1>9, <1>15, <1>16, <2>5 DEF Silent, Empty
    <3> QED
      BY <1>11, <1>14, <1>19, <2>1, <2>2, <2>3, <2>5, <3>1
  <2> QED
    BY <2>4, <2>5
<1> QED
  BY <1>18, <1>19

\* Nothing is empty in a list of what is filled.
LEMMA FilledSpares ==
  ASSUME NEW sent, NEW d, NEW messages,
         sent \in Seq(Filled) \/ \E i \in DOMAIN messages :
                                   Silent(messages[i]) /\ (d \in OpenAI => messages[i].role # "assistant")
  PROVE  Spares(sent, d, messages)
<1>1. CASE sent \in Seq(Filled)
  <2>1. \A i \in DOMAIN sent : sent[i] \in Filled
    BY <1>1
  <2> QED
    BY <2>1 DEF Spares, Filled
<1> QED
  BY <1>1 DEF Spares

\* So do the payloads of OpenAI and of those like it.
LEMMA OpenAISays ==
  ASSUME NEW d \in OpenAI, NEW answered, NEW messages \in Seq(Sayable),
         NEW sent, sent = OpenAIWire(messages, d = "deepseek")
  PROVE  Told(sent, d, answered, messages) /\ Spares(sent, d, messages)
<1>1. PICK g : g = [m \in Sayable |-> OpenAIMessage(m, d = "deepseek")]
  OBVIOUS
<1>2. ASSUME NEW m \in Sayable
      PROVE  /\ g[m] \in Seq(Envelopes) /\ FlatMap(EnvelopeTells, g[m]) = Means(d, answered, m)
             /\ g[m] \in Seq(Filled) \/ (Silent(m) /\ m.role # "assistant")
  <2>1. g[m] = OpenAIMessage(m, d = "deepseek")
    BY <1>1
  <2> QED
    BY <2>1, OpenAIMessageSays
<1>3. g \in [Sayable -> Seq(Envelopes)]
  BY <1>1, <1>2
<1>4. \A i \in DOMAIN messages : messages[i] \in Sayable
  OBVIOUS
<1>5. sent = FlatMap(g, messages)
  <2>1. [i \in DOMAIN messages |-> OpenAIMessage(messages[i], d = "deepseek")] =
        [i \in DOMAIN messages |-> g[messages[i]]]
    BY <1>1, <1>4
  <2> QED
    BY <2>1, Zenon DEF OpenAIWire, FlatMap
<1>6. sent \in Seq(Envelopes)
  BY <1>3, <1>5, FlatMapType
<1>7. FlatMap(EnvelopeTells, sent) = FlatMap(Meaning(d, answered), messages)
  <2>1. EnvelopeTells \in [Envelopes -> Seq(Utterance)]
    <3>1. <<>> \in Seq(Items) /\ "tool" \in Roles
      BY DEF Roles
    <3> QED
      BY <3>1, EnvelopeIs
  <2>2. PICK h \in [Sayable -> Seq(Utterance)] : h = Meaning(d, answered)
    BY MeaningType
  <2>3. \A m \in Sayable : h[m] = FlatMap(EnvelopeTells, g[m])
    BY <1>2, <2>2 DEF Meaning
  <2>4. MadeTwice(EnvelopeTells, g, h, messages)
    BY <1>3, <2>1, <2>3, FlatMapTwice
  <2> QED
    BY <1>5, <2>2, <2>4 DEF MadeTwice
<1>8. Spares(sent, d, messages)
  <2>1. CASE \E i \in DOMAIN messages : Silent(messages[i]) /\ messages[i].role # "assistant"
    BY <2>1, FilledSpares
  <2>2. CASE ~ \E i \in DOMAIN messages : Silent(messages[i]) /\ messages[i].role # "assistant"
    <3>1. \A i \in DOMAIN messages : g[messages[i]] \in Seq(Filled)
      BY <1>2, <1>4, <2>2
    <3>2. sent \in Seq(Filled)
      BY <1>3, <1>5, <3>1, FlatMapWithin
    <3> QED
      BY <3>2, FilledSpares
  <2> QED
    BY <2>1, <2>2
<1> QED
  BY <1>6, <1>7, <1>8 DEF Told

-----------------------------------------------------------------------------
(* The Responses API. *)

IsCall(e) == e.items # <<>> /\ e.items[1].type = "call"
Answering(answered) == {e \in Envelopes : IsCall(e) => e.items[1].of[1] \in answered}

\* What is left of an envelope, and what it says then.
LeftTells(answered) ==
  [e \in Envelopes |-> IF e \in Answering(answered) THEN EnvelopeTells[e] ELSE <<>>]

\* To leave the others out is to make nothing of them.
LEMMA LeftIs ==
  ASSUME NEW answered
  PROVE  /\ LeftTells(answered) \in [Envelopes -> Seq(Utterance)]
         /\ EnvelopeTells \in [Envelopes -> Seq(Utterance)]
         /\ \A s \in Seq(Envelopes) :
              FlatMap(EnvelopeTells, FlatMap(Keep(Envelopes, Answering(answered)), s)) =
              FlatMap(LeftTells(answered), s)
<1>1. EnvelopeTells \in [Envelopes -> Seq(Utterance)]
  <2>1. <<>> \in Seq(Items) /\ "tool" \in Roles
    BY DEF Roles
  <2> QED
    BY <2>1, EnvelopeIs
<1>2. PICK h : h = LeftTells(answered)
  OBVIOUS
<1>3. h \in [Envelopes -> Seq(Utterance)]
  <2>1. <<>> \in Seq(Utterance)
    OBVIOUS
  <2> QED
    BY <1>1, <1>2, <2>1 DEF LeftTells
<1>4. PICK g \in [Envelopes -> Seq(Envelopes)] : g = Keep(Envelopes, Answering(answered))
  BY KeepType
<1>5. ASSUME NEW e \in Envelopes PROVE h[e] = FlatMap(EnvelopeTells, g[e])
  <2>1. FlatMap(EnvelopeTells, <<e>>) = EnvelopeTells[e] /\ FlatMap(EnvelopeTells, <<>>) = <<>>
    BY <1>1, FlatMapOne, FlatMapNone
  <2>2. g[e] = IF e \in Answering(answered) THEN <<e>> ELSE <<>>
    BY <1>4 DEF Keep
  <2>3. h[e] = IF e \in Answering(answered) THEN EnvelopeTells[e] ELSE <<>>
    BY <1>2 DEF LeftTells
  <2> QED
    BY <2>1, <2>2, <2>3
<1>6. ASSUME NEW s \in Seq(Envelopes)
      PROVE  FlatMap(EnvelopeTells, FlatMap(g, s)) = FlatMap(h, s)
  <2>1. MadeTwice(EnvelopeTells, g, h, s)
    BY <1>1, <1>3, <1>5, FlatMapTwice
  <2> QED
    BY <2>1 DEF MadeTwice
<1> QED
  BY <1>1, <1>2, <1>3, <1>4, <1>6

\* An envelope that holds no call is left.
LEMMA LeftOther ==
  ASSUME NEW answered, NEW role \in Roles, NEW items \in Seq(Items),
         items # <<>> => items[1].type # "call"
  PROVE  FlatMap(LeftTells(answered), <<Envelope(role, items)>>) = Say(Speaker(role), items)
<1>1. PICK e \in Envelopes :
        e = Envelope(role, items) /\ e.items = items /\ EnvelopeTells[e] = Say(Speaker(role), items)
  BY EnvelopeIs
<1>2. e \in Answering(answered)
  BY <1>1 DEF Answering, IsCall
<1>3. LeftTells(answered)[e] = EnvelopeTells[e]
  BY <1>2 DEF LeftTells
<1>4. FlatMap(LeftTells(answered), <<e>>) = LeftTells(answered)[e]
  <2>1. PICK h \in [Envelopes -> Seq(Utterance)] : h = LeftTells(answered)
    BY LeftIs
  <2>2. FlatMap(h, <<e>>) = h[e]
    BY FlatMapOne
  <2> QED
    BY <2>1, <2>2
<1> QED
  BY <1>1, <1>3, <1>4

\* The calls of an assistant, each in an envelope.
CallEnvelopes == [c \in CallRefs |-> Envelope("assistant", <<Item("call", <<c>>)>>)]

\* It is left if the call is answered, and says the call.
LEMMA CallEnvelopeIs ==
  ASSUME NEW answered, NEW c \in CallRefs
  PROVE  /\ CallEnvelopes[c] \in Filled /\ CallEnvelopes[c] \in Envelopes
         /\ LeftTells(answered)[CallEnvelopes[c]] =
              IF c \in answered THEN TellsEach("model", "call")[c] ELSE <<>>
<1>1. c \in Token /\ "call" \in ItemTypes /\ "assistant" \in Roles /\ "model" \in Speakers
  BY DEF CallRefs, Token, ItemTypes, Roles, Speakers
<1>2. <<c>> \in Seq(Token)
  BY <1>1
<1>3. PICK item \in Items :
        /\ item = Item("call", <<c>>) /\ <<item>> \in Seq(Items)
        /\ Say("model", <<item>>) = FlatMap(TellsEach("model", "call"), <<c>>)
  BY <1>1, <1>2, OneItem
<1>4. item.type = "call" /\ item.of[1] = c
  BY <1>3 DEF Item
<1>5. FlatMap(TellsEach("model", "call"), <<c>>) = TellsEach("model", "call")[c]
  <2>1. TellsEach("model", "call") \in [Token -> Seq(Utterance)]
    BY <1>1, TellsTypes
  <2> QED
    BY <1>1, <2>1, FlatMapOne
<1>6. PICK items \in Seq(Items) : items = <<item>>
  BY <1>3
<1>7. PICK e \in Envelopes :
        e = Envelope("assistant", items) /\ e.items = items /\ EnvelopeTells[e] = Say(Speaker("assistant"), items)
  BY <1>1, EnvelopeIs
<1>8. CallEnvelopes[c] = e
  BY <1>3, <1>6, <1>7 DEF CallEnvelopes
<1>9. items # <<>> /\ items[1] = item
  BY <1>6
<1>10. e \in Answering(answered) <=> c \in answered
  BY <1>4, <1>7, <1>9 DEF Answering, IsCall
<1>11. Speaker("assistant") = "model"
  BY DEF Speaker
<1>12. LeftTells(answered)[e] = IF c \in answered THEN TellsEach("model", "call")[c] ELSE <<>>
  BY <1>3, <1>5, <1>6, <1>7, <1>10, <1>11 DEF LeftTells
<1>13. e \in Filled
  BY <1>7, <1>9 DEF Filled
<1> QED
  BY <1>8, <1>12, <1>13

\* Of the calls of an assistant, those that are answered are left.
LEMMA CallsLeft ==
  ASSUME NEW answered, NEW calls \in Seq(CallRefs)
  PROVE  /\ Mapped(CallEnvelopes, calls) \in Seq(Filled)
         /\ Mapped(CallEnvelopes, calls) \in Seq(Envelopes)
         /\ FlatMap(LeftTells(answered), Mapped(CallEnvelopes, calls)) =
              FlatMap(TellsEach("model", "call"), FlatMap(Keep(CallRefs, answered), calls))
<1>1. PICK k : k = CallEnvelopes
  OBVIOUS
<1>2. k \in [CallRefs -> Filled] /\ k \in [CallRefs -> Envelopes]
  <2>1. \A c \in CallRefs : k[c] \in Filled /\ k[c] \in Envelopes
    BY <1>1, CallEnvelopeIs
  <2>2. k = [c \in CallRefs |-> k[c]]
    BY <1>1 DEF CallEnvelopes
  <2> QED
    BY <2>1, <2>2
<1>3. MapsInto(k, calls, Filled) /\ MapsInto(k, calls, Envelopes)
  BY <1>2, MappedType
<1>4. PICK g \in [CallRefs -> Seq(CallRefs)] : g = Keep(CallRefs, answered)
  BY KeepType
<1>5. PICK f \in [Token -> Seq(Utterance)] : f = TellsEach("model", "call")
  BY TellsTypes DEF Speakers, ItemTypes
<1>6. CallRefs \subseteq Token
  BY DEF CallRefs, Token
<1>7. PICK h : h = [c \in CallRefs |-> IF c \in answered THEN f[c] ELSE <<>>]
  OBVIOUS
<1>8. h \in [CallRefs -> Seq(Utterance)]
  <2>1. <<>> \in Seq(Utterance)
    OBVIOUS
  <2> QED
    BY <1>6, <1>7, <2>1
<1>9. FlatMap(LeftTells(answered), Mapped(k, calls)) = FlatMap(h, calls)
  <2>1. \A i \in DOMAIN calls : calls[i] \in CallRefs
    OBVIOUS
  <2>2. \A c \in CallRefs : h[c] = LeftTells(answered)[k[c]]
    BY <1>1, <1>5, <1>7, CallEnvelopeIs
  <2>3. MadeOfOne(LeftTells(answered), k, h, calls)
    BY <2>1, <2>2 DEF MadeOfOne
  <2> QED
    BY <2>3, MappedThen
<1>10. FlatMap(f, FlatMap(g, calls)) = FlatMap(h, calls)
  <2>1. ASSUME NEW c \in CallRefs PROVE h[c] = FlatMap(f, g[c])
    <3>1. g[c] = IF c \in answered THEN <<c>> ELSE <<>>
      BY <1>4 DEF Keep
    <3>2. FlatMap(f, <<c>>) = f[c] /\ FlatMap(f, <<>>) = <<>>
      BY <1>6, FlatMapOne, FlatMapNone
    <3> QED
      BY <1>7, <3>1, <3>2
  <2>2. g \in [CallRefs -> Seq(Token)]
    <3>1. \A c \in CallRefs : g[c] \in Seq(Token)
      <4>1. Seq(CallRefs) \subseteq Seq(Token)
        BY <1>6, SeqMonotonic
      <4> QED
        BY <4>1
    <3> QED
      BY <3>1
  <2>3. MadeTwice(f, g, h, calls)
    BY <1>8, <2>1, <2>2, FlatMapTwice
  <2> QED
    BY <2>3 DEF MadeTwice
<1> QED
  BY <1>1, <1>3, <1>4, <1>5, <1>9, <1>10 DEF MapsInto

\* What is left of the items of a message says what it means.
LEMMA ResponsesItemsSay ==
  ASSUME NEW m \in Sayable, NEW answered, NEW sent, sent = ResponsesItems(m)
  PROVE  /\ sent \in Seq(Envelopes)
         /\ FlatMap(LeftTells(answered), sent) = Means("responses", answered, m)
         /\ sent \in Seq(Filled) \/ Silent(m)
<1>1. PICK by \in Speakers : by = Speaker(m.role)
  BY DEF Speaker, Speakers
<1>2. /\ m.role \in Roles /\ m.parts \in Seq(PartItems) /\ m.calls \in Seq(CallRefs)
      /\ m.calls # <<>> => m.role = "assistant"
  BY SayableHas
<1>3. PICK calls : calls = FlatMap(Keep(CallRefs, answered), m.calls)
  OBVIOUS
<1>4. PICK told \in Seq(Utterance) :
        /\ told = Say(by, <<Item("call", calls)>>) /\ told = FlatMap(TellsEach(by, "call"), calls)
        /\ m.calls = <<>> => told = <<>>
  <2>1. calls = FlatMap(Keep(CallRefs, Known("responses", answered)), m.calls)
    BY <1>3 DEF Known
  <2>2. /\ Say(by, <<Item("call", calls)>>) \in Seq(Utterance)
        /\ Say(by, <<Item("call", calls)>>) = FlatMap(TellsEach(by, "call"), calls)
    BY <1>1, <2>1, MeansTypes
  <2>3. m.calls = <<>> => Say(by, <<Item("call", calls)>>) = <<>>
    BY <1>1, <2>1, MeansTypes
  <2> QED
    BY <2>2, <2>3
<1>5. PICK o \in Seq(Utterance) :
        /\ o = Say(by, Content("responses", m))
        /\ o = IF m.role = "tool" THEN Say(by, Result(m)) ELSE Say(by, m.parts)
  <2>1. PICK o \in Seq(Utterance) : o = Say(by, Content("responses", m))
    BY <1>1, MeansTypes
  <2>2. Content("responses", m) = IF m.role = "tool" THEN Result(m) ELSE m.parts
    BY MeansTypes
  <2> QED
    BY <2>1, <2>2
<1>6. Means("responses", answered, m) = o \o told
  <2>1. Means("responses", answered, m) = <<>> \o o \o told
    <3>1. Known("responses", answered) = answered
      BY DEF Known
    <3>2. "responses" # "deepseek"
      OBVIOUS
    <3>3. Means("responses", answered, m) =
            (IF "responses" = "deepseek" THEN Say(by, <<Item("thought", m.reasoning)>>) ELSE <<>>)
              \o Say(by, Content("responses", m))
              \o Say(by, <<Item("call", calls)>>)
      BY <1>1, <1>3, <3>1, Zenon DEF Means
    <3> QED
      BY <1>4, <1>5, <3>2, <3>3
  <2>2. <<>> \o o = o
    BY ConcatEmptySeq
  <2> QED
    BY <2>1, <2>2
<1>7. CASE m.role = "tool"
  <2>1. told = <<>> /\ o \o <<>> = o
    BY <1>2, <1>4, <1>7, ConcatEmptySeq
  <2>2. PICK items \in Seq(Items) :
          items = Result(m) /\ items # <<>> /\ items[1].type = "result"
    BY ResultIs
  <2>3. sent = <<Envelope(m.role, items)>>
    BY <1>7, <2>2 DEF ResponsesItems
  <2>4. FlatMap(LeftTells(answered), sent) = Say(by, items)
    BY <1>1, <1>2, <2>2, <2>3, LeftOther
  <2>5. PICK e \in Envelopes : e = Envelope(m.role, items) /\ e.items = items
    BY <1>2, EnvelopeIs
  <2>6. e \in Filled
    BY <2>2, <2>5 DEF Filled
  <2>7. sent \in Seq(Envelopes) /\ sent \in Seq(Filled)
    BY <2>3, <2>5, <2>6
  <2> QED
    BY <1>5, <1>6, <1>7, <2>1, <2>2, <2>4, <2>7
<1>8. CASE m.role # "tool"
  <2>1. PICK content \in Seq(Items) :
          /\ content = Blocks(m.parts) /\ Say(by, content) = o
          /\ content = <<>> => Empty(m.parts)
          /\ content # <<>> => content[1].type # "call"
    <3>1. /\ Blocks(m.parts) \in Seq(Items) /\ Say(by, Blocks(m.parts)) = Say(by, m.parts)
          /\ Blocks(m.parts) = <<>> => Empty(m.parts)
          /\ \A i \in DOMAIN Blocks(m.parts) : Blocks(m.parts)[i].type \in {"text", "image"}
      BY <1>2, BlocksSay
    <3>2. PICK content \in Seq(Items) : content = Blocks(m.parts)
      BY <3>1
    <3>3. content # <<>> => 1 \in DOMAIN content
      OBVIOUS
    <3>4. content # <<>> => content[1].type # "call"
      BY <3>1, <3>2, <3>3
    <3> QED
      BY <1>5, <1>8, <3>1, <3>2, <3>4
  <2>2. PICK uses \in Seq(Items) :
          uses = Uses(m) /\ uses = Mapped(CallItems, m.calls) /\ (uses = <<>> <=> m.calls = <<>>)
    BY <1>2, UsesSay
  <2>3. (IF m.role = "assistant" THEN Uses(m) ELSE <<>>) = uses
    BY <1>2, <2>2
  <2>4. PICK last : last = [i \in DOMAIN uses |-> Envelope("assistant", <<uses[i]>>)]
    OBVIOUS
  <2>5. last = Mapped(CallEnvelopes, m.calls)
    <3>1. DOMAIN uses = DOMAIN m.calls /\ \A i \in DOMAIN m.calls : uses[i] = CallItems[m.calls[i]]
      BY <2>2 DEF Mapped
    <3>2. \A i \in DOMAIN m.calls : m.calls[i] \in CallRefs
      BY <1>2
    <3>3. \A c \in CallRefs : CallEnvelopes[c] = Envelope("assistant", <<CallItems[c]>>)
      BY DEF CallItems, CallEnvelopes
    <3> QED
      BY <2>4, <3>1, <3>2, <3>3 DEF Mapped
  <2>6. PICK first \in Seq(Envelopes) :
          /\ first = IF content = <<>> /\ uses # <<>> THEN <<>> ELSE <<Envelope(m.role, content)>>
          /\ FlatMap(LeftTells(answered), first) = o
          /\ first \in Seq(Filled) \/ Silent(m)
    <3>1. PICK e \in Envelopes : e = Envelope(m.role, content) /\ e.items = content
      BY <1>2, EnvelopeIs
    <3>2. PICK first : first = IF content = <<>> /\ uses # <<>> THEN <<>> ELSE <<e>>
      OBVIOUS
    <3>3. first \in Seq(Envelopes)
      BY <3>2
    <3>4. FlatMap(LeftTells(answered), <<e>>) = o
      BY <1>1, <1>2, <2>1, <3>1, LeftOther
    <3>5. content = <<>> => o = <<>>
      <4>1. Say(by, <<>>) = <<>>
        BY FlatMapNone DEF Say
      <4> QED
        BY <2>1, <4>1
    <3>6. FlatMap(LeftTells(answered), first) = o
      BY <3>2, <3>4, <3>5, FlatMapNone
    <3>7. CASE content = <<>>
      <4>1. uses = <<>> => Silent(m)
        BY <2>1, <2>2, <3>7 DEF Silent, Empty
      <4>2. uses # <<>> => first \in Seq(Filled)
        BY <3>2, <3>7
      <4> QED
        BY <3>1, <3>2, <3>3, <3>6, <4>1, <4>2
    <3>8. CASE content # <<>>
      <4>1. e \in Filled
        BY <3>1, <3>8 DEF Filled
      <4>2. first \in Seq(Filled)
        BY <3>2, <3>8, <4>1
      <4> QED
        BY <3>1, <3>2, <3>3, <3>6, <4>2
    <3> QED
      BY <3>7, <3>8
  <2>7. sent = first \o last
    BY <1>8, <2>1, <2>3, <2>4, <2>6, Zenon DEF ResponsesItems
  <2>8. /\ last \in Seq(Filled) /\ last \in Seq(Envelopes)
        /\ FlatMap(LeftTells(answered), last) = FlatMap(TellsEach("model", "call"), calls)
    BY <1>2, <1>3, <2>5, CallsLeft
  <2>9. FlatMap(LeftTells(answered), last) = told
    <3>1. CASE m.role = "assistant"
      <4>1. by = "model"
        BY <1>1, <3>1 DEF Speaker
      <4> QED
        BY <1>4, <2>8, <4>1
    <3>2. CASE m.role # "assistant"
      <4>1. m.calls = <<>>
        BY <1>2, <3>2
      <4>2. calls = <<>>
        BY <1>3, <4>1, FlatMapNone
      <4> QED
        BY <1>4, <2>8, <4>1, <4>2, FlatMapNone
    <3> QED
      BY <3>1, <3>2
  <2>10. FlatMapJoins(LeftTells(answered), first, last)
    BY <2>8, LeftIs, FlatMapConcat
  <2>11. FlatMap(LeftTells(answered), sent) = o \o told
    BY <2>6, <2>7, <2>9, <2>10 DEF FlatMapJoins
  <2>12. sent \in Seq(Envelopes)
    BY <2>6, <2>7, <2>8, ConcatProperties, Zenon
  <2>13. first \in Seq(Filled) => sent \in Seq(Filled)
    <3>1. ASSUME first \in Seq(Filled) PROVE first \o last \in Seq(Filled)
      BY <2>8, <3>1, ConcatProperties, Zenon
    <3> QED
      BY <2>7, <3>1
  <2> QED
    BY <1>6, <2>6, <2>11, <2>12, <2>13
<1> QED
  BY <1>7, <1>8

\* The calls that the messages answer.
AnsweredBy(messages) == UNION {Range(messages[i].answers) : i \in DOMAIN messages}

\* The payload of the Responses API says what the messages mean, unanswered calls left out.
LEMMA ResponsesSays ==
  ASSUME NEW messages \in Seq(Sayable), NEW answered, answered = AnsweredBy(messages),
         NEW sent, sent = ResponsesWire(messages)
  PROVE  Told(sent, "responses", answered, messages) /\ Spares(sent, "responses", messages)
<1>1. PICK g : g = [m \in Sayable |-> ResponsesItems(m)]
  OBVIOUS
<1>2. ASSUME NEW m \in Sayable
      PROVE  /\ g[m] \in Seq(Envelopes)
             /\ FlatMap(LeftTells(answered), g[m]) = Means("responses", answered, m)
             /\ g[m] \in Seq(Filled) \/ Silent(m)
  <2>1. g[m] = ResponsesItems(m)
    BY <1>1
  <2> QED
    BY <2>1, ResponsesItemsSay
<1>3. g \in [Sayable -> Seq(Envelopes)]
  BY <1>1, <1>2
<1>4. \A i \in DOMAIN messages : messages[i] \in Sayable
  OBVIOUS
<1>5. PICK all \in Seq(Envelopes) : all = FlatMap(g, messages)
  BY <1>3, FlatMapType
<1>6. FlattenSeq([i \in DOMAIN messages |-> ResponsesItems(messages[i])]) = all
  <2>1. [i \in DOMAIN messages |-> ResponsesItems(messages[i])] = [i \in DOMAIN messages |-> g[messages[i]]]
    BY <1>1, <1>4
  <2> QED
    BY <1>5, <2>1, Zenon DEF FlatMap
<1>7. PICK k \in [Envelopes -> Seq(Envelopes)] : k = Keep(Envelopes, Answering(answered))
  BY KeepType
<1>8. sent = FlatMap(k, all)
  <2>1. ASSUME NEW i \in DOMAIN all
        PROVE  (IF (all[i].items # <<>> /\ all[i].items[1].type = "call") =>
                     all[i].items[1].of[1] \in answered
                THEN <<all[i]>> ELSE <<>>) = k[all[i]]
    <3>1. PICK e \in Envelopes : e = all[i]
      OBVIOUS
    <3>2. k[e] = IF e \in Answering(answered) THEN <<e>> ELSE <<>>
      BY <1>7 DEF Keep
    <3>3. e \in Answering(answered) <=>
            ((e.items # <<>> /\ e.items[1].type = "call") => e.items[1].of[1] \in answered)
      BY DEF Answering, IsCall
    <3> QED
      BY <3>1, <3>2, <3>3
  <2>2. [i \in DOMAIN all |-> IF (all[i].items # <<>> /\ all[i].items[1].type = "call") =>
                                  all[i].items[1].of[1] \in answered
                              THEN <<all[i]>> ELSE <<>>] = [i \in DOMAIN all |-> k[all[i]]]
    BY <2>1
  <2>3. Where(all, LAMBDA e : (e.items # <<>> /\ e.items[1].type = "call") =>
                                 e.items[1].of[1] \in answered) = FlatMap(k, all)
    BY <2>2, Zenon DEF Where, FlatMap
  <2>4. ResponsesWire(messages) =
          Where(all, LAMBDA e : (e.items # <<>> /\ e.items[1].type = "call") =>
                                   e.items[1].of[1] \in answered)
    BY <1>6 DEF ResponsesWire, AnsweredBy
  <2> QED
    BY <2>3, <2>4, Zenon
<1>9. sent \in Seq(Envelopes)
  BY <1>8, FlatMapType
<1>10. FlatMap(EnvelopeTells, sent) = FlatMap(Meaning("responses", answered), messages)
  <2>1. FlatMap(EnvelopeTells, sent) = FlatMap(LeftTells(answered), all)
    BY <1>7, <1>8, LeftIs
  <2>2. PICK h \in [Sayable -> Seq(Utterance)] : h = Meaning("responses", answered)
    BY MeaningType
  <2>3. \A m \in Sayable : h[m] = FlatMap(LeftTells(answered), g[m])
    BY <1>2, <2>2 DEF Meaning
  <2>4. MadeTwice(LeftTells(answered), g, h, messages)
    BY <1>3, <2>3, LeftIs, FlatMapTwice
  <2> QED
    BY <1>5, <2>1, <2>2, <2>4 DEF MadeTwice
<1>11. Spares(sent, "responses", messages)
  <2>1. "responses" \notin OpenAI
    BY DEF OpenAI
  <2>2. CASE \E i \in DOMAIN messages : Silent(messages[i])
    BY <2>1, <2>2, FilledSpares
  <2>3. CASE ~ \E i \in DOMAIN messages : Silent(messages[i])
    <3>1. \A i \in DOMAIN messages : g[messages[i]] \in Seq(Filled)
      BY <1>2, <1>4, <2>3
    <3>2. all \in Seq(Filled)
      BY <1>3, <1>5, <3>1, FlatMapWithin
    <3>3. \A i \in DOMAIN all : k[all[i]] \in Seq(Filled)
      <4>1. ASSUME NEW i \in DOMAIN all PROVE k[all[i]] \in Seq(Filled)
        <5>1. PICK e \in Envelopes : e = all[i] /\ e \in Filled
          BY <3>2
        <5>2. k[e] = <<e>> \/ k[e] = <<>>
          BY <1>7 DEF Keep
        <5>3. <<e>> \in Seq(Filled) /\ <<>> \in Seq(Filled)
          BY <5>1
        <5> QED
          BY <5>1, <5>2, <5>3
      <4> QED
        BY <4>1
    <3>4. sent \in Seq(Filled)
      BY <1>8, <3>3, FlatMapWithin
    <3> QED
      BY <3>4, FilledSpares
  <2> QED
    BY <2>2, <2>3
<1> QED
  BY <1>9, <1>10, <1>11 DEF Told

-----------------------------------------------------------------------------
(* Anthropic. *)

\* Each of the three that Anthropic is sent is such an envelope.
LEMMA AnthropicSends ==
  ASSUME NEW m \in Sayable
  PROVE  Sends(AnthropicMessage(m), m)
<1>1. m.role \in Roles /\ (m.calls # <<>> => m.role = "assistant")
  BY SayableHas
<1>2. CASE m.role = "tool"
  <2>1. AnthropicMessage(m) = Envelope("user", Direct(m))
    BY <1>2 DEF AnthropicMessage, Direct
  <2> QED
    BY <1>2, <2>1 DEF Sends, Speaker, Roles
<1>3. CASE m.role = "assistant" /\ m.calls # <<>>
  <2>1. AnthropicMessage(m) = Envelope("assistant", Direct(m))
    BY <1>3 DEF AnthropicMessage, Direct
  <2> QED
    BY <1>3, <2>1 DEF Sends, Speaker, Roles
<1>4. CASE m.role # "tool" /\ m.calls = <<>>
  <2>1. AnthropicMessage(m) = Envelope(m.role, Direct(m))
    BY <1>4 DEF AnthropicMessage, Direct
  <2> QED
    BY <1>1, <2>1 DEF Sends
<1> QED
  BY <1>1, <1>2, <1>3, <1>4

\* What the system says, and the rest.
SystemOnes == {m \in Sayable : m.role = "system"}
OtherOnes == {m \in Sayable : m.role # "system"}
SystemFirst(messages) ==
  FlatMap(Keep(Sayable, SystemOnes), messages) \o FlatMap(Keep(Sayable, OtherOnes), messages)

\* The messages parted, as Exchange parts them.
LEMMA PartedIs ==
  ASSUME NEW messages \in Seq(Sayable)
  PROVE  /\ FlattenSeq([i \in DOMAIN messages |->
                          IF messages[i].role = "system" THEN <<messages[i]>> ELSE <<>>]) =
              FlatMap(Keep(Sayable, SystemOnes), messages)
         /\ FlattenSeq([i \in DOMAIN messages |->
                          IF ~ (messages[i].role = "system") THEN <<messages[i]>> ELSE <<>>]) =
              FlatMap(Keep(Sayable, OtherOnes), messages)
         /\ FlatMap(Keep(Sayable, SystemOnes), messages) \in Seq(SystemOnes)
         /\ FlatMap(Keep(Sayable, OtherOnes), messages) \in Seq(OtherOnes)
<1>1. PICK g : g = Keep(Sayable, SystemOnes)
  OBVIOUS
<1>2. PICK k : k = Keep(Sayable, OtherOnes)
  OBVIOUS
<1>3. \A i \in DOMAIN messages : messages[i] \in Sayable
  OBVIOUS
<1>4. \A m \in Sayable : /\ g[m] = IF m.role = "system" THEN <<m>> ELSE <<>>
                         /\ k[m] = IF ~ (m.role = "system") THEN <<m>> ELSE <<>>
  BY <1>1, <1>2 DEF Keep, SystemOnes, OtherOnes
<1>5. [i \in DOMAIN messages |-> IF messages[i].role = "system" THEN <<messages[i]>> ELSE <<>>] =
      [i \in DOMAIN messages |-> g[messages[i]]]
  BY <1>3, <1>4
<1>6. [i \in DOMAIN messages |-> IF ~ (messages[i].role = "system") THEN <<messages[i]>> ELSE <<>>] =
      [i \in DOMAIN messages |-> k[messages[i]]]
  BY <1>3, <1>4
<1>7. Sayable \cap SystemOnes = SystemOnes /\ Sayable \cap OtherOnes = OtherOnes
  BY DEF SystemOnes, OtherOnes
<1>8. FlatMap(g, messages) \in Seq(SystemOnes) /\ FlatMap(k, messages) \in Seq(OtherOnes)
  BY <1>1, <1>2, <1>7, KeptPass
<1> QED
  BY <1>1, <1>2, <1>5, <1>6, <1>8, Zenon DEF FlatMap

\* What the system says is its texts.
LEMMA SystemMeans ==
  ASSUME NEW m \in SystemOnes, NEW answered
  PROVE  Means("anthropic", answered, m) = FlatMap(TellsEach("caller", "text"), TextsOf(m.parts))
<1>1. m \in Sayable /\ m.role = "system"
  BY DEF SystemOnes
<1>2. m.parts \in Seq(PartItems) /\ m.calls = <<>>
  BY <1>1, SayableHas
<1>3. PICK by \in Speakers : by = Speaker(m.role) /\ by = "caller"
  BY <1>1 DEF Speaker, Speakers
<1>4. PICK calls : calls = FlatMap(Keep(CallRefs, Known("anthropic", answered)), m.calls)
  OBVIOUS
<1>5. Say(by, <<Item("call", calls)>>) = <<>>
  BY <1>1, <1>2, <1>3, <1>4, MeansTypes
<1>6. PICK p \in Seq(Utterance) : p = Say(by, Content("anthropic", m))
  BY <1>1, <1>3, MeansTypes
<1>7. Means("anthropic", answered, m) = <<>> \o p \o <<>>
  <2>1. "anthropic" # "deepseek"
    OBVIOUS
  <2>2. Means("anthropic", answered, m) =
          (IF "anthropic" = "deepseek" THEN Say(by, <<Item("thought", m.reasoning)>>) ELSE <<>>)
            \o p \o Say(by, <<Item("call", calls)>>)
    BY <1>3, <1>4, <1>6, Zenon DEF Means
  <2> QED
    BY <1>5, <2>1, <2>2
<1>8. Means("anthropic", answered, m) = p
  BY <1>7
<1>9. Content("anthropic", m) = <<Item("text", TextsOf(m.parts))>>
  BY <1>1 DEF Content
<1>10. TextsOf(m.parts) \in Seq(Token)
  BY <1>2, TextsAre
<1>11. Say(by, <<Item("text", TextsOf(m.parts))>>) = FlatMap(TellsEach(by, "text"), TextsOf(m.parts))
  BY <1>10, OneItem DEF ItemTypes
<1> QED
  BY <1>3, <1>6, <1>8, <1>9, <1>11

\* The others mean to Anthropic what they mean to Gemini.
LEMMA OthersMean ==
  ASSUME NEW m \in OtherOnes, NEW answered
  PROVE  Means("anthropic", answered, m) = Means("gemini", answered, m)
<1>1. m \in Sayable /\ m.role # "system"
  BY DEF OtherOnes
<1>2. Content("anthropic", m) = Content("gemini", m)
  BY <1>1, MeansTypes
<1>3. Known("anthropic", answered) = Known("gemini", answered)
  BY DEF Known
<1>4. ("anthropic" = "deepseek") = ("gemini" = "deepseek")
  OBVIOUS
<1> QED
  BY <1>2, <1>3, <1>4, Zenon DEF Means

\* The texts of the system, one after the other, in an envelope of their own.
SystemTexts(s) == FlattenSeq([i \in DOMAIN s |-> TextsOf(s[i].parts)])
SystemEnvelope(s) ==
  IF SystemTexts(s) = <<>> THEN <<>> ELSE <<Envelope("system", <<Item("text", SystemTexts(s))>>)>>

\* It says what the messages of the system mean.
LEMMA SystemSays ==
  ASSUME NEW answered, NEW s \in Seq(SystemOnes)
  PROVE  /\ SystemEnvelope(s) \in Seq(Filled) /\ SystemEnvelope(s) \in Seq(Envelopes)
         /\ FlatMap(EnvelopeTells, SystemEnvelope(s)) = FlatMap(Meaning("anthropic", answered), s)
<1> DEFINE texts == SystemTexts(s)
           first == SystemEnvelope(s)
<1>1. PICK g : g = [m \in SystemOnes |-> TextsOf(m.parts)]
  OBVIOUS
<1>2. g \in [SystemOnes -> Seq(Token)]
  <2>1. ASSUME NEW m \in SystemOnes PROVE TextsOf(m.parts) \in Seq(Token)
    <3>1. m.parts \in Seq(PartItems)
      BY SayableHas DEF SystemOnes
    <3> QED
      BY <3>1, TextsAre
  <2> QED
    BY <1>1, <2>1
<1>3. texts = FlatMap(g, s)
  <2>1. \A i \in DOMAIN s : s[i] \in SystemOnes
    OBVIOUS
  <2>2. [i \in DOMAIN s |-> TextsOf(s[i].parts)] = [i \in DOMAIN s |-> g[s[i]]]
    BY <1>1, <2>1
  <2> QED
    BY <2>2, Zenon DEF FlatMap, SystemTexts
<1>4. first = IF texts = <<>> THEN <<>> ELSE <<Envelope("system", <<Item("text", texts)>>)>>
  BY DEF SystemEnvelope
<1> HIDE DEF texts, first
<1>5. texts \in Seq(Token)
  BY <1>2, <1>3, FlatMapType
<1>6. "caller" \in Speakers /\ "text" \in ItemTypes /\ "system" \in Roles /\ Speaker("system") = "caller"
  BY DEF Speakers, ItemTypes, Roles, Speaker
<1>7. PICK f \in [Token -> Seq(Utterance)] : f = TellsEach("caller", "text")
  BY <1>6, TellsTypes
<1>8. PICK items \in Seq(Items) :
        /\ items = <<Item("text", texts)>> /\ items # <<>>
        /\ Say("caller", items) = FlatMap(f, texts)
  BY <1>5, <1>6, <1>7, OneItem
<1>9. PICK e \in Envelopes :
        /\ e = Envelope("system", items) /\ e.items = items
        /\ FlatMap(EnvelopeTells, <<e>>) = Say("caller", items)
  <2>1. /\ Envelope("system", items) \in Envelopes /\ Envelope("system", items).items = items
        /\ FlatMap(EnvelopeTells, <<Envelope("system", items)>>) = Say(Speaker("system"), items)
    BY <1>6, EnvelopeIs
  <2> QED
    BY <1>6, <2>1
<1>10. first = IF texts = <<>> THEN <<>> ELSE <<e>>
  BY <1>8, <1>9, <1>4
<1>11. e \in Filled
  BY <1>8, <1>9 DEF Filled
<1>12. first \in Seq(Filled) /\ first \in Seq(Envelopes)
  BY <1>10, <1>11
<1>13. FlatMap(EnvelopeTells, first) = FlatMap(f, texts)
  BY <1>8, <1>9, <1>10, FlatMapNone
<1>14. PICK h \in [Sayable -> Seq(Utterance)] : h = Meaning("anthropic", answered)
  BY MeaningType
<1>15. PICK r : r = [m \in SystemOnes |-> h[m]]
  OBVIOUS
<1>16. r \in [SystemOnes -> Seq(Utterance)] /\ \A m \in SystemOnes : r[m] = FlatMap(f, g[m])
  <2>1. ASSUME NEW m \in SystemOnes PROVE r[m] = FlatMap(f, g[m]) /\ r[m] \in Seq(Utterance)
    <3>1. m \in Sayable
      BY DEF SystemOnes
    <3>2. r[m] = Means("anthropic", answered, m)
      BY <1>14, <1>15, <3>1 DEF Meaning
    <3> QED
      BY <1>1, <1>7, <1>14, <1>15, <3>1, <3>2, SystemMeans
  <2> QED
    BY <1>15, <2>1
<1>17. FlatMap(f, texts) = FlatMap(r, s)
  <2>1. MadeTwice(f, g, r, s)
    BY <1>2, <1>16, FlatMapTwice
  <2> QED
    BY <1>3, <2>1 DEF MadeTwice
<1>18. FlatMap(r, s) = FlatMap(h, s)
  <2>1. \A i \in DOMAIN s : r[s[i]] = h[s[i]]
    BY <1>15
  <2> QED
    BY <2>1, FlatMapAgree
<1> QED
  BY <1>12, <1>13, <1>14, <1>17, <1>18 DEF first

\* Anthropic's payload says what the messages mean, those of the system first.
LEMMA AnthropicSays ==
  ASSUME NEW answered, NEW messages \in Seq(Sayable), NEW sent, sent = AnthropicWire(messages)
  PROVE  /\ Told(sent, "anthropic", answered, SystemFirst(messages))
         /\ Spares(sent, "anthropic", messages)
<1>1. PICK s \in Seq(SystemOnes) :
        /\ s = FlatMap(Keep(Sayable, SystemOnes), messages)
        /\ s = FlattenSeq([i \in DOMAIN messages |->
                             IF messages[i].role = "system" THEN <<messages[i]>> ELSE <<>>])
  BY PartedIs
<1>2. PICK o \in Seq(OtherOnes) :
        /\ o = FlatMap(Keep(Sayable, OtherOnes), messages)
        /\ o = FlattenSeq([i \in DOMAIN messages |->
                             IF ~ (messages[i].role = "system") THEN <<messages[i]>> ELSE <<>>])
  BY PartedIs
<1>3. s \in Seq(Sayable) /\ o \in Seq(Sayable)
  <2>1. SystemOnes \subseteq Sayable /\ OtherOnes \subseteq Sayable
    BY DEF SystemOnes, OtherOnes
  <2> QED
    BY <2>1, SeqMonotonic
<1>4. PICK first : first = SystemEnvelope(s)
  OBVIOUS
<1>5. /\ first \in Seq(Filled) /\ first \in Seq(Envelopes)
      /\ FlatMap(EnvelopeTells, first) = FlatMap(Meaning("anthropic", answered), s)
  BY <1>4, SystemSays
<1>6. PICK k : k = [m \in Sayable |-> AnthropicMessage(m)]
  OBVIOUS
<1>7. PICK last : last = Mapped(k, o)
  OBVIOUS
<1>8. Told(last, "gemini", answered, o) /\ Spares(last, "gemini", o)
  <2>1. DOMAIN k = Sayable /\ k = [m \in Sayable |-> k[m]] /\ \A m \in Sayable : Sends(k[m], m)
    BY <1>6, AnthropicSends
  <2>2. Told(Mapped(k, o), "gemini", answered, o) /\ Spares(Mapped(k, o), "gemini", o)
    BY <1>3, <2>1, SentOneByOne
  <2> QED
    BY <1>7, <2>2
<1>9. last = [i \in DOMAIN o |-> AnthropicMessage(o[i])]
  <2>1. \A i \in DOMAIN o : o[i] \in Sayable
    BY <1>3
  <2> QED
    BY <1>6, <1>7, <2>1 DEF Mapped
<1>10. sent = first \o last
  BY <1>1, <1>2, <1>4, <1>9 DEF AnthropicWire, Where, SystemEnvelope, SystemTexts
<1>11. last \in Seq(Envelopes)
  BY <1>8 DEF Told
<1>12. sent \in Seq(Envelopes)
  BY <1>5, <1>10, <1>11, ConcatProperties, Zenon
<1>13. FlatMap(EnvelopeTells, sent) = FlatMap(Meaning("anthropic", answered), SystemFirst(messages))
  <2>1. PICK h \in [Sayable -> Seq(Utterance)] : h = Meaning("anthropic", answered)
    BY MeaningType
  <2>2. FlatMapJoins(h, s, o)
    BY <1>3, FlatMapConcat
  <2>3. EnvelopeTells \in [Envelopes -> Seq(Utterance)]
    <3>1. <<>> \in Seq(Items) /\ "tool" \in Roles
      BY DEF Roles
    <3> QED
      BY <3>1, EnvelopeIs
  <2>4. FlatMapJoins(EnvelopeTells, first, last)
    BY <1>5, <1>11, <2>3, FlatMapConcat
  <2>5. FlatMap(EnvelopeTells, last) = FlatMap(h, o)
    <3>1. PICK w : w = Meaning("gemini", answered)
      OBVIOUS
    <3>2. \A i \in DOMAIN o : o[i] \in OtherOnes
      OBVIOUS
    <3>3. ASSUME NEW i \in DOMAIN o PROVE h[o[i]] = w[o[i]]
      <4>1. PICK m \in OtherOnes : m = o[i]
        BY <3>2
      <4>2. m \in Sayable
        BY DEF OtherOnes
      <4>3. h[m] = Means("anthropic", answered, m) /\ w[m] = Means("gemini", answered, m)
        BY <2>1, <3>1, <4>2 DEF Meaning
      <4> QED
        BY <4>1, <4>3, OthersMean
    <3>4. FlatMap(h, o) = FlatMap(w, o)
      BY <3>3, FlatMapAgree
    <3> QED
      BY <1>8, <3>1, <3>4 DEF Told
  <2>6. SystemFirst(messages) = s \o o
    BY <1>1, <1>2 DEF SystemFirst
  <2> QED
    BY <1>5, <1>10, <2>1, <2>2, <2>4, <2>5, <2>6 DEF FlatMapJoins
<1>14. Spares(sent, "anthropic", messages)
  <2>1. "anthropic" \notin OpenAI
    BY DEF OpenAI
  <2>2. CASE \E i \in DOMAIN messages : Silent(messages[i])
    BY <2>1, <2>2, FilledSpares
  <2>3. CASE ~ \E i \in DOMAIN messages : Silent(messages[i])
    <3>1. PICK C : C = {m \in Sayable : ~ Silent(m)}
      OBVIOUS
    <3>2. o \in Seq(C)
      <4>1. PICK g \in [Sayable -> Seq(Sayable)] : g = Keep(Sayable, OtherOnes)
        BY KeepType
      <4>2. ASSUME NEW i \in DOMAIN messages PROVE g[messages[i]] \in Seq(C)
        <5>1. PICK m \in Sayable : m = messages[i]
          OBVIOUS
        <5>2. m \in C
          BY <2>3, <3>1, <5>1
        <5>3. g[m] = <<m>> \/ g[m] = <<>>
          BY <4>1 DEF Keep
        <5>4. <<m>> \in Seq(C) /\ <<>> \in Seq(C)
          BY <5>2
        <5> QED
          BY <5>1, <5>3, <5>4
      <4>3. o = FlatMap(g, messages)
        BY <1>2, <4>1
      <4>4. FlatMap(g, messages) \in Seq(C)
        BY <4>2, FlatMapWithin
      <4> QED
        BY <4>3, <4>4
    <3>3. \A i \in DOMAIN o : ~ Silent(o[i])
      <4>1. \A i \in DOMAIN o : o[i] \in C
        BY <3>2
      <4> QED
        BY <3>1, <4>1
    <3>4. \A i \in DOMAIN last : last[i].items # <<>>
      BY <1>8, <3>3 DEF Spares
    <3>5. last \in Seq(Filled)
      <4>1. PICK n \in Nat : n = Len(last)
        BY <1>11, LenProperties
      <4>2. DOMAIN last = 1 .. n
        BY <1>11, <4>1
      <4>3. \A i \in 1 .. n : last[i] \in Envelopes
        BY <1>11, <4>2
      <4>4. \A i \in 1 .. n : last[i] \in Filled
        BY <3>4, <4>2, <4>3 DEF Filled
      <4>5. last = [i \in 1 .. n |-> last[i]]
        BY <1>11, <4>2
      <4> QED
        BY <4>4, <4>5
    <3>6. sent \in Seq(Filled)
      BY <1>5, <1>10, <3>5, ConcatProperties, Zenon
    <3> QED
      BY <3>6, FilledSpares
  <2> QED
    BY <2>2, <2>3
<1> QED
  BY <1>12, <1>13, <1>14 DEF Told

-----------------------------------------------------------------------------
(* A request says what its messages say. *)

\* The messages of a chat in the order an adapter sends them in.
Ordered(d, messages) == IF d # "anthropic" THEN messages ELSE SystemFirst(messages)

\* Whichever the adapter, its payload says what the messages mean.
LEMMA WireSays ==
  ASSUME NEW d \in {"anthropic", "responses", "gemini"} \cup OpenAI, NEW messages \in Seq(Sayable)
  PROVE  /\ Told(WireOf(d, messages), d, AnsweredBy(messages), Ordered(d, messages))
         /\ Spares(WireOf(d, messages), d, messages)
         /\ Ordered(d, messages) \in Seq(Sayable)
<1>1. PICK answered : answered = AnsweredBy(messages)
  OBVIOUS
<1>2. PICK sent : sent = WireOf(d, messages)
  OBVIOUS
<1>3. CASE d = "anthropic"
  <2>1. sent = AnthropicWire(messages)
    <3>1. d # "responses" /\ d # "gemini" /\ d \notin OpenAI
      BY <1>3 DEF OpenAI
    <3> QED
      BY <1>2, <1>3, <3>1, Zenon DEF WireOf
  <2>2. Ordered(d, messages) = SystemFirst(messages)
    BY <1>3 DEF Ordered
  <2>3. SystemFirst(messages) \in Seq(Sayable)
    <3>1. SystemOnes \subseteq Sayable /\ OtherOnes \subseteq Sayable
      BY DEF SystemOnes, OtherOnes
    <3>2. PICK s \in Seq(Sayable) : s = FlatMap(Keep(Sayable, SystemOnes), messages)
      BY <3>1, PartedIs, SeqMonotonic
    <3>3. PICK o \in Seq(Sayable) : o = FlatMap(Keep(Sayable, OtherOnes), messages)
      BY <3>1, PartedIs, SeqMonotonic
    <3>4. s \o o \in Seq(Sayable)
      BY ConcatProperties, Zenon
    <3> QED
      BY <3>2, <3>3, <3>4 DEF SystemFirst
  <2>4. /\ Told(sent, "anthropic", answered, SystemFirst(messages))
        /\ Spares(sent, "anthropic", messages)
    BY <2>1, AnthropicSays
  <2> QED
    BY <1>1, <1>2, <1>3, <2>2, <2>3, <2>4
<1>4. CASE d # "anthropic"
  <2>1. Ordered(d, messages) = messages
    BY <1>4 DEF Ordered
  <2>2. CASE d = "responses"
    <3>1. sent = ResponsesWire(messages)
      <4>1. d # "anthropic" /\ d # "gemini" /\ d \notin OpenAI
        BY <2>2 DEF OpenAI
      <4> QED
        BY <1>2, <2>2, <4>1, Zenon DEF WireOf
    <3>2. Told(sent, "responses", answered, messages) /\ Spares(sent, "responses", messages)
      BY <1>1, <3>1, ResponsesSays
    <3> QED
      BY <1>1, <1>2, <2>1, <2>2, <3>2
  <2>3. CASE d = "gemini"
    <3>1. sent = GeminiWire(messages)
      <4>1. d # "anthropic" /\ d # "responses" /\ d \notin OpenAI
        BY <2>3 DEF OpenAI
      <4> QED
        BY <1>2, <2>3, <4>1, Zenon DEF WireOf
    <3>2. Told(sent, "gemini", answered, messages) /\ Spares(sent, "gemini", messages)
      BY <3>1, GeminiSays
    <3> QED
      BY <1>1, <1>2, <2>1, <2>3, <3>2
  <2>4. CASE d \in OpenAI
    <3>1. d # "responses" /\ d # "gemini"
      BY <2>4 DEF OpenAI
    <3>2. sent = OpenAIWire(messages, d = "deepseek")
      BY <1>2, <1>4, <2>4, <3>1, Zenon DEF WireOf
    <3>3. Told(sent, d, answered, messages) /\ Spares(sent, d, messages)
      BY <2>4, <3>2, OpenAISays
    <3> QED
      BY <1>1, <1>2, <2>1, <3>3
  <2> QED
    BY <1>4, <2>2, <2>3, <2>4
<1> QED
  BY <1>3, <1>4

\* The same in the words of the property.
LEMMA SaidAsMeant ==
  ASSUME thread \in Seq(Sayable), dialect \in {"anthropic", "responses", "gemini"} \cup OpenAI,
         wire = WireOf(dialect, thread)
  PROVE  /\ OnTheWire = FlattenSeq([i \in DOMAIN Ordered(dialect, thread) |->
                                      Meant(Ordered(dialect, thread)[i])])
         /\ Spares(wire, dialect, thread)
<1>1. Answered = AnsweredBy(thread)
  BY DEF Answered, AnsweredBy
<1>2. PICK ordered \in Seq(Sayable) : ordered = Ordered(dialect, thread)
  BY WireSays
<1>3. Told(wire, dialect, Answered, ordered) /\ Spares(wire, dialect, thread)
  BY <1>1, <1>2, WireSays
<1>4. wire \in Seq(Envelopes) /\ FlatMap(EnvelopeTells, wire) = FlatMap(Meaning(dialect, Answered), ordered)
  BY <1>3 DEF Told
<1>5. OnTheWire = FlatMap(Meaning(dialect, Answered), ordered)
  BY <1>4, OnTheWireIs
<1>6. [i \in DOMAIN ordered |-> Meaning(dialect, Answered)[ordered[i]]] =
      [i \in DOMAIN ordered |-> Meant(ordered[i])]
  <2>1. ASSUME NEW i \in DOMAIN ordered
        PROVE  Meaning(dialect, Answered)[ordered[i]] = Meant(ordered[i])
    <3>1. PICK m \in Sayable : m = ordered[i]
      OBVIOUS
    <3>2. Meaning(dialect, Answered)[m] = Means(dialect, Answered, m)
      BY DEF Meaning
    <3> QED
      BY <3>1, <3>2, MeantIs
  <2> QED
    BY <2>1
<1>7. OnTheWire = FlattenSeq([i \in DOMAIN ordered |-> Meant(ordered[i])])
  BY <1>5, <1>6, Zenon DEF FlatMap
<1> QED
  BY <1>2, <1>3, <1>7

\* What a request says of tools is what the caller wants.
LEMMA OptionsHeld ==
  ASSUME dialect \in {"anthropic", "responses", "gemini"} \cup OpenAI,
         offered \subseteq Tools, wanted \in ToolChoices,
         options = OptionsOf(dialect, offered, Filtered(wanted, offered))
  PROVE  ChoiceIsHeld
<1>1. PICK c : c = Filtered(wanted, offered)
  OBVIOUS
<1>2. Nameless \notin offered
  BY ToolsAssumption
<1>3. /\ wanted.mode \in {"absent", "auto", "none", "required", "tool"}
      /\ wanted.mode # "tool" => wanted.name = Nameless
  BY DEF ToolChoices, Choice, NoChoice
<1>4. CASE offered = {} \/ (wanted.mode = "tool" /\ wanted.name \notin offered)
  <2>1. c.mode = "absent" /\ c.name = Nameless
    BY <1>1, <1>4 DEF Filtered, NoChoice, Choice
  <2>2. options = Options(offered, "absent", {})
    BY <1>1, <2>1 DEF OptionsOf, OpenAI, AnthropicOptions, ResponsesOptions, OpenAIOptions, GeminiOptions
  <2>3. options.tools = offered /\ options.mode = "absent" /\ options.names = {}
    BY <2>2 DEF Options
  <2> QED
    BY <1>3, <1>4, <2>3 DEF ChoiceIsHeld, Obliges, Forbids
<1>5. CASE ~ (offered = {} \/ (wanted.mode = "tool" /\ wanted.name \notin offered))
  <2>1. c = wanted
    BY <1>1, <1>5 DEF Filtered
  <2>2. CASE wanted.mode = "tool"
    <3>1. wanted.name \in offered /\ wanted.name # Nameless
      BY <1>2, <1>5, <2>2
    <3>2. /\ options.tools = offered /\ options.names = {wanted.name}
          /\ options.mode \in {"tool", "function", "ANY"}
      BY <1>1, <2>1, <2>2, <3>1
      DEF OptionsOf, OpenAI, AnthropicOptions, ResponsesOptions, OpenAIOptions, GeminiOptions, Options
    <3>3. {wanted.name} \cap offered = {wanted.name}
      BY <3>1
    <3> QED
      BY <2>2, <3>2, <3>3 DEF ChoiceIsHeld, Obliges, Forbids
  <2>3. CASE wanted.mode # "tool"
    <3>1. /\ options.tools = offered /\ options.names = {}
          /\ options.mode \in {"required", "any", "ANY"} <=> wanted.mode = "required"
          /\ options.mode \in {"none", "NONE"} <=> wanted.mode = "none"
          /\ options.mode \notin {"tool", "function"}
      BY <1>1, <1>3, <2>1, <2>3
      DEF OptionsOf, OpenAI, AnthropicOptions, ResponsesOptions, OpenAIOptions, GeminiOptions, Options
    <3> QED
      BY <1>5, <2>3, <3>1 DEF ChoiceIsHeld, Obliges, Forbids
  <2> QED
    BY <2>2, <2>3
<1> QED
  BY <1>4, <1>5

-----------------------------------------------------------------------------
(* The buffers of Gemini, whose chunks may come under indices that are taken. *)

Few(buffers) ==
  /\ DOMAIN buffers \subseteq {0, 1}
  /\ \A i \in DOMAIN buffers : buffers[i] \in Call /\ buffers[i].id # 0

\* A delta of a part with a call.
FewAdded == {d \in Added : d.index \in {0, 1} /\ d.id # 0}

\* Few buffers stay few with such a delta,
LEMMA FewPut ==
  ASSUME NEW buffers, Few(buffers), NEW d \in FewAdded
  PROVE  Few(Put(buffers, d))
<1>1. d \in Added /\ d.index \in {0, 1} /\ d.id # 0 /\ d.id \in Nat /\ d.args \in Seq(Piece)
  BY DEF FewAdded, Added
<1>2. PICK put : put = Put(buffers, d)
  OBVIOUS
<1>3. /\ DOMAIN put = DOMAIN buffers \cup {d.index}
      /\ \A i \in DOMAIN buffers : i # d.index => put[i] = buffers[i]
      /\ d.index \notin DOMAIN buffers => put[d.index] = [id |-> d.id, args |-> d.args]
      /\ d.index \in DOMAIN buffers =>
           put[d.index] = [id |-> d.id, args |-> buffers[d.index].args \o d.args]
  <2>1. PutRight(buffers, d, put)
    BY <1>2, PutIs
  <2> QED
    BY <1>1, <2>1 DEF PutRight
<1>4. put[d.index] \in Call /\ put[d.index].id # 0
  <2>1. CASE d.index \notin DOMAIN buffers
    BY <1>1, <1>3, <2>1 DEF Call
  <2>2. CASE d.index \in DOMAIN buffers
    <3>1. PICK args \in Seq(Piece) : args = buffers[d.index].args \o d.args
      <4>1. buffers[d.index] \in Call
        BY <2>2 DEF Few
      <4>2. buffers[d.index].args \in Seq(Piece)
        BY <4>1 DEF Call
      <4>3. buffers[d.index].args \o d.args \in Seq(Piece)
        BY <1>1, <4>2, ConcatProperties, Zenon
      <4> QED
        BY <4>3
    <3>2. put[d.index] = [id |-> d.id, args |-> args]
      BY <1>3, <2>2, <3>1
    <3> QED
      BY <1>1, <3>1, <3>2 DEF Call
  <2> QED
    BY <2>1, <2>2
<1>5. \A i \in DOMAIN put : put[i] \in Call /\ put[i].id # 0
  BY <1>3, <1>4 DEF Few
<1> QED
  BY <1>1, <1>2, <1>3, <1>5 DEF Few

\* and with those of a chunk.
LEMMA FewPutAll ==
  ASSUME NEW buffers, Few(buffers), NEW ds \in Seq(FewAdded), Len(ds) <= 2
  PROVE  Few(PutAll(buffers, ds))
<1>1. PICK n \in Nat : n = Len(ds)
  BY LenProperties
<1>2. n \in 0 .. 2 /\ \A i \in 1 .. n : ds[i] \in FewAdded
  BY <1>1
<1>3. PutAll(buffers, ds) =
        IF n = 0 THEN buffers
        ELSE IF n = 1 THEN Put(buffers, ds[1]) ELSE Put(Put(buffers, ds[1]), ds[2])
  <2>1. FewAdded \subseteq Added
    BY DEF FewAdded
  <2>2. ds \in Seq(Added)
    BY <2>1, SeqMonotonic
  <2> QED
    BY <1>1, <2>2, PutAllIs
<1>4. CASE n = 0
  BY <1>3, <1>4
<1>5. CASE n = 1
  <2>1. ds[1] \in FewAdded
    BY <1>2, <1>5
  <2> QED
    BY <1>3, <1>5, <2>1, FewPut
<1>6. CASE n = 2
  <2>1. ds[1] \in FewAdded /\ ds[2] \in FewAdded
    BY <1>2, <1>6
  <2> QED
    BY <1>3, <1>6, <2>1, FewPut
<1> QED
  BY <1>2, <1>4, <1>5, <1>6

\* The deltas of a chunk are few.
LEMMA FewDeltas ==
  ASSUME NEW n \in Nat, NEW k \in 1 .. 2, NEW parts \in [1 .. k -> Part], NEW ds,
         ds = GeminiChunk(n, parts).deltas
  PROVE  ds \in Seq(FewAdded) /\ Len(ds) <= 2
<1>1. ASSUME NEW x \in {0, 1}, NEW b \in Nat, b # 0, NEW m \in Part
      PROVE  DeltaOf(x, b, m) \in Seq(FewAdded) /\ Len(DeltaOf(x, b, m)) \in 0 .. 1
  <2>1. PICK e : e = Delta(x, b, Pieces(b, m.pieces))
    OBVIOUS
  <2>2. e \in Added /\ e.index = x /\ e.id = b
    <3>1. x \in Nat /\ m \in Block
      <4>1. x \in Nat
        OBVIOUS
      <4> QED
        BY <4>1, PartIsBlock
    <3> QED
      BY <2>1, <3>1, DeltaTypes DEF Delta
  <2>3. e \in FewAdded
    BY <1>1, <2>2 DEF FewAdded
  <2>4. DeltaOf(x, b, m) = IF m.kind = "call" THEN <<e>> ELSE <<>>
    BY <2>1 DEF DeltaOf
  <2> QED
    BY <2>3, <2>4
<1>2. PICK p \in Part : p = parts[1]
  OBVIOUS
<1>3. PICK d \in Seq(FewAdded) : d = DeltaOf(0, n + 1, p) /\ Len(d) \in 0 .. 1
  <2>1. n + 1 \in Nat /\ n + 1 # 0 /\ 0 \in {0, 1}
    OBVIOUS
  <2> QED
    BY <1>1, <2>1
<1>4. CASE k = 1
  <2>1. ds = d
    BY <1>2, <1>3, <1>4, PartsChunk DEF TellsOne
  <2> QED
    BY <1>3, <2>1
<1>5. CASE k = 2
  <2>1. PICK q \in Part : q = parts[2]
    BY <1>5
  <2>2. PICK e \in Seq(FewAdded) : e = DeltaOf(1, n + 2, q) /\ Len(e) \in 0 .. 1
    <3>1. n + 2 \in Nat /\ n + 2 # 0 /\ 1 \in {0, 1}
      OBVIOUS
    <3> QED
      BY <1>1, <3>1
  <2>3. ds = d \o e
    BY <1>2, <1>3, <1>5, <2>1, <2>2, PartsChunk DEF TellsTwo
  <2>4. d \o e \in Seq(FewAdded) /\ Len(d \o e) = Len(d) + Len(e)
    BY ConcatProperties, Zenon
  <2> QED
    BY <1>3, <2>2, <2>3, <2>4
<1> QED
  BY <1>4, <1>5

\* What is built of few buffers are calls.
LEMMA FewBuilt ==
  ASSUME NEW buffers, Few(buffers)
  PROVE  BuildToolCalls(buffers) \in Seq(Call)
<1>1. CASE DOMAIN buffers = {}
  <2>1. BuildToolCalls(buffers) = <<>>
    BY <1>1, BuildNone
  <2> QED
    BY <2>1
<1>2. ASSUME NEW x \in {0, 1}, DOMAIN buffers = {x}
      PROVE  BuildToolCalls(buffers) \in Seq(Call)
  <2>1. PICK c \in Call : c = buffers[x] /\ c.id # 0
    BY <1>2 DEF Few
  <2>2. PICK index \in Seq(Nat) : Len(index) = 1 /\ index[1] = x
    <3>1. <<x>> \in Seq(Nat) /\ Len(<<x>>) = 1 /\ <<x>>[1] = x
      OBVIOUS
    <3> QED
      BY <3>1, Zenon
  <2>3. PICK held \in Seq(Call) : Len(held) = 1 /\ held[1] = c
    <3>1. <<c>> \in Seq(Call) /\ Len(<<c>>) = 1 /\ <<c>>[1] = c
      OBVIOUS
    <3> QED
      BY <3>1, Zenon
  <2>4. Indexes(index, buffers, held)
    <3>1. DOMAIN index = {1}
      BY <2>2
    <3> QED
      BY <1>2, <2>1, <2>2, <2>3, <3>1 DEF Indexes
  <2> QED
    BY <2>3, <2>4, BuildIs
<1>3. CASE DOMAIN buffers = {0, 1}
  <2>1. PICK c \in Call, e \in Call : c = buffers[0] /\ e = buffers[1] /\ c.id # 0 /\ e.id # 0
    BY <1>3 DEF Few
  <2>2. PICK index \in Seq(Nat) : Len(index) = 2 /\ index[1] = 0 /\ index[2] = 1
    <3>1. <<0, 1>> \in Seq(Nat)
      OBVIOUS
    <3> QED
      BY <3>1
  <2>3. PICK held \in Seq(Call) : Len(held) = 2 /\ held[1] = c /\ held[2] = e
    <3>1. <<c, e>> \in Seq(Call)
      OBVIOUS
    <3> QED
      BY <3>1
  <2>4. Indexes(index, buffers, held)
    <3>1. DOMAIN index = {1, 2}
      BY <2>2
    <3>2. \A i, j \in DOMAIN index : i < j => index[i] < index[j]
      BY <2>2, <3>1
    <3> QED
      BY <1>3, <2>1, <2>2, <2>3, <3>1, <3>2 DEF Indexes
  <2> QED
    BY <2>3, <2>4, BuildIs
<1>4. DOMAIN buffers = {} \/ DOMAIN buffers = {0} \/ DOMAIN buffers = {1} \/ DOMAIN buffers = {0, 1}
  BY DEF Few
<1> QED
  BY <1>1, <1>2, <1>3, <1>4

\* What Gemini leaves in the accumulator.
GeminiFew == dialect = "gemini" => Few(acc.buffers)

\* Every step of a stream keeps to that, and to its adapter.
LEMMA FewKeeps ==
  ASSUME StreamInv, GeminiFew, Next
  PROVE  GeminiFew' /\ dialect' = dialect
<1>1. CASE \E kind \in Kinds : Begin(kind)
  BY <1>1 DEF Begin, Streaming, GeminiFew
<1>2. CASE Grow \/ Close
  <2>1. ~ Closed /\ dialect' = dialect
    BY <1>2 DEF Grow, Close, Streaming
  <2>2. dialect # "gemini"
    BY <2>1 DEF Closed, StreamInv, Sound
  <2> QED
    BY <2>1, <2>2 DEF GeminiFew
<1>3. ASSUME NEW k \in 1 .. 2, NEW parts \in [1 .. k -> Part],
             NEW how \in {"none", "whole", "cut"}, Parts(parts, how)
      PROVE  GeminiFew' /\ dialect' = dialect
  <2>1. PICK chunk : chunk = GeminiChunk(Len(made), parts)
    OBVIOUS
  <2>2. PICK finish : finish = IF how = "none" THEN "none" ELSE FinishOf(how, chunk)
    OBVIOUS
  <2>3. PICK c : c = [chunk EXCEPT !.finish = finish]
    OBVIOUS
  <2>4. ending = "none" /\ dialect = "gemini" /\ dialect' = dialect /\ Consume(c)
    BY <1>3, <2>1, <2>2, <2>3 DEF Parts, Streaming
  <2>5. c.deltas = chunk.deltas
    BY <2>1, <2>3 DEF GeminiChunk, Nothing
  <2>6. acc.finish = "none" /\ acc.told = FALSE /\ announced = <<>>
    BY <2>4 DEF StreamInv, Quiet
  <2>7. acc'.buffers = PutAll(acc.buffers, chunk.deltas)
    BY <2>4, <2>5, <2>6, Consumed
  <2>8. PICK n \in Nat : n = Len(made)
    BY LenProperties DEF StreamInv, Sound
  <2>9. chunk.deltas \in Seq(FewAdded) /\ Len(chunk.deltas) <= 2
    BY <2>1, <2>8, FewDeltas
  <2>10. Few(acc'.buffers)
    BY <2>4, <2>7, <2>9, FewPutAll DEF GeminiFew
  <2> QED
    BY <2>4, <2>10 DEF GeminiFew
<1>4. ASSUME NEW how \in {"whole", "cut"}, Finish(how)
      PROVE  GeminiFew' /\ dialect' = dialect
  <2>1. PICK c : c = [Nothing EXCEPT !.finish = FinishOf(how, Nothing)]
    OBVIOUS
  <2>2. ending = "none" /\ dialect' = dialect /\ Consume(c) /\ c.deltas = <<>>
    BY <1>4, <2>1 DEF Finish, Streaming, Nothing
  <2>3. acc.finish = "none" /\ acc.told = FALSE /\ announced = <<>>
    BY <2>2 DEF StreamInv, Quiet
  <2>4. acc'.buffers = PutAll(acc.buffers, <<>>)
    BY <2>2, <2>3, Consumed
  <2>5. acc'.buffers = acc.buffers
    BY <2>4, PutNone
  <2> QED
    BY <2>2, <2>5 DEF GeminiFew
<1>5. CASE \E how \in {"broken", "failed"} : Break(how)
  BY <1>5 DEF Break, Streaming, GeminiFew
<1> QED
  BY <1>1, <1>2, <1>3, <1>4, <1>5 DEF Next

-----------------------------------------------------------------------------
(* What a chat adds to its messages. *)

\* A list of one.
LEMMA OneOf ==
  ASSUME NEW S, NEW x \in S
  PROVE  <<x>> \in Seq(S) /\ Len(<<x>>) = 1 /\ <<x>>[1] = x
<1> QED
  OBVIOUS

\* The number of a request before a piece of its reply.
LEMMA Triple ==
  ASSUME NEW a \in Nat, NEW p \in Piece
  PROVE  <<a>> \o p \in Nat \X Nat \X Nat
<1>1. PICK b \in Nat, c \in Nat : p = <<b, c>>
  BY DEF Piece
<1>2. PICK s : s = <<a>>
  OBVIOUS
<1>3. PICK t : t = <<b, c>>
  OBVIOUS
<1>4. PICK u : u = <<a, b, c>>
  OBVIOUS
<1>5. s \in Seq(Nat) /\ Len(s) = 1 /\ s[1] = a
  BY <1>2
<1>6. t \in Seq(Nat) /\ Len(t) = 2 /\ t[1] = b /\ t[2] = c
  BY <1>3
<1>7. u \in Seq(Nat) /\ Len(u) = 3 /\ u[1] = a /\ u[2] = b /\ u[3] = c
  BY <1>4
<1>8. PICK j : j = s \o t
  OBVIOUS
<1>9. /\ j \in Seq(Nat) /\ Len(j) = Len(s) + Len(t)
      /\ \A i \in 1 .. Len(s) + Len(t) : j[i] = IF i <= Len(s) THEN s[i] ELSE t[i - Len(s)]
  BY <1>5, <1>6, <1>8, ConcatProperties, Zenon
<1>10. \A i \in 1 .. 3 : j[i] = u[i]
  BY <1>5, <1>6, <1>7, <1>9
<1>11. j = u
  <2>1. Len(j) = Len(u) /\ \A i \in 1 .. Len(j) : j[i] = u[i]
    BY <1>5, <1>6, <1>7, <1>9, <1>10
  <2> QED
    BY <1>7, <1>9, <2>1, SeqEqual
<1>12. u \in Nat \X Nat \X Nat
  BY <1>4
<1> QED
  BY <1>1, <1>2, <1>3, <1>8, <1>11, <1>12

\* A reply is a message that may be sent.
LEMMA ReplySayable ==
  ASSUME asks \in Nat, NEW text \in Seq(Piece), NEW reasoning \in Seq(Piece), NEW calls \in Seq(Call)
  PROVE  Reply(text, reasoning, calls) \in Sayable
<1>1. ASSUME NEW t \in Seq(Piece) PROVE Mine(t) \in Spoken
  <2>1. PICK n \in Nat : n = Len(t) /\ DOMAIN t = 1 .. n
    BY LenProperties
  <2>2. \A i \in 1 .. n : t[i] \in Piece
    BY <2>1
  <2>3. \A i \in 1 .. n : <<asks>> \o t[i] \in Nat \X Nat \X Nat
    BY <2>2, Triple
  <2>4. PICK T : T = Nat \X Nat \X Nat
    OBVIOUS
  <2>5. Mine(t) \in [1 .. n -> T]
    BY <2>1, <2>3, <2>4 DEF Mine
  <2>6. Mine(t) \in Seq(T)
    BY <2>5, ShortList
  <2> QED
    BY <2>4, <2>6 DEF Spoken
<1>2. PICK said \in Spoken : said = Mine(text)
  BY <1>1
<1>3. PICK thoughts \in Spoken : thoughts = Mine(reasoning)
  BY <1>1
<1>4. PICK refs \in Seq(CallRefs) : refs = [i \in DOMAIN calls |-> <<asks, calls[i].id>>]
  <2>1. PICK n \in Nat : n = Len(calls) /\ DOMAIN calls = 1 .. n
    BY LenProperties
  <2>2. \A i \in 1 .. n : <<asks, calls[i].id>> \in CallRefs
    <3>1. \A i \in 1 .. n : calls[i] \in Call
      BY <2>1
    <3> QED
      BY <3>1 DEF Call, CallRefs
  <2>3. [i \in 1 .. n |-> <<asks, calls[i].id>>] \in [1 .. n -> CallRefs]
    BY <2>2
  <2>4. [i \in 1 .. n |-> <<asks, calls[i].id>>] \in Seq(CallRefs)
    BY <2>3, ShortList
  <2> QED
    BY <2>1, <2>4
<1>5. PICK part : part = TextPart(said)
  OBVIOUS
<1>6. part \in PartItems /\ part.type = "text"
  BY <1>5 DEF TextPart, PartItems
<1>7. PICK parts \in Seq(PartItems) :
        /\ parts = IF text = <<>> THEN <<>> ELSE <<TextPart(Mine(text))>>
        /\ \A i \in DOMAIN parts : parts[i].type = "text"
  <2>1. CASE text = <<>>
    <3>1. PICK none \in Seq(PartItems) : none = <<>> /\ DOMAIN none = {}
      <4>1. <<>> \in Seq(PartItems) /\ DOMAIN <<>> = {}
        OBVIOUS
      <4> QED
        BY <4>1, Zenon
    <3> QED
      BY <2>1, <3>1
  <2>2. CASE text # <<>>
    <3>1. <<part>> \in Seq(PartItems) /\ Len(<<part>>) = 1 /\ <<part>>[1] = part
      BY <1>6, OneOf
    <3>2. \A i \in DOMAIN <<part>> : <<part>>[i].type = "text"
      BY <1>6, <3>1
    <3> QED
      BY <1>2, <1>5, <2>2, <3>1, <3>2
  <2> QED
    BY <2>1, <2>2
<1>8. PICK m : m = [role |-> "assistant", answers |-> <<>>, reasoning |-> thoughts, parts |-> parts, calls |-> refs]
  OBVIOUS
<1>9. Reply(text, reasoning, calls) = m
  BY <1>3, <1>4, <1>7, <1>8 DEF Reply
<1>10. m \in Messages
  <2>1. <<>> \in Seq(Nat \X Nat) /\ "assistant" \in {"system", "user", "assistant", "tool"}
    OBVIOUS
  <2>2. refs \in Seq(Nat \X Nat)
    BY DEF CallRefs
  <2>3. parts \in Seq([type : {"text", "image"}, of : Spoken])
    BY DEF PartItems
  <2> QED
    BY <1>8, <2>1, <2>2, <2>3, Zenon DEF Messages
<1>11. WellFormed(m)
  BY <1>7, <1>8 DEF WellFormed
<1> QED
  BY <1>9, <1>10, <1>11 DEF Sayable

\* Nor is anything amiss with the messages of users and tools.
LEMMA WordSayable ==
  ASSUME NEW role \in {"user", "tool"}, NEW t \in Nat \X Nat \X Nat, NEW answers \in Seq(CallRefs)
  PROVE  [Message(role, <<TextPart(<<t>>)>>) EXCEPT !.answers = answers] \in Sayable
<1>1. PICK T : T = Nat \X Nat \X Nat
  OBVIOUS
<1>2. PICK said \in Spoken : said = <<t>>
  <2>1. t \in T
    BY <1>1
  <2>2. <<t>> \in Seq(T)
    BY <2>1, OneOf
  <2> QED
    BY <1>1, <2>2 DEF Spoken
<1>3. PICK part \in PartItems : part = TextPart(said)
  BY DEF TextPart, PartItems
<1>4. PICK parts \in Seq(PartItems) : parts = <<part>>
  BY OneOf
<1>5. PICK m : m = [role |-> role, parts |-> parts, calls |-> <<>>, answers |-> answers, reasoning |-> <<>>]
  OBVIOUS
<1>6. [Message(role, <<TextPart(<<t>>)>>) EXCEPT !.answers = answers] = m
  BY <1>2, <1>3, <1>4, <1>5 DEF Message
<1>7. m \in Messages
  <2>1. <<>> \in Seq(Nat \X Nat) /\ <<>> \in Spoken /\ role \in {"system", "user", "assistant", "tool"}
    BY DEF Spoken
  <2>2. answers \in Seq(Nat \X Nat)
    BY DEF CallRefs
  <2>3. parts \in Seq([type : {"text", "image"}, of : Spoken])
    BY DEF PartItems
  <2> QED
    BY <1>5, <2>1, <2>2, <2>3, Zenon DEF Messages
<1>8. WellFormed(m)
  BY <1>5 DEF WellFormed
<1> QED
  BY <1>6, <1>7, <1>8 DEF Sayable

\* The next question is one of them.
LEMMA QuestionSayable ==
  ASSUME asks \in Nat
  PROVE  Question \in Sayable
<1>1. PICK t \in Nat \X Nat \X Nat : t = <<asks, 0, 0>>
  OBVIOUS
<1>2. <<>> \in Seq(CallRefs)
  OBVIOUS
<1>3. [Message("user", <<TextPart(<<t>>)>>) EXCEPT !.answers = <<>>] \in Sayable
  <2>1. "user" \in {"user", "tool"}
    OBVIOUS
  <2> QED
    BY <1>2, <2>1, WordSayable
<1>4. [Message("user", <<TextPart(<<t>>)>>) EXCEPT !.answers = <<>>] = Message("user", <<TextPart(<<t>>)>>)
  BY DEF Message
<1> QED
  BY <1>1, <1>3, <1>4 DEF Question

\* What comes back of a request, streamed or whole.
LEMMA StreamedSayable ==
  ASSUME asks \in Nat, StreamInv, GeminiFew
  PROVE  StreamedMessage \in Seq(Sayable)
<1>1. made \in Seq(Block) /\ Folded(dialect, made, acc.text, acc.reasoning)
  BY DEF StreamInv, Sound
<1>2. acc.text \in Seq(Piece) /\ acc.reasoning \in Seq(Piece)
  <2>1. PICK m : m \in Block
    <3>1. [kind |-> "text", pieces |-> 0, open |-> FALSE] \in Block
      BY DEF Block, Kinds
    <3> QED
      BY <3>1
  <2> QED
    BY <1>1, <2>1, SaidMore DEF Folded
<1>3. ToolCalls \in Seq(Call)
  <2>1. CASE dialect = "gemini"
    BY <2>1, FewBuilt DEF GeminiFew, ToolCalls
  <2>2. CASE dialect # "gemini"
    <3>1. Buffered(dialect, made, acc.buffers)
      BY <2>2 DEF StreamInv, Sound
    <3>2. PICK index : Indexes(index, acc.buffers, Held(dialect, made))
      BY <3>1 DEF Buffered
    <3>3. ToolCalls = Held(dialect, made)
      BY <3>2, BuildIs DEF ToolCalls
    <3> QED
      BY <1>1, <3>3, CalledTypes
  <2> QED
    BY <2>1, <2>2
<1>4. PICK m \in Sayable : m = Reply(acc.text, acc.reasoning, ToolCalls)
  BY <1>2, <1>3, ReplySayable
<1> QED
  BY <1>4, OneOf DEF StreamedMessage

\* The same of a reply without streaming.
LEMMA WholeSayable ==
  ASSUME asks \in Nat, NEW blocks \in BoundedSeq(Part, MaxBlocks)
  PROVE  WholeMessage(blocks) \in Seq(Sayable)
<1>1. blocks \in Seq(Block)
  <2>1. PICK n \in 0 .. MaxBlocks : blocks \in [1 .. n -> Part]
    BY DEF BoundedSeq, SeqOf
  <2>2. n \in Nat
    BY BoundsAssumption
  <2>3. \A i \in 1 .. n : blocks[i] \in Block
    BY <2>1, PartIsBlock
  <2>4. blocks \in [1 .. n -> Block]
    BY <2>1, <2>3
  <2> QED
    BY <2>2, <2>4, ShortList
<1>2. ASSUME NEW kinds PROVE Said(blocks, kinds) \in Seq(Piece)
  <2>1. PICK m : m \in Block
    <3>1. [kind |-> "text", pieces |-> 0, open |-> FALSE] \in Block
      BY DEF Block, Kinds
    <3> QED
      BY <3>1
  <2> QED
    BY <1>1, <2>1, SaidAppend
<1>3. PICK calls \in Seq(Call) : calls = Called(blocks)
  BY <1>1, CalledTypes
<1>4. PICK text \in Seq(Piece) :
        text = Said(blocks, IF dialect = "gemini" THEN {"text", "thought"} ELSE {"text"})
  BY <1>2
<1>5. PICK thoughts \in Seq(Piece) : thoughts = Said(blocks, {"thought"})
  BY <1>2
<1>6. PICK m \in Sayable : m = Reply(text, thoughts, calls)
  BY ReplySayable
<1>7. PICK k \in Sayable : k = Reply(text, <<>>, calls)
  <2>1. <<>> \in Seq(Piece)
    OBVIOUS
  <2> QED
    BY <2>1, ReplySayable
<1>8. WholeMessage(blocks) =
        IF dialect \in OpenAI THEN <<m>> ELSE IF text = <<>> /\ calls = <<>> THEN <<>> ELSE <<k>>
  BY <1>3, <1>4, <1>5, <1>6, <1>7, Zenon DEF WholeMessage
<1>9. <<m>> \in Seq(Sayable) /\ <<k>> \in Seq(Sayable) /\ <<>> \in Seq(Sayable)
  BY OneOf
<1> QED
  BY <1>8, <1>9

-----------------------------------------------------------------------------
(* The chats of a session. *)

\* The messages there are may all be sent, and while a reply is awaited the payload is the
\* one that was made of the chat as it still is.
ThreadInv ==
  /\ window \in Seq(Sayable) /\ thread \in Seq(Sayable)
  /\ asks \in Nat /\ dialect \in Dialects /\ offered \subseteq Tools /\ wanted \in ToolChoices
  /\ at = "replying" =>
       /\ wire = WireOf(dialect, thread)
       /\ options = OptionsOf(dialect, offered, Filtered(wanted, offered))

ExchangeInv == StreamInv /\ GeminiFew /\ ThreadInv

\* The chats begin so.
LEMMA ThreadStarts ==
  ASSUME ExchangeInit
  PROVE  ThreadInv /\ GeminiFew
<1>1. /\ dialect \in Dialects /\ window \in Openings /\ thread = window /\ asks = 0 /\ at = "ready"
      /\ offered = {} /\ wanted = NoChoice /\ acc = Fresh
  BY DEF ExchangeInit, Init
<1>2. window \in Seq(Sayable)
  <2>1. window \in Seq(Messages) /\ \A i \in DOMAIN window : WellFormed(window[i])
    BY <1>1, OpeningsAssumption
  <2>2. PICK n \in Nat : n = Len(window) /\ DOMAIN window = 1 .. n
    BY <2>1, LenProperties
  <2>3. \A i \in 1 .. n : window[i] \in Sayable
    BY <2>1, <2>2 DEF Sayable
  <2>4. window = [i \in 1 .. n |-> window[i]]
    BY <2>1, <2>2
  <2>5. window \in [1 .. n -> Sayable]
    BY <2>3, <2>4
  <2> QED
    BY <2>5, ShortList
<1>3. NoChoice \in ToolChoices
  BY DEF ToolChoices
<1>4. Few(acc.buffers)
  BY <1>1 DEF Fresh, Few
<1> QED
  BY <1>1, <1>2, <1>3, <1>4 DEF ThreadInv, GeminiFew

\* A request is made.
LEMMA AskKeeps ==
  ASSUME ThreadInv, Ask
  PROVE  ThreadInv' /\ GeminiFew'
<1>1. /\ dialect' \in Dialects
      /\ wire' = WireOf(dialect', thread)
      /\ options' = OptionsOf(dialect', offered', Filtered(wanted', offered'))
      /\ asks' = asks + 1 /\ window' = window /\ thread' = thread /\ acc' = Fresh
  BY DEF Ask, ThreadInv
<1>2. offered' \subseteq Tools /\ wanted' \in ToolChoices
  BY DEF Ask, ThreadInv
<1>3. Few(acc'.buffers)
  BY <1>1 DEF Fresh, Few
<1>4. asks' \in Nat
  BY <1>1 DEF ThreadInv
<1> QED
  BY <1>1, <1>2, <1>3, <1>4 DEF ThreadInv, GeminiFew

\* A reply is taken into the chat, or ends it.
LEMMA TakeKeeps ==
  ASSUME ThreadInv, GeminiFew, NEW reply \in Seq(Sayable), Take(reply), UNCHANGED vars
  PROVE  ThreadInv' /\ GeminiFew'
<1>1. /\ at' = "ready" /\ asks' = asks /\ offered' = offered /\ wanted' = wanted
      /\ dialect' = dialect /\ acc' = acc
  BY DEF Take, vars
<1>2. window \in Seq(Sayable) /\ thread \in Seq(Sayable) /\ asks \in Nat
  BY DEF ThreadInv
<1>3. ASSUME Feedback(reply) PROVE window' \in Seq(Sayable) /\ thread' \in Seq(Sayable)
  <2>1. PICK m \in Sayable : m = reply[1]
    BY <1>3 DEF Feedback
  <2>2. PICK n \in Nat : n = Len(m.calls) /\ DOMAIN m.calls = 1 .. n
    BY SayableHas, LenProperties
  <2>3. PICK results :
          results = [i \in 1 .. n |->
                       [Message("tool", <<TextPart(<<<<asks, i, 0>>>>)>>) EXCEPT !.answers = <<m.calls[i]>>]]
    OBVIOUS
  <2>4. ASSUME NEW i \in 1 .. n
        PROVE  [Message("tool", <<TextPart(<<<<asks, i, 0>>>>)>>) EXCEPT !.answers = <<m.calls[i]>>] \in Sayable
    <3>1. PICK t \in Nat \X Nat \X Nat : t = <<asks, i, 0>>
      <4>1. i \in Nat
        BY <2>2
      <4>2. <<asks, i, 0>> \in Nat \X Nat \X Nat
        BY <1>2, <4>1
      <4> QED
        BY <4>2, Zenon
    <3>2. PICK c \in CallRefs : c = m.calls[i]
      BY <2>2, SayableHas
    <3>3. <<c>> \in Seq(CallRefs) /\ "tool" \in {"user", "tool"}
      BY OneOf
    <3>4. [Message("tool", <<TextPart(<<t>>)>>) EXCEPT !.answers = <<c>>] \in Sayable
      BY <3>3, WordSayable
    <3> QED
      BY <3>1, <3>2, <3>4
  <2>5. results \in [1 .. n -> Sayable]
    BY <2>3, <2>4
  <2>6. results \in Seq(Sayable)
    BY <2>5, ShortList
  <2>7. window' = window /\ thread' = thread \o reply \o results
    BY <1>3, <2>1, <2>2, <2>3 DEF Feedback
  <2>8. thread \o reply \in Seq(Sayable)
    BY <1>2, ConcatProperties, Zenon
  <2>9. (thread \o reply) \o results \in Seq(Sayable)
    BY <2>6, <2>8, ConcatProperties, Zenon
  <2> QED
    BY <1>2, <2>7, <2>9
<1>4. ASSUME Conclude(reply) PROVE window' \in Seq(Sayable) /\ thread' \in Seq(Sayable)
  <2>1. PICK answer \in Seq(Sayable) :
          answer = FlattenSeq([i \in DOMAIN reply |-> IF reply[i].calls = <<>> THEN <<reply[i]>> ELSE <<>>])
    <3>1. PICK g \in [Sayable -> Seq(Sayable)] : g = Keep(Sayable, {m \in Sayable : m.calls = <<>>})
      BY KeepType
    <3>2. \A m \in Sayable : g[m] = IF m.calls = <<>> THEN <<m>> ELSE <<>>
      BY <3>1 DEF Keep
    <3>3. \A i \in DOMAIN reply : reply[i] \in Sayable
      OBVIOUS
    <3>4. [i \in DOMAIN reply |-> IF reply[i].calls = <<>> THEN <<reply[i]>> ELSE <<>>] =
          [i \in DOMAIN reply |-> g[reply[i]]]
      BY <3>2, <3>3
    <3>5. FlatMap(g, reply) \in Seq(Sayable)
      BY FlatMapType
    <3> QED
      BY <3>4, <3>5, Zenon DEF FlatMap
  <2>2. window' = window \o answer \o <<Question>> /\ thread' = window'
    BY <1>4, <2>1 DEF Conclude, Where
  <2>3. <<Question>> \in Seq(Sayable)
    BY <1>2, QuestionSayable, OneOf
  <2>4. window \o answer \in Seq(Sayable)
    BY <1>2, ConcatProperties, Zenon
  <2>5. (window \o answer) \o <<Question>> \in Seq(Sayable)
    BY <2>3, <2>4, ConcatProperties, Zenon
  <2> QED
    BY <2>2, <2>5
<1>5. window' \in Seq(Sayable) /\ thread' \in Seq(Sayable)
  BY <1>3, <1>4 DEF Take
<1> QED
  BY <1>1, <1>5 DEF ThreadInv, GeminiFew

\* Every step of the chats keeps the invariant.
LEMMA ChatsKeep ==
  ASSUME ExchangeInv, [ExchangeNext]_<<vars, chatVars>>
  PROVE  ExchangeInv'
<1>1. StreamInv'
  BY ExchangeKeeps DEF ExchangeInv
<1>2. StreamInv /\ GeminiFew /\ ThreadInv /\ asks \in Nat
  BY DEF ExchangeInv, ThreadInv
<1>3. CASE Ask
  BY <1>1, <1>2, <1>3, AskKeeps DEF ExchangeInv
<1>4. CASE StreamStep
  <2>1. GeminiFew' /\ dialect' = dialect
    BY <1>2, <1>4, FewKeeps DEF StreamStep
  <2>2. UNCHANGED <<window, thread, asks, at, wire, offered, wanted, options>>
    BY <1>4 DEF StreamStep, chatVars
  <2>3. ThreadInv'
    BY <1>2, <2>1, <2>2 DEF ThreadInv
  <2> QED
    BY <1>1, <2>1, <2>3 DEF ExchangeInv
<1>5. CASE GiveUp
  <2>1. /\ thread' = window /\ window' = window /\ at' = "ready" /\ asks' = asks
        /\ offered' = offered /\ wanted' = wanted /\ dialect' = dialect /\ acc' = acc
    BY <1>5 DEF GiveUp, vars
  <2>2. ThreadInv' /\ GeminiFew'
    BY <1>2, <2>1 DEF ThreadInv, GeminiFew
  <2> QED
    BY <1>1, <2>2 DEF ExchangeInv
<1>6. CASE TakeStream
  <2>1. PICK reply \in Seq(Sayable) : reply = StreamedMessage
    BY <1>2, StreamedSayable
  <2>2. Take(reply) /\ UNCHANGED vars
    BY <1>6, <2>1 DEF TakeStream
  <2> QED
    BY <1>1, <1>2, <2>2, TakeKeeps DEF ExchangeInv
<1>7. CASE TakeWhole
  <2>1. PICK blocks \in BoundedSeq(Part, MaxBlocks) : Take(WholeMessage(blocks))
    BY <1>7 DEF TakeWhole
  <2>2. PICK reply \in Seq(Sayable) : reply = WholeMessage(blocks)
    BY <1>2, <2>1, WholeSayable
  <2>3. Take(reply) /\ UNCHANGED vars
    BY <1>7, <2>1, <2>2 DEF TakeWhole
  <2> QED
    BY <1>1, <1>2, <2>3, TakeKeeps DEF ExchangeInv
<1>8. CASE UNCHANGED <<vars, chatVars>>
  <2>1. UNCHANGED <<dialect, acc, window, thread, asks, at, wire, offered, wanted, options>>
    BY <1>8 DEF vars, chatVars
  <2>2. ThreadInv' /\ GeminiFew'
    BY <1>2, <2>1 DEF ThreadInv, GeminiFew
  <2> QED
    BY <1>1, <2>2 DEF ExchangeInv
<1> QED
  BY <1>3, <1>4, <1>5, <1>6, <1>7, <1>8 DEF ExchangeNext

\* What the invariant says of a payload is what SentAsMeant promises.
LEMMA ExchangeInvSays ==
  ASSUME ExchangeInv
  PROVE  SentAsMeant
<1> SUFFICES ASSUME at = "replying"
             PROVE  LET IsSystem(m) == m.role = "system"
                        ordered == IF dialect # "anthropic" THEN thread
                                   ELSE Where(thread, IsSystem) \o Where(thread, LAMBDA m : ~ IsSystem(m))
                    IN  /\ OnTheWire = FlattenSeq([i \in DOMAIN ordered |-> Meant(ordered[i])])
                        /\ (\E i \in DOMAIN wire : wire[i].items = <<>>) =>
                             \E i \in DOMAIN thread :
                               Silent(thread[i]) /\ (dialect \in OpenAI => thread[i].role # "assistant")
                        /\ ChoiceIsHeld
  BY DEF SentAsMeant
<1>1. /\ thread \in Seq(Sayable) /\ dialect \in {"anthropic", "responses", "gemini"} \cup OpenAI
      /\ offered \subseteq Tools /\ wanted \in ToolChoices
      /\ wire = WireOf(dialect, thread)
      /\ options = OptionsOf(dialect, offered, Filtered(wanted, offered))
  BY DialectsAssumption DEF ExchangeInv, ThreadInv
<1>2. PICK ordered : ordered = Ordered(dialect, thread)
  OBVIOUS
<1>3. /\ OnTheWire = FlattenSeq([i \in DOMAIN ordered |-> Meant(ordered[i])])
      /\ Spares(wire, dialect, thread)
  BY <1>1, <1>2, SaidAsMeant
<1>4. (\E i \in DOMAIN wire : wire[i].items = <<>>) =>
        \E i \in DOMAIN thread :
          Silent(thread[i]) /\ (dialect \in OpenAI => thread[i].role # "assistant")
  BY <1>3, Zenon DEF Spares
<1>5. ChoiceIsHeld
  BY <1>1, OptionsHeld
<1>6. ordered = IF dialect # "anthropic" THEN thread
                ELSE FlattenSeq([i \in DOMAIN thread |->
                                   IF thread[i].role = "system" THEN <<thread[i]>> ELSE <<>>])
                       \o FlattenSeq([i \in DOMAIN thread |->
                                        IF ~ (thread[i].role = "system") THEN <<thread[i]>> ELSE <<>>])
  BY <1>1, <1>2, PartedIs DEF Ordered, SystemFirst
<1> QED
  BY <1>3, <1>4, <1>5, <1>6 DEF Where

-----------------------------------------------------------------------------
(* The theorems. *)

\* For every adapter, every number of blocks and pieces and every point at which a stream
\* ends or breaks: the text, the thoughts and the calls folded from it are those the model has
\* made so far, and the calls that will be run were announced to the client once
\* (StreamIsFaithful; _ChatStreamAccumulator and the chat_stream mappers).  This is a stream
\* by itself.
THEOREM OneStreamIsFaithful == Spec => []StreamIsFaithful
<1>1. Init => StreamInv
  BY StreamStarts DEF Init
<1>2. StreamInv /\ [Next]_vars => StreamInv'
  BY StreamKeeps, StreamStutters
<1>3. StreamInv => StreamIsFaithful
  BY StreamInvIsFaithful
<1> QED
  BY <1>1, <1>2, <1>3, PTL DEF Spec

\* And the streams of a session, whose chats ask providers, give up and are taken up again:
\* nothing of one stream is left in the next (StreamIsFaithful; chat_stream of the
\* orchestrators, a new accumulator for each request).
THEOREM StreamsAreFaithful == ExchangeSpec => []StreamIsFaithful
<1>1. ExchangeInit => StreamInv
  BY StreamStarts DEF ExchangeInit, Init
<1>2. StreamInv /\ [ExchangeNext]_<<vars, chatVars>> => StreamInv'
  BY ExchangeKeeps
<1>3. StreamInv => StreamIsFaithful
  BY StreamInvIsFaithful
<1> QED
  BY <1>1, <1>2, <1>3, PTL DEF ExchangeSpec

\* For every adapter, all messages that a session may hold, every reply, streamed or whole,
\* and every change of the provider between chats: a request says what the messages of its
\* chat say, in their order and by the same speaker, it has no empty message but for one with
\* nothing in it, and it obliges the model to call what the caller wants of the tools that it
\* offers (SentAsMeant; the request mappers of the four adapters, map_tool_choice and
\* _filter_tool_choice).
THEOREM RequestsAreAsMeant == ExchangeSpec => []SentAsMeant
<1>1. ExchangeInit => ExchangeInv
  <2>1. ExchangeInit => StreamInv
    BY StreamStarts DEF ExchangeInit, Init
  <2> QED
    BY <2>1, ThreadStarts DEF ExchangeInv
<1>2. ExchangeInv /\ [ExchangeNext]_<<vars, chatVars>> => ExchangeInv'
  BY ChatsKeep
<1>3. ExchangeInv => SentAsMeant
  BY ExchangeInvSays
<1> QED
  BY <1>1, <1>2, <1>3, PTL DEF ExchangeSpec

=============================================================================
