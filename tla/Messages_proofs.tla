-------------------------- MODULE Messages_proofs ---------------------------
(***************************************************************************)
(* Theorems about what the program writes and reads of its messages and    *)
(* bitmaps (modules Wire, Messages and Bitmaps): that every message of the *)
(* tables comes back as it was written, that a message cut before its end  *)
(* does not come back with its last field, and that a bitmap comes back    *)
(* from its blocks; and about the connections that carry them (module      *)
(* NetPack), for any file, number of calls and way the bytes arrive: what  *)
(* is heard is what was said, or nothing.                                  *)
(*                                                                         *)
(* The folds over tokens and fields are recursive functions.  What they    *)
(* compute is found by induction over sets (Induct, SeqInduct): the set of *)
(* the numbers, or sequences, of which a fact holds is all of them.        *)
(***************************************************************************)
EXTENDS NetPack, SequenceTheorems, WellFoundedInduction, TLAPS

-----------------------------------------------------------------------------
(* Recursion, and the folds of module Wire                                 *)

\* A set of natural numbers with a member has a least one.
LEMMA LeastOf ==
  ASSUME NEW T \in SUBSET Nat, T # {}
  PROVE  \E m \in T : \A k \in T : m <= k
<1> DEFINE R == OpToRel(<, Nat)
<1>1. IsWellFoundedOn(R, Nat)
  BY NatLessThanWellFounded
<1>2. \A x, y \in Nat : <<y, x>> \in R <=> y < x
  BY DEF OpToRel
<1> HIDE DEF R
<1>3. PICK m \in T : \A k \in T : ~ (<<k, m>> \in R)
  BY <1>1, WFMin
<1>4. ASSUME NEW k \in T PROVE m <= k
  <2>1. <<k, m>> \in R <=> k < m
    BY <1>2
  <2>2. ~ (<<k, m>> \in R)
    BY <1>3
  <2> QED BY <2>1, <2>2
<1> QED BY <1>4

\* Induction: a set that holds 0, and with every number the next, holds all.
LEMMA Induct ==
  ASSUME NEW T, 0 \in T, \A n \in Nat : n \in T => n + 1 \in T
  PROVE  Nat \subseteq T
<1> SUFFICES ASSUME ~(Nat \subseteq T) PROVE FALSE
  OBVIOUS
<1>1. PICK m \in Nat \ T : \A k \in Nat \ T : m <= k
  BY LeastOf
<1>2. m # 0
  OBVIOUS
<1>3. m - 1 \in T
  BY <1>1, <1>2
<1> QED BY <1>3

(* f is what a recursion from s0 computes.                                 *)
Computes(f, s0, move) == f[0] = s0 /\ \A n \in Nat : f[n + 1] = move[n][f[n]]

(* What a recursion of the natural numbers defines exists.                 *)
LEMMA Recursion ==
  ASSUME NEW S, NEW s0 \in S, NEW move \in [Nat -> [S -> S]]
  PROVE  \E f \in [Nat -> S] : Computes(f, s0, move)
<1> DEFINE Good(n, g) == /\ g \in [0 .. n -> S]
                         /\ g[0] = s0
                         /\ \A k \in 0 .. n - 1 : g[k + 1] = move[k][g[k]]
           T == {n \in Nat : \E g : Good(n, g)}
<1>1. 0 \in T
  <2>1. Good(0, [k \in 0 .. 0 |-> s0])
    OBVIOUS
  <2> QED BY <2>1
<1>2. ASSUME NEW n \in Nat, n \in T PROVE n + 1 \in T
  <2>1. PICK g : Good(n, g)
    BY <1>2
  <2> DEFINE h == [k \in 0 .. n + 1 |-> IF k = n + 1 THEN move[n][g[n]] ELSE g[k]]
  <2>2. Good(n + 1, h)
    <3>1. move[n][g[n]] \in S
      BY <2>1
    <3>2. h \in [0 .. n + 1 -> S]
      BY <2>1, <3>1
    <3>3. h[0] = s0
      BY <2>1
    <3>4. ASSUME NEW k \in 0 .. (n + 1) - 1 PROVE h[k + 1] = move[k][h[k]]
      <4>1. k \in 0 .. n /\ (k # n => k \in 0 .. n - 1 /\ k + 1 # n + 1)
        OBVIOUS
      <4>2. h[k] = g[k]
        BY <4>1
      <4>3. CASE k = n
        <5>1. h[n + 1] = move[n][g[n]]
          OBVIOUS
        <5> HIDE DEF h
        <5> QED BY <4>2, <4>3, <5>1
      <4>4. CASE k # n
        <5>1. h[k + 1] = g[k + 1]
          BY <4>1, <4>4
        <5>2. g[k + 1] = move[k][g[k]]
          BY <2>1, <4>1, <4>4
        <5> HIDE DEF h
        <5> QED BY <4>2, <5>1, <5>2
      <4> QED BY <4>3, <4>4
    <3> HIDE DEF h
    <3> QED BY <3>2, <3>3, <3>4
  <2>3. \E q : Good(n + 1, q)
    <3> HIDE DEF h
    <3> QED BY <2>2
  <2> QED BY <2>3
<1>3. Nat \subseteq T
  <2> HIDE DEF T
  <2> QED BY <1>1, <1>2, Induct
<1> DEFINE G(n) == CHOOSE g : Good(n, g)
<1>4. \A n \in Nat : Good(n, G(n))
  BY <1>3
<1>5. \A n \in Nat : \A k \in 0 .. n : G(n)[k] = G(k)[k]
  <2> DEFINE U == {k \in Nat : \A n, m \in Nat : k <= n /\ k <= m => G(n)[k] = G(m)[k]}
  <2>1. 0 \in U
    BY <1>4
  <2>2. ASSUME NEW k \in Nat, k \in U PROVE k + 1 \in U
    <3> HIDE DEF G
    <3> SUFFICES ASSUME NEW n \in Nat, NEW m \in Nat, k + 1 <= n, k + 1 <= m
                 PROVE  G(n)[k + 1] = G(m)[k + 1]
      OBVIOUS
    <3>1. G(n)[k + 1] = move[k][G(n)[k]] /\ G(m)[k + 1] = move[k][G(m)[k]]
      BY <1>4
    <3>2. G(n)[k] = G(m)[k]
      BY <2>2
    <3> QED BY <3>1, <3>2
  <2>3. Nat \subseteq U
    <3> HIDE DEF U
    <3> QED BY <2>1, <2>2, Induct
  <2> HIDE DEF G
  <2> QED BY <2>3
<1> DEFINE f == [n \in Nat |-> G(n)[n]]
<1> HIDE DEF G
<1>6. f \in [Nat -> S]
  BY <1>4
<1>7. f[0] = s0
  BY <1>4
<1>8. ASSUME NEW n \in Nat PROVE f[n + 1] = move[n][f[n]]
  <2>1. G(n + 1)[n + 1] = move[n][G(n + 1)[n]]
    BY <1>4
  <2>2. G(n + 1)[n] = G(n)[n]
    BY <1>5
  <2> QED BY <2>1, <2>2
<1>9. Computes(f, s0, move)
  BY <1>7, <1>8 DEF Computes
<1> HIDE DEF f
<1> QED BY <1>6, <1>9

(* h holds the values of a fold over a sequence, from the first to the last. *)
IsFold(h, s, z, move) == h[0] = z /\ \A k \in 1 .. Len(s) : h[k] = move[h[k - 1]][s[k]]

\* A fold over a sequence is what some function holds at the end of it.
LEMMA FoldExists ==
  ASSUME NEW E, NEW S, NEW z \in S, NEW move \in [S -> [E -> S]], NEW s \in Seq(E)
  PROVE  \E h \in [0 .. Len(s) -> S] : IsFold(h, s, z, move)
<1> DEFINE next == [n \in Nat |-> [x \in S |->
                      IF n + 1 <= Len(s) THEN move[x][s[n + 1]] ELSE x]]
<1>1. next \in [Nat -> [S -> S]]
  <2>1. ASSUME NEW n \in Nat, NEW x \in S
        PROVE  (IF n + 1 <= Len(s) THEN move[x][s[n + 1]] ELSE x) \in S
    OBVIOUS
  <2> QED BY <2>1
<1> HIDE DEF next
<1>2. PICK g \in [Nat -> S] : Computes(g, z, next)
  BY <1>1, Recursion
<1> DEFINE h == [k \in 0 .. Len(s) |-> g[k]]
<1>3. ASSUME NEW k \in 1 .. Len(s) PROVE h[k] = move[h[k - 1]][s[k]]
  <2>1. k - 1 \in Nat /\ k - 1 \in 0 .. Len(s) /\ (k - 1) + 1 = k /\ k \in Nat
    OBVIOUS
  <2>2. g[k] = next[k - 1][g[k - 1]]
    BY <1>2, <2>1 DEF Computes
  <2>3. next[k - 1][g[k - 1]] = move[g[k - 1]][s[k]]
    BY <1>2, <2>1 DEF next
  <2> QED BY <2>1, <2>2, <2>3
<1>4. h[0] = z /\ h \in [0 .. Len(s) -> S]
  BY <1>2 DEF Computes
<1>5. IsFold(h, s, z, move)
  <2> HIDE DEF h
  <2> QED BY <1>3, <1>4 DEF IsFold
<1> HIDE DEF h
<1> QED BY <1>4, <1>5

(* Two that begin alike and go on alike are alike.                         *)
LEMMA Alike ==
  ASSUME NEW n \in Nat, NEW f, NEW h, f[0] = h[0],
         \A k \in 1 .. n : f[k - 1] = h[k - 1] => f[k] = h[k]
  PROVE  f[n] = h[n]
<1> DEFINE U == {k \in Nat : k <= n => f[k] = h[k]}
<1>1. 0 \in U
  OBVIOUS
<1>2. ASSUME NEW k \in Nat, k \in U PROVE k + 1 \in U
  <2>1. CASE k + 1 <= n
    <3>1. k + 1 \in 1 .. n /\ (k + 1) - 1 = k /\ k <= n
      BY <2>1
    <3> QED BY <1>2, <3>1
  <2>2. CASE ~(k + 1 <= n)
    BY <2>2
  <2> QED BY <2>1, <2>2
<1> HIDE DEF U
<1>3. Nat \subseteq U
  BY <1>1, <1>2, Induct
<1> USE DEF U
<1> QED BY <1>3

\* A fold over a sequence one longer makes one step more.
LEMMA FoldAppend ==
  ASSUME NEW s, NEW longer, NEW z, NEW move, NEW h, NEW g,
         Len(s) \in Nat, Len(longer) = Len(s) + 1, \A k \in 1 .. Len(s) : longer[k] = s[k],
         IsFold(h, s, z, move), IsFold(g, longer, z, move)
  PROVE  g[Len(s) + 1] = move[h[Len(s)]][longer[Len(s) + 1]]
<1>1. ASSUME NEW k \in 1 .. Len(s), g[k - 1] = h[k - 1] PROVE g[k] = h[k]
  <2>1. g[k] = move[g[k - 1]][longer[k]] /\ h[k] = move[h[k - 1]][s[k]]
    BY DEF IsFold
  <2> QED BY <1>1, <2>1
<1>2. g[0] = h[0]
  BY DEF IsFold
<1>3. g[Len(s)] = h[Len(s)]
  BY <1>1, <1>2, Alike
<1>4. g[Len(s) + 1] = move[g[Len(s)]][longer[Len(s) + 1]]
  <2>1. Len(s) + 1 \in 1 .. Len(longer) /\ (Len(s) + 1) - 1 = Len(s)
    OBVIOUS
  <2> QED BY <2>1 DEF IsFold
<1> QED BY <1>3, <1>4

---------------------------------------------------------------------------
(* What splitting a stream does with each token.                           *)
SplitStep(T) == [fields \in Seq(Seq(T)) |-> [t \in T |-> AddToken(fields, t)]]

\* Splitting a stream into fields folds AddToken over its tokens.
LEMMA SplitIsFold ==
  ASSUME NEW T, NEW stream \in Seq(T)
  PROVE  \E h \in [0 .. Len(stream) -> Seq(Seq(T))] :
           IsFold(h, stream, <<>>, SplitStep(T)) /\ Split(stream) = h[Len(stream)]
<1> DEFINE Splits == Seq(Seq(T))
           move == SplitStep(T)
           split[k \in 0 .. Len(stream)] ==
             IF k = 0 THEN <<>> ELSE AddToken(split[k - 1], stream[k])
<1>1. ASSUME NEW fields \in Splits, NEW t \in T PROVE AddToken(fields, t) \in Splits
  BY DEF AddToken
<1>2. <<>> \in Splits
  OBVIOUS
<1>a. move = [fields \in Splits |-> [t \in T |-> AddToken(fields, t)]]
  BY DEF SplitStep
<1> HIDE DEF Splits
<1>3. move \in [Splits -> [T -> Splits]]
  BY <1>1, <1>a
<1>4. ASSUME NEW fields \in Splits, NEW t \in T
      PROVE  move[fields][t] = AddToken(fields, t)
  BY DEF SplitStep, Splits
<1> HIDE DEF move
<1>5. PICK h \in [0 .. Len(stream) -> Splits] : IsFold(h, stream, <<>>, move)
  BY <1>2, <1>3, FoldExists
<1>6. h = [k \in 0 .. Len(stream) |-> IF k = 0 THEN <<>> ELSE AddToken(h[k - 1], stream[k])]
  <2>1. ASSUME NEW k \in 1 .. Len(stream) PROVE h[k] = AddToken(h[k - 1], stream[k])
    <3>1. h[k] = move[h[k - 1]][stream[k]]
      BY <1>5 DEF IsFold
    <3>2. h[k - 1] \in Splits /\ stream[k] \in T
      BY <1>5
    <3> QED BY <1>4, <3>1, <3>2
  <2>2. h[0] = <<>>
    BY <1>5 DEF IsFold
  <2> QED BY <2>1, <2>2
<1>7. split = [k \in 0 .. Len(stream) |->
                 IF k = 0 THEN <<>> ELSE AddToken(split[k - 1], stream[k])]
  BY <1>6
<1>8. Split(stream) = split[Len(stream)]
  BY DEF Split
<1> HIDE DEF split
<1>9. split[Len(stream)] = h[Len(stream)]
  <2>1. split[0] = <<>>
    BY <1>7
  <2>2. ASSUME NEW k \in 1 .. Len(stream), split[k - 1] = h[k - 1] PROVE split[k] = h[k]
    BY <1>6, <1>7, <2>2
  <2>3. h[0] = <<>> /\ Len(stream) \in Nat
    BY <1>6
  <2> QED BY <2>1, <2>2, <2>3, Alike
<1> QED BY <1>5, <1>8, <1>9 DEF Splits, move

\* What a stream is split into when there is one token more.
LEMMA SplitLaws ==
  ASSUME NEW T, NEW stream \in Seq(T), NEW t \in T
  PROVE  /\ Split(stream) \in Seq(Seq(T))
         /\ Split(Append(stream, t)) = AddToken(Split(stream), t)
<1> DEFINE move == SplitStep(T)
<1>1. PICK h \in [0 .. Len(stream) -> Seq(Seq(T))] :
        IsFold(h, stream, <<>>, move) /\ Split(stream) = h[Len(stream)]
  BY SplitIsFold
<1>2. Append(stream, t) \in Seq(T) /\ Len(Append(stream, t)) = Len(stream) + 1
  OBVIOUS
<1>3. PICK g : IsFold(g, Append(stream, t), <<>>, move)
               /\ Split(Append(stream, t)) = g[Len(stream) + 1]
  BY <1>2, SplitIsFold
<1>4. h[Len(stream)] \in Seq(Seq(T))
  OBVIOUS
<1>5. move[h[Len(stream)]][t] = AddToken(h[Len(stream)], t)
  BY <1>4 DEF SplitStep
<1> HIDE DEF move
<1>6. g[Len(stream) + 1] = move[h[Len(stream)]][t]
  <2> DEFINE longer == Append(stream, t)
  <2>1. Len(stream) \in Nat /\ Len(longer) = Len(stream) + 1 /\ longer[Len(stream) + 1] = t
        /\ \A k \in 1 .. Len(stream) : longer[k] = stream[k]
    OBVIOUS
  <2>2. IsFold(g, longer, <<>>, move)
    BY <1>3
  <2>3. IsFold(h, stream, <<>>, move)
    BY <1>1
  <2> HIDE DEF longer
  <2>4. g[Len(stream) + 1] = move[h[Len(stream)]][longer[Len(stream) + 1]]
    BY <2>1, <2>2, <2>3, FoldAppend
  <2> QED BY <2>1, <2>4
<1> QED BY <1>1, <1>3, <1>4, <1>5, <1>6

\* An empty stream has no fields.
LEMMA SplitEmpty == Split(<<>>) = <<>>
<1>1. <<>> \in Seq({}) /\ Len(<<>>) = 0
  OBVIOUS
<1>2. PICK h : IsFold(h, <<>>, <<>>, SplitStep({})) /\ Split(<<>>) = h[0]
  BY <1>1, SplitIsFold
<1> QED BY <1>2 DEF IsFold

---------------------------------------------------------------------------
(* What follows the tags that are this one, field by field.                *)
OneMore(pieces, field, tag) == IF field[1] = tag THEN Append(pieces, Tail(field)) ELSE pieces

(* A field has a tag at least.                                             *)
Fields(T) == Seq(T) \ {<<>>}

TaggedStep(T, tag) ==
  [pcs \in Seq(Seq(T)) |-> [field \in Fields(T) |-> OneMore(pcs, field, tag)]]

\* Selecting the fields of one tag is a fold over the fields.
LEMMA TaggedIsFold ==
  ASSUME NEW T, NEW fields \in Seq(Fields(T)), NEW tag
  PROVE  \E h \in [0 .. Len(fields) -> Seq(Seq(T))] :
           IsFold(h, fields, <<>>, TaggedStep(T, tag)) /\ Tagged(fields, tag) = h[Len(fields)]
<1> DEFINE Pcs == Seq(Seq(T))
           F == Fields(T)
           move == TaggedStep(T, tag)
<1>1. ASSUME NEW pcs \in Pcs, NEW field \in F PROVE OneMore(pcs, field, tag) \in Pcs
  <2>1. field \in Seq(T) /\ field # <<>>
    BY DEF Fields
  <2>2. Tail(field) \in Seq(T)
    BY <2>1
  <2> QED BY <2>2 DEF OneMore
<1>2. <<>> \in Pcs
  OBVIOUS
<1>a. move = [pcs \in Pcs |-> [field \in F |-> OneMore(pcs, field, tag)]]
  BY DEF TaggedStep
<1>b. fields \in Seq(F)
  OBVIOUS
<1> HIDE DEF Pcs, F
<1>3. move \in [Pcs -> [F -> Pcs]]
  BY <1>1, <1>a
<1>4. ASSUME NEW pcs \in Pcs, NEW field \in F
      PROVE  move[pcs][field] = OneMore(pcs, field, tag)
  BY <1>a
<1> HIDE DEF move
<1>5. PICK h \in [0 .. Len(fields) -> Pcs] : IsFold(h, fields, <<>>, move)
  BY <1>2, <1>3, <1>b, FoldExists
<1>6. h = [k \in 0 .. Len(fields) |-> IF k = 0 THEN <<>> ELSE OneMore(h[k - 1], fields[k], tag)]
  <2>1. ASSUME NEW k \in 1 .. Len(fields) PROVE h[k] = OneMore(h[k - 1], fields[k], tag)
    <3>1. h[k] = move[h[k - 1]][fields[k]]
      BY <1>5 DEF IsFold
    <3>4. k - 1 \in 0 .. Len(fields)
      OBVIOUS
    <3>2. h[k - 1] \in Pcs
      BY <1>5, <3>4
    <3>3. fields[k] \in F
      BY <1>b
    <3> QED BY <1>4, <3>1, <3>2, <3>3
  <2>2. h[0] = <<>>
    BY <1>5 DEF IsFold
  <2> QED BY <2>1, <2>2
<1> DEFINE tagged[k \in 0 .. Len(fields)] ==
             IF k = 0 THEN <<>>
             ELSE IF fields[k][1] = tag THEN Append(tagged[k - 1], Tail(fields[k]))
             ELSE tagged[k - 1]
<1>7. tagged = [k \in 0 .. Len(fields) |->
                  IF k = 0 THEN <<>> ELSE OneMore(tagged[k - 1], fields[k], tag)]
  BY <1>6 DEF OneMore
<1>8. Tagged(fields, tag) = tagged[Len(fields)]
  BY DEF Tagged
<1> HIDE DEF tagged
<1>9. tagged[Len(fields)] = h[Len(fields)]
  <2>1. tagged[0] = <<>>
    BY <1>7
  <2>2. ASSUME NEW k \in 1 .. Len(fields), tagged[k - 1] = h[k - 1] PROVE tagged[k] = h[k]
    <3>1. k \in 0 .. Len(fields) /\ k # 0
      OBVIOUS
    <3>2. tagged[k] = OneMore(tagged[k - 1], fields[k], tag)
      BY <1>7, <3>1
    <3>3. h[k] = OneMore(h[k - 1], fields[k], tag)
      BY <1>6, <3>1
    <3> QED BY <2>2, <3>2, <3>3
  <2>3. h[0] = <<>> /\ Len(fields) \in Nat
    BY <1>6
  <2> QED BY <2>1, <2>2, <2>3, Alike
<1> QED BY <1>5, <1>8, <1>9 DEF Pcs, move

\* What is selected when there is one field more.
LEMMA TaggedAppend ==
  ASSUME NEW T, NEW fields \in Seq(Fields(T)), NEW field \in Fields(T), NEW tag
  PROVE  /\ Tagged(fields, tag) \in Seq(Seq(T))
         /\ Tagged(Append(fields, field), tag) = OneMore(Tagged(fields, tag), field, tag)
<1> DEFINE move == TaggedStep(T, tag)
<1>1. PICK h \in [0 .. Len(fields) -> Seq(Seq(T))] :
        IsFold(h, fields, <<>>, move) /\ Tagged(fields, tag) = h[Len(fields)]
  BY TaggedIsFold
<1>2. Append(fields, field) \in Seq(Fields(T)) /\ Len(Append(fields, field)) = Len(fields) + 1
  OBVIOUS
<1>3. PICK g : IsFold(g, Append(fields, field), <<>>, move)
               /\ Tagged(Append(fields, field), tag) = g[Len(fields) + 1]
  BY <1>2, TaggedIsFold
<1>4. h[Len(fields)] \in Seq(Seq(T))
  OBVIOUS
<1>5. move[h[Len(fields)]][field] = OneMore(h[Len(fields)], field, tag)
  BY <1>4 DEF TaggedStep
<1> HIDE DEF move
<1>6. g[Len(fields) + 1] = move[h[Len(fields)]][field]
  <2> DEFINE longer == Append(fields, field)
  <2>1. Len(fields) \in Nat /\ Len(longer) = Len(fields) + 1 /\ longer[Len(fields) + 1] = field
        /\ \A k \in 1 .. Len(fields) : longer[k] = fields[k]
    OBVIOUS
  <2>2. IsFold(g, longer, <<>>, move)
    BY <1>3
  <2>3. IsFold(h, fields, <<>>, move)
    BY <1>1
  <2> HIDE DEF longer
  <2>4. g[Len(fields) + 1] = move[h[Len(fields)]][longer[Len(fields) + 1]]
    BY <2>1, <2>2, <2>3, FoldAppend
  <2> QED BY <2>1, <2>4
<1> QED BY <1>1, <1>3, <1>4, <1>5, <1>6

\* A field more is selected when it has the tag, and only then.
LEMMA TaggedLaws ==
  ASSUME NEW T, NEW fields \in Seq(Fields(T)), NEW field \in Fields(T), NEW tag
  PROVE  /\ Tagged(fields, tag) \in Seq(Seq(T))
         /\ field[1] = tag =>
              Tagged(Append(fields, field), tag) = Append(Tagged(fields, tag), Tail(field))
         /\ field[1] # tag => Tagged(Append(fields, field), tag) = Tagged(fields, tag)
BY TaggedAppend DEF OneMore

\* Nothing is selected of no fields.
LEMMA TaggedEmpty == ASSUME NEW tag PROVE Tagged(<<>>, tag) = <<>>
<1>1. <<>> \in Seq(Fields({})) /\ Len(<<>>) = 0
  OBVIOUS
<1>2. PICK h : IsFold(h, <<>>, <<>>, TaggedStep({}, tag)) /\ Tagged(<<>>, tag) = h[0]
  BY <1>1, TaggedIsFold
<1> QED BY <1>2 DEF IsFold

---------------------------------------------------------------------------
(* Sequences end to end.                                                   *)
FlattenStep(T) == [s \in Seq(T) |-> [t \in Seq(T) |-> s \o t]]

\* Joining sequences folds concatenation over them.
LEMMA FlattenIsFold ==
  ASSUME NEW T, NEW seqs \in Seq(Seq(T))
  PROVE  \E h \in [0 .. Len(seqs) -> Seq(T)] :
           IsFold(h, seqs, <<>>, FlattenStep(T)) /\ FlattenSeq(seqs) = h[Len(seqs)]
<1> DEFINE S == Seq(T)
           move == FlattenStep(T)
           flatten[i \in 1 .. Len(seqs)] ==
             IF i = 1 THEN seqs[i] ELSE flatten[i - 1] \o seqs[i]
<1>1. ASSUME NEW s \in S, NEW t \in S PROVE s \o t \in S
  OBVIOUS
<1>2. <<>> \in S /\ \A s \in S : <<>> \o s = s
  OBVIOUS
<1>a. move = [s \in S |-> [t \in S |-> s \o t]]
  BY DEF FlattenStep
<1> HIDE DEF S
<1>3. ASSUME NEW s \in S, NEW t \in S PROVE move[s][t] = s \o t
  BY <1>a
<1>4. move \in [S -> [S -> S]]
  BY <1>1, <1>a
<1> HIDE DEF move
<1>5. seqs \in Seq(S)
  BY DEF S
<1>6. PICK h \in [0 .. Len(seqs) -> S] : IsFold(h, seqs, <<>>, move)
  BY <1>2, <1>4, <1>5, FoldExists
<1>7. ASSUME NEW k \in 1 .. Len(seqs)
      PROVE  h[k] = h[k - 1] \o seqs[k] /\ h[k - 1] \in S /\ seqs[k] \in S
  <2>1. h[k] = move[h[k - 1]][seqs[k]]
    BY <1>6 DEF IsFold
  <2>2. k - 1 \in 0 .. Len(seqs) /\ k \in 1 .. Len(seqs)
    OBVIOUS
  <2>3. h[k - 1] \in S
    BY <1>6, <2>2
  <2>4. seqs[k] \in S
    BY <1>5, <2>2, ElementOfSeq
  <2> QED BY <1>3, <2>1, <2>3, <2>4
<1>8. h[0] = <<>>
  BY <1>6 DEF IsFold
<1> DEFINE k1 == [i \in 1 .. Len(seqs) |-> h[i]]
<1>9. k1 = [i \in 1 .. Len(seqs) |-> IF i = 1 THEN seqs[i] ELSE k1[i - 1] \o seqs[i]]
  <2>1. ASSUME NEW i \in 1 .. Len(seqs)
        PROVE  k1[i] = IF i = 1 THEN seqs[i] ELSE k1[i - 1] \o seqs[i]
    <3>1. CASE i = 1
      <4>1. h[i] = h[i - 1] \o seqs[i] /\ seqs[i] \in S
        BY <1>7
      <4>2. h[i] = seqs[i]
        BY <1>2, <1>8, <3>1, <4>1
      <4> QED BY <3>1, <4>2
    <3>2. CASE i # 1
      <4>1. i - 1 \in 1 .. Len(seqs)
        BY <3>2
      <4> QED BY <1>7, <3>2, <4>1
    <3> QED BY <3>1, <3>2
  <2>2. k1 = [i \in 1 .. Len(seqs) |-> k1[i]]
    OBVIOUS
  <2> HIDE DEF k1
  <2> QED BY <2>1, <2>2
<1>10. flatten = [i \in 1 .. Len(seqs) |-> IF i = 1 THEN seqs[i] ELSE flatten[i - 1] \o seqs[i]]
  <2> HIDE DEF k1
  <2> QED BY <1>9
<1> HIDE DEF k1
<1>11. CASE seqs = <<>>
  <2>1. FlattenSeq(seqs) = <<>>
    BY <1>11 DEF FlattenSeq
  <2>2. Len(seqs) = 0
    BY <1>11
  <2>3. FlattenSeq(seqs) = h[Len(seqs)]
    BY <1>8, <2>1, <2>2
  <2> QED BY <1>6, <2>3 DEF S, move
<1>12. CASE seqs # <<>>
  <2>1. Len(seqs) \in Nat /\ Len(seqs) # 0
    BY <1>12
  <2>2. FlattenSeq(seqs) = flatten[Len(seqs)]
    BY <2>1 DEF FlattenSeq
  <2> HIDE DEF flatten
  <2> DEFINE f == [k \in 0 .. Len(seqs) |-> IF k = 0 THEN <<>> ELSE flatten[k]]
  <2>3. f[0] = <<>>
    OBVIOUS
  <2>4. ASSUME NEW k \in 1 .. Len(seqs), f[k - 1] = h[k - 1] PROVE f[k] = h[k]
    <3>1. h[k] = h[k - 1] \o seqs[k]
      BY <1>7
    <3>2. CASE k = 1
      <4>1. f[k] = seqs[k]
        BY <1>10, <3>2
      <4>2. h[k] = seqs[k]
        <5>0. seqs[k] \in S
          BY <1>7
        <5>2. h[k - 1] = <<>>
          BY <1>8, <3>2
        <5>1. h[k - 1] = <<>> /\ seqs[k] \in S
          BY <5>0, <5>2
        <5> QED BY <1>2, <3>1, <5>1
      <4> QED BY <4>1, <4>2
    <3>3. CASE k # 1
      <4>1. k - 1 \in 1 .. Len(seqs) /\ k - 1 # 0 /\ k # 0
        BY <3>3
      <4>2. f[k - 1] = flatten[k - 1] /\ f[k] = flatten[k]
        BY <4>1
      <4>3. flatten[k] = flatten[k - 1] \o seqs[k]
        BY <1>10, <3>3
      <4> HIDE DEF f
      <4> QED BY <2>4, <3>1, <4>2, <4>3
    <3> QED BY <3>2, <3>3
  <2>5. flatten[Len(seqs)] = f[Len(seqs)]
    BY <2>1
  <2> HIDE DEF f
  <2>6. f[Len(seqs)] = h[Len(seqs)]
    BY <1>8, <2>1, <2>3, <2>4, Alike
  <2>7. FlattenSeq(seqs) = h[Len(seqs)]
    BY <2>2, <2>5, <2>6
  <2> QED BY <1>6, <2>7 DEF S, move
<1> QED BY <1>11, <1>12

\* What is joined when there is one sequence more.
LEMMA FlattenLaws ==
  ASSUME NEW T, NEW seqs \in Seq(Seq(T)), NEW s \in Seq(T)
  PROVE  /\ FlattenSeq(seqs) \in Seq(T)
         /\ FlattenSeq(Append(seqs, s)) = FlattenSeq(seqs) \o s
<1> DEFINE move == FlattenStep(T)
<1>1. PICK h \in [0 .. Len(seqs) -> Seq(T)] :
        IsFold(h, seqs, <<>>, move) /\ FlattenSeq(seqs) = h[Len(seqs)]
  BY FlattenIsFold
<1>2. Append(seqs, s) \in Seq(Seq(T)) /\ Len(Append(seqs, s)) = Len(seqs) + 1
  OBVIOUS
<1>3. PICK g : IsFold(g, Append(seqs, s), <<>>, move)
               /\ FlattenSeq(Append(seqs, s)) = g[Len(seqs) + 1]
  BY <1>2, FlattenIsFold
<1>4. h[Len(seqs)] \in Seq(T)
  OBVIOUS
<1>5. move[h[Len(seqs)]][s] = h[Len(seqs)] \o s
  BY <1>4 DEF FlattenStep
<1> HIDE DEF move
<1>6. g[Len(seqs) + 1] = move[h[Len(seqs)]][s]
  <2> DEFINE longer == Append(seqs, s)
  <2>1. Len(seqs) \in Nat /\ Len(longer) = Len(seqs) + 1 /\ longer[Len(seqs) + 1] = s
        /\ \A k \in 1 .. Len(seqs) : longer[k] = seqs[k]
    OBVIOUS
  <2>2. IsFold(g, longer, <<>>, move)
    BY <1>3
  <2>3. IsFold(h, seqs, <<>>, move)
    BY <1>1
  <2> HIDE DEF longer
  <2>4. g[Len(seqs) + 1] = move[h[Len(seqs)]][longer[Len(seqs) + 1]]
    BY <2>1, <2>2, <2>3, FoldAppend
  <2> QED BY <2>1, <2>4
<1> QED BY <1>1, <1>3, <1>4, <1>5, <1>6

\* Nothing joined is empty.
LEMMA FlattenEmpty == FlattenSeq(<<>>) = <<>>
BY DEF FlattenSeq
-----------------------------------------------------------------------------
(* Sequences of fields                                                     *)

(* What holds of the empty sequence and of every sequence one longer than  *)
(* one it holds of, holds of all.                                          *)
LEMMA SeqInduct ==
  ASSUME NEW T, NEW P, <<>> \in P,
         \A s \in Seq(T) : \A t \in T : s \in P => Append(s, t) \in P
  PROVE  Seq(T) \subseteq P
<1> DEFINE U == {n \in Nat : \A s \in Seq(T) : Len(s) = n => s \in P}
<1>1. 0 \in U
  <2>1. \A s \in Seq(T) : Len(s) = 0 => s = <<>>
    OBVIOUS
  <2> QED BY <2>1
<1>2. ASSUME NEW n \in Nat, n \in U PROVE n + 1 \in U
  <2>1. SUFFICES ASSUME NEW s \in Seq(T), Len(s) = n + 1 PROVE s \in P
    OBVIOUS
  <2> DEFINE q == SubSeq(s, 1, n)
  <2>2. q \in Seq(T) /\ Len(q) = n /\ s[n + 1] \in T
    BY <2>1
  <2>3. s = Append(q, s[n + 1])
    BY <2>1, <2>2
  <2> HIDE DEF q
  <2>4. q \in P
    BY <1>2, <2>2
  <2> QED BY <2>2, <2>3, <2>4
<1> HIDE DEF U
<1>3. Nat \subseteq U
  BY <1>1, <1>2, Induct
<1> USE DEF U
<1>4. \A s \in Seq(T) : Len(s) \in Nat
  OBVIOUS
<1> QED BY <1>3, <1>4

\* Appending to the second of two sequences appends to both together.
LEMMA AppendConcat ==
  ASSUME NEW T, NEW a \in Seq(T), NEW b \in Seq(T), NEW t \in T
  PROVE  a \o Append(b, t) = Append(a \o b, t)
OBVIOUS

\* Joined together or one after the other, two lists of sequences are the same.
LEMMA FlattenConcat ==
  ASSUME NEW T, NEW a \in Seq(Seq(T))
  PROVE  \A b \in Seq(Seq(T)) : FlattenSeq(a \o b) = FlattenSeq(a) \o FlattenSeq(b)
<1> DEFINE P == {b \in Seq(Seq(T)) : FlattenSeq(a \o b) = FlattenSeq(a) \o FlattenSeq(b)}
<1>1. <<>> \in P
  <2>1. a \o <<>> = a /\ FlattenSeq(a) \in Seq(T)
    BY FlattenLaws
  <2>2. FlattenSeq(a) \o <<>> = FlattenSeq(a)
    BY <2>1
  <2> QED BY <2>1, <2>2, FlattenEmpty
<1>2. ASSUME NEW b \in Seq(Seq(T)), NEW t \in Seq(T), b \in P PROVE Append(b, t) \in P
  <2> DEFINE S == Seq(T)
  <2>1. a \o Append(b, t) = Append(a \o b, t) /\ a \o b \in Seq(S) /\ Append(b, t) \in Seq(S)
    <3> HIDE DEF S
    <3>1. a \in Seq(S) /\ b \in Seq(S) /\ t \in S
      BY DEF S
    <3> QED BY <3>1, AppendConcat
  <2>2. FlattenSeq(Append(a \o b, t)) = FlattenSeq(a \o b) \o t
    BY <2>1, FlattenLaws
  <2>3. FlattenSeq(Append(b, t)) = FlattenSeq(b) \o t
    BY FlattenLaws
  <2>4. FlattenSeq(a) \in Seq(T) /\ FlattenSeq(b) \in Seq(T)
    BY FlattenLaws
  <2>5. (FlattenSeq(a) \o FlattenSeq(b)) \o t = FlattenSeq(a) \o (FlattenSeq(b) \o t)
    BY <2>4, ConcatAssociative
  <2> QED BY <1>2, <2>1, <2>2, <2>3, <2>5
<1> HIDE DEF P
<1>3. Seq(Seq(T)) \subseteq P
  BY <1>1, <1>2, SeqInduct
<1> QED BY <1>3 DEF P

\* What is selected are sequences of tokens.
LEMMA TaggedIn ==
  ASSUME NEW T, NEW fields \in Seq(Fields(T)), NEW tag
  PROVE  Tagged(fields, tag) \in Seq(Seq(T))
<1>1. CASE fields = <<>>
  <2>1. Tagged(fields, tag) = <<>>
    BY <1>1, TaggedEmpty
  <2> QED BY <2>1
<1>2. CASE fields # <<>>
  <2>1. PICK f \in Fields(T) : TRUE
    BY <1>2
  <2> QED BY <2>1, TaggedLaws
<1> QED BY <1>1, <1>2

\* A field without its tag is a sequence of tokens.
LEMMA TailIn ==
  ASSUME NEW T, NEW field \in Fields(T)
  PROVE  Tail(field) \in Seq(T)
<1>1. field \in Seq(T) /\ field # <<>>
  BY DEF Fields
<1> QED BY <1>1

\* What is selected of two lists of fields is selected of each.
LEMMA TaggedConcat ==
  ASSUME NEW T, NEW a \in Seq(Fields(T)), NEW tag
  PROVE  \A b \in Seq(Fields(T)) : Tagged(a \o b, tag) = Tagged(a, tag) \o Tagged(b, tag)
<1> DEFINE P == {b \in Seq(Fields(T)) :
                   Tagged(a \o b, tag) = Tagged(a, tag) \o Tagged(b, tag)}
<1>1. <<>> \in P
  <2>1. a \o <<>> = a /\ Tagged(a, tag) \in Seq(Seq(T))
    BY TaggedIn
  <2>2. Tagged(a, tag) \o <<>> = Tagged(a, tag)
    BY <2>1
  <2> QED BY <2>1, <2>2, TaggedEmpty
<1>2. ASSUME NEW b \in Seq(Fields(T)), NEW t \in Fields(T), b \in P PROVE Append(b, t) \in P
  <2> DEFINE ab == a \o b
  <2>1. a \o Append(b, t) = Append(ab, t) /\ ab \in Seq(Fields(T))
        /\ Append(b, t) \in Seq(Fields(T))
    BY AppendConcat
  <2>2. Tagged(ab, tag) = Tagged(a, tag) \o Tagged(b, tag)
    BY <1>2
  <2>3. Tagged(a, tag) \in Seq(Seq(T)) /\ Tagged(b, tag) \in Seq(Seq(T)) /\ Tail(t) \in Seq(T)
    BY TaggedIn, TailIn
  <2>4. Tagged(a, tag) \o Append(Tagged(b, tag), Tail(t)) =
          Append(Tagged(a, tag) \o Tagged(b, tag), Tail(t))
    <3> DEFINE S == Seq(T)
    <3>1. Tagged(a, tag) \in Seq(S) /\ Tagged(b, tag) \in Seq(S) /\ Tail(t) \in S
      BY <2>3
    <3> HIDE DEF S
    <3> QED BY <3>1, AppendConcat
  <2> HIDE DEF ab, P
  <2>5. CASE t[1] = tag
    <3>1. Tagged(Append(ab, t), tag) = Append(Tagged(ab, tag), Tail(t))
      BY <2>1, <2>5, TaggedLaws
    <3>2. Tagged(Append(b, t), tag) = Append(Tagged(b, tag), Tail(t))
      BY <2>5, TaggedLaws
    <3> QED BY <2>1, <2>2, <2>4, <3>1, <3>2 DEF P
  <2>6. CASE t[1] # tag
    <3>1. Tagged(Append(ab, t), tag) = Tagged(ab, tag)
      BY <2>1, <2>6, TaggedLaws
    <3>2. Tagged(Append(b, t), tag) = Tagged(b, tag)
      BY <2>6, TaggedLaws
    <3> QED BY <2>1, <2>2, <3>1, <3>2 DEF P
  <2> QED BY <2>5, <2>6
<1> HIDE DEF P
<1>3. Seq(Fields(T)) \subseteq P
  BY <1>1, <1>2, SeqInduct
<1> QED BY <1>3 DEF P

(* Fields that all have the tag, and fields none of which has it.          *)
Tails(fields) == [i \in DOMAIN fields |-> Tail(fields[i])]

\* The fields without their tags, one for one.
LEMMA TailsIn ==
  ASSUME NEW T, NEW b \in Seq(Fields(T))
  PROVE  /\ Tails(b) \in Seq(Seq(T)) /\ Len(Tails(b)) = Len(b)
         /\ \A i \in 1 .. Len(b) : Tails(b)[i] = Tail(b[i])
<1>1. DOMAIN b = 1 .. Len(b) /\ Len(b) \in Nat /\ \A i \in 1 .. Len(b) : b[i] \in Fields(T)
  OBVIOUS
<1>2. Tails(b) = [i \in 1 .. Len(b) |-> Tail(b[i])]
  BY <1>1 DEF Tails
<1>3. ASSUME NEW i \in 1 .. Len(b) PROVE Tail(b[i]) \in Seq(T)
  BY <1>1, TailIn
<1> QED BY <1>1, <1>2, <1>3

\* The fields without their tags when there is one field more.
LEMMA TailsAppend ==
  ASSUME NEW T, NEW b \in Seq(Fields(T)), NEW t \in Fields(T)
  PROVE  Tails(Append(b, t)) = Append(Tails(b), Tail(t))
<1> DEFINE c == Append(b, t)
           S == Seq(T)
           u == Append(Tails(b), Tail(t))
<1>1. /\ Len(c) = Len(b) + 1 /\ c[Len(b) + 1] = t /\ Len(b) \in Nat
      /\ c \in Seq(Fields(T))
      /\ \A i \in 1 .. Len(b) : c[i] = b[i]
  OBVIOUS
<1>2. /\ Tails(b) \in Seq(S) /\ Len(Tails(b)) = Len(b)
      /\ \A i \in 1 .. Len(b) : Tails(b)[i] = Tail(b[i])
  BY TailsIn
<1>3. /\ Tails(c) \in Seq(S) /\ Len(Tails(c)) = Len(b) + 1
      /\ \A i \in 1 .. Len(b) + 1 : Tails(c)[i] = Tail(c[i])
  <2> HIDE DEF c
  <2> QED BY <1>1, TailsIn
<1>4. Tail(t) \in S
  BY TailIn
<1> HIDE DEF c, S
<1>5. /\ u \in Seq(S) /\ Len(u) = Len(b) + 1 /\ u[Len(b) + 1] = Tail(t)
      /\ \A i \in 1 .. Len(b) : u[i] = Tails(b)[i]
  BY <1>2, <1>4, AppendProperties
<1> HIDE DEF u
<1>6. ASSUME NEW i \in 1 .. Len(b) + 1 PROVE Tails(c)[i] = u[i]
  <2>1. CASE i = Len(b) + 1
    BY <1>1, <1>3, <1>5, <2>1
  <2>2. CASE i # Len(b) + 1
    <3>1. i \in 1 .. Len(b)
      BY <1>1, <2>2
    <3> QED BY <1>1, <1>2, <1>3, <1>5, <3>1
  <2> QED BY <2>1, <2>2
<1>7. Tails(c) = u
  BY <1>3, <1>5, <1>6, SeqEqual
<1> QED BY <1>7 DEF c, u

\* When all fields have the tag, all are selected.
LEMMA TaggedAll ==
  ASSUME NEW T, NEW tag
  PROVE  \A fields \in Seq(Fields(T)) :
           (\A i \in DOMAIN fields : fields[i][1] = tag) => Tagged(fields, tag) = Tails(fields)
<1> DEFINE Is(fields) == \A i \in DOMAIN fields : fields[i][1] = tag
           P == {fields \in Seq(Fields(T)) : Is(fields) => Tagged(fields, tag) = Tails(fields)}
<1>1. <<>> \in P
  <2>1. Tails(<<>>) = <<>>
    BY DEF Tails
  <2>2. Tagged(<<>>, tag) = Tails(<<>>)
    BY <2>1, TaggedEmpty
  <2>3. <<>> \in Seq(Fields(T))
    OBVIOUS
  <2> QED BY <2>2, <2>3
<1>2. ASSUME NEW b \in Seq(Fields(T)), NEW t \in Fields(T), b \in P PROVE Append(b, t) \in P
  <2> DEFINE c == Append(b, t)
  <2>1. c \in Seq(Fields(T)) /\ Len(c) = Len(b) + 1 /\ c[Len(b) + 1] = t
        /\ (\A i \in 1 .. Len(b) : c[i] = b[i]) /\ Len(b) \in Nat
        /\ DOMAIN b = 1 .. Len(b) /\ DOMAIN c = 1 .. Len(b) + 1
    OBVIOUS
  <2> SUFFICES ASSUME Is(c) PROVE Tagged(c, tag) = Tails(c)
    BY <2>1
  <2>4. t[1] = tag /\ Is(b)
    <3> HIDE DEF c
    <3> QED BY <2>1
  <2>5. Tagged(b, tag) = Tails(b)
    BY <1>2, <2>4
  <2>6. Tagged(c, tag) = Append(Tagged(b, tag), Tail(t))
    BY <2>4, TaggedLaws
  <2>7. Tails(c) = Append(Tails(b), Tail(t))
    BY TailsAppend
  <2> HIDE DEF c
  <2> QED BY <2>5, <2>6, <2>7
<1> HIDE DEF P
<1>3. Seq(Fields(T)) \subseteq P
  BY <1>1, <1>2, SeqInduct
<1> QED BY <1>3 DEF P

\* When no field has the tag, none is selected.
LEMMA TaggedNone ==
  ASSUME NEW T, NEW tag
  PROVE  \A fields \in Seq(Fields(T)) :
           (\A i \in DOMAIN fields : fields[i][1] # tag) => Tagged(fields, tag) = <<>>
<1> DEFINE Is(fields) == \A i \in DOMAIN fields : fields[i][1] # tag
           P == {fields \in Seq(Fields(T)) : Is(fields) => Tagged(fields, tag) = <<>>}
<1>1. <<>> \in P
  BY TaggedEmpty
<1>2. ASSUME NEW b \in Seq(Fields(T)), NEW t \in Fields(T), b \in P PROVE Append(b, t) \in P
  <2> DEFINE c == Append(b, t)
  <2>1. c \in Seq(Fields(T)) /\ Len(c) = Len(b) + 1 /\ c[Len(b) + 1] = t
        /\ (\A i \in 1 .. Len(b) : c[i] = b[i]) /\ Len(b) \in Nat
        /\ DOMAIN b = 1 .. Len(b) /\ DOMAIN c = 1 .. Len(b) + 1
    OBVIOUS
  <2> SUFFICES ASSUME Is(c) PROVE Tagged(c, tag) = <<>>
    BY <2>1
  <2>4. t[1] # tag /\ Is(b)
    <3> HIDE DEF c
    <3> QED BY <2>1
  <2>5. Tagged(b, tag) = <<>>
    BY <1>2, <2>4
  <2>6. Tagged(c, tag) = Tagged(b, tag)
    BY <2>4, TaggedLaws
  <2> HIDE DEF c
  <2> QED BY <2>5, <2>6
<1> HIDE DEF P
<1>3. Seq(Fields(T)) \subseteq P
  BY <1>1, <1>2, SeqInduct
<1> QED BY <1>3 DEF P
-----------------------------------------------------------------------------
(* Fields that are cut                                                     *)

(* A field that is there to its end, and no further.                       *)
Closed(T) ==
  {field \in Seq(T) : /\ Len(field) >= 2 /\ field[1][1] = "tag"
                      /\ Len(field) = IF field[2][1] = "length" THEN 2 + field[2][2] ELSE 2}

\* A field that is there to its end is one the reader takes for whole.
LEMMA ClosedIsWhole == ASSUME NEW T, NEW q \in Closed(T) PROVE IsWhole(q) /\ q \in Fields(T)
BY DEF Closed, IsWhole, Fields

\* Of a field that is there to its end, no part is taken for whole.
LEMMA PartIsNotWhole ==
  ASSUME NEW T, NEW q \in Closed(T), NEW n \in 1 .. Len(q) - 1
  PROVE  ~IsWhole(SubSeq(q, 1, n))
<1> DEFINE p == SubSeq(q, 1, n)
<1>1. q \in Seq(T) /\ Len(q) >= 2 /\ Len(q) \in Nat
      /\ Len(q) = IF q[2][1] = "length" THEN 2 + q[2][2] ELSE 2
  BY DEF Closed
<1>2. Len(p) = n /\ \A i \in 1 .. n : p[i] = q[i]
  BY <1>1
<1> HIDE DEF p
<1> SUFFICES ASSUME IsWhole(p) PROVE FALSE
  BY DEF p
<1>3. n >= 2 /\ n # Len(q) /\ n \in Nat
  BY <1>2 DEF IsWhole
<1>4. p[2] = q[2]
  BY <1>2, <1>3
<1>5. q[2][1] = "length"
  BY <1>1, <1>3
<1>6. n = 2 + q[2][2]
  BY <1>2, <1>4, <1>5 DEF IsWhole
<1> QED BY <1>1, <1>3, <1>5, <1>6

\* After whole fields, the next token begins a field.
LEMMA AddFirst ==
  ASSUME NEW T, NEW fs \in Seq(Closed(T)), NEW t
  PROVE  AddToken(fs, t) = Append(fs, <<t>>)
<1>1. CASE fs = <<>>
  BY <1>1 DEF AddToken
<1>2. CASE fs # <<>>
  <2>1. fs[Len(fs)] \in Closed(T)
    BY <1>2
  <2>2. IsWhole(fs[Len(fs)])
    BY <2>1, ClosedIsWhole
  <2> QED BY <2>2 DEF AddToken
<1> QED BY <1>1, <1>2

\* After part of a field, the next token belongs to it.
LEMMA AddNext ==
  ASSUME NEW T, NEW fs \in Seq(Seq(T)), NEW p \in Seq(T), ~IsWhole(p), NEW t \in T
  PROVE  AddToken(Append(fs, p), t) = Append(fs, Append(p, t))
<1> DEFINE S == Seq(T)
           a == Append(fs, p)
           pt == Append(p, t)
           b == Append(fs, pt)
           c == [a EXCEPT ![Len(fs) + 1] = pt]
<1>0. pt \in S /\ p \in S /\ fs \in Seq(S)
  OBVIOUS
<1> HIDE DEF S, pt
<1>1. /\ a \in Seq(S) /\ a # <<>> /\ Len(a) = Len(fs) + 1 /\ a[Len(a)] = p /\ Len(fs) \in Nat
      /\ \A i \in 1 .. Len(fs) : a[i] = fs[i]
  BY <1>0, AppendProperties
<1>2. /\ b \in Seq(S) /\ Len(b) = Len(fs) + 1 /\ b[Len(b)] = pt
      /\ \A i \in 1 .. Len(fs) : b[i] = fs[i]
  BY <1>0, AppendProperties
<1> HIDE DEF a, b
<1>3. AddToken(a, t) = c
  BY <1>1 DEF AddToken, pt
<1>4. /\ c \in Seq(S) /\ Len(c) = Len(a)
      /\ \A i \in 1 .. Len(a) : c[i] = IF i = Len(fs) + 1 THEN pt ELSE a[i]
  <2>1. Len(fs) + 1 \in 1 .. Len(a)
    BY <1>1
  <2> QED BY <2>1, <1>0, <1>1, ExceptSeq
<1> HIDE DEF c
<1>5. ASSUME NEW i \in 1 .. Len(fs) + 1 PROVE c[i] = b[i]
  <2>1. CASE i = Len(fs) + 1
    BY <1>1, <1>2, <1>4, <2>1
  <2>2. CASE i # Len(fs) + 1
    <3>1. i \in 1 .. Len(fs)
      BY <1>1, <2>2
    <3> QED BY <1>1, <1>2, <1>4, <3>1
  <2> QED BY <2>1, <2>2
<1>6. c = b
  BY <1>1, <1>2, <1>4, <1>5, SeqEqual
<1> QED BY <1>3, <1>6 DEF a, b, pt

\* The first tokens of a sequence, and one more.
LEMMA SubSeqNext ==
  ASSUME NEW T, NEW q \in Seq(T), NEW n \in 0 .. Len(q) - 1
  PROVE  /\ SubSeq(q, 1, n + 1) = Append(SubSeq(q, 1, n), q[n + 1])
         /\ SubSeq(q, 1, n) \in Seq(T) /\ q[n + 1] \in T
OBVIOUS

\* Whole fields, then the first tokens of one more: each is a field.
LEMMA SplitGrows ==
  ASSUME NEW T, NEW fs \in Seq(Closed(T)), NEW s \in Seq(T), Split(s) = fs, NEW q \in Closed(T)
  PROVE  \A n \in 1 .. Len(q) : Split(s \o SubSeq(q, 1, n)) = Append(fs, SubSeq(q, 1, n))
<1> DEFINE part(n) == SubSeq(q, 1, n)
           U == {n \in Nat : n \in 1 .. Len(q) => Split(s \o part(n)) = Append(fs, part(n))}
<1>0. q \in Seq(T) /\ Len(q) \in Nat /\ fs \in Seq(Seq(T))
  <2>1. Closed(T) \subseteq Seq(T)
    BY DEF Closed
  <2> QED BY <2>1
<1>1. 0 \in U
  OBVIOUS
<1>2. ASSUME NEW n \in Nat, n \in U PROVE n + 1 \in U
  <2> SUFFICES ASSUME n + 1 \in 1 .. Len(q)
               PROVE  Split(s \o part(n + 1)) = Append(fs, part(n + 1))
    OBVIOUS
  <2> DEFINE t == q[n + 1]
             p == SubSeq(q, 1, n)
             pt == SubSeq(q, 1, n + 1)
             sp == s \o p
  <2>1. pt = Append(p, t) /\ p \in Seq(T) /\ t \in T
    <3>1. n \in 0 .. Len(q) - 1
      OBVIOUS
    <3> QED BY <1>0, <3>1, SubSeqNext
  <2>2. n # 0 => Split(sp) = Append(fs, p) /\ ~IsWhole(p)
    <3>1. n # 0 => n \in 1 .. Len(q) - 1 /\ n \in 1 .. Len(q)
      OBVIOUS
    <3> QED BY <1>2, <3>1, PartIsNotWhole
  <2>3. n = 0 => p = <<>>
    BY SubSeqEmpty
  <2> SUFFICES Split(s \o pt) = Append(fs, pt)
    OBVIOUS
  <2> HIDE DEF p, pt, t
  <2>4. s \o pt = Append(sp, t) /\ sp \in Seq(T)
    BY <2>1, AppendConcat
  <2>5. n = 0 => sp = s /\ pt = <<t>>
    BY <2>1, <2>3
  <2> HIDE DEF sp
  <2>6. Split(s \o pt) = AddToken(Split(sp), t)
    BY <2>1, <2>4, SplitLaws
  <2>7. CASE n = 0
    <3>1. AddToken(fs, t) = Append(fs, <<t>>)
      BY AddFirst
    <3> QED BY <2>5, <2>6, <2>7, <3>1
  <2>8. CASE n # 0
    <3>1. AddToken(Append(fs, p), t) = Append(fs, pt)
      BY <1>0, <2>1, <2>2, <2>8, AddNext
    <3> QED BY <2>2, <2>6, <2>8, <3>1
  <2> QED BY <2>7, <2>8
<1> HIDE DEF U
<1>3. Nat \subseteq U
  BY <1>1, <1>2, Induct
<1> USE DEF U
<1> QED BY <1>0, <1>3

\* Whole fields, joined, are a stream.
LEMMA ClosedStream ==
  ASSUME NEW T, NEW fs \in Seq(Closed(T))
  PROVE  FlattenSeq(fs) \in Seq(T) /\ fs \in Seq(Seq(T)) /\ fs \in Seq(Fields(T))
<1>1. Closed(T) \subseteq Seq(T) /\ Closed(T) \subseteq Fields(T)
  BY DEF Closed, Fields
<1>2. fs \in Seq(Seq(T)) /\ fs \in Seq(Fields(T))
  BY <1>1, SeqMonotonic
<1>3. <<>> \in Seq(T)
  OBVIOUS
<1> QED BY <1>2, <1>3, FlattenLaws

\* A stream of whole fields is split into these fields.
LEMMA SplitFlatten ==
  ASSUME NEW T
  PROVE  \A fs \in Seq(Closed(T)) : Split(FlattenSeq(fs)) = fs
<1> DEFINE P == {fs \in Seq(Closed(T)) : Split(FlattenSeq(fs)) = fs}
<1>1. <<>> \in P
  BY FlattenEmpty, SplitEmpty
<1>2. ASSUME NEW fs \in Seq(Closed(T)), NEW q \in Closed(T), fs \in P PROVE Append(fs, q) \in P
  <2> DEFINE s == FlattenSeq(fs)
  <2>1. s \in Seq(T) /\ Split(s) = fs /\ fs \in Seq(Seq(T))
    BY <1>2, ClosedStream
  <2>2. q \in Seq(T) /\ Len(q) \in 1 .. Len(q) /\ SubSeq(q, 1, Len(q)) = q
    <3>1. q \in Seq(T) /\ Len(q) >= 2
      BY DEF Closed
    <3> QED BY <3>1, SubSeqFull
  <2>3. FlattenSeq(Append(fs, q)) = s \o q
    BY <2>1, <2>2, FlattenLaws
  <2> HIDE DEF s
  <2>4. Split(s \o SubSeq(q, 1, Len(q))) = Append(fs, SubSeq(q, 1, Len(q)))
    BY <2>1, <2>2, SplitGrows
  <2>5. Append(fs, q) \in Seq(Closed(T))
    OBVIOUS
  <2> QED BY <2>2, <2>3, <2>4, <2>5
<1> HIDE DEF P
<1>3. Seq(Closed(T)) \subseteq P
  BY <1>1, <1>2, SeqInduct
<1> QED BY <1>3 DEF P

(* How a stream is split that is cut: some fields, and part of the next.   *)
CutAfter(fs, split, j) ==
  \/ split = SubSeq(fs, 1, j)
  \/ /\ j < Len(fs)
     /\ \E m \in 1 .. Len(fs[j + 1]) - 1 :
          split = Append(SubSeq(fs, 1, j), SubSeq(fs[j + 1], 1, m))

\* A stream of whole fields that is cut is split into the first of them, and part
\* of the next; with a token lost, a field is lost or not whole.
LEMMA FlattenCut ==
  ASSUME NEW T
  PROVE  \A fs \in Seq(Closed(T)) : \A n \in 0 .. Len(FlattenSeq(fs)) :
           \E j \in 0 .. Len(fs) :
             /\ CutAfter(fs, Split(SubSeq(FlattenSeq(fs), 1, n)), j)
             /\ n < Len(FlattenSeq(fs)) => j < Len(fs)
<1> DEFINE Is(fs, n) == \E j \in 0 .. Len(fs) :
             /\ CutAfter(fs, Split(SubSeq(FlattenSeq(fs), 1, n)), j)
             /\ n < Len(FlattenSeq(fs)) => j < Len(fs)
           P == {fs \in Seq(Closed(T)) : \A n \in 0 .. Len(FlattenSeq(fs)) : Is(fs, n)}
<1>1. <<>> \in P
  <2>1. FlattenSeq(<<>>) = <<>> /\ Len(<<>>) = 0
    BY FlattenEmpty
  <2>2. SubSeq(<<>>, 1, 0) = <<>>
    BY SubSeqEmpty
  <2>3. CutAfter(<<>>, Split(<<>>), 0)
    BY <2>2, SplitEmpty DEF CutAfter
  <2>4. Is(<<>>, 0)
    <3>1. CutAfter(<<>>, Split(SubSeq(FlattenSeq(<<>>), 1, 0)), 0)
      BY <2>1, <2>2, <2>3
    <3>2. 0 \in 0 .. Len(<<>>) /\ ~(0 < Len(FlattenSeq(<<>>)))
      BY <2>1
    <3> QED BY <3>1, <3>2
  <2>5. \A n \in 0 .. Len(FlattenSeq(<<>>)) : n = 0
    BY <2>1
  <2> HIDE DEF Is
  <2> QED BY <2>4, <2>5
<1>2. ASSUME NEW fs \in Seq(Closed(T)), NEW q \in Closed(T), fs \in P PROVE Append(fs, q) \in P
  <2> DEFINE s == FlattenSeq(fs)
             l == Append(fs, q)
             sq == s \o q
  <2>1. s \in Seq(T) /\ Split(s) = fs /\ Len(s) \in Nat
    BY ClosedStream, SplitFlatten
  <2>2. q \in Seq(T) /\ Len(q) \in Nat /\ Len(q) >= 2
    BY DEF Closed
  <2>3. FlattenSeq(l) = sq
    BY <2>2, ClosedStream, FlattenLaws
  <2>4. /\ l \in Seq(Closed(T)) /\ Len(l) = Len(fs) + 1 /\ Len(fs) \in Nat /\ l[Len(fs) + 1] = q
        /\ \A i \in 1 .. Len(fs) : l[i] = fs[i]
    BY AppendProperties
  <2>5. \A j \in 0 .. Len(fs) : SubSeq(l, 1, j) = SubSeq(fs, 1, j)
    <3> HIDE DEF s, sq, P
    <3> QED BY <2>4
  <2> SUFFICES ASSUME NEW n \in 0 .. Len(sq) PROVE Is(l, n)
    BY <2>3, <2>4
  <2>6. Len(sq) = Len(s) + Len(q)
    BY <2>1, <2>2
  <2>7. CASE n <= Len(s)
    <3>1. n \in 0 .. Len(s)
      BY <2>7
    <3>2. SubSeq(sq, 1, n) = SubSeq(s, 1, n)
      <4> HIDE DEF s, l, P
      <4> QED BY <2>1, <2>2, <3>1
    <3>3. PICK j \in 0 .. Len(fs) : CutAfter(fs, Split(SubSeq(s, 1, n)), j)
      BY <1>2, <3>1
    <3> DEFINE split == Split(SubSeq(s, 1, n))
    <3> HIDE DEF split, sq, s, l, P
    <3>4. CutAfter(l, split, j)
      <4>1. CASE split = SubSeq(fs, 1, j)
        BY <2>5, <4>1 DEF CutAfter
      <4>2. CASE j < Len(fs) /\ \E m \in 1 .. Len(fs[j + 1]) - 1 :
                   split = Append(SubSeq(fs, 1, j), SubSeq(fs[j + 1], 1, m))
        <5>1. j + 1 \in 1 .. Len(fs) /\ j < Len(l)
          BY <2>4, <4>2
        <5>2. l[j + 1] = fs[j + 1] /\ SubSeq(l, 1, j) = SubSeq(fs, 1, j)
          BY <2>4, <2>5, <5>1
        <5> QED BY <4>2, <5>1, <5>2 DEF CutAfter
      <4>3. CutAfter(fs, split, j)
        BY <3>3 DEF split
      <4> QED BY <4>1, <4>2, <4>3 DEF CutAfter
    <3>5. j \in 0 .. Len(l) /\ j < Len(l)
      BY <2>4
    <3> QED BY <2>3, <3>2, <3>4, <3>5 DEF split
  <2>8. CASE ~(n <= Len(s))
    <3> DEFINE m == n - Len(s)
    <3>1. m \in 1 .. Len(q) /\ n = Len(s) + m
      BY <2>1, <2>2, <2>6, <2>8
    <3>2. SubSeq(sq, 1, n) = s \o SubSeq(q, 1, m)
      <4> HIDE DEF s, l, P, m
      <4> QED BY <2>1, <2>2, <3>1
    <3> HIDE DEF m
    <3>3. Split(SubSeq(sq, 1, n)) = Append(fs, SubSeq(q, 1, m))
      <4> HIDE DEF s, l, P, sq
      <4>1. \A k \in 1 .. Len(q) : Split(s \o SubSeq(q, 1, k)) = Append(fs, SubSeq(q, 1, k))
        BY <2>1, SplitGrows
      <4> QED BY <3>1, <3>2, <4>1
    <3>4. SubSeq(l, 1, Len(fs)) = fs
      BY <2>4, <2>5, SubSeqFull
    <3> HIDE DEF s, sq, l, P
    <3>5. CASE m = Len(q)
      <4>1. SubSeq(q, 1, m) = q
        BY <2>2, <3>5, SubSeqFull
      <4>2. SubSeq(l, 1, Len(l)) = l
        BY <2>4, SubSeqFull
      <4>3. CutAfter(l, Split(SubSeq(sq, 1, n)), Len(l))
        BY <3>3, <4>1, <4>2 DEF CutAfter, l
      <4>4. Len(l) \in 0 .. Len(l) /\ ~(n < Len(sq))
        BY <2>1, <2>2, <2>4, <2>6, <3>1, <3>5
      <4> QED BY <2>3, <4>3, <4>4
    <3>6. CASE m # Len(q)
      <4>1. m \in 1 .. Len(l[Len(fs) + 1]) - 1
        BY <2>2, <2>4, <3>1, <3>6
      <4>2. Len(fs) < Len(l) /\ Len(fs) \in 0 .. Len(l)
        BY <2>4
      <4>3. CutAfter(l, Split(SubSeq(sq, 1, n)), Len(fs))
        BY <2>4, <3>3, <3>4, <4>1, <4>2 DEF CutAfter
      <4> QED BY <2>3, <4>2, <4>3
    <3> QED BY <3>5, <3>6
  <2> QED BY <2>7, <2>8
<1> HIDE DEF P
<1>3. Seq(Closed(T)) \subseteq P
  BY <1>1, <1>2, SeqInduct
<1> QED BY <1>3 DEF P
-----------------------------------------------------------------------------
(* Messages, field by field                                                *)

\* A sequence, whatever its elements.
IsSeq(s) == \E T : s \in Seq(T)

\* A field that is there to its end, whatever its tokens.
IsClosed(field) ==
  /\ IsSeq(field) /\ Len(field) >= 2 /\ field[1][1] = "tag"
  /\ Len(field) = IF field[2][1] = "length" THEN 2 + field[2][2] ELSE 2

\* What a field holds, once the repetition is taken off.
Kinds == {"number", "text", "message"}

(* What the tables of module Messages have in common.                      *)
WellFormed(type) ==
  /\ type.order \in Seq(DOMAIN type.fields)
  /\ \A f \in DOMAIN type.fields :
       /\ \E n \in DOMAIN type.order : type.order[n] = f
       /\ Element(type, f).kind \in Kinds
  /\ \A m, n \in DOMAIN type.order : type.order[m] = type.order[n] => m = n

(* A message that has all that is required.                                *)
Fits(type, msg) ==
  /\ msg = [f \in DOMAIN msg |-> msg[f]]
  /\ type.required \subseteq DOMAIN msg
  /\ DOMAIN msg \subseteq DOMAIN type.fields
  /\ \A f \in DOMAIN type.fields : IsRepeated(type, f) => f \in DOMAIN msg /\ IsSeq(msg[f])

(* The fields of a message in groups, one for each number.                 *)
Grouped(type, msg, groups) ==
  /\ DOMAIN groups = DOMAIN type.order
  /\ groups = [n \in DOMAIN groups |-> groups[n]]
  /\ \A n \in DOMAIN type.order :
       /\ DOMAIN groups[n] = DOMAIN Values(type, msg, type.order[n])
       /\ groups[n] = [i \in DOMAIN groups[n] |-> groups[n][i]]
       /\ \A i \in DOMAIN groups[n] :
            /\ IsClosed(groups[n][i])
            /\ groups[n][i][1] = Tag(n, Element(type, type.order[n]))

\* What a sequence is, whatever its elements.
LEMMA SeqFacts ==
  ASSUME NEW s, IsSeq(s)
  PROVE  /\ Len(s) \in Nat /\ DOMAIN s = 1 .. Len(s) /\ s = [i \in 1 .. Len(s) |-> s[i]]
         /\ s \in Seq({s[i] : i \in DOMAIN s})
<1>1. PICK T : s \in Seq(T)
  BY DEF IsSeq
<1>2. Len(s) \in Nat /\ DOMAIN s = 1 .. Len(s) /\ s \in [1 .. Len(s) -> T]
  BY <1>1
<1>3. s = [i \in 1 .. Len(s) |-> s[i]]
  BY <1>2
<1> DEFINE R == {s[i] : i \in DOMAIN s}
<1>4. \A i \in 1 .. Len(s) : s[i] \in R
  BY <1>2
<1> HIDE DEF R
<1>5. [i \in 1 .. Len(s) |-> s[i]] \in Seq(R)
  BY <1>2, <1>4, IsASeq
<1>6. s \in Seq(R)
  BY <1>3, <1>5
<1> QED BY <1>2, <1>3, <1>6 DEF R

\* A function on the first n numbers is a sequence of length n.
LEMMA FunctionIsSeq ==
  ASSUME NEW S, NEW n \in Nat, NEW s \in [1 .. n -> S]
  PROVE  s \in Seq(S) /\ Len(s) = n
OBVIOUS

\* The values of a field: those set, one at most unless it is repeated.
LEMMA ValuesFacts ==
  ASSUME NEW type, WellFormed(type), NEW msg, Fits(type, msg), NEW f \in DOMAIN type.fields
  PROVE  /\ IsSeq(Values(type, msg, f))
         /\ ~IsRepeated(type, f) => Len(Values(type, msg, f)) <= 1
         /\ f \in DOMAIN msg /\ ~IsRepeated(type, f) => Values(type, msg, f) = <<msg[f]>>
         /\ f \in DOMAIN msg /\ IsRepeated(type, f) => Values(type, msg, f) = msg[f]
         /\ f \notin DOMAIN msg => Values(type, msg, f) = <<>>
<1>1. CASE f \notin DOMAIN msg
  <2>1. Values(type, msg, f) = <<>>
    BY <1>1 DEF Values
  <2>2. IsSeq(<<>>) /\ Len(<<>>) = 0
    <3>1. <<>> \in Seq({})
      OBVIOUS
    <3> QED BY <3>1 DEF IsSeq
  <2>3. ~IsRepeated(type, f)
    BY <1>1 DEF Fits
  <2> QED BY <1>1, <2>1, <2>2, <2>3
<1>2. CASE f \in DOMAIN msg /\ IsRepeated(type, f)
  <2>1. Values(type, msg, f) = msg[f]
    BY <1>2 DEF Values
  <2>2. IsSeq(msg[f])
    BY <1>2 DEF Fits
  <2> QED BY <1>2, <2>1, <2>2
<1>3. CASE f \in DOMAIN msg /\ ~IsRepeated(type, f)
  <2>1. Values(type, msg, f) = <<msg[f]>>
    BY <1>3 DEF Values
  <2>2. IsSeq(<<msg[f]>>) /\ Len(<<msg[f]>>) = 1
    <3>1. <<msg[f]>> \in Seq({msg[f]})
      OBVIOUS
    <3> QED BY <3>1 DEF IsSeq
  <2>3. 1 <= 1
    OBVIOUS
  <2> QED BY <1>3, <2>1, <2>2, <2>3
<1> QED BY <1>1, <1>2, <1>3

(* Groups are of fields over one set of tokens.                            *)
LEMMA OneSet ==
  ASSUME NEW type, WellFormed(type), NEW msg, Fits(type, msg), NEW groups,
         Grouped(type, msg, groups)
  PROVE  \E T : groups \in Seq(Seq(Closed(T))) /\ Len(groups) = Len(type.order)
<1> DEFINE R(s) == {s[i] : i \in DOMAIN s}
           T == UNION {UNION {R(groups[n][i]) : i \in DOMAIN groups[n]} : n \in DOMAIN groups}
<1>1. ASSUME NEW n \in DOMAIN groups, NEW i \in DOMAIN groups[n] PROVE groups[n][i] \in Closed(T)
  <2> DEFINE s == groups[n][i]
  <2>1. IsClosed(s)
    BY DEF Grouped
  <2>2. s \in Seq(R(s))
    BY <2>1, SeqFacts DEF IsClosed
  <2>3. R(s) \subseteq T
    OBVIOUS
  <2> HIDE DEF R, T, s
  <2>4. s \in Seq(T)
    BY <2>2, <2>3, SeqMonotonic
  <2> QED BY <2>1, <2>4 DEF IsClosed, Closed, s
<1> HIDE DEF T
<1>2. type.order \in Seq(DOMAIN type.fields)
  BY DEF WellFormed
<1>3. Len(type.order) \in Nat /\ DOMAIN type.order = 1 .. Len(type.order)
      /\ \A n \in 1 .. Len(type.order) : type.order[n] \in DOMAIN type.fields
  BY <1>2
<1>4. ASSUME NEW n \in DOMAIN groups PROVE groups[n] \in Seq(Closed(T))
  <2>1. n \in DOMAIN type.order /\ type.order[n] \in DOMAIN type.fields
    BY <1>3 DEF Grouped
  <2> DEFINE values == Values(type, msg, type.order[n])
  <2>2. IsSeq(values)
    BY <2>1, ValuesFacts
  <2>3. Len(values) \in Nat /\ DOMAIN values = 1 .. Len(values)
    BY <2>2, SeqFacts
  <2>4. DOMAIN groups[n] = 1 .. Len(values) /\ groups[n] = [i \in DOMAIN groups[n] |-> groups[n][i]]
    BY <2>1, <2>3 DEF Grouped
  <2> HIDE DEF values
  <2> DEFINE s == groups[n]
             S == Closed(T)
             l == Len(values)
  <2>5. /\ l \in Nat /\ DOMAIN s = 1 .. l /\ s = [i \in DOMAIN s |-> s[i]]
        /\ \A i \in 1 .. l : s[i] \in S
    BY <1>1, <2>3, <2>4
  <2> HIDE DEF s, S, l
  <2>6. s \in [1 .. l -> S]
    BY <2>5
  <2>7. s \in Seq(S)
    BY <2>5, <2>6, FunctionIsSeq
  <2> QED BY <2>7 DEF s, S
<1>5. DOMAIN groups = 1 .. Len(type.order) /\ groups = [n \in DOMAIN groups |-> groups[n]]
  BY <1>3 DEF Grouped
<1>6. groups \in Seq(Seq(Closed(T))) /\ Len(groups) = Len(type.order)
  <2> DEFINE S == Seq(Closed(T))
             l == Len(type.order)
  <2>1. l \in Nat /\ DOMAIN groups = 1 .. l /\ \A n \in 1 .. l : groups[n] \in S
    BY <1>3, <1>4, <1>5
  <2> HIDE DEF S, l
  <2>3. groups \in [1 .. l -> S]
    BY <1>5, <2>1
  <2>2. groups \in Seq(S) /\ Len(groups) = l
    BY <2>1, <2>3, FunctionIsSeq
  <2> QED BY <2>2 DEF S, l
<1> QED BY <1>6
\* Whole fields are fields.
LEMMA ClosedSeqs ==
  ASSUME NEW T
  PROVE  \A s \in Seq(Closed(T)) : s \in Seq(Fields(T))
<1>1. Closed(T) \subseteq Fields(T)
  BY DEF Closed, Fields
<1> QED BY <1>1, SeqMonotonic

\* The nth group has all the fields of this tag, and no others.
Ordered(g, tag, n) == \A m \in DOMAIN g : \A i \in DOMAIN g[m] : g[m][i][1] = tag <=> m = n

\* The nth group without the tags, if there is one.
Picked(g, n) == IF n \in DOMAIN g THEN Tails(g[n]) ELSE <<>>

\* Groups of whole fields, joined, are whole fields.
LEMMA FieldsTogether ==
  ASSUME NEW T
  PROVE  /\ \A g \in Seq(Seq(Closed(T))) : FlattenSeq(g) \in Seq(Closed(T))
         /\ \A g \in Seq(Seq(Closed(T))), q \in Seq(Closed(T)) :
              FlattenSeq(Append(g, q)) = FlattenSeq(g) \o q
<1> DEFINE S == Closed(T)
<1>1. <<>> \in Seq(S)
  OBVIOUS
<1> HIDE DEF S
<1>2. ASSUME NEW g \in Seq(Seq(S)), NEW q \in Seq(S)
      PROVE  FlattenSeq(g) \in Seq(S) /\ FlattenSeq(Append(g, q)) = FlattenSeq(g) \o q
  BY FlattenLaws
<1>3. \A g \in Seq(Seq(S)) : FlattenSeq(g) \in Seq(S)
  BY <1>1, <1>2
<1>4. \A g \in Seq(Seq(S)), q \in Seq(S) : FlattenSeq(Append(g, q)) = FlattenSeq(g) \o q
  BY <1>2
<1> QED BY <1>3, <1>4 DEF S

\* When one group has all fields of a tag, and no others, the tag selects it.
LEMMA GroupsTagged ==
  ASSUME NEW T, NEW tag, NEW n
  PROVE  \A g \in Seq(Seq(Closed(T))) :
           Ordered(g, tag, n) => Tagged(FlattenSeq(g), tag) = Picked(g, n)
<1> DEFINE G == Seq(Closed(T))
           P == {g \in Seq(G) : Ordered(g, tag, n) => Tagged(FlattenSeq(g), tag) = Picked(g, n)}
<1>1. <<>> \in P
  <2>1. Tagged(FlattenSeq(<<>>), tag) = <<>>
    BY FlattenEmpty, TaggedEmpty
  <2>2. Picked(<<>>, n) = <<>>
    BY DEF Picked
  <2>3. <<>> \in Seq(G)
    OBVIOUS
  <2>4. Tagged(FlattenSeq(<<>>), tag) = Picked(<<>>, n)
    BY <2>1, <2>2
  <2> HIDE DEF G
  <2> QED BY <2>3, <2>4
<1>2. ASSUME NEW g \in Seq(G), NEW q \in G, g \in P PROVE Append(g, q) \in P
  <2> DEFINE l == Append(g, q)
             fs == FlattenSeq(g)
  <2>1. /\ l \in Seq(G) /\ Len(l) = Len(g) + 1 /\ l[Len(g) + 1] = q /\ Len(g) \in Nat
        /\ \A i \in 1 .. Len(g) : l[i] = g[i]
        /\ DOMAIN l = 1 .. Len(g) + 1 /\ DOMAIN g = 1 .. Len(g)
    <3> HIDE DEF G
    <3> QED BY AppendProperties
  <2> SUFFICES ASSUME Ordered(l, tag, n) PROVE Tagged(FlattenSeq(l), tag) = Picked(l, n)
    BY <2>1
  <2>2. FlattenSeq(l) = fs \o q /\ fs \in Seq(Fields(T)) /\ q \in Seq(Fields(T))
    BY FieldsTogether, ClosedSeqs
  <2> HIDE DEF l, fs, G
  <2>3. Ordered(g, tag, n)
    <3> SUFFICES ASSUME NEW m \in DOMAIN g, NEW i \in DOMAIN g[m]
                 PROVE  g[m][i][1] = tag <=> m = n
      BY DEF Ordered
    <3>1. m \in DOMAIN l /\ l[m] = g[m]
      BY <2>1
    <3> QED BY <3>1 DEF Ordered
  <2>4. Tagged(fs, tag) = Picked(g, n)
    BY <1>2, <2>3 DEF fs
  <2>5. Tagged(FlattenSeq(l), tag) = Picked(g, n) \o Tagged(q, tag)
    <3>1. Tagged(fs \o q, tag) = Tagged(fs, tag) \o Tagged(q, tag)
      BY <2>2, TaggedConcat
    <3> QED BY <2>2, <2>4, <3>1
  <2>6. CASE n = Len(g) + 1
    <3>1. \A i \in DOMAIN q : q[i][1] = tag
      BY <2>1, <2>6 DEF Ordered
    <3>2. Tagged(q, tag) = Tails(q)
      BY <2>2, <3>1, TaggedAll
    <3>3. n \notin DOMAIN g /\ n \in DOMAIN l /\ l[n] = q
      BY <2>1, <2>6
    <3>4. Tails(q) \in Seq(Seq(T))
      BY <2>2, TailsIn
    <3>5. <<>> \o Tails(q) = Tails(q)
      BY <3>4, ConcatEmptySeq
    <3> QED BY <2>5, <3>2, <3>3, <3>5 DEF Picked
  <2>7. CASE n # Len(g) + 1
    <3>1. \A i \in DOMAIN q : q[i][1] # tag
      <4>1. Len(g) + 1 \in DOMAIN l
        BY <2>1
      <4> QED BY <2>1, <2>7, <4>1 DEF Ordered
    <3>2. Tagged(q, tag) = <<>>
      BY <2>2, <3>1, TaggedNone
    <3>3. n \in DOMAIN l <=> n \in DOMAIN g
      BY <2>1, <2>7
    <3>4. n \in DOMAIN g => l[n] = g[n]
      BY <2>1
    <3>5. Picked(l, n) = Picked(g, n)
      BY <3>3, <3>4 DEF Picked
    <3>6. Tagged(fs, tag) \in Seq(Seq(T))
      BY <2>2, TaggedIn
    <3>7. Picked(g, n) \o <<>> = Picked(g, n)
      BY <2>4, <3>6, ConcatEmptySeq
    <3> QED BY <2>5, <3>2, <3>5, <3>7
  <2> QED BY <2>6, <2>7
<1> HIDE DEF P
<1>3. Seq(G) \subseteq P
  <2> HIDE DEF G
  <2> QED BY <1>1, <1>2, SeqInduct
<1> QED BY <1>3 DEF P

\* Fields of different numbers have different tags.
LEMMA TagsDiffer ==
  ASSUME NEW m, NEW n, NEW k, NEW h
  PROVE  Tag(m, k) = Tag(n, h) => m = n
BY DEF Tag

(* What is read of a message whose fields are in groups.                   *)
LEMMA Layout ==
  ASSUME NEW type, WellFormed(type), NEW msg, Fits(type, msg), NEW groups,
         Grouped(type, msg, groups)
  PROVE  LET fields == FlattenSeq(groups)
         IN  /\ IsSeq(FlattenSeq(fields)) /\ Split(FlattenSeq(fields)) = fields
             /\ \A i \in DOMAIN fields : FieldReads(type, fields[i])
             /\ FieldsSet(type, fields) = DOMAIN msg
             /\ \A n \in DOMAIN type.order :
                  Pieces(type, fields, n) = [i \in DOMAIN groups[n] |-> <<Tail(groups[n][i])>>]
<1> DEFINE fields == FlattenSeq(groups)
<1>1. PICK T : groups \in Seq(Seq(Closed(T))) /\ Len(groups) = Len(type.order)
  BY OneSet
<1>2. fields \in Seq(Closed(T))
  BY <1>1, FieldsTogether
<1> HIDE DEF fields
<1>3. FlattenSeq(fields) \in Seq(T) /\ Split(FlattenSeq(fields)) = fields
  BY <1>2, ClosedStream, SplitFlatten
<1>4. ASSUME NEW i \in DOMAIN fields PROVE FieldReads(type, fields[i])
  <2>1. fields[i] \in Closed(T)
    BY <1>2
  <2> QED BY <2>1, ClosedIsWhole DEF FieldReads, Closed
<1>5. /\ DOMAIN type.order = 1 .. Len(type.order) /\ Len(type.order) \in Nat
      /\ \A n \in DOMAIN type.order : type.order[n] \in DOMAIN type.fields
      /\ DOMAIN groups = DOMAIN type.order
  BY DEF WellFormed, Grouped
<1>6. ASSUME NEW n \in DOMAIN type.order
      PROVE  Tagged(fields, Tag(n, Element(type, type.order[n]))) = Tails(groups[n])
  <2> DEFINE tag == Tag(n, Element(type, type.order[n]))
  <2>1. Ordered(groups, tag, n)
    <3> SUFFICES ASSUME NEW m \in DOMAIN groups, NEW i \in DOMAIN groups[m]
                 PROVE  groups[m][i][1] = tag <=> m = n
      BY DEF Ordered
    <3>1. groups[m][i][1] = Tag(m, Element(type, type.order[m]))
      BY <1>5 DEF Grouped
    <3> QED BY <3>1, TagsDiffer
  <2>2. n \in DOMAIN groups
    BY <1>5
  <2>3. Picked(groups, n) = Tails(groups[n])
    BY <2>2 DEF Picked
  <2> HIDE DEF tag
  <2>4. Tagged(fields, tag) = Picked(groups, n)
    BY <1>1, <2>1, GroupsTagged DEF fields
  <2> QED BY <2>3, <2>4 DEF tag
<1>7. ASSUME NEW n \in DOMAIN type.order
      PROVE  /\ Pieces(type, fields, n) = [i \in DOMAIN groups[n] |-> <<Tail(groups[n][i])>>]
             /\ IsSet(type, fields, n) <=> type.order[n] \in DOMAIN msg
  <2> DEFINE f == type.order[n]
             tails == Tails(groups[n])
             values == Values(type, msg, f)
  <2>1. Tagged(fields, Tag(n, Element(type, f))) = tails
    BY <1>6
  <2>2. tails = [i \in DOMAIN groups[n] |-> Tail(groups[n][i])]
    BY DEF Tails
  <2>3. f \in DOMAIN type.fields /\ DOMAIN groups[n] = DOMAIN values
    BY <1>5 DEF Grouped
  <2>4. /\ IsSeq(values)
        /\ ~IsRepeated(type, f) => Len(values) <= 1
        /\ f \in DOMAIN msg /\ ~IsRepeated(type, f) => values = <<msg[f]>>
        /\ f \notin DOMAIN msg => values = <<>>
        /\ IsRepeated(type, f) => f \in DOMAIN msg
    BY <2>3, ValuesFacts DEF Fits
  <2>5. DOMAIN values = 1 .. Len(values) /\ Len(values) \in Nat
    BY <2>4, SeqFacts
  <2> HIDE DEF f, tails, values
  <2>6. CASE IsRepeated(type, f)
    <3>1. Pieces(type, fields, n) = [i \in DOMAIN tails |-> <<tails[i]>>]
      BY <2>1, <2>6 DEF Pieces, f
    <3>2. IsSet(type, fields, n)
      BY <2>6 DEF IsSet, f
    <3> QED BY <2>2, <2>4, <2>6, <3>1, <3>2 DEF f
  <2>7. CASE ~IsRepeated(type, f) /\ Len(values) = 0
    <3>1. DOMAIN groups[n] = {}
      BY <2>3, <2>5, <2>7
    <3>2. tails = <<>>
      BY <2>2, <3>1
    <3>3. Pieces(type, fields, n) = <<>>
      BY <2>1, <2>7, <3>2 DEF Pieces, f
    <3>4. [i \in DOMAIN groups[n] |-> <<Tail(groups[n][i])>>] = <<>>
      BY <3>1
    <3>5. ~IsSet(type, fields, n)
      BY <2>7, <3>3 DEF IsSet, f
    <3>6. f \notin DOMAIN msg
      BY <2>4, <2>7
    <3> QED BY <3>3, <3>4, <3>5, <3>6 DEF f
  <2>8. CASE ~IsRepeated(type, f) /\ Len(values) = 1
    <3>1. DOMAIN groups[n] = {1}
      BY <2>3, <2>5, <2>8
    <3>2. tails = <<Tail(groups[n][1])>> /\ tails # <<>>
      BY <2>2, <3>1
    <3>3. Pieces(type, fields, n) = <<tails>>
      BY <2>1, <2>8, <3>2 DEF Pieces, f
    <3>4. [i \in DOMAIN groups[n] |-> <<Tail(groups[n][i])>>] = <<<<Tail(groups[n][1])>>>>
      BY <3>1
    <3>5. IsSet(type, fields, n)
      BY <2>8, <3>3 DEF IsSet, f
    <3>6. f \in DOMAIN msg
      BY <2>4, <2>8
    <3> QED BY <3>2, <3>3, <3>4, <3>5, <3>6 DEF f
  <2> QED BY <2>4, <2>5, <2>6, <2>7, <2>8
<1>8. FieldsSet(type, fields) = DOMAIN msg
  <2>1. DOMAIN msg \subseteq DOMAIN type.fields
    BY DEF Fits
  <2>2. \A f \in DOMAIN type.fields : \E n \in DOMAIN type.order : type.order[n] = f
    BY DEF WellFormed
  <2> QED BY <1>7, <2>1, <2>2 DEF FieldsSet
<1> QED BY <1>3, <1>4, <1>7, <1>8 DEF IsSeq, fields
\* A sequence with a first element more.
LEMMA Prepend ==
  ASSUME NEW S, NEW a \in S, NEW s \in Seq(S)
  PROVE  /\ Cons(a, s) \in Seq(S) /\ Len(Cons(a, s)) = Len(s) + 1 /\ Cons(a, s)[1] = a
         /\ \A i \in 1 .. Len(s) : Cons(a, s)[i + 1] = s[i]
         /\ Tail(Cons(a, s)) = s
<1> DEFINE c == Cons(a, s)
<1>1. /\ c \in Seq(S) /\ Len(c) = Len(s) + 1 /\ c[1] = a /\ Len(s) \in Nat
      /\ \A i \in 1 .. Len(s) : c[i + 1] = s[i]
  BY DEF Cons
<1> HIDE DEF c
<1>2. /\ Tail(c) \in Seq(S) /\ Len(Tail(c)) = Len(s)
      /\ \A i \in 1 .. Len(s) : Tail(c)[i] = c[i + 1]
  BY <1>1
<1>3. Tail(c) = s
  BY <1>1, <1>2, SeqEqual
<1> QED BY <1>1, <1>3 DEF c

\* A sequence of one, and a token: by a name, so that lemmas can be cited of them.
One(a) == <<a>>
Token(k, v) == <<k, v>>

\* A sequence of one element.
LEMMA OneFacts ==
  ASSUME NEW S, NEW a \in S
  PROVE  One(a) \in Seq(S) /\ Len(One(a)) = 1 /\ One(a)[1] = a
<1>1. One(a) \in [1 .. 1 -> S] /\ One(a)[1] = a
  BY DEF One
<1> QED BY <1>1, FunctionIsSeq

\* The field of a nested message is whole, and the message is read of it.
LEMMA NestedField ==
  ASSUME NEW tag, tag[1] = "tag", NEW s, IsSeq(s), NEW l, l[1] = "length", l[2] = Len(s)
  PROVE  /\ IsClosed(Cons(tag, Cons(l, s))) /\ Cons(tag, Cons(l, s))[1] = tag
         /\ Nest(One(Tail(Cons(tag, Cons(l, s))))) = s
<1>1. PICK T : s \in Seq(T)
  BY DEF IsSeq
<1> DEFINE S == T \cup {tag, l}
           c == Cons(l, s)
           field == Cons(tag, c)
<1>3. s \in Seq(S) /\ l \in S /\ tag \in S /\ Len(s) \in Nat
  <2>1. T \subseteq S /\ l \in S /\ tag \in S
    OBVIOUS
  <2> HIDE DEF S
  <2>2. s \in Seq(S)
    BY <1>1, <2>1, SeqMonotonic
  <2> QED BY <2>1, <2>2
<1> HIDE DEF S
<1>4. /\ c \in Seq(S) /\ Len(c) = Len(s) + 1 /\ c[1] = l /\ Tail(c) = s
  BY <1>3, Prepend
<1> HIDE DEF c
<1>6. /\ field \in Seq(S) /\ Len(field) = Len(c) + 1 /\ field[1] = tag
      /\ \A i \in 1 .. Len(c) : field[i + 1] = c[i]
      /\ Tail(field) = c
  BY <1>3, <1>4, Prepend
<1> HIDE DEF field
<1>7. IsClosed(field)
  <2>1. 1 \in 1 .. Len(c) /\ 1 + 1 = 2
    BY <1>3, <1>4
  <2>2. field[2] = l
    BY <1>4, <1>6, <2>1
  <2>3. Len(field) = 2 + Len(s) /\ Len(field) >= 2
    BY <1>3, <1>4, <1>6
  <2> QED BY <1>6, <2>2, <2>3 DEF IsClosed, IsSeq
<1>10. Nest(One(c)) = s
  <2>1. Nest(One(c)) = FlattenSeq(One(s))
    <3>1. [i \in DOMAIN One(c) |-> Tail(One(c)[i])] = One(Tail(c))
      BY DEF One
    <3>2. Tail(c) = s
      BY <1>4
    <3> QED BY <3>1, <3>2 DEF Nest
  <2>2. FlattenSeq(One(s)) = s
    <3>1. <<>> \in Seq(Seq(S)) /\ Append(<<>>, s) = One(s) /\ <<>> \o s = s
      BY <1>3 DEF One
    <3>2. FlattenSeq(Append(<<>>, s)) = FlattenSeq(<<>>) \o s
      BY <1>3, <3>1, FlattenLaws
    <3> QED BY <3>1, <3>2, FlattenEmpty
  <2> QED BY <2>1, <2>2
<1> QED BY <1>6, <1>7, <1>10 DEF field, c

\* The field of a number or a text is whole, and its token is read of it.
LEMMA PlainField ==
  ASSUME NEW tag, tag[1] = "tag", NEW l, l[1] # "length"
  PROVE  /\ IsClosed(Cons(tag, One(l))) /\ Cons(tag, One(l))[1] = tag
         /\ Tail(Cons(tag, One(l))) = One(l)
<1> DEFINE S == {tag, l}
           c == One(l)
           field == Cons(tag, c)
<1>1. tag \in S /\ l \in S
  OBVIOUS
<1> HIDE DEF S
<1>2. c \in Seq(S) /\ Len(c) = 1 /\ c[1] = l
  BY <1>1, OneFacts
<1> HIDE DEF c
<1>6. /\ field \in Seq(S) /\ Len(field) = Len(c) + 1 /\ field[1] = tag
      /\ \A i \in 1 .. Len(c) : field[i + 1] = c[i]
      /\ Tail(field) = c
  <2>1. tag \in S /\ c \in Seq(S)
    BY <1>1, <1>2
  <2>2. field \in Seq(S) /\ Len(field) = Len(c) + 1 /\ field[1] = tag
    BY <2>1, Prepend
  <2>3. \A i \in 1 .. Len(c) : field[i + 1] = c[i]
    BY <2>1, Prepend
  <2>4. Tail(field) = c
    BY <2>1, Prepend
  <2> QED BY <2>2, <2>3, <2>4
<1> HIDE DEF field
<1>7. IsClosed(field)
  <2>1. 1 \in 1 .. Len(c) /\ 1 + 1 = 2
    BY <1>2
  <2>2. field[2] = l
    BY <1>2, <1>6, <2>1
  <2>3. Len(field) = 2 /\ Len(field) >= 2
    BY <1>2, <1>6
  <2> QED BY <1>6, <2>2, <2>3 DEF IsClosed, IsSeq
<1> QED BY <1>6, <1>7 DEF field, c

(* The values of the nth field, and its kind.                              *)
KindOf(type, n) == Element(type, type.order[n])
ValuesOf(type, msg, n) == Values(type, msg, type.order[n])
IsNested(type, n) == KindOf(type, n).kind = "message"

(* The fields of a message, when its nested messages are written so.       *)
Content(type, msg, written_as, n, i) ==
  IF IsNested(type, n) THEN Cons(Token("length", Len(written_as[n][i])), written_as[n][i])
  ELSE One(Token(KindOf(type, n).kind, ValuesOf(type, msg, n)[i]))

\* The fields of one number, and of all numbers, as they are written.
GroupOf(type, msg, written_as, n) ==
  [i \in DOMAIN ValuesOf(type, msg, n) |->
     Cons(Tag(n, KindOf(type, n)), Content(type, msg, written_as, n, i))]
GroupsOf(type, msg, written_as) ==
  [n \in DOMAIN type.order |-> GroupOf(type, msg, written_as, n)]
StreamOf(type, msg, written_as) == FlattenSeq(FlattenSeq(GroupsOf(type, msg, written_as)))

Streams(type, msg, written_as) ==
  \A n \in DOMAIN type.order : IsNested(type, n) =>
    \A i \in DOMAIN ValuesOf(type, msg, n) : IsSeq(written_as[n][i])

\* A field of a message as it is written: whole, with its tag, and readable.
LEMMA OneField ==
  ASSUME NEW type, WellFormed(type), NEW msg, NEW written_as, Streams(type, msg, written_as),
         NEW n \in DOMAIN type.order, NEW i \in DOMAIN ValuesOf(type, msg, n)
  PROVE  LET field == GroupOf(type, msg, written_as, n)[i]
         IN  /\ IsClosed(field) /\ field[1] = Tag(n, KindOf(type, n))
             /\ IsNested(type, n) => Nest(One(Tail(field))) = written_as[n][i]
             /\ ~IsNested(type, n) =>
                  Tail(field) = One(Token(KindOf(type, n).kind, ValuesOf(type, msg, n)[i]))
<1> DEFINE k == KindOf(type, n)
           v == ValuesOf(type, msg, n)[i]
           g == GroupOf(type, msg, written_as, n)[i]
           tag == Tag(n, k)
<1>1. k.kind \in Kinds
  BY DEF WellFormed, KindOf
<1>2. g = Cons(tag, Content(type, msg, written_as, n, i))
  BY DEF GroupOf
<1>3. tag[1] = "tag"
  BY DEF Tag
<1> HIDE DEF k, v, tag, g
<1>4. CASE IsNested(type, n)
  <2> DEFINE s == written_as[n][i]
             t == Token("length", Len(s))
  <2>1. IsSeq(s)
    BY <1>4 DEF Streams
  <2>2. g = Cons(tag, Cons(t, s))
    BY <1>2, <1>4 DEF Content
  <2>3. t[1] = "length" /\ t[2] = Len(s)
    BY DEF Token
  <2> HIDE DEF s, t
  <2>4. IsClosed(g) /\ g[1] = tag /\ Nest(One(Tail(g))) = s
    BY <1>3, <2>1, <2>2, <2>3, NestedField
  <2> QED BY <1>4, <2>4 DEF s, k, tag, g
<1>5. CASE ~IsNested(type, n)
  <2> DEFINE t == Token(k.kind, v)
  <2>1. g = Cons(tag, One(t))
    BY <1>2, <1>5 DEF Content, k, v
  <2>2. t[1] # "length"
    BY <1>1 DEF Kinds, Token
  <2> HIDE DEF t
  <2>3. IsClosed(g) /\ g[1] = tag /\ Tail(g) = One(t)
    BY <1>3, <2>1, <2>2, PlainField
  <2> QED BY <1>5, <2>3 DEF t, k, v, tag, g
<1> QED BY <1>4, <1>5

\* The fields of a message are written in groups, by their numbers.
LEMMA GroupsAreGrouped ==
  ASSUME NEW type, WellFormed(type), NEW msg, NEW written_as, Streams(type, msg, written_as)
  PROVE  Grouped(type, msg, GroupsOf(type, msg, written_as))
<1> DEFINE groups == GroupsOf(type, msg, written_as)
<1>1. DOMAIN groups = DOMAIN type.order /\ groups = [n \in DOMAIN groups |-> groups[n]]
  BY DEF GroupsOf
<1>2. ASSUME NEW n \in DOMAIN type.order
      PROVE  /\ DOMAIN groups[n] = DOMAIN Values(type, msg, type.order[n])
             /\ groups[n] = [i \in DOMAIN groups[n] |-> groups[n][i]]
             /\ groups[n] = GroupOf(type, msg, written_as, n)
  BY DEF GroupsOf, GroupOf, ValuesOf
<1> HIDE DEF groups
<1>3. ASSUME NEW n \in DOMAIN type.order, NEW i \in DOMAIN groups[n]
      PROVE  /\ IsClosed(groups[n][i])
             /\ groups[n][i][1] = Tag(n, Element(type, type.order[n]))
  <2>1. i \in DOMAIN ValuesOf(type, msg, n) /\ groups[n] = GroupOf(type, msg, written_as, n)
    BY <1>2 DEF ValuesOf
  <2> QED BY <2>1, OneField DEF KindOf
<1>4. Grouped(type, msg, groups)
  BY <1>1, <1>2, <1>3 DEF Grouped
<1> QED BY <1>4 DEF groups

(* What the reader finds of each field.                                    *)
Found(type, msg, written_as, n, pieces) ==
  /\ DOMAIN pieces = DOMAIN ValuesOf(type, msg, n)
  /\ \A i \in DOMAIN pieces :
       /\ IsNested(type, n) => Nest(pieces[i]) = written_as[n][i]
       /\ ~IsNested(type, n) => pieces[i][Len(pieces[i])][1][2] = ValuesOf(type, msg, n)[i]

\* What the reader finds of a message that was written: every field that is set,
\* no other, and for each the tokens that were written.
LEMMA ReadBack ==
  ASSUME NEW type, WellFormed(type), NEW msg, Fits(type, msg), NEW written_as,
         Streams(type, msg, written_as)
  PROVE  LET stream == StreamOf(type, msg, written_as)
             fields == Split(stream)
         IN  /\ IsSeq(stream)
             /\ \A i \in DOMAIN fields : FieldReads(type, fields[i])
             /\ type.required \subseteq FieldsSet(type, fields)
             /\ FieldsSet(type, fields) = DOMAIN msg
             /\ \A n \in DOMAIN type.order :
                  Found(type, msg, written_as, n, Pieces(type, fields, n))
<1> DEFINE stream == StreamOf(type, msg, written_as)
           fields == Split(stream)
           groups == GroupsOf(type, msg, written_as)
<1>1. Grouped(type, msg, groups)
  BY GroupsAreGrouped
<1> HIDE DEF groups
<1>2. stream = FlattenSeq(FlattenSeq(groups))
  BY DEF StreamOf, groups
<1>3. /\ IsSeq(stream) /\ fields = FlattenSeq(groups)
      /\ \A i \in DOMAIN fields : FieldReads(type, fields[i])
      /\ FieldsSet(type, fields) = DOMAIN msg
      /\ \A n \in DOMAIN type.order :
           Pieces(type, fields, n) = [i \in DOMAIN groups[n] |-> One(Tail(groups[n][i]))]
  BY <1>1, <1>2, Layout DEF One
<1> HIDE DEF stream, fields
<1>4. ASSUME NEW n \in DOMAIN type.order
      PROVE  Found(type, msg, written_as, n, Pieces(type, fields, n))
  <2> DEFINE pieces == Pieces(type, fields, n)
  <2>1. /\ DOMAIN groups[n] = DOMAIN ValuesOf(type, msg, n)
        /\ groups[n] = GroupOf(type, msg, written_as, n)
    BY DEF groups, GroupsOf, GroupOf
  <2>2. pieces = [i \in DOMAIN groups[n] |-> One(Tail(groups[n][i]))]
    BY <1>3
  <2> HIDE DEF pieces
  <2>3. ASSUME NEW i \in DOMAIN pieces
        PROVE  /\ IsNested(type, n) => Nest(pieces[i]) = written_as[n][i]
               /\ ~IsNested(type, n) =>
                    pieces[i][Len(pieces[i])][1][2] = ValuesOf(type, msg, n)[i]
    <3>1. i \in DOMAIN ValuesOf(type, msg, n) /\ pieces[i] = One(Tail(groups[n][i]))
      BY <2>1, <2>2
    <3>2. /\ IsNested(type, n) => Nest(One(Tail(groups[n][i]))) = written_as[n][i]
          /\ ~IsNested(type, n) =>
               Tail(groups[n][i]) = One(Token(KindOf(type, n).kind, ValuesOf(type, msg, n)[i]))
      <4> DEFINE field == GroupOf(type, msg, written_as, n)[i]
      <4>1. /\ IsNested(type, n) => Nest(One(Tail(field))) = written_as[n][i]
            /\ ~IsNested(type, n) =>
                 Tail(field) = One(Token(KindOf(type, n).kind, ValuesOf(type, msg, n)[i]))
        BY <3>1, OneField
      <4>2. groups[n][i] = field
        BY <2>1
      <4> HIDE DEF field
      <4> QED BY <4>1, <4>2
    <3>3. ASSUME ~IsNested(type, n)
          PROVE  pieces[i][Len(pieces[i])][1][2] = ValuesOf(type, msg, n)[i]
      <4>1. pieces[i] = One(One(Token(KindOf(type, n).kind, ValuesOf(type, msg, n)[i])))
        BY <3>1, <3>2, <3>3
      <4> QED BY <4>1 DEF One, Token
    <3> QED BY <3>1, <3>2, <3>3
  <2>4. DOMAIN pieces = DOMAIN ValuesOf(type, msg, n)
    BY <2>1, <2>2
  <2> QED BY <2>3, <2>4 DEF Found, pieces
<1> QED BY <1>3, <1>4 DEF Fits, stream, fields

(* What is decoded of them, when its nested messages are decoded so.       *)
DecodedOf(type, msg, n, decoded) ==
  IF IsRepeated(type, type.order[n]) THEN decoded ELSE decoded[1]

\* The values found of a field that is set are its value.
LEMMA DecodedBack ==
  ASSUME NEW type, WellFormed(type), NEW msg, Fits(type, msg), NEW f \in DOMAIN msg
  PROVE  LET n == NumberOf(type, f)
             values == ValuesOf(type, msg, n)
         IN  /\ n \in DOMAIN type.order /\ type.order[n] = f
             /\ values = [i \in DOMAIN values |-> values[i]]
             /\ msg[f] = IF IsRepeated(type, f) THEN values ELSE values[1]
<1>1. f \in DOMAIN type.fields
  BY DEF Fits
<1> DEFINE n == NumberOf(type, f)
           values == Values(type, msg, f)
<1>2. n \in DOMAIN type.order /\ type.order[n] = f
  BY <1>1 DEF WellFormed, NumberOf
<1>3. IsSeq(values)
  BY <1>1, ValuesFacts
<1>4. values = IF IsRepeated(type, f) THEN msg[f] ELSE <<msg[f]>>
  BY <1>1, ValuesFacts
<1> HIDE DEF n, values
<1>5. values = [i \in DOMAIN values |-> values[i]]
  BY <1>3, SeqFacts
<1>6. msg[f] = IF IsRepeated(type, f) THEN values ELSE values[1]
  BY <1>4
<1> QED BY <1>2, <1>5, <1>6 DEF n, values, ValuesOf
-----------------------------------------------------------------------------
(* What comes back, by depth of nesting                                    *)

\* A message comes back, at each depth of nesting: what is decoded of what it is
\* written as is the message.  Below the leaves there is none.
NotOK(type, msg) == FALSE
LeafOK(type, msg) ==
  LET stream == EncodeLeaf(type, msg)
  IN  IsSeq(stream) /\ LeafRead(type, stream) /\ DecodeLeaf(type, stream) = msg
InnerOK(type, msg) ==
  LET stream == EncodeInner(type, msg)
  IN  IsSeq(stream) /\ InnerRead(type, stream) /\ DecodeInner(type, stream) = msg
OuterOK(type, msg) ==
  LET stream == Encode(type, msg)
  IN  IsSeq(stream) /\ IsRead(type, stream) /\ Decode(type, stream) = msg

\* What a message without nested messages is written as.
LEMMA LeafWritten ==
  ASSUME NEW type, WellFormed(type), NEW msg, Fits(type, msg),
         \A f \in DOMAIN msg : Element(type, f).kind = "message" =>
           \A i \in DOMAIN Values(type, msg, f) : NotOK(Element(type, f).of, Values(type, msg, f)[i])
  PROVE  \E written_as :
           /\ EncodeLeaf(type, msg) = StreamOf(type, msg, written_as)
           /\ Streams(type, msg, written_as)
           /\ \A n \in DOMAIN type.order : IsNested(type, n) =>
                \A i \in DOMAIN ValuesOf(type, msg, n) :
                  /\ NotOK(KindOf(type, n).of, ValuesOf(type, msg, n)[i])
                  /\ written_as[n][i] = NotEncoded(KindOf(type, n).of, ValuesOf(type, msg, n)[i])
<1> DEFINE written_as == [n \in DOMAIN type.order |-> [i \in DOMAIN ValuesOf(type, msg, n) |->
                            NotEncoded(KindOf(type, n).of, ValuesOf(type, msg, n)[i])]]
<1>1. EncodeLeaf(type, msg) = StreamOf(type, msg, written_as)
  BY DEF EncodeLeaf, EncodeAll, EncodeField, EncodeValue, StreamOf, GroupsOf, GroupOf, Content,
         IsNested, KindOf, ValuesOf, Token, One, Cons
<1>2. ASSUME NEW n \in DOMAIN type.order, IsNested(type, n), NEW i \in DOMAIN ValuesOf(type, msg, n)
      PROVE  /\ NotOK(KindOf(type, n).of, ValuesOf(type, msg, n)[i])
             /\ written_as[n][i] = NotEncoded(KindOf(type, n).of, ValuesOf(type, msg, n)[i])
             /\ IsSeq(written_as[n][i])
  <2>1. type.order[n] \in DOMAIN type.fields
    BY DEF WellFormed
  <2>2. Values(type, msg, type.order[n]) # <<>>
    BY <1>2 DEF ValuesOf
  <2>3. type.order[n] \in DOMAIN msg
    BY <2>1, <2>2, ValuesFacts
  <2>4. NotOK(KindOf(type, n).of, ValuesOf(type, msg, n)[i])
    BY <1>2, <2>3 DEF IsNested, KindOf, ValuesOf
  <2>5. written_as[n][i] = NotEncoded(KindOf(type, n).of, ValuesOf(type, msg, n)[i])
    OBVIOUS
  <2> HIDE DEF written_as
  <2> QED BY <2>4, <2>5 DEF NotOK
<1> HIDE DEF written_as
<1>3. Streams(type, msg, written_as)
  BY <1>2 DEF Streams
<1> QED BY <1>1, <1>2, <1>3

\* A message without nested messages comes back as it was written.
LEMMA LeafRoundTrip ==
  ASSUME NEW type, WellFormed(type), NEW msg, Fits(type, msg),
         \A f \in DOMAIN msg : Element(type, f).kind = "message" =>
           \A i \in DOMAIN Values(type, msg, f) : NotOK(Element(type, f).of, Values(type, msg, f)[i])
  PROVE  LeafOK(type, msg)
<1> DEFINE stream == EncodeLeaf(type, msg)
           fields == Split(stream)
<1>1. PICK written_as :
           /\ stream = StreamOf(type, msg, written_as)
           /\ Streams(type, msg, written_as)
           /\ \A n \in DOMAIN type.order : IsNested(type, n) =>
                \A i \in DOMAIN ValuesOf(type, msg, n) :
                  /\ NotOK(KindOf(type, n).of, ValuesOf(type, msg, n)[i])
                  /\ written_as[n][i] = NotEncoded(KindOf(type, n).of, ValuesOf(type, msg, n)[i])
  BY LeafWritten
<1>2. ASSUME NEW n \in DOMAIN type.order, IsNested(type, n), NEW i \in DOMAIN ValuesOf(type, msg, n)
      PROVE  /\ NotOK(KindOf(type, n).of, ValuesOf(type, msg, n)[i])
             /\ written_as[n][i] = NotEncoded(KindOf(type, n).of, ValuesOf(type, msg, n)[i])
  BY <1>1, <1>2
<1> HIDE DEF stream
<1>4. /\ IsSeq(stream)
      /\ \A i \in DOMAIN fields : FieldReads(type, fields[i])
      /\ type.required \subseteq FieldsSet(type, fields)
      /\ FieldsSet(type, fields) = DOMAIN msg
      /\ \A n \in DOMAIN type.order : Found(type, msg, written_as, n, Pieces(type, fields, n))
  BY <1>1, ReadBack
<1> HIDE DEF fields
<1>5. LeafRead(type, stream)
  <2>1. ASSUME NEW n \in DOMAIN type.order, IsNested(type, n),
               NEW i \in DOMAIN Pieces(type, fields, n)
        PROVE  NotRead(KindOf(type, n).of, Nest(Pieces(type, fields, n)[i]))
    <3>1. i \in DOMAIN ValuesOf(type, msg, n) /\ Nest(Pieces(type, fields, n)[i]) = written_as[n][i]
      BY <1>4, <2>1 DEF Found
    <3> QED BY <1>2, <2>1, <3>1 DEF NotOK
  <2> QED BY <1>4, <2>1 DEF LeafRead, AllRead, KindOf, IsNested, fields
<1>6. DecodeLeaf(type, stream) = msg
  <2> DEFINE Got(n, pieces) == [i \in DOMAIN pieces |->
                IF IsNested(type, n) THEN NotDecoded(KindOf(type, n).of, Nest(pieces[i]))
                ELSE pieces[i][Len(pieces[i])][1][2]]
             Field(n) == DecodedOf(type, msg, n, Got(n, Pieces(type, fields, n)))
  <2>1. DecodeLeaf(type, stream) = [f \in DOMAIN msg |-> Field(NumberOf(type, f))]
    BY <1>4 DEF DecodeLeaf, DecodeAll, DecodeField, DecodeValue, DecodedOf, IsNested, KindOf, fields
  <2>2. ASSUME NEW f \in DOMAIN msg PROVE Field(NumberOf(type, f)) = msg[f]
    <3> DEFINE n == NumberOf(type, f)
               values == ValuesOf(type, msg, n)
               pieces == Pieces(type, fields, n)
    <3>1. /\ n \in DOMAIN type.order /\ type.order[n] = f
          /\ values = [i \in DOMAIN values |-> values[i]]
          /\ msg[f] = IF IsRepeated(type, f) THEN values ELSE values[1]
      BY DecodedBack
    <3> HIDE DEF n
    <3>2. Found(type, msg, written_as, n, pieces)
      BY <1>4, <3>1
    <3> HIDE DEF pieces
    <3>3. ASSUME NEW i \in DOMAIN pieces PROVE Got(n, pieces)[i] = values[i]
      <4>1. i \in DOMAIN values
        BY <3>2 DEF Found
      <4>2. CASE IsNested(type, n)
        <5>1. Got(n, pieces)[i] = NotDecoded(KindOf(type, n).of, Nest(pieces[i]))
          BY <4>2
        <5>2. Nest(pieces[i]) = NotEncoded(KindOf(type, n).of, values[i])
              /\ NotOK(KindOf(type, n).of, values[i])
          BY <1>2, <3>1, <3>2, <4>1, <4>2 DEF Found
        <5> QED BY <5>1, <5>2 DEF NotOK
      <4>3. CASE ~IsNested(type, n)
        BY <3>2, <4>3 DEF Found
      <4> QED BY <4>2, <4>3
    <3>4. DOMAIN Got(n, pieces) = DOMAIN values
          /\ Got(n, pieces) = [i \in DOMAIN Got(n, pieces) |-> Got(n, pieces)[i]]
          /\ DOMAIN pieces = DOMAIN values
      BY <3>2 DEF Found
    <3> HIDE DEF Got, values
    <3>5. Got(n, pieces) = values
      BY <3>1, <3>3, <3>4
    <3> QED BY <3>1, <3>5 DEF DecodedOf, pieces, n
  <2>3. msg = [f \in DOMAIN msg |-> msg[f]]
    BY DEF Fits
  <2> HIDE DEF Field
  <2> QED BY <2>1, <2>2, <2>3
<1> QED BY <1>4, <1>5, <1>6 DEF LeafOK, stream

\* What a message that nests only such messages is written as.
LEMMA InnerWritten ==
  ASSUME NEW type, WellFormed(type), NEW msg, Fits(type, msg),
         \A f \in DOMAIN msg : Element(type, f).kind = "message" =>
           \A i \in DOMAIN Values(type, msg, f) : LeafOK(Element(type, f).of, Values(type, msg, f)[i])
  PROVE  \E written_as :
           /\ EncodeInner(type, msg) = StreamOf(type, msg, written_as)
           /\ Streams(type, msg, written_as)
           /\ \A n \in DOMAIN type.order : IsNested(type, n) =>
                \A i \in DOMAIN ValuesOf(type, msg, n) :
                  /\ LeafOK(KindOf(type, n).of, ValuesOf(type, msg, n)[i])
                  /\ written_as[n][i] = EncodeLeaf(KindOf(type, n).of, ValuesOf(type, msg, n)[i])
<1> DEFINE written_as == [n \in DOMAIN type.order |-> [i \in DOMAIN ValuesOf(type, msg, n) |->
                            EncodeLeaf(KindOf(type, n).of, ValuesOf(type, msg, n)[i])]]
<1>1. EncodeInner(type, msg) = StreamOf(type, msg, written_as)
  BY DEF EncodeInner, EncodeAll, EncodeField, EncodeValue, StreamOf, GroupsOf, GroupOf, Content,
         IsNested, KindOf, ValuesOf, Token, One, Cons
<1>2. ASSUME NEW n \in DOMAIN type.order, IsNested(type, n), NEW i \in DOMAIN ValuesOf(type, msg, n)
      PROVE  /\ LeafOK(KindOf(type, n).of, ValuesOf(type, msg, n)[i])
             /\ written_as[n][i] = EncodeLeaf(KindOf(type, n).of, ValuesOf(type, msg, n)[i])
             /\ IsSeq(written_as[n][i])
  <2>1. type.order[n] \in DOMAIN type.fields
    BY DEF WellFormed
  <2>2. Values(type, msg, type.order[n]) # <<>>
    BY <1>2 DEF ValuesOf
  <2>3. type.order[n] \in DOMAIN msg
    BY <2>1, <2>2, ValuesFacts
  <2>4. LeafOK(KindOf(type, n).of, ValuesOf(type, msg, n)[i])
    BY <1>2, <2>3 DEF IsNested, KindOf, ValuesOf
  <2>5. written_as[n][i] = EncodeLeaf(KindOf(type, n).of, ValuesOf(type, msg, n)[i])
    OBVIOUS
  <2> HIDE DEF written_as
  <2> QED BY <2>4, <2>5 DEF LeafOK
<1> HIDE DEF written_as
<1>3. Streams(type, msg, written_as)
  BY <1>2 DEF Streams
<1> QED BY <1>1, <1>2, <1>3

\* A message whose nested messages come back comes back itself.
LEMMA InnerRoundTrip ==
  ASSUME NEW type, WellFormed(type), NEW msg, Fits(type, msg),
         \A f \in DOMAIN msg : Element(type, f).kind = "message" =>
           \A i \in DOMAIN Values(type, msg, f) : LeafOK(Element(type, f).of, Values(type, msg, f)[i])
  PROVE  InnerOK(type, msg)
<1> DEFINE stream == EncodeInner(type, msg)
           fields == Split(stream)
<1>1. PICK written_as :
           /\ stream = StreamOf(type, msg, written_as)
           /\ Streams(type, msg, written_as)
           /\ \A n \in DOMAIN type.order : IsNested(type, n) =>
                \A i \in DOMAIN ValuesOf(type, msg, n) :
                  /\ LeafOK(KindOf(type, n).of, ValuesOf(type, msg, n)[i])
                  /\ written_as[n][i] = EncodeLeaf(KindOf(type, n).of, ValuesOf(type, msg, n)[i])
  BY InnerWritten
<1>2. ASSUME NEW n \in DOMAIN type.order, IsNested(type, n), NEW i \in DOMAIN ValuesOf(type, msg, n)
      PROVE  /\ LeafOK(KindOf(type, n).of, ValuesOf(type, msg, n)[i])
             /\ written_as[n][i] = EncodeLeaf(KindOf(type, n).of, ValuesOf(type, msg, n)[i])
  BY <1>1, <1>2
<1> HIDE DEF stream
<1>4. /\ IsSeq(stream)
      /\ \A i \in DOMAIN fields : FieldReads(type, fields[i])
      /\ type.required \subseteq FieldsSet(type, fields)
      /\ FieldsSet(type, fields) = DOMAIN msg
      /\ \A n \in DOMAIN type.order : Found(type, msg, written_as, n, Pieces(type, fields, n))
  BY <1>1, ReadBack
<1> HIDE DEF fields
<1>5. InnerRead(type, stream)
  <2>1. ASSUME NEW n \in DOMAIN type.order, IsNested(type, n),
               NEW i \in DOMAIN Pieces(type, fields, n)
        PROVE  LeafRead(KindOf(type, n).of, Nest(Pieces(type, fields, n)[i]))
    <3>1. i \in DOMAIN ValuesOf(type, msg, n) /\ Nest(Pieces(type, fields, n)[i]) = written_as[n][i]
      BY <1>4, <2>1 DEF Found
    <3> QED BY <1>2, <2>1, <3>1 DEF LeafOK
  <2> QED BY <1>4, <2>1 DEF InnerRead, AllRead, KindOf, IsNested, fields
<1>6. DecodeInner(type, stream) = msg
  <2> DEFINE Got(n, pieces) == [i \in DOMAIN pieces |->
                IF IsNested(type, n) THEN DecodeLeaf(KindOf(type, n).of, Nest(pieces[i]))
                ELSE pieces[i][Len(pieces[i])][1][2]]
             Field(n) == DecodedOf(type, msg, n, Got(n, Pieces(type, fields, n)))
  <2>1. DecodeInner(type, stream) = [f \in DOMAIN msg |-> Field(NumberOf(type, f))]
    BY <1>4 DEF DecodeInner, DecodeAll, DecodeField, DecodeValue, DecodedOf, IsNested, KindOf, fields
  <2>2. ASSUME NEW f \in DOMAIN msg PROVE Field(NumberOf(type, f)) = msg[f]
    <3> DEFINE n == NumberOf(type, f)
               values == ValuesOf(type, msg, n)
               pieces == Pieces(type, fields, n)
    <3>1. /\ n \in DOMAIN type.order /\ type.order[n] = f
          /\ values = [i \in DOMAIN values |-> values[i]]
          /\ msg[f] = IF IsRepeated(type, f) THEN values ELSE values[1]
      BY DecodedBack
    <3> HIDE DEF n
    <3>2. Found(type, msg, written_as, n, pieces)
      BY <1>4, <3>1
    <3> HIDE DEF pieces
    <3>3. ASSUME NEW i \in DOMAIN pieces PROVE Got(n, pieces)[i] = values[i]
      <4>1. i \in DOMAIN values
        BY <3>2 DEF Found
      <4>2. CASE IsNested(type, n)
        <5>1. Got(n, pieces)[i] = DecodeLeaf(KindOf(type, n).of, Nest(pieces[i]))
          BY <4>2
        <5>2. Nest(pieces[i]) = EncodeLeaf(KindOf(type, n).of, values[i])
              /\ LeafOK(KindOf(type, n).of, values[i])
          BY <1>2, <3>1, <3>2, <4>1, <4>2 DEF Found
        <5> QED BY <5>1, <5>2 DEF LeafOK
      <4>3. CASE ~IsNested(type, n)
        BY <3>2, <4>3 DEF Found
      <4> QED BY <4>2, <4>3
    <3>4. DOMAIN Got(n, pieces) = DOMAIN values
          /\ Got(n, pieces) = [i \in DOMAIN Got(n, pieces) |-> Got(n, pieces)[i]]
          /\ DOMAIN pieces = DOMAIN values
      BY <3>2 DEF Found
    <3> HIDE DEF Got, values
    <3>5. Got(n, pieces) = values
      BY <3>1, <3>3, <3>4
    <3> QED BY <3>1, <3>5 DEF DecodedOf, pieces, n
  <2>3. msg = [f \in DOMAIN msg |-> msg[f]]
    BY DEF Fits
  <2> HIDE DEF Field
  <2> QED BY <2>1, <2>2, <2>3
<1> QED BY <1>4, <1>5, <1>6 DEF InnerOK, stream

\* What a message that nests two levels deep is written as.
LEMMA OuterWritten ==
  ASSUME NEW type, WellFormed(type), NEW msg, Fits(type, msg),
         \A f \in DOMAIN msg : Element(type, f).kind = "message" =>
           \A i \in DOMAIN Values(type, msg, f) : InnerOK(Element(type, f).of, Values(type, msg, f)[i])
  PROVE  \E written_as :
           /\ Encode(type, msg) = StreamOf(type, msg, written_as)
           /\ Streams(type, msg, written_as)
           /\ \A n \in DOMAIN type.order : IsNested(type, n) =>
                \A i \in DOMAIN ValuesOf(type, msg, n) :
                  /\ InnerOK(KindOf(type, n).of, ValuesOf(type, msg, n)[i])
                  /\ written_as[n][i] = EncodeInner(KindOf(type, n).of, ValuesOf(type, msg, n)[i])
<1> DEFINE written_as == [n \in DOMAIN type.order |-> [i \in DOMAIN ValuesOf(type, msg, n) |->
                            EncodeInner(KindOf(type, n).of, ValuesOf(type, msg, n)[i])]]
<1>1. Encode(type, msg) = StreamOf(type, msg, written_as)
  BY DEF Encode, EncodeAll, EncodeField, EncodeValue, StreamOf, GroupsOf, GroupOf, Content,
         IsNested, KindOf, ValuesOf, Token, One, Cons
<1>2. ASSUME NEW n \in DOMAIN type.order, IsNested(type, n), NEW i \in DOMAIN ValuesOf(type, msg, n)
      PROVE  /\ InnerOK(KindOf(type, n).of, ValuesOf(type, msg, n)[i])
             /\ written_as[n][i] = EncodeInner(KindOf(type, n).of, ValuesOf(type, msg, n)[i])
             /\ IsSeq(written_as[n][i])
  <2>1. type.order[n] \in DOMAIN type.fields
    BY DEF WellFormed
  <2>2. Values(type, msg, type.order[n]) # <<>>
    BY <1>2 DEF ValuesOf
  <2>3. type.order[n] \in DOMAIN msg
    BY <2>1, <2>2, ValuesFacts
  <2>4. InnerOK(KindOf(type, n).of, ValuesOf(type, msg, n)[i])
    BY <1>2, <2>3 DEF IsNested, KindOf, ValuesOf
  <2>5. written_as[n][i] = EncodeInner(KindOf(type, n).of, ValuesOf(type, msg, n)[i])
    OBVIOUS
  <2> HIDE DEF written_as
  <2> QED BY <2>4, <2>5 DEF InnerOK
<1> HIDE DEF written_as
<1>3. Streams(type, msg, written_as)
  BY <1>2 DEF Streams
<1> QED BY <1>1, <1>2, <1>3

\* A message of any table of module Messages comes back as it was written:
\* what the reader decodes of its stream is the message itself.
LEMMA OuterRoundTrip ==
  ASSUME NEW type, WellFormed(type), NEW msg, Fits(type, msg),
         \A f \in DOMAIN msg : Element(type, f).kind = "message" =>
           \A i \in DOMAIN Values(type, msg, f) : InnerOK(Element(type, f).of, Values(type, msg, f)[i])
  PROVE  OuterOK(type, msg)
<1> DEFINE stream == Encode(type, msg)
           fields == Split(stream)
<1>1. PICK written_as :
           /\ stream = StreamOf(type, msg, written_as)
           /\ Streams(type, msg, written_as)
           /\ \A n \in DOMAIN type.order : IsNested(type, n) =>
                \A i \in DOMAIN ValuesOf(type, msg, n) :
                  /\ InnerOK(KindOf(type, n).of, ValuesOf(type, msg, n)[i])
                  /\ written_as[n][i] = EncodeInner(KindOf(type, n).of, ValuesOf(type, msg, n)[i])
  BY OuterWritten
<1>2. ASSUME NEW n \in DOMAIN type.order, IsNested(type, n), NEW i \in DOMAIN ValuesOf(type, msg, n)
      PROVE  /\ InnerOK(KindOf(type, n).of, ValuesOf(type, msg, n)[i])
             /\ written_as[n][i] = EncodeInner(KindOf(type, n).of, ValuesOf(type, msg, n)[i])
  BY <1>1, <1>2
<1> HIDE DEF stream
<1>4. /\ IsSeq(stream)
      /\ \A i \in DOMAIN fields : FieldReads(type, fields[i])
      /\ type.required \subseteq FieldsSet(type, fields)
      /\ FieldsSet(type, fields) = DOMAIN msg
      /\ \A n \in DOMAIN type.order : Found(type, msg, written_as, n, Pieces(type, fields, n))
  BY <1>1, ReadBack
<1> HIDE DEF fields
<1>5. IsRead(type, stream)
  <2>1. ASSUME NEW n \in DOMAIN type.order, IsNested(type, n),
               NEW i \in DOMAIN Pieces(type, fields, n)
        PROVE  InnerRead(KindOf(type, n).of, Nest(Pieces(type, fields, n)[i]))
    <3>1. i \in DOMAIN ValuesOf(type, msg, n) /\ Nest(Pieces(type, fields, n)[i]) = written_as[n][i]
      BY <1>4, <2>1 DEF Found
    <3> QED BY <1>2, <2>1, <3>1 DEF InnerOK
  <2> QED BY <1>4, <2>1 DEF IsRead, AllRead, KindOf, IsNested, fields
<1>6. Decode(type, stream) = msg
  <2> DEFINE Got(n, pieces) == [i \in DOMAIN pieces |->
                IF IsNested(type, n) THEN DecodeInner(KindOf(type, n).of, Nest(pieces[i]))
                ELSE pieces[i][Len(pieces[i])][1][2]]
             Field(n) == DecodedOf(type, msg, n, Got(n, Pieces(type, fields, n)))
  <2>1. Decode(type, stream) = [f \in DOMAIN msg |-> Field(NumberOf(type, f))]
    BY <1>4 DEF Decode, DecodeAll, DecodeField, DecodeValue, DecodedOf, IsNested, KindOf, fields
  <2>2. ASSUME NEW f \in DOMAIN msg PROVE Field(NumberOf(type, f)) = msg[f]
    <3> DEFINE n == NumberOf(type, f)
               values == ValuesOf(type, msg, n)
               pieces == Pieces(type, fields, n)
    <3>1. /\ n \in DOMAIN type.order /\ type.order[n] = f
          /\ values = [i \in DOMAIN values |-> values[i]]
          /\ msg[f] = IF IsRepeated(type, f) THEN values ELSE values[1]
      BY DecodedBack
    <3> HIDE DEF n
    <3>2. Found(type, msg, written_as, n, pieces)
      BY <1>4, <3>1
    <3> HIDE DEF pieces
    <3>3. ASSUME NEW i \in DOMAIN pieces PROVE Got(n, pieces)[i] = values[i]
      <4>1. i \in DOMAIN values
        BY <3>2 DEF Found
      <4>2. CASE IsNested(type, n)
        <5>1. Got(n, pieces)[i] = DecodeInner(KindOf(type, n).of, Nest(pieces[i]))
          BY <4>2
        <5>2. Nest(pieces[i]) = EncodeInner(KindOf(type, n).of, values[i])
              /\ InnerOK(KindOf(type, n).of, values[i])
          BY <1>2, <3>1, <3>2, <4>1, <4>2 DEF Found
        <5> QED BY <5>1, <5>2 DEF InnerOK
      <4>3. CASE ~IsNested(type, n)
        BY <3>2, <4>3 DEF Found
      <4> QED BY <4>2, <4>3
    <3>4. DOMAIN Got(n, pieces) = DOMAIN values
          /\ Got(n, pieces) = [i \in DOMAIN Got(n, pieces) |-> Got(n, pieces)[i]]
          /\ DOMAIN pieces = DOMAIN values
      BY <3>2 DEF Found
    <3> HIDE DEF Got, values
    <3>5. Got(n, pieces) = values
      BY <3>1, <3>3, <3>4
    <3> QED BY <3>1, <3>5 DEF DecodedOf, pieces, n
  <2>3. msg = [f \in DOMAIN msg |-> msg[f]]
    BY DEF Fits
  <2> HIDE DEF Field
  <2> QED BY <2>1, <2>2, <2>3
<1> QED BY <1>4, <1>5, <1>6 DEF OuterOK, stream
-----------------------------------------------------------------------------
(* The tables of module Messages                                           *)

(* A table lists its fields in the order of their numbers.                 *)
Places(fields, order, n, place) ==
  /\ order \in [1 .. n -> DOMAIN fields]
  /\ \A f \in DOMAIN fields : place[f] \in 1 .. n /\ order[place[f]] = f
  /\ \A i \in 1 .. n : place[order[i]] = i

\* A field of a table.
IsField(k) ==
  IF k.kind = "repeated" THEN k.of.kind \in Kinds ELSE k.kind \in Kinds

\* A field is a number, a text or a nested message, once or repeated.
LEMMA FieldKinds ==
  ASSUME NEW d, NEW t
  PROVE  /\ IsField(Number(d)) /\ IsField(Text) /\ IsField(Nested(t))
         /\ IsField(Repeated(Number(d))) /\ IsField(Repeated(Text)) /\ IsField(Repeated(Nested(t)))
<1>1. IsField(Number(d)) /\ IsField(Text)
  BY DEF IsField, Kinds, Number, Text
<1>2. IsField(Nested(t))
  BY DEF IsField, Kinds, Nested
<1>3. IsField(Repeated(Number(d))) /\ IsField(Repeated(Text))
  BY DEF IsField, Kinds, Number, Text, Repeated
<1>4. IsField(Repeated(Nested(t)))
  BY DEF IsField, Kinds, Nested, Repeated
<1> QED BY <1>1, <1>2, <1>3, <1>4

\* A table that lists its fields by their numbers, each once, is well formed.
LEMMA ByPlaces ==
  ASSUME NEW name, NEW fields, NEW wire, NEW n \in Nat, NEW place,
         Places(fields, wire.order, n, place),
         \A f \in DOMAIN fields : IsField(fields[f])
  PROVE  WellFormed(Message(name, fields, wire))
<1> DEFINE type == Message(name, fields, wire)
           s == wire.order
           S == DOMAIN fields
<1>1. type.order = s /\ type.fields = fields
  BY DEF Message
<1>2. /\ s \in [1 .. n -> S]
      /\ \A f \in S : place[f] \in 1 .. n /\ s[place[f]] = f
      /\ \A i \in 1 .. n : place[s[i]] = i
  BY DEF Places
<1>3. \A f \in S : Element(type, f).kind \in Kinds
  BY <1>1 DEF Element, IsRepeated, IsField
<1> HIDE DEF type, s, S
<1>4. s \in Seq(S) /\ DOMAIN s = 1 .. n
  BY <1>2, FunctionIsSeq
<1>5. WellFormed(type)
  BY <1>1, <1>2, <1>3, <1>4 DEF WellFormed, S
<1> QED BY <1>5 DEF type

\* The table of NetPackHeader lists each of its fields once.
LEMMA NetPackHeaderWellFormed == WellFormed(NetPackHeader)
<1> DEFINE place == [payloadType |-> 1, payloadLength |-> 2, messageName |-> 3]
<1>1. Places(NetPackHeaderFields, NetPackHeaderWire.order, 3, place)
  BY DEF Places, NetPackHeaderFields, NetPackHeaderWire
<1>2. \A f \in DOMAIN NetPackHeaderFields : IsField(NetPackHeaderFields[f])
  BY FieldKinds DEF NetPackHeaderFields
<1> HIDE DEF place
<1> QED BY <1>1, <1>2, ByPlaces DEF NetPackHeader

\* The table of ClientFileInfo lists each of its fields once.
LEMMA ClientFileInfoWellFormed == WellFormed(ClientFileInfo)
<1> DEFINE place == [FileId |-> 1, HasFile |-> 2, Percentage |-> 3, FileBit |-> 4, FileBitCount |-> 5]
<1>1. Places(ClientFileInfoFields, ClientFileInfoWire.order, 5, place)
  BY DEF Places, ClientFileInfoFields, ClientFileInfoWire
<1>2. \A f \in DOMAIN ClientFileInfoFields : IsField(ClientFileInfoFields[f])
  BY FieldKinds DEF ClientFileInfoFields
<1> HIDE DEF place
<1> QED BY <1>1, <1>2, ByPlaces DEF ClientFileInfo

\* The table of ShakeHand lists each of its fields once.
LEMMA ShakeHandWellFormed == WellFormed(ShakeHand)
<1> DEFINE place == [ClientId |-> 1, Info |-> 2]
<1>1. Places(ShakeHandFields, ShakeHandWire.order, 2, place)
  BY DEF Places, ShakeHandFields, ShakeHandWire
<1>2. \A f \in DOMAIN ShakeHandFields : IsField(ShakeHandFields[f])
  BY FieldKinds DEF ShakeHandFields
<1> HIDE DEF place
<1> QED BY <1>1, <1>2, ByPlaces DEF ShakeHand

\* The table of UploadRequest lists each of its fields once.
LEMMA UploadRequestWellFormed == WellFormed(UploadRequest)
<1> DEFINE place == [ClientId |-> 1, FileId |-> 2, ChunkNumber |-> 3]
<1>1. Places(UploadRequestFields, UploadRequestWire.order, 3, place)
  BY DEF Places, UploadRequestFields, UploadRequestWire
<1>2. \A f \in DOMAIN UploadRequestFields : IsField(UploadRequestFields[f])
  BY FieldKinds DEF UploadRequestFields
<1> HIDE DEF place
<1> QED BY <1>1, <1>2, ByPlaces DEF UploadRequest

\* The table of UploadReply lists each of its fields once.
LEMMA UploadReplyWellFormed == WellFormed(UploadReply)
<1> DEFINE place == [ReturnCode |-> 1]
<1>1. Places(UploadReplyFields, UploadReplyWire.order, 1, place)
  BY DEF Places, UploadReplyFields, UploadReplyWire
<1>2. \A f \in DOMAIN UploadReplyFields : IsField(UploadReplyFields[f])
  BY FieldKinds DEF UploadReplyFields
<1> HIDE DEF place
<1> QED BY <1>1, <1>2, ByPlaces DEF UploadReply

\* The table of Peer lists each of its fields once.
LEMMA PeerWellFormed == WellFormed(Peer)
<1> DEFINE place == [ClientId |-> 1, Ip |-> 2, MessagePort |-> 3]
<1>1. Places(PeerFields, PeerWire.order, 3, place)
  BY DEF Places, PeerFields, PeerWire
<1>2. \A f \in DOMAIN PeerFields : IsField(PeerFields[f])
  BY FieldKinds DEF PeerFields
<1> HIDE DEF place
<1> QED BY <1>1, <1>2, ByPlaces DEF Peer

\* The table of PeerFileInfo lists each of its fields once.
LEMMA PeerFileInfoWellFormed == WellFormed(PeerFileInfo)
<1> DEFINE place == [Client |-> 1, Percentage |-> 2]
<1>1. Places(PeerFileInfoFields, PeerFileInfoWire.order, 2, place)
  BY DEF Places, PeerFileInfoFields, PeerFileInfoWire
<1>2. \A f \in DOMAIN PeerFileInfoFields : IsField(PeerFileInfoFields[f])
  BY FieldKinds DEF PeerFileInfoFields
<1> HIDE DEF place
<1> QED BY <1>1, <1>2, ByPlaces DEF PeerFileInfo

\* The table of QueryPeer lists each of its fields once.
LEMMA QueryPeerWellFormed == WellFormed(QueryPeer)
<1> DEFINE place == [FileId |-> 1, Percentage |-> 2, NeedCount |-> 3, OwnedClients |-> 4]
<1>1. Places(QueryPeerFields, QueryPeerWire.order, 4, place)
  BY DEF Places, QueryPeerFields, QueryPeerWire
<1>2. \A f \in DOMAIN QueryPeerFields : IsField(QueryPeerFields[f])
  BY FieldKinds DEF QueryPeerFields
<1> HIDE DEF place
<1> QED BY <1>1, <1>2, ByPlaces DEF QueryPeer

\* The table of QueryPeerReply lists each of its fields once.
LEMMA QueryPeerReplyWellFormed == WellFormed(QueryPeerReply)
<1> DEFINE place == [ReturnCode |-> 1, FileId |-> 2, Count |-> 3, Info |-> 4]
<1>1. Places(QueryPeerReplyFields, QueryPeerReplyWire.order, 4, place)
  BY DEF Places, QueryPeerReplyFields, QueryPeerReplyWire
<1>2. \A f \in DOMAIN QueryPeerReplyFields : IsField(QueryPeerReplyFields[f])
  BY FieldKinds DEF QueryPeerReplyFields
<1> HIDE DEF place
<1> QED BY <1>1, <1>2, ByPlaces DEF QueryPeerReply

\* The table of Login lists each of its fields once.
LEMMA LoginWellFormed == WellFormed(Login)
<1> DEFINE place == [ClientId |-> 1, LoginIp |-> 2, MessagePort |-> 3]
<1>1. Places(LoginFields, LoginWire.order, 3, place)
  BY DEF Places, LoginFields, LoginWire
<1>2. \A f \in DOMAIN LoginFields : IsField(LoginFields[f])
  BY FieldKinds DEF LoginFields
<1> HIDE DEF place
<1> QED BY <1>1, <1>2, ByPlaces DEF Login

\* The table of Logout lists each of its fields once.
LEMMA LogoutWellFormed == WellFormed(Logout)
<1> DEFINE place == [ClientId |-> 1]
<1>1. Places(LogoutFields, LogoutWire.order, 1, place)
  BY DEF Places, LogoutFields, LogoutWire
<1>2. \A f \in DOMAIN LogoutFields : IsField(LogoutFields[f])
  BY FieldKinds DEF LogoutFields
<1> HIDE DEF place
<1> QED BY <1>1, <1>2, ByPlaces DEF Logout

\* The table of ReportProgress lists each of its fields once.
LEMMA ReportProgressWellFormed == WellFormed(ReportProgress)
<1> DEFINE place == [ClientId |-> 1, FileId |-> 2, Percentage |-> 3]
<1>1. Places(ReportProgressFields, ReportProgressWire.order, 3, place)
  BY DEF Places, ReportProgressFields, ReportProgressWire
<1>2. \A f \in DOMAIN ReportProgressFields : IsField(ReportProgressFields[f])
  BY FieldKinds DEF ReportProgressFields
<1> HIDE DEF place
<1> QED BY <1>1, <1>2, ByPlaces DEF ReportProgress

\* The table of PublishResource lists each of its fields once.
LEMMA PublishResourceWellFormed == WellFormed(PublishResource)
<1> DEFINE place == [ClientId |-> 1, FileId |-> 2]
<1>1. Places(PublishResourceFields, PublishResourceWire.order, 2, place)
  BY DEF Places, PublishResourceFields, PublishResourceWire
<1>2. \A f \in DOMAIN PublishResourceFields : IsField(PublishResourceFields[f])
  BY FieldKinds DEF PublishResourceFields
<1> HIDE DEF place
<1> QED BY <1>1, <1>2, ByPlaces DEF PublishResource

\* The table of MessageReply lists each of its fields once.
LEMMA MessageReplyWellFormed == WellFormed(MessageReply)
<1> DEFINE place == [ReturnCode |-> 1, Message |-> 2]
<1>1. Places(MessageReplyFields, MessageReplyWire.order, 2, place)
  BY DEF Places, MessageReplyFields, MessageReplyWire
<1>2. \A f \in DOMAIN MessageReplyFields : IsField(MessageReplyFields[f])
  BY FieldKinds DEF MessageReplyFields
<1> HIDE DEF place
<1> QED BY <1>1, <1>2, ByPlaces DEF MessageReply

\* The table of Ask lists each of its fields once.
LEMMA AskWellFormed == WellFormed(Ask)
<1> DEFINE place == [num |-> 1, type |-> 2, key |-> 3, counta |-> 4, countb |-> 5, fileid |-> 6, seed |-> 7, brief |-> 8, size |-> 9]
<1>1. Places(AskFields, AskWire.order, 9, place)
  BY DEF Places, AskFields, AskWire
<1>2. \A f \in DOMAIN AskFields : IsField(AskFields[f])
  BY FieldKinds DEF AskFields
<1> HIDE DEF place
<1> QED BY <1>1, <1>2, ByPlaces DEF Ask

\* The table of Info lists each of its fields once.
LEMMA InfoWellFormed == WellFormed(Info)
<1> DEFINE place == [filename |-> 1, time |-> 2, fileid |-> 3, size |-> 4, type |-> 5]
<1>1. Places(InfoFields, InfoWire.order, 5, place)
  BY DEF Places, InfoFields, InfoWire
<1>2. \A f \in DOMAIN InfoFields : IsField(InfoFields[f])
  BY FieldKinds DEF InfoFields
<1> HIDE DEF place
<1> QED BY <1>1, <1>2, ByPlaces DEF Info

\* The table of Reply lists each of its fields once.
LEMMA ReplyWellFormed == WellFormed(Reply)
<1> DEFINE place == [num |-> 1, flag |-> 2, info |-> 3, count |-> 4, brief |-> 5, seed |-> 6]
<1>1. Places(ReplyFields, ReplyWire.order, 6, place)
  BY DEF Places, ReplyFields, ReplyWire
<1>2. \A f \in DOMAIN ReplyFields : IsField(ReplyFields[f])
  BY FieldKinds DEF ReplyFields
<1> HIDE DEF place
<1> QED BY <1>1, <1>2, ByPlaces DEF Reply

\* The table of Chunk lists each of its fields once.
LEMMA ChunkWellFormed == WellFormed(Chunk)
<1> DEFINE place == [CheckSum |-> 1, Size |-> 2]
<1>1. Places(ChunkFields, ChunkWire.order, 2, place)
  BY DEF Places, ChunkFields, ChunkWire
<1>2. \A f \in DOMAIN ChunkFields : IsField(ChunkFields[f])
  BY FieldKinds DEF ChunkFields
<1> HIDE DEF place
<1> QED BY <1>1, <1>2, ByPlaces DEF Chunk

\* The table of File lists each of its fields once.
LEMMA FileWellFormed == WellFormed(File)
<1> DEFINE place == [CheckSum |-> 1, RelativePath |-> 2, Filename |-> 3, Size |-> 4, Chunk |-> 5]
<1>1. Places(FileFields, FileWire.order, 5, place)
  BY DEF Places, FileFields, FileWire
<1>2. \A f \in DOMAIN FileFields : IsField(FileFields[f])
  BY FieldKinds DEF FileFields
<1> HIDE DEF place
<1> QED BY <1>1, <1>2, ByPlaces DEF File

\* The table of Torrent lists each of its fields once.
LEMMA TorrentWellFormed == WellFormed(Torrent)
<1> DEFINE place == [TorrentId |-> 1, Type |-> 2, TotalSize |-> 3, CreateBy |-> 4, CreateTime |-> 5, TrackerAddress |-> 6, File |-> 7, Introduction |-> 8]
<1>1. Places(TorrentFields, TorrentWire.order, 8, place)
  BY DEF Places, TorrentFields, TorrentWire
<1>2. \A f \in DOMAIN TorrentFields : IsField(TorrentFields[f])
  BY FieldKinds DEF TorrentFields
<1> HIDE DEF place
<1> QED BY <1>1, <1>2, ByPlaces DEF Torrent

\* The table of HistoryFileInfo lists each of its fields once.
LEMMA HistoryFileInfoWellFormed == WellFormed(HistoryFileInfo)
<1> DEFINE place == [Fileid |-> 1, RelativePath |-> 2, Filename |-> 3, FileBit |-> 4, FileBitCount |-> 5]
<1>1. Places(HistoryFileInfoFields, HistoryFileInfoWire.order, 5, place)
  BY DEF Places, HistoryFileInfoFields, HistoryFileInfoWire
<1>2. \A f \in DOMAIN HistoryFileInfoFields : IsField(HistoryFileInfoFields[f])
  BY FieldKinds DEF HistoryFileInfoFields
<1> HIDE DEF place
<1> QED BY <1>1, <1>2, ByPlaces DEF HistoryFileInfo

\* The table of JobHistoryInfo lists each of its fields once.
LEMMA JobHistoryInfoWellFormed == WellFormed(JobHistoryInfo)
<1> DEFINE place == [TorrentPath |-> 1, LocalTopPath |-> 2, File |-> 3, UploadTotal |-> 4, DownloadTotal |-> 5]
<1>1. Places(JobHistoryInfoFields, JobHistoryInfoWire.order, 5, place)
  BY DEF Places, JobHistoryInfoFields, JobHistoryInfoWire
<1>2. \A f \in DOMAIN JobHistoryInfoFields : IsField(JobHistoryInfoFields[f])
  BY FieldKinds DEF JobHistoryInfoFields
<1> HIDE DEF place
<1> QED BY <1>1, <1>2, ByPlaces DEF JobHistoryInfo

\* The table of History lists each of its fields once.
LEMMA HistoryWellFormed == WellFormed(History)
<1> DEFINE place == [JobInfo |-> 1]
<1>1. Places(HistoryFields, HistoryWire.order, 1, place)
  BY DEF Places, HistoryFields, HistoryWire
<1>2. \A f \in DOMAIN HistoryFields : IsField(HistoryFields[f])
  BY FieldKinds DEF HistoryFields
<1> HIDE DEF place
<1> QED BY <1>1, <1>2, ByPlaces DEF History
-----------------------------------------------------------------------------
(* Messages that are cut                                                   *)

(* Fields before the last, which are none of them of its tag.              *)
LEMMA NoneBefore ==
  ASSUME NEW T, NEW fs \in Seq(Closed(T)), NEW tag, Tagged(fs, tag) = <<>>, NEW j \in 0 .. Len(fs)
  PROVE  /\ SubSeq(fs, 1, j) \in Seq(Fields(T)) /\ Tagged(SubSeq(fs, 1, j), tag) = <<>>
         /\ j < Len(fs) => fs[j + 1][1] # tag
<1>1. fs \in Seq(Fields(T))
  BY ClosedStream
<1> HIDE DEF Fields
<1>2. ASSUME NEW k \in 0 .. Len(fs)
      PROVE  SubSeq(fs, 1, k) \in Seq(Fields(T)) /\ Tagged(SubSeq(fs, 1, k), tag) = <<>>
  <2> DEFINE a == SubSeq(fs, 1, k)
             b == SubSeq(fs, k + 1, Len(fs))
  <2>1. a \in Seq(Fields(T)) /\ b \in Seq(Fields(T))
    BY <1>1
  <2>2. a \o b = fs
    <3> DEFINE c == a \o b
    <3>0. /\ Len(a) = k /\ \A i \in 1 .. k : a[i] = fs[i]
          /\ Len(b) = Len(fs) - k /\ \A i \in 1 .. Len(fs) - k : b[i] = fs[k + i]
      BY <1>1
    <3> HIDE DEF a, b
    <3>1. c \in Seq(Fields(T)) /\ Len(c) = Len(fs) /\ \A i \in 1 .. Len(fs) : c[i] = fs[i]
      <4>1. c \in Seq(Fields(T)) /\ Len(c) = Len(fs)
        BY <2>1, <3>0, ConcatProperties
      <4>2. ASSUME NEW i \in 1 .. Len(fs) PROVE c[i] = fs[i]
        <5>1. CASE i <= k
          BY <1>1, <2>1, <3>0, <5>1
        <5>2. CASE i > k
          <6>1. PICK m \in 1 .. Len(fs) - k : i = k + m
            BY <1>1, <5>2
          <6>2. c[i] = b[m]
            BY <1>1, <2>1, <3>0, <5>2, <6>1
          <6> QED BY <3>0, <6>1, <6>2
        <5>3. i <= k \/ i > k
          BY <1>1
        <5> QED BY <5>1, <5>2, <5>3
      <4> QED BY <4>1, <4>2
    <3> HIDE DEF c
    <3>2. c = fs
      BY <1>1, <3>1, SeqEqual
    <3> QED BY <3>2 DEF c
  <2> HIDE DEF a, b
  <2>3. Tagged(a, tag) \o Tagged(b, tag) = <<>>
    <3>1. Tagged(a \o b, tag) = Tagged(a, tag) \o Tagged(b, tag)
      BY <2>1, TaggedConcat
    <3> QED BY <2>2, <3>1
  <2>4. Tagged(a, tag) \in Seq(Seq(T)) /\ Tagged(b, tag) \in Seq(Seq(T))
    BY <2>1, TaggedIn
  <2>5. Tagged(a, tag) = <<>>
    <3> DEFINE x == Tagged(a, tag)
               y == Tagged(b, tag)
    <3>0. x \in Seq(Seq(T)) /\ y \in Seq(Seq(T)) /\ x \o y = <<>>
      BY <2>3, <2>4
    <3> HIDE DEF x, y
    <3>1. Len(x) + Len(y) = 0
      BY <3>0
    <3>2. x = <<>>
      BY <3>0, <3>1
    <3> QED BY <3>2 DEF x
  <2> QED BY <2>1, <2>5 DEF a
<1>3. ASSUME j < Len(fs), fs[j + 1][1] = tag PROVE FALSE
  <2> DEFINE a == SubSeq(fs, 1, j)
             q == fs[j + 1]
  <2>1. a \in Seq(Fields(T)) /\ q \in Fields(T)
    BY <1>1, <1>2, <1>3
  <2>2. SubSeq(fs, 1, j + 1) = Append(a, q)
    BY <1>1, <1>3, SubSeqNext
  <2>3. j + 1 \in 0 .. Len(fs)
    BY <1>3
  <2>4. Tagged(Append(a, q), tag) = <<>>
    BY <1>2, <2>2, <2>3
  <2>5. q[1] = tag
    BY <1>3
  <2> HIDE DEF a, q
  <2>6. Tagged(Append(a, q), tag) = Append(Tagged(a, tag), Tail(q)) /\ Tagged(a, tag) \in Seq(Seq(T))
    BY <2>1, <2>5, TaggedLaws
  <2>7. Tail(q) \in Seq(T)
    BY <2>1, TailIn
  <2> QED BY <2>4, <2>6, <2>7
<1> QED BY <1>2, <1>3

(* A cut before the end loses the last field, or leaves only its tag.      *)
LEMMA LastIsCut ==
  ASSUME NEW T, NEW fs \in Seq(Closed(T)), NEW tag, Tagged(fs, tag) = <<>>,
         NEW q \in Closed(T), Len(q) = 2, NEW split, NEW j \in 0 .. Len(fs),
         CutAfter(Append(fs, q), split, j)
  PROVE  Tagged(split, tag) = <<>> \/ \E i \in DOMAIN split : Len(split[i]) = 1
<1> DEFINE all == Append(fs, q)
           a == SubSeq(fs, 1, j)
<1>1. /\ Len(all) = Len(fs) + 1 /\ all[Len(fs) + 1] = q
      /\ \A i \in 1 .. Len(fs) : all[i] = fs[i]
      /\ SubSeq(all, 1, j) = a
  <2>1. all \in Seq(Closed(T)) /\ Len(all) = Len(fs) + 1 /\ all[Len(fs) + 1] = q
        /\ \A i \in 1 .. Len(fs) : all[i] = fs[i]
    BY AppendProperties
  <2> HIDE DEF all
  <2>2. SubSeq(all, 1, j) = a
    BY <2>1
  <2> QED BY <2>1, <2>2
<1>2. a \in Seq(Fields(T)) /\ Tagged(a, tag) = <<>> /\ (j < Len(fs) => fs[j + 1][1] # tag)
  BY NoneBefore
<1> HIDE DEF all
<1>3. CASE split = SubSeq(all, 1, j)
  BY <1>1, <1>2, <1>3
<1>4. CASE split # SubSeq(all, 1, j)
  <2>1. PICK m \in 1 .. Len(all[j + 1]) - 1 : split = Append(SubSeq(all, 1, j), SubSeq(all[j + 1], 1, m))
    BY <1>4 DEF CutAfter, all
  <2> DEFINE p == SubSeq(all[j + 1], 1, m)
  <2>2. split = Append(a, p)
    BY <1>1, <2>1
  <2>3. all[j + 1] \in Closed(T) /\ (j < Len(fs) => all[j + 1] = fs[j + 1]) /\ (j = Len(fs) => all[j + 1] = q)
    BY <1>1
  <2>4. p \in Fields(T) /\ p[1] = all[j + 1][1] /\ Len(p) = m
    <3>1. all[j + 1] \in Seq(T)
      BY <2>3 DEF Closed
    <3> DEFINE r == all[j + 1]
    <3> HIDE DEF r
    <3>2. r \in Seq(T) /\ m \in 1 .. Len(r) - 1
      BY <2>1, <3>1 DEF r
    <3>3. SubSeq(r, 1, m) \in Seq(T) /\ Len(SubSeq(r, 1, m)) = m /\ SubSeq(r, 1, m)[1] = r[1]
      BY <3>2
    <3> QED BY <3>2, <3>3 DEF r, Fields
  <2> HIDE DEF p, a
  <2>5. CASE j < Len(fs)
    <3>1. p[1] # tag
      BY <1>2, <2>3, <2>4, <2>5
    <3>2. Tagged(Append(a, p), tag) = Tagged(a, tag)
      BY <1>2, <2>4, <3>1, TaggedLaws
    <3> QED BY <1>2, <2>2, <3>2
  <2>6. CASE j = Len(fs)
    <3>1. Len(p) = 1
      <4>1. Len(all[j + 1]) = 2
        BY <2>3, <2>6
      <4>2. m = 1
        BY <2>1, <4>1
      <4> QED BY <2>4, <4>2
    <3>2. Len(a) + 1 \in DOMAIN split /\ split[Len(a) + 1] = p
      BY <1>2, <2>2, <2>4, AppendProperties
    <3> QED BY <3>1, <3>2
  <2> QED BY <2>5, <2>6
<1> QED BY <1>3, <1>4 DEF all

(* What a cut stream of a message still has, when its last field is a      *)
(* single number or text: not that field.                                  *)
LEMMA LastIsLost ==
  ASSUME NEW type, WellFormed(type), NEW msg, Fits(type, msg), NEW written_as,
         Streams(type, msg, written_as),
         NEW N, N = Len(type.order), NEW f, N # 0, f = type.order[N], f \in DOMAIN msg,
         ~IsRepeated(type, f), ~IsNested(type, N),
         NEW n \in 0 .. Len(StreamOf(type, msg, written_as)) - 1
  PROVE  LET fields == Split(SubSeq(StreamOf(type, msg, written_as), 1, n))
         IN  (\A i \in DOMAIN fields : FieldReads(type, fields[i])) => f \notin FieldsSet(type, fields)
<1> DEFINE groups == GroupsOf(type, msg, written_as)
           tag == Tag(N, KindOf(type, N))
           split == Split(SubSeq(StreamOf(type, msg, written_as), 1, n))
<1>0. type.order \in Seq(DOMAIN type.fields) /\ N \in Nat \ {0} /\ N \in DOMAIN type.order /\ DOMAIN type.order = 1 .. N
  <2>1. type.order \in Seq(DOMAIN type.fields)
    BY DEF WellFormed
  <2> DEFINE s == type.order
             S == DOMAIN type.fields
  <2>2. s \in Seq(S) /\ N = Len(s)
    BY <2>1
  <2> HIDE DEF s, S
  <2>3. N \in Nat \ {0} /\ DOMAIN s = 1 .. N /\ N \in 1 .. N
    BY <2>2
  <2> QED BY <2>1, <2>3 DEF s
<1>1. Grouped(type, msg, groups)
  BY GroupsAreGrouped
<1>2. PICK T : groups \in Seq(Seq(Closed(T))) /\ Len(groups) = N
  <2> HIDE DEF groups
  <2> QED BY <1>1, OneSet
<1>3. f \in DOMAIN type.fields
  BY DEF Fits
<1>4. /\ Len(groups[N]) = 1 /\ groups[N][1][1] = tag /\ groups[N] \in Seq(Closed(T))
      /\ groups[N][1] \in Closed(T) /\ Len(groups[N][1]) = 2
  <2>1. groups[N] \in Seq(Closed(T))
    BY <1>0, <1>2
  <2>2. groups[N] = GroupOf(type, msg, written_as, N)
    BY <1>0 DEF GroupsOf
  <2>3. ValuesOf(type, msg, N) = One(msg[f])
    BY <1>3, ValuesFacts DEF ValuesOf, One
  <2>4. DOMAIN groups[N] = 1 .. 1
    <3>1. DOMAIN ValuesOf(type, msg, N) = 1 .. 1
      BY <2>3 DEF One
    <3> QED BY <2>2, <3>1 DEF GroupOf
  <2>5. Len(groups[N]) = 1
    <3> DEFINE g == groups[N]
    <3>1. g \in Seq(Closed(T)) /\ DOMAIN g = 1 .. 1
      BY <2>1, <2>4
    <3> HIDE DEF g, groups
    <3>2. Len(g) \in Nat /\ DOMAIN g = 1 .. Len(g)
      BY <3>1, LenProperties
    <3>3. 1 .. Len(g) = 1 .. 1
      BY <3>1, <3>2
    <3>4. Len(g) = 1
      BY <3>2, <3>3
    <3> QED BY <3>4 DEF g
  <2>6. groups[N][1] \in Closed(T)
    BY <2>1, <2>5
  <2>7. 1 \in DOMAIN ValuesOf(type, msg, N)
    BY <2>3 DEF One
  <2>8. groups[N][1] = Cons(tag, One(Token(KindOf(type, N).kind, ValuesOf(type, msg, N)[1])))
    BY <2>2, <2>7 DEF GroupOf, Content
  <2> DEFINE l == Token(KindOf(type, N).kind, ValuesOf(type, msg, N)[1])
  <2>9. groups[N][1] = Cons(tag, One(l))
    BY <2>8
  <2> HIDE DEF l, tag, groups
  <2>10. Len(Cons(tag, One(l))) = 2 /\ Cons(tag, One(l))[1] = tag
    <3>1. One(l) \in Seq({tag, l}) /\ Len(One(l)) = 1
      BY OneFacts
    <3>2. Len(Cons(tag, One(l))) = Len(One(l)) + 1 /\ Cons(tag, One(l))[1] = tag
      BY <3>1, Prepend
    <3> QED BY <3>1, <3>2
  <2> QED BY <2>1, <2>5, <2>6, <2>9, <2>10
<1> DEFINE before == SubSeq(groups, 1, N - 1)
           q == groups[N][1]
           fs == FlattenSeq(before)
<1>5. FlattenSeq(groups) = Append(fs, q) /\ fs \in Seq(Closed(T)) /\ Tagged(fs, tag) = <<>>
  <2>1. before \in Seq(Seq(Closed(T))) /\ groups = Append(before, groups[N]) /\ Len(before) = N - 1
        /\ \A m \in 1 .. N - 1 : before[m] = groups[m]
    <3> HIDE DEF groups
    <3>1. before \in Seq(Seq(Closed(T))) /\ Len(before) = N - 1 /\ \A m \in 1 .. N - 1 : before[m] = groups[m]
      BY <1>0, <1>2
    <3> HIDE DEF before
    <3> DEFINE c == Append(before, groups[N])
    <3>2. c \in Seq(Seq(Closed(T))) /\ Len(c) = N /\ \A m \in 1 .. N : c[m] = groups[m]
      BY <1>0, <1>4, <3>1, AppendProperties
    <3> HIDE DEF c
    <3>3. c = groups
      BY <1>2, <3>2, SeqEqual
    <3> QED BY <3>1, <3>3 DEF c
  <2>2. Ordered(before, tag, N)
    <3> SUFFICES ASSUME NEW m \in DOMAIN before, NEW i \in DOMAIN before[m]
                 PROVE  before[m][i][1] = tag <=> m = N
      BY DEF Ordered
    <3>1. m \in 1 .. N - 1 /\ before[m] = groups[m]
      BY <2>1
    <3>2. m # N /\ m \in DOMAIN type.order
      BY <1>0, <3>1
    <3>3. groups[m][i][1] = Tag(m, Element(type, type.order[m]))
      <4> HIDE DEF groups, before
      <4>1. i \in DOMAIN groups[m]
        BY <3>1
      <4> QED BY <1>1, <3>2, <4>1 DEF Grouped
    <3>4. groups[m][i][1] # tag
      BY <3>2, <3>3, TagsDiffer
    <3> HIDE DEF groups, tag, before
    <3> QED BY <3>1, <3>2, <3>4
  <2>3. N \notin DOMAIN before
    <3> HIDE DEF before
    <3> QED BY <1>0, <2>1
  <2> HIDE DEF before, tag, groups
  <2>4. Tagged(FlattenSeq(before), tag) = Picked(before, N)
    BY <2>1, <2>2, GroupsTagged
  <2>5. Tagged(fs, tag) = <<>>
    BY <2>3, <2>4 DEF Picked
  <2>6. fs \in Seq(Closed(T)) /\ FlattenSeq(groups) = fs \o groups[N]
    BY <1>4, <2>1, FieldsTogether
  <2>7. fs \o groups[N] = Append(fs, q)
    <3> DEFINE c == fs \o groups[N]
               d == Append(fs, q)
    <3> HIDE DEF fs
    <3>1. c \in Seq(Closed(T)) /\ Len(c) = Len(fs) + 1 /\ c[Len(fs) + 1] = q
          /\ \A i \in 1 .. Len(fs) : c[i] = fs[i]
      <4> DEFINE g == groups[N]
      <4>1. g \in Seq(Closed(T)) /\ Len(g) = 1 /\ g[1] = q
        BY <1>4 DEF q
      <4>2. c = fs \o g
        OBVIOUS
      <4> HIDE DEF g, q, c
      <4>3. fs \o g \in Seq(Closed(T)) /\ Len(fs \o g) = Len(fs) + Len(g)
            /\ \A i \in 1 .. Len(fs) + Len(g) :
                 (fs \o g)[i] = IF i <= Len(fs) THEN fs[i] ELSE g[i - Len(fs)]
        BY <2>6, <4>1, ConcatProperties
      <4>4. Len(fs) \in Nat /\ (Len(fs) + 1) - Len(fs) = 1
        BY <2>6
      <4> QED BY <4>1, <4>2, <4>3, <4>4
    <3>2. d \in Seq(Closed(T)) /\ Len(d) = Len(fs) + 1 /\ d[Len(fs) + 1] = q
          /\ \A i \in 1 .. Len(fs) : d[i] = fs[i]
      BY <1>4, <2>6, AppendProperties
    <3> HIDE DEF c, d, q
    <3>3. \A i \in 1 .. Len(c) : c[i] = d[i]
      <4> SUFFICES ASSUME NEW i \in 1 .. Len(c)
                   PROVE  c[i] = d[i]
        OBVIOUS
      <4>1. Len(fs) \in Nat /\ Len(c) = Len(fs) + 1
        BY <2>6, <3>1
      <4>2. i \in 1 .. Len(fs) \/ i = Len(fs) + 1
        BY ONLY <4>1, i \in 1 .. Len(c)
      <4> QED BY ONLY <3>1, <3>2, <4>2
    <3>4. c = d
      BY <3>1, <3>2, <3>3, SeqEqual
    <3> QED BY <3>4 DEF c, d
  <2> QED BY <2>5, <2>6, <2>7
<1>6. \E j \in 0 .. Len(fs) : CutAfter(Append(fs, q), split, j)
  <2> DEFINE all == FlattenSeq(groups)
  <2>1. all = Append(fs, q) /\ q \in Closed(T)
    BY <1>4, <1>5
  <2> HIDE DEF fs, q
  <2>2. all \in Seq(Closed(T)) /\ Len(all) = Len(fs) + 1
    BY <1>5, <2>1, AppendProperties
  <2>3. StreamOf(type, msg, written_as) = FlattenSeq(all)
    BY DEF StreamOf
  <2> HIDE DEF all, groups
  <2>4. Len(FlattenSeq(all)) \in Nat
    BY <2>2, ClosedStream
  <2>5. n \in 0 .. Len(FlattenSeq(all)) /\ n < Len(FlattenSeq(all))
    BY <2>3, <2>4
  <2>6. PICK j \in 0 .. Len(all) : CutAfter(all, Split(SubSeq(FlattenSeq(all), 1, n)), j) /\ j < Len(all)
    BY <2>2, <2>5, FlattenCut
  <2>7. j \in 0 .. Len(fs)
    BY <1>5, <2>2, <2>6
  <2> QED BY <2>1, <2>3, <2>6, <2>7
<1> HIDE DEF fs, q, split, tag, groups, before
<1>7. Tagged(split, tag) = <<>> \/ \E i \in DOMAIN split : Len(split[i]) = 1
  <2>1. q \in Closed(T) /\ Len(q) = 2
    BY <1>4 DEF q
  <2> QED BY <1>5, <1>6, <2>1, LastIsCut
<1>8. ASSUME NEW i \in DOMAIN split, Len(split[i]) = 1 PROVE ~FieldReads(type, split[i])
  BY <1>8 DEF FieldReads, IsWhole
<1>9. ASSUME Tagged(split, tag) = <<>> PROVE f \notin FieldsSet(type, split)
  <2>1. Pieces(type, split, N) = <<>>
    BY <1>9 DEF Pieces, tag, KindOf
  <2>2. ~IsSet(type, split, N)
    BY <2>1 DEF IsSet
  <2>3. \A m \in DOMAIN type.order : type.order[m] = f => m = N
    BY <1>0 DEF WellFormed
  <2> QED BY <2>2, <2>3 DEF FieldsSet
<1> QED BY <1>7, <1>8, <1>9 DEF split
\* A nested message that is cut before its end lacks its last field: when that
\* field is required, it is not read at all.
LEMMA InnerCut ==
  ASSUME NEW type, WellFormed(type), NEW msg, Fits(type, msg),
         \A f \in DOMAIN msg : Element(type, f).kind = "message" =>
           \A i \in DOMAIN Values(type, msg, f) : LeafOK(Element(type, f).of, Values(type, msg, f)[i]),
         NEW N, N = Len(type.order), N # 0, type.order[N] \in DOMAIN msg,
         ~IsRepeated(type, type.order[N]), ~IsNested(type, N),
         NEW n \in 0 .. Len(EncodeInner(type, msg)) - 1
  PROVE  LET cut == SubSeq(EncodeInner(type, msg), 1, n)
         IN  InnerRead(type, cut) => type.order[N] \notin DOMAIN DecodeInner(type, cut)
                                  /\ type.order[N] \notin type.required
<1>1. PICK written_as : /\ EncodeInner(type, msg) = StreamOf(type, msg, written_as)
                        /\ Streams(type, msg, written_as)
  BY InnerWritten
<1> DEFINE fields == Split(SubSeq(StreamOf(type, msg, written_as), 1, n))
<1>2. (\A i \in DOMAIN fields : FieldReads(type, fields[i])) => type.order[N] \notin FieldsSet(type, fields)
  BY <1>1, LastIsLost
<1> QED BY <1>1, <1>2 DEF InnerRead, AllRead, DecodeInner, DecodeAll

\* A message that is cut before its end lacks its last field: when that field is
\* required, it is not read at all.
LEMMA OuterCut ==
  ASSUME NEW type, WellFormed(type), NEW msg, Fits(type, msg),
         \A f \in DOMAIN msg : Element(type, f).kind = "message" =>
           \A i \in DOMAIN Values(type, msg, f) : InnerOK(Element(type, f).of, Values(type, msg, f)[i]),
         NEW N, N = Len(type.order), N # 0, type.order[N] \in DOMAIN msg,
         ~IsRepeated(type, type.order[N]), ~IsNested(type, N),
         NEW n \in 0 .. Len(Encode(type, msg)) - 1
  PROVE  LET cut == SubSeq(Encode(type, msg), 1, n)
         IN  IsRead(type, cut) => type.order[N] \notin DOMAIN Decode(type, cut)
                                  /\ type.order[N] \notin type.required
<1>1. PICK written_as : /\ Encode(type, msg) = StreamOf(type, msg, written_as)
                        /\ Streams(type, msg, written_as)
  BY OuterWritten
<1> DEFINE fields == Split(SubSeq(StreamOf(type, msg, written_as), 1, n))
<1>2. (\A i \in DOMAIN fields : FieldReads(type, fields[i])) => type.order[N] \notin FieldsSet(type, fields)
  BY <1>1, LastIsLost
<1> QED BY <1>1, <1>2 DEF IsRead, AllRead, Decode, DecodeAll
-----------------------------------------------------------------------------
(* Bitmaps                                                                 *)

\* A number from its quotient and remainder.
LEMMA DivMod ==
  ASSUME NEW b \in Nat \ {0}, NEW i \in Nat
  PROVE  i \div b \in Nat /\ i % b \in 0 .. b - 1 /\ i % b = i - b * (i \div b)
OBVIOUS

\* Multiplication by a positive number is monotonic.
LEMMA Larger ==
  ASSUME NEW b \in Nat \ {0}, NEW m \in Int, NEW n \in Int, m <= n
  PROVE  b * m <= b * n
<1> DEFINE k == n - m
<1>1. k \in Nat /\ n = m + k
  OBVIOUS
<1>2. b * k >= 0 /\ b * k \in Int
  BY <1>1
<1> HIDE DEF k
<1>3. b * n = b * m + b * k
  BY <1>1
<1> QED BY <1>2, <1>3

\* The blocks of a bitmap have room for its bits.
LEMMA BlocksCover ==
  ASSUME NEW size \in Nat
  PROVE  /\ Blocks(size) \in Nat /\ size <= Blocks(size) * BlockBits
         /\ \A i \in 0 .. size - 1 : i \div BlockBits + 1 \in 1 .. Blocks(size)
<1> DEFINE b == BlockBits
           q == Blocks(size)
<1>1. b \in Nat \ {0}
  BY BlockBitsAssumption
<1>2. q = (size + b - 1) \div b /\ size + b - 1 \in Nat
  BY <1>1 DEF Blocks
<1> DEFINE r == (size + b - 1) % b
<1>3. q \in Nat /\ r = (size + b - 1) - b * q /\ r \in 0 .. b - 1
  BY <1>1, <1>2, DivMod
<1> HIDE DEF b, q, r
<1>4. size <= b * q /\ b * q = q * b /\ b * q \in Nat
  <2>1. b * q \in Nat /\ b * q = q * b
    BY <1>1, <1>3
  <2> QED BY <1>1, <1>3, <2>1
<1>5. ASSUME NEW i \in 0 .. size - 1 PROVE i \div b + 1 \in 1 .. q
  <2> DEFINE d == i \div b
             e == i % b
  <2>0. d \in Nat /\ e = i - b * d /\ e \in 0 .. b - 1
    <3>1. i \in Nat
      OBVIOUS
    <3> QED BY <1>1, <3>1, DivMod
  <2> HIDE DEF d, e
  <2>1. d \in Nat /\ i = b * d + e /\ e \in 0 .. b - 1
    <3>1. b * d \in Int
      BY <1>1, <2>0
    <3> QED BY <2>0, <3>1
  <2>2. CASE d >= q
    <3>1. b * q <= b * d
      BY <1>1, <1>3, <2>1, <2>2, Larger
    <3>2. b * d \in Nat
      BY <1>1, <2>1
    <3> QED BY <1>4, <2>1, <3>1, <3>2
  <2>3. CASE d < q
    BY <1>3, <2>1, <2>3 DEF d
  <2> QED BY <1>3, <2>1, <2>2, <2>3
<1> QED BY <1>3, <1>4, <1>5 DEF b, q

(* What goes into a message comes out of it.                               *)
LEMMA BitmapRoundTrip ==
  ASSUME NEW size \in Nat, NEW bitmap \in Bitmaps(size)
  PROVE  /\ bitmap.size = size
         /\ to_block_range(bitmap) \in Seq(SUBSET Nat)
         /\ resize(from_block_range(to_block_range(bitmap)), size) = bitmap
<1> DEFINE b == BlockBits
           q == Blocks(size)
           blocks == to_block_range(bitmap)
<1>1. PICK ones \in SUBSET (0 .. size - 1) : bitmap = Bitmap(size, ones)
  BY DEF Bitmaps
<1>2. bitmap.size = size /\ bitmap.ones = ones
  BY <1>1 DEF Bitmap
<1>3. b \in Nat \ {0}
  BY BlockBitsAssumption
<1>4. /\ q \in Nat /\ size <= q * b
      /\ \A i \in 0 .. size - 1 : i \div b + 1 \in 1 .. q
  BY BlocksCover
<1>5. blocks = [block \in 1 .. q |-> {i % b : i \in {j \in ones : j \div b = block - 1}}]
  BY <1>2 DEF to_block_range
<1> HIDE DEF b, q, blocks
<1>6. blocks \in [1 .. q -> SUBSET Nat]
  <2>1. \A i \in ones : i % b \in Nat
    BY <1>3, DivMod
  <2> QED BY <1>5, <2>1
<1>7. blocks \in Seq(SUBSET Nat) /\ Len(blocks) = q
  BY <1>4, <1>6
<1>8. ASSUME NEW i \in 0 .. size - 1
      PROVE  i % b \in blocks[i \div b + 1] <=> i \in ones
  <2> DEFINE d == i \div b
             e == i % b
  <2>0. d \in Nat /\ e = i - b * d /\ d + 1 \in 1 .. q
    <3>1. i \in Nat
      OBVIOUS
    <3> QED BY <1>3, <1>4, <3>1, DivMod
  <2> HIDE DEF e, d
  <2>1. d \in Nat /\ b * d \in Int /\ (d + 1) - 1 = d
    BY <1>3, <2>0
  <2>2. blocks[d + 1] = {j % b : j \in {k \in ones : k \div b = d}}
    BY <1>5, <2>0, <2>1
  <2>3. ASSUME NEW j \in ones, j \div b = d, j % b = e PROVE j = i
    <3>1. j \in Nat
      OBVIOUS
    <3>2. j % b = j - b * (j \div b)
      BY <1>3, <3>1, DivMod
    <3>3. e = j - b * d
      BY <2>3, <3>2
    <3> QED BY <2>0, <2>1, <3>1, <3>3
  <2>4. ASSUME i \in ones PROVE e \in blocks[d + 1]
    BY <2>2, <2>4 DEF d, e
  <2>5. ASSUME e \in blocks[d + 1] PROVE i \in ones
    BY <2>2, <2>3, <2>5
  <2>6. e \in blocks[d + 1] <=> i \in ones
    BY <2>4, <2>5
  <2> QED BY <2>6 DEF d, e
<1>9. from_block_range(blocks) = Bitmap(q * b, {i \in 0 .. q * b - 1 : i % b \in blocks[i \div b + 1]})
  BY <1>7 DEF from_block_range, b
<1>10. {i \in 0 .. q * b - 1 : i % b \in blocks[i \div b + 1]} \cap (0 .. size - 1) = ones
  <2>1. q * b \in Int
    BY <1>3, <1>4
  <2>2. \A i \in 0 .. size - 1 : i \in 0 .. q * b - 1
    BY <1>4, <2>1
  <2> QED BY <1>8, <2>2
<1>11. resize(from_block_range(blocks), size) = Bitmap(size, ones)
  <2>1. Bitmap(q * b, {i \in 0 .. q * b - 1 : i % b \in blocks[i \div b + 1]}).ones
          = {i \in 0 .. q * b - 1 : i % b \in blocks[i \div b + 1]}
    BY DEF Bitmap
  <2>2. from_block_range(blocks).ones \cap (0 .. size - 1) = ones
    BY <1>9, <1>10, <2>1
  <2> QED BY <2>2 DEF resize
<1> QED BY <1>1, <1>2, <1>7, <1>11 DEF blocks

-----------------------------------------------------------------------------
(* Sequences, cut and joined                                               *)

\* Two sequences with the same elements.
LEMMA SameSeq ==
  ASSUME NEW s, IsSeq(s), NEW t, IsSeq(t), Len(s) = Len(t), \A i \in 1 .. Len(s) : s[i] = t[i]
  PROVE  s = t
<1>1. s = [i \in 1 .. Len(s) |-> s[i]] /\ t = [i \in 1 .. Len(t) |-> t[i]]
  BY SeqFacts
<1> QED BY <1>1

\* Two sequences are sequences over one set.
LEMMA OneElementSet ==
  ASSUME NEW a, IsSeq(a), NEW b, IsSeq(b)
  PROVE  \E T : a \in Seq(T) /\ b \in Seq(T)
<1>1. PICK A : a \in Seq(A)
  BY DEF IsSeq
<1>2. PICK B : b \in Seq(B)
  BY DEF IsSeq
<1>3. A \subseteq A \cup B /\ B \subseteq A \cup B
  OBVIOUS
<1>4. a \in Seq(A \cup B) /\ b \in Seq(A \cup B)
  BY <1>1, <1>2, <1>3, SeqMonotonic
<1> QED BY <1>4

\* A sequence cut in two.
LEMMA Cutting ==
  ASSUME NEW s, IsSeq(s), NEW k \in 0 .. Len(s)
  PROVE  LET a == SubSeq(s, 1, k)
             b == SubSeq(s, k + 1, Len(s))
         IN  /\ IsSeq(a) /\ Len(a) = k /\ \A i \in 1 .. k : a[i] = s[i]
             /\ IsSeq(b) /\ Len(b) = Len(s) - k /\ \A i \in 1 .. Len(s) - k : b[i] = s[i + k]
             /\ k = Len(s) => a = s /\ b = <<>>
             /\ k = 0 => a = <<>> /\ b = s
<1> DEFINE a == SubSeq(s, 1, k)
           b == SubSeq(s, k + 1, Len(s))
<1>1. PICK T : s \in Seq(T)
  BY DEF IsSeq
<1> DEFINE n == Len(s)
<1>2. n \in Nat /\ k \in 0 .. n /\ \A i \in 1 .. n : s[i] \in T
  BY <1>1
<1>3. a \in Seq(T) /\ Len(a) = k /\ \A i \in 1 .. k : a[i] = s[i]
  <2>1. \A i \in 1 .. k : s[i] \in T
    BY <1>2
  <2>2. /\ a \in Seq(T) /\ Len(a) = IF 1 <= k THEN k - 1 + 1 ELSE 0
        /\ \A i \in 1 .. k - 1 + 1 : a[i] = s[1 + i - 1]
    <3>1. 1 \in Int /\ k \in Int
      BY <1>2
    <3> QED BY <2>1, <3>1, SubSeqProperties
  <2> HIDE DEF a, n
  <2>3. Len(a) = k
    BY <1>2, <2>2
  <2>4. \A i \in 1 .. k : i \in 1 .. k - 1 + 1 /\ 1 + i - 1 = i
    BY <1>2
  <2>5. \A i \in 1 .. k : a[i] = s[i]
    BY <2>2, <2>4
  <2> QED BY <2>2, <2>3, <2>5
<1>4. b \in Seq(T) /\ Len(b) = n - k /\ \A i \in 1 .. n - k : b[i] = s[i + k]
  <2>1. \A i \in k + 1 .. n : s[i] \in T
    BY <1>2
  <2>2. /\ b \in Seq(T) /\ Len(b) = IF k + 1 <= n THEN n - (k + 1) + 1 ELSE 0
        /\ \A i \in 1 .. n - (k + 1) + 1 : b[i] = s[(k + 1) + i - 1]
    <3>1. k + 1 \in Int /\ n \in Int
      BY <1>2
    <3> QED BY <2>1, <3>1, SubSeqProperties
  <2> HIDE DEF b, n
  <2>3. Len(b) = n - k
    BY <1>2, <2>2
  <2>4. \A i \in 1 .. n - k : i \in 1 .. n - (k + 1) + 1 /\ (k + 1) + i - 1 = i + k
    BY <1>2
  <2>5. \A i \in 1 .. n - k : b[i] = s[i + k]
    BY <2>2, <2>4
  <2> QED BY <2>2, <2>3, <2>5
<1>5. IsSeq(a) /\ IsSeq(b)
  BY <1>3, <1>4 DEF IsSeq
<1> HIDE DEF a, b
<1>6. k = n => a = s /\ b = <<>>
  <2>1. k = n => a = s
    BY <1>3, <1>5, SameSeq
  <2>2. k = n => Len(b) = 0
    BY <1>2, <1>4
  <2> QED BY <1>4, <2>1, <2>2
<1>7. k = 0 => a = <<>> /\ b = s
  <2>1. k = 0 => Len(b) = n
    BY <1>2, <1>4
  <2>2. k = 0 => \A i \in 1 .. n : b[i] = s[i]
    BY <1>2, <1>4
  <2>3. k = 0 => b = s
    BY <1>5, <2>1, <2>2, SameSeq
  <2> QED BY <1>3, <2>3
<1> HIDE DEF n
<1> QED BY <1>3, <1>4, <1>5, <1>6, <1>7 DEF a, b, n

\* A sequence after another.
LEMMA Joining ==
  ASSUME NEW a, IsSeq(a), NEW b, IsSeq(b)
  PROVE  LET s == a \o b
         IN  /\ IsSeq(s) /\ Len(s) = Len(a) + Len(b) /\ Len(a) \in Nat /\ Len(b) \in Nat
             /\ \A i \in 1 .. Len(a) : s[i] = a[i]
             /\ \A i \in 1 .. Len(b) : s[i + Len(a)] = b[i]
             /\ SubSeq(s, 1, Len(a)) = a /\ SubSeq(s, Len(a) + 1, Len(s)) = b
             /\ a = <<>> => s = b
             /\ b = <<>> => s = a
<1> DEFINE s == a \o b
           m == Len(a)
           n == Len(b)
<1>1. PICK T : a \in Seq(T) /\ b \in Seq(T)
  BY OneElementSet
<1>2. m \in Nat /\ n \in Nat
  BY <1>1
<1>3. s \in Seq(T) /\ Len(s) = m + n /\ \A i \in 1 .. m + n : s[i] = IF i <= m THEN a[i] ELSE b[i - m]
  BY <1>1, ConcatProperties
<1>4. (a = <<>> => s = b) /\ (b = <<>> => s = a)
  BY <1>1
<1> HIDE DEF s, m, n
<1>5. \A i \in 1 .. m : s[i] = a[i]
  BY <1>2, <1>3
<1>6. \A i \in 1 .. n : s[i + m] = b[i]
  <2>1. \A i \in 1 .. n : i + m \in 1 .. m + n /\ ~(i + m <= m) /\ i + m - m = i
    BY <1>2
  <2>2. ASSUME NEW i \in 1 .. n PROVE s[i + m] = b[i]
    <3> DEFINE j == i + m
    <3>1. j \in 1 .. m + n /\ ~(j <= m) /\ j - m = i
      BY <1>2
    <3> HIDE DEF j
    <3>2. s[j] = b[i]
      BY <1>3, <3>1
    <3> QED BY <3>2 DEF j
  <2> QED BY <2>2
<1>7. IsSeq(s)
  BY <1>3 DEF IsSeq
<1>8. m \in 0 .. Len(s) /\ Len(s) - m = n
  BY <1>2, <1>3
<1> DEFINE x == SubSeq(s, 1, m)
           y == SubSeq(s, m + 1, Len(s))
<1>9. /\ IsSeq(x) /\ Len(x) = m /\ \A i \in 1 .. m : x[i] = s[i]
      /\ IsSeq(y) /\ Len(y) = Len(s) - m /\ \A i \in 1 .. Len(s) - m : y[i] = s[i + m]
  BY <1>7, <1>8, Cutting
<1> HIDE DEF x, y
<1>10. x = a
  BY <1>5, <1>9, SameSeq DEF m
<1>11. y = b
  BY <1>6, <1>8, <1>9, SameSeq DEF n
<1> QED BY <1>2, <1>3, <1>4, <1>5, <1>6, <1>7, <1>10, <1>11 DEF s, m, n, x, y

\* ThreeOf sequences, one after the other.
LEMMA JoinThree ==
  ASSUME NEW a, IsSeq(a), NEW b, IsSeq(b), NEW c, IsSeq(c)
  PROVE  (a \o b) \o c = a \o (b \o c)
<1>1. PICK A : a \in Seq(A)
  BY DEF IsSeq
<1>2. PICK B : b \in Seq(B) /\ c \in Seq(B)
  BY OneElementSet
<1>3. A \subseteq A \cup B /\ B \subseteq A \cup B
  OBVIOUS
<1>4. a \in Seq(A \cup B) /\ b \in Seq(A \cup B) /\ c \in Seq(A \cup B)
  BY <1>1, <1>2, <1>3, SeqMonotonic
<1> QED BY <1>4, ConcatAssociative

-----------------------------------------------------------------------------
(* The fields of a header                                                  *)

\* The kinds of fields.
LEMMA KindFacts ==
  /\ Text.kind = "text"
  /\ \A d : Number(d).kind = "number"
  /\ \A t : Nested(t).kind = "message" /\ Nested(t).of = t
  /\ \A k : Repeated(k).kind = "repeated" /\ Repeated(k).of = k
BY DEF Text, Number, Nested, Repeated

(* A message without nested messages.                                      *)
Flat(type) == \A f \in DOMAIN type.fields : Element(type, f).kind # "message"

\* A message without nested messages is read as it was written, at any depth.
LEMMA FlatOK ==
  ASSUME NEW type, WellFormed(type), Flat(type), NEW msg, Fits(type, msg)
  PROVE  LeafOK(type, msg) /\ InnerOK(type, msg) /\ OuterOK(type, msg)
<1>1. \A f \in DOMAIN msg : Element(type, f).kind # "message"
  BY DEF Flat, Fits
<1>2. LeafOK(type, msg)
  BY <1>1, LeafRoundTrip
<1>3. InnerOK(type, msg)
  BY <1>1, InnerRoundTrip
<1>4. OuterOK(type, msg)
  BY <1>1, OuterRoundTrip
<1> QED BY <1>2, <1>3, <1>4

\* A stream with a token too many, which is not all of a field, is not read.
LEMMA LoneToken ==
  ASSUME NEW type, WellFormed(type), Flat(type), NEW msg, Fits(type, msg), NEW t
  PROVE  ~IsRead(type, Append(Encode(type, msg), t))
<1> DEFINE s == Encode(type, msg)
           fs == Split(s)
           more == Split(Append(s, t))
<1>1. PICK w : s = StreamOf(type, msg, w) /\ Streams(type, msg, w)
  BY OuterWritten DEF Flat, Fits
<1>2. IsSeq(s) /\ \A i \in DOMAIN fs : FieldReads(type, fs[i])
  <2> DEFINE groups == GroupsOf(type, msg, w)
  <2>1. Grouped(type, msg, groups)
    BY <1>1, GroupsAreGrouped
  <2>2. s = FlattenSeq(FlattenSeq(groups))
    BY <1>1 DEF StreamOf
  <2> HIDE DEF s, groups
  <2> QED BY <2>1, <2>2, Layout
<1>3. \A i \in DOMAIN fs : IsWhole(fs[i])
  <2>1. \A n \in DOMAIN type.order : type.order[n] \in DOMAIN type.fields
    BY DEF WellFormed
  <2> QED BY <1>2, <2>1 DEF FieldReads, Flat
<1> HIDE DEF s
<1>4. PICK T : s \in Seq(T)
  BY <1>2 DEF IsSeq
<1> DEFINE U == T \cup {t}
<1>5. s \in Seq(U) /\ t \in U
  BY <1>4
<1> HIDE DEF U
<1>6. fs \in Seq(Seq(U)) /\ more = AddToken(fs, t)
  BY <1>5, SplitLaws
<1>7. more = Append(fs, One(t)) /\ One(t) \in Seq(U) /\ Len(One(t)) = 1
  <2>1. fs = <<>> \/ IsWhole(fs[Len(fs)])
    BY <1>3, <1>6
  <2> QED BY <1>5, <1>6, <2>1, OneFacts DEF AddToken, One
<1> HIDE DEF fs, more
<1>8. Len(fs) + 1 \in DOMAIN more /\ more[Len(fs) + 1] = One(t)
  BY <1>6, <1>7
<1>9. ~FieldReads(type, One(t))
  BY <1>7 DEF FieldReads, IsWhole
<1> QED BY <1>8, <1>9 DEF IsRead, AllRead, more, s

\* What is read of a stream that is read to its end.
LEMMA ParseFacts ==
  ASSUME NEW type, NEW stream
  PROVE  /\ IsRead(type, stream) => Parse(type, stream) = Read(Decode(type, stream))
                                     /\ Parse(type, stream).ok /\ Parse(type, stream).msg = Decode(type, stream)
         /\ ~IsRead(type, stream) => ~Parse(type, stream).ok
BY DEF Parse, Read, Cut

ThreeOf(a, b, c) == <<a, b, c>>

\* ThreeOf elements, one after the other.
LEMMA AppendThree ==
  ASSUME NEW a, NEW b, NEW c
  PROVE  Append(Append(Append(<<>>, a), b), c) = ThreeOf(a, b, c)
<1> DEFINE S == {a, b, c}
           r0 == <<>>
           r1 == Append(r0, a)
           r2 == Append(r1, b)
           r3 == Append(r2, c)
           r == <<a, b, c>>
<1>1. r \in Seq(S) /\ Len(r) = 3 /\ r[1] = a /\ r[2] = b /\ r[3] = c
  OBVIOUS
<1>2. a \in S /\ b \in S /\ c \in S /\ r0 \in Seq(S) /\ Len(r0) = 0
  OBVIOUS
<1> HIDE DEF S, r0, r
<1>3. r1 \in Seq(S) /\ Len(r1) = 1 /\ r1[1] = a
  BY <1>2, AppendProperties
<1> HIDE DEF r1
<1>4. r2 \in Seq(S) /\ Len(r2) = 2 /\ r2[1] = a /\ r2[2] = b
  <2>1. r2 \in Seq(S) /\ Len(r2) = Len(r1) + 1 /\ \A i \in 1 .. Len(r1) : r2[i] = r1[i]
    BY <1>2, <1>3, AppendProperties
  <2>2. r2[Len(r1) + 1] = b
    BY <1>2, <1>3, AppendProperties
  <2> HIDE DEF r2
  <2> QED BY <1>3, <2>1, <2>2
<1> HIDE DEF r2
<1>5. r3 \in Seq(S) /\ Len(r3) = 3 /\ r3[1] = a /\ r3[2] = b /\ r3[3] = c
  <2>0. r2 \in Seq(S) /\ c \in S
    BY <1>2, <1>4
  <2>1. r3 \in Seq(S) /\ Len(r3) = Len(r2) + 1 /\ \A i \in 1 .. Len(r2) : r3[i] = r2[i]
    BY <2>0, AppendProperties
  <2>2. r3[Len(r2) + 1] = c
    BY <2>0, AppendProperties
  <2> HIDE DEF r3
  <2> QED BY <1>4, <2>1, <2>2
<1> HIDE DEF r3
<1>6. \A i \in 1 .. 3 : r3[i] = r[i]
  <2>1. \A i \in 1 .. 3 : i = 1 \/ i = 2 \/ i = 3
    OBVIOUS
  <2> QED BY <1>1, <1>5, <2>1
<1>7. r3 = r
  BY <1>1, <1>5, <1>6, SeqEqual
<1> QED BY <1>7 DEF r0, r1, r2, r3, r, ThreeOf

\* ThreeOf sequences in one.
LEMMA FlattenThree ==
  ASSUME NEW T, NEW a \in Seq(T), NEW b \in Seq(T), NEW c \in Seq(T)
  PROVE  FlattenSeq(ThreeOf(a, b, c)) = (a \o b) \o c
<1> DEFINE S == Seq(T)
           s1 == Append(<<>>, a)
           s2 == Append(s1, b)
           s3 == Append(s2, c)
<1>1. s1 \in Seq(S) /\ s2 \in Seq(S)
  <2>1. a \in S /\ b \in S
    OBVIOUS
  <2> HIDE DEF S
  <2>2. <<>> \in Seq(S)
    OBVIOUS
  <2>3. s1 \in Seq(S)
    BY <2>1, <2>2, AppendProperties
  <2> HIDE DEF s1
  <2> QED BY <2>1, <2>3, AppendProperties
<1>2. s3 = ThreeOf(a, b, c)
  BY AppendThree
<1>3. FlattenSeq(<<>>) = <<>> /\ <<>> \in Seq(Seq(T))
  BY FlattenEmpty
<1>4. FlattenSeq(s1) = <<>> \o a
  BY <1>3, FlattenLaws
<1> HIDE DEF s1
<1>5. FlattenSeq(s2) = FlattenSeq(s1) \o b
  BY <1>1, FlattenLaws
<1> HIDE DEF s2
<1>6. FlattenSeq(s3) = FlattenSeq(s2) \o c
  BY <1>1, FlattenLaws
<1>7. <<>> \o a = a
  OBVIOUS
<1> QED BY <1>2, <1>4, <1>5, <1>6, <1>7

---------------------------------------------------------------------------
(* The header of a message: its three fields, of which the first, the      *)
(* first two or all are set.                                               *)
HeaderField(n, kind, value) == Cons(Tag(n, kind), One(Token(kind.kind, value)))
FieldOrNone(n, kind, f, msg) == IF f \in DOMAIN msg THEN One(HeaderField(n, kind, msg[f])) ELSE <<>>
\* The table of the header.
LEMMA HeaderTable ==
  /\ WellFormed(NetPackHeader) /\ Flat(NetPackHeader)
  /\ DOMAIN NetPackHeader.fields = {"payloadType", "payloadLength", "messageName"}
  /\ DOMAIN NetPackHeader.order = 1 .. 3 /\ NetPackHeader.required = {}
  /\ NetPackHeader.order[1] = "payloadType" /\ NetPackHeader.order[2] = "payloadLength"
  /\ NetPackHeader.order[3] = "messageName"
  /\ NetPackHeader.fields["payloadType"] = Number(0)
  /\ NetPackHeader.fields["payloadLength"] = Number(0)
  /\ NetPackHeader.fields["messageName"] = Text
  /\ \A f \in DOMAIN NetPackHeader.fields :
       ~IsRepeated(NetPackHeader, f) /\ Element(NetPackHeader, f) = NetPackHeader.fields[f]
<1> DEFINE type == NetPackHeader
<1>1. /\ DOMAIN type.fields = {"payloadType", "payloadLength", "messageName"}
      /\ DOMAIN type.order = 1 .. 3 /\ type.required = {}
      /\ type.order[1] = "payloadType" /\ type.order[2] = "payloadLength"
      /\ type.order[3] = "messageName"
      /\ type.fields["payloadType"] = Number(0) /\ type.fields["payloadLength"] = Number(0)
      /\ type.fields["messageName"] = Text
  BY DEF NetPackHeader, Message, NetPackHeaderFields, NetPackHeaderWire
<1>2. WellFormed(type)
  BY NetPackHeaderWellFormed
<1> HIDE DEF type
<1>3. \A f \in DOMAIN type.fields : type.fields[f].kind \in {"number", "text"}
  BY <1>1, KindFacts
<1>4. \A f \in DOMAIN type.fields : ~IsRepeated(type, f) /\ Element(type, f) = type.fields[f]
  BY <1>3 DEF IsRepeated, Element
<1>5. Flat(type)
  BY <1>3, <1>4 DEF Flat
<1> QED BY <1>1, <1>2, <1>4, <1>5 DEF type

\* The fields of a header, group by group.
LEMMA HeaderGroup ==
  ASSUME NEW msg, Fits(NetPackHeader, msg), NEW w, NEW n \in 1 .. 3
  PROVE  GroupOf(NetPackHeader, msg, w, n) =
           FieldOrNone(n, KindOf(NetPackHeader, n), NetPackHeader.order[n], msg)
<1> DEFINE type == NetPackHeader
           f == type.order[n]
           kind == KindOf(type, n)
           values == ValuesOf(type, msg, n)
<1>1. /\ f \in DOMAIN type.fields /\ WellFormed(type) /\ n \in DOMAIN type.order
      /\ ~IsRepeated(type, f) /\ ~IsNested(type, n)
  BY HeaderTable DEF Flat, IsNested, KindOf
<1>2. values = Values(type, msg, f) /\ kind = Element(type, f)
  BY DEF ValuesOf, KindOf
<1> HIDE DEF type, f, kind
<1>3. CASE f \in DOMAIN msg
  <2>1. values = <<msg[f]>>
    BY <1>1, <1>2, <1>3, ValuesFacts DEF type
  <2> DEFINE field == HeaderField(n, kind, msg[f])
  <2>2. \A i \in {1} : Cons(Tag(n, kind), Content(type, msg, w, n, i)) = field
    BY <1>1, <2>1 DEF Content, HeaderField, kind
  <2> HIDE DEF field, values
  <2>3. DOMAIN values = {1}
    BY <2>1
  <2>4. GroupOf(type, msg, w, n) = [i \in {1} |-> field]
    BY <2>2, <2>3 DEF GroupOf, values, kind
  <2>5. [i \in {1} |-> field] = One(field)
    BY DEF One
  <2> QED BY <1>3, <2>4, <2>5 DEF FieldOrNone, field, type, f, kind
<1>4. CASE f \notin DOMAIN msg
  <2>1. values = <<>>
    BY <1>1, <1>2, <1>4, ValuesFacts DEF type
  <2>2. GroupOf(type, msg, w, n) = <<>>
    <3> HIDE DEF values
    <3>1. DOMAIN values = {}
      BY <2>1
    <3> QED BY <3>1 DEF GroupOf, values
  <2> QED BY <1>4, <2>2 DEF FieldOrNone, type, f, kind
<1> QED BY <1>3, <1>4

\* The tokens of a field of the header.
LEMMA HeaderFieldTokens ==
  ASSUME NEW n, NEW kind, NEW value
  PROVE  LET field == HeaderField(n, kind, value)
             T == {Tag(n, kind), Token(kind.kind, value)}
         IN  /\ field \in Seq(T) /\ Len(field) = 2
             /\ field[1] = Tag(n, kind) /\ field[2] = Token(kind.kind, value)
<1> DEFINE t == Token(kind.kind, value)
           g == Tag(n, kind)
           T == {g, t}
           o == One(t)
           r == Cons(g, o)
<1> HIDE DEF t, g
<1>1. o \in Seq(T) /\ Len(o) = 1 /\ o[1] = t
  BY OneFacts
<1>2. g \in T
  OBVIOUS
<1> HIDE DEF T, o
<1>6. g \in T /\ o \in Seq(T)
  BY <1>1, <1>2
<1>3. r \in Seq(T) /\ Len(r) = Len(o) + 1 /\ r[1] = g
  BY <1>6, Prepend
<1>5. \A i \in 1 .. Len(o) : r[i + 1] = o[i]
  BY <1>6, Prepend
<1> HIDE DEF r
<1>4. r \in Seq(T) /\ Len(r) = 2 /\ r[1] = g /\ r[2] = t
  BY <1>1, <1>3, <1>5
<1> QED BY <1>4 DEF HeaderField, t, g, T, o, r

\* What is written for a field that is set or not.
TokensOf(n, kind, f, msg) == IF f \in DOMAIN msg THEN HeaderField(n, kind, msg[f]) ELSE <<>>

\* A group of one field, or none, in one.
LEMMA GroupTokens ==
  ASSUME NEW n, NEW kind, NEW f, NEW msg
  PROVE  \E T : /\ TokensOf(n, kind, f, msg) \in Seq(T)
               /\ FieldOrNone(n, kind, f, msg) \in Seq(Seq(T))
               /\ FlattenSeq(FieldOrNone(n, kind, f, msg)) = TokensOf(n, kind, f, msg)
<1>1. CASE f \in DOMAIN msg
  <2> DEFINE field == HeaderField(n, kind, msg[f])
             T == {Tag(n, kind), Token(kind.kind, msg[f])}
  <2>1. field \in Seq(T)
    BY HeaderFieldTokens
  <2> HIDE DEF field, T
  <2>2. One(field) = Append(<<>>, field) /\ One(field) \in Seq(Seq(T)) /\ <<>> \in Seq(Seq(T))
    BY <2>1 DEF One
  <2>3. FlattenSeq(Append(<<>>, field)) = FlattenSeq(<<>>) \o field
    BY <2>1, <2>2, FlattenLaws
  <2>4. <<>> \o field = field
    BY <2>1
  <2>5. FlattenSeq(One(field)) = field
    BY <2>2, <2>3, <2>4, FlattenEmpty
  <2> QED BY <1>1, <2>1, <2>2, <2>5 DEF TokensOf, FieldOrNone, field
<1>2. CASE f \notin DOMAIN msg
  <2>1. <<>> \in Seq({}) /\ <<>> \in Seq(Seq({}))
    OBVIOUS
  <2> QED BY <1>2, <2>1, FlattenEmpty DEF TokensOf, FieldOrNone
<1> QED BY <1>1, <1>2

\* A header is written as its fields that are set, one after the other.
LEMMA HeaderWritten ==
  ASSUME NEW msg, Fits(NetPackHeader, msg)
  PROVE  Encode(NetPackHeader, msg) =
           (TokensOf(1, Number(0), "payloadType", msg) \o TokensOf(2, Number(0), "payloadLength", msg))
             \o TokensOf(3, Text, "messageName", msg)
<1> DEFINE type == NetPackHeader
           a == FieldOrNone(1, Number(0), "payloadType", msg)
           b == FieldOrNone(2, Number(0), "payloadLength", msg)
           c == FieldOrNone(3, Text, "messageName", msg)
           x == TokensOf(1, Number(0), "payloadType", msg)
           y == TokensOf(2, Number(0), "payloadLength", msg)
           z == TokensOf(3, Text, "messageName", msg)
<1>1. PICK w : Encode(type, msg) = StreamOf(type, msg, w) /\ Streams(type, msg, w)
  BY HeaderTable, OuterWritten DEF Flat, Fits
<1> DEFINE groups == GroupsOf(type, msg, w)
<1>2. groups = ThreeOf(a, b, c)
  <2>1. \A n \in 1 .. 3 : groups[n] = FieldOrNone(n, KindOf(type, n), type.order[n], msg)
    BY HeaderTable, HeaderGroup DEF GroupsOf
  <2>2. KindOf(type, 1) = Number(0) /\ KindOf(type, 2) = Number(0) /\ KindOf(type, 3) = Text
    BY HeaderTable DEF KindOf
  <2>3. groups[1] = a /\ groups[2] = b /\ groups[3] = c
    BY <2>1, <2>2, HeaderTable
  <2>4. groups = [n \in 1 .. 3 |-> groups[n]]
    BY HeaderTable DEF GroupsOf
  <2> HIDE DEF groups, a, b, c
  <2> QED BY <2>3, <2>4 DEF ThreeOf
<1>3. PICK A : x \in Seq(A) /\ a \in Seq(Seq(A)) /\ FlattenSeq(a) = x
  BY GroupTokens
<1>4. PICK B : y \in Seq(B) /\ b \in Seq(Seq(B)) /\ FlattenSeq(b) = y
  BY GroupTokens
<1>5. PICK C : z \in Seq(C) /\ c \in Seq(Seq(C)) /\ FlattenSeq(c) = z
  BY GroupTokens
<1> DEFINE T == (A \cup B) \cup C
<1> HIDE DEF a, b, c, x, y, z, groups
<1>6. a \in Seq(Seq(T)) /\ b \in Seq(Seq(T)) /\ c \in Seq(Seq(T))
  <2>1. Seq(A) \subseteq Seq(T) /\ Seq(B) \subseteq Seq(T) /\ Seq(C) \subseteq Seq(T)
    OBVIOUS
  <2> HIDE DEF T
  <2> QED BY <1>3, <1>4, <1>5, <2>1
<1> HIDE DEF T
<1>7. FlattenSeq(groups) = (a \o b) \o c
  <2>1. FlattenSeq(ThreeOf(a, b, c)) = (a \o b) \o c
    BY <1>6, FlattenThree
  <2> QED BY <1>2, <2>1
<1>8. FlattenSeq((a \o b) \o c) = FlattenSeq(a \o b) \o FlattenSeq(c)
  <2>1. a \o b \in Seq(Seq(T))
    BY <1>6
  <2> QED BY <1>6, <2>1, FlattenConcat
<1>9. FlattenSeq(a \o b) = FlattenSeq(a) \o FlattenSeq(b)
  BY <1>6, FlattenConcat
<1>10. Encode(type, msg) = (x \o y) \o z
  BY <1>1, <1>3, <1>4, <1>5, <1>7, <1>8, <1>9 DEF StreamOf, groups
<1> QED BY <1>10 DEF x, y, z

-----------------------------------------------------------------------------
(* A header, whole and cut                                                 *)

(* The first fields of a header.                                           *)
HeaderFirst(a) == [payloadType |-> a]
HeaderSecond(a, b) == [payloadType |-> a, payloadLength |-> b]
HeaderMsg(a, b, c) == [payloadType |-> a, payloadLength |-> b, messageName |-> c]
HeaderStreamOf(a, b, c) == Encode(NetPackHeader, HeaderMsg(a, b, c))

\* Any of them is a header the program may write.
LEMMA HeaderFits ==
  ASSUME NEW a, NEW b, NEW c
  PROVE  /\ Fits(NetPackHeader, <<>>) /\ Fits(NetPackHeader, HeaderFirst(a))
         /\ Fits(NetPackHeader, HeaderSecond(a, b)) /\ Fits(NetPackHeader, HeaderMsg(a, b, c))
         /\ DOMAIN HeaderFirst(a) = {"payloadType"}
         /\ DOMAIN HeaderSecond(a, b) = {"payloadType", "payloadLength"}
         /\ DOMAIN HeaderMsg(a, b, c) = {"payloadType", "payloadLength", "messageName"}
<1>1. /\ DOMAIN HeaderFirst(a) = {"payloadType"}
      /\ DOMAIN HeaderSecond(a, b) = {"payloadType", "payloadLength"}
      /\ DOMAIN HeaderMsg(a, b, c) = {"payloadType", "payloadLength", "messageName"}
      /\ DOMAIN <<>> = {}
  BY DEF HeaderFirst, HeaderSecond, HeaderMsg
<1>2. /\ HeaderFirst(a) = [f \in DOMAIN HeaderFirst(a) |-> HeaderFirst(a)[f]]
      /\ HeaderSecond(a, b) = [f \in DOMAIN HeaderSecond(a, b) |-> HeaderSecond(a, b)[f]]
      /\ HeaderMsg(a, b, c) = [f \in DOMAIN HeaderMsg(a, b, c) |-> HeaderMsg(a, b, c)[f]]
      /\ <<>> = [f \in DOMAIN <<>> |-> <<>>[f]]
  BY DEF HeaderFirst, HeaderSecond, HeaderMsg
<1> QED BY <1>1, <1>2, HeaderTable DEF Fits

\* The pieces of two tokens each that a header is made of.
LEMMA PairCut ==
  ASSUME NEW x, IsSeq(x), NEW y, IsSeq(y), NEW z, IsSeq(z),
         Len(x) = 2, Len(y) = 2, Len(z) = 2
  PROVE  LET h == (x \o y) \o z
         IN  /\ IsSeq(h) /\ Len(h) = 6 /\ h[3] = y[1]
             /\ SubSeq(h, 1, 2) = x /\ SubSeq(h, 1, 4) = x \o y
<1> DEFINE g == x \o y
           v == y \o z
           h == g \o z
<1>1. IsSeq(g) /\ Len(g) = Len(x) + Len(y)
  BY Joining
<1>2. IsSeq(v) /\ Len(v) = Len(y) + Len(z) /\ \A i \in 1 .. Len(y) : v[i] = y[i]
  BY Joining
<1>3. h = x \o v
  BY JoinThree
<1> HIDE DEF g, v
<1>4. IsSeq(h) /\ Len(h) = Len(g) + Len(z) /\ SubSeq(h, 1, Len(g)) = g
  BY <1>1, Joining
<1>5. SubSeq(h, 1, Len(x)) = x /\ \A i \in 1 .. Len(v) : h[i + Len(x)] = v[i]
  <2> DEFINE k == x \o v
  <2>0. IsSeq(v)
    BY <1>2
  <2>1. SubSeq(k, 1, Len(x)) = x
    BY <2>0, Joining
  <2>3. \A i \in 1 .. Len(v) : k[i + Len(x)] = v[i]
    <3>1. /\ IsSeq(k) /\ Len(k) = Len(x) + Len(v) /\ Len(x) \in Nat /\ Len(v) \in Nat
          /\ \A i \in 1 .. Len(x) : k[i] = x[i]
          /\ \A i \in 1 .. Len(v) : k[i + Len(x)] = v[i]
          /\ SubSeq(k, 1, Len(x)) = x /\ SubSeq(k, Len(x) + 1, Len(k)) = v
          /\ x = <<>> => k = v
          /\ v = <<>> => k = x
      BY <2>0, Joining, Zenon
    <3> HIDE DEF k
    <3> QED BY <3>1
  <2>2. h = k
    BY <1>3
  <2> HIDE DEF h, k
  <2> QED BY <2>1, <2>2, <2>3
<1> HIDE DEF h
<1>6. Len(g) = 4 /\ Len(v) = 4 /\ 1 \in 1 .. Len(v) /\ 1 \in 1 .. Len(y)
  BY <1>1, <1>2
<1>7. h[1 + Len(x)] = v[1] /\ v[1] = y[1]
  BY <1>2, <1>5, <1>6
<1>8. Len(h) = 6 /\ h[3] = y[1] /\ SubSeq(h, 1, 2) = x /\ SubSeq(h, 1, 4) = g
  BY <1>4, <1>5, <1>6, <1>7
<1> QED BY <1>4, <1>8 DEF g, h

\* A header has six tokens: a tag and a value for each field.
LEMMA HeaderTokens ==
  ASSUME NEW a, NEW b, NEW c
  PROVE  LET h == HeaderStreamOf(a, b, c)
         IN  /\ IsSeq(h) /\ Len(h) = 6 /\ h[3][1] = "tag"
             /\ SubSeq(h, 1, 2) = Encode(NetPackHeader, HeaderFirst(a))
             /\ SubSeq(h, 1, 4) = Encode(NetPackHeader, HeaderSecond(a, b))
             /\ <<>> = Encode(NetPackHeader, <<>>)
<1> DEFINE x == HeaderField(1, Number(0), a)
           y == HeaderField(2, Number(0), b)
           z == HeaderField(3, Text, c)
           T1 == {Tag(1, Number(0)), Token(Number(0).kind, a)}
           T2 == {Tag(2, Number(0)), Token(Number(0).kind, b)}
           T3 == {Tag(3, Text), Token(Text.kind, c)}
<1>1. x \in Seq(T1) /\ Len(x) = 2
  BY HeaderFieldTokens
<1>2. y \in Seq(T2) /\ Len(y) = 2 /\ y[1] = Tag(2, Number(0))
  BY HeaderFieldTokens
<1>3. z \in Seq(T3) /\ Len(z) = 2
  BY HeaderFieldTokens
<1>4. y[1][1] = "tag"
  BY <1>2 DEF Tag
<1>5. /\ Encode(NetPackHeader, HeaderMsg(a, b, c)) = (x \o y) \o z
      /\ Encode(NetPackHeader, HeaderSecond(a, b)) = (x \o y) \o <<>>
      /\ Encode(NetPackHeader, HeaderFirst(a)) = (x \o <<>>) \o <<>>
      /\ Encode(NetPackHeader, <<>>) = (<<>> \o <<>>) \o <<>>
  <2>1. /\ HeaderMsg(a, b, c).payloadType = a /\ HeaderMsg(a, b, c).payloadLength = b
        /\ HeaderMsg(a, b, c).messageName = c /\ HeaderSecond(a, b).payloadType = a
        /\ HeaderSecond(a, b).payloadLength = b /\ HeaderFirst(a).payloadType = a
    BY DEF HeaderFirst, HeaderSecond, HeaderMsg
  <2>10. /\ HeaderSecond(a, b)["payloadType"] = a /\ HeaderSecond(a, b)["payloadLength"] = b
         /\ HeaderFirst(a)["payloadType"] = a
    BY DEF HeaderFirst, HeaderSecond
  <2> DEFINE m == HeaderMsg(a, b, c)
  <2>0. Fits(NetPackHeader, m) /\ "payloadType" \in DOMAIN m /\ "payloadLength" \in DOMAIN m /\ "messageName" \in DOMAIN m
    BY HeaderFits
  <2> HIDE DEF m
  <2>6. Encode(NetPackHeader, m) = (TokensOf(1, Number(0), "payloadType", m) \o TokensOf(2, Number(0), "payloadLength", m))
             \o TokensOf(3, Text, "messageName", m)
    BY <2>0, HeaderWritten
  <2>7. TokensOf(1, Number(0), "payloadType", m) = x
    BY <2>0, <2>1 DEF TokensOf, m
  <2>8. TokensOf(2, Number(0), "payloadLength", m) = y
    BY <2>0, <2>1 DEF TokensOf, m
  <2>9. TokensOf(3, Text, "messageName", m) = z
    BY <2>0, <2>1 DEF TokensOf, m
  <2> HIDE DEF x, y, z
  <2>2. Encode(NetPackHeader, HeaderMsg(a, b, c)) = (x \o y) \o z
    BY <2>6, <2>7, <2>8, <2>9 DEF m
  <2>3. Encode(NetPackHeader, HeaderSecond(a, b)) = (x \o y) \o <<>>
    <3> DEFINE two == HeaderSecond(a, b)
    <3>0. Fits(NetPackHeader, two) /\ "payloadType" \in DOMAIN two /\ "payloadLength" \in DOMAIN two /\ "messageName" \notin DOMAIN two
      BY HeaderFits
    <3> HIDE DEF two
    <3>1. Encode(NetPackHeader, two) = (TokensOf(1, Number(0), "payloadType", two) \o TokensOf(2, Number(0), "payloadLength", two)) \o TokensOf(3, Text, "messageName", two)
      BY <3>0, HeaderWritten
    <3>2. TokensOf(1, Number(0), "payloadType", two) = x
      BY <2>10, <3>0 DEF TokensOf, two, x, y
    <3>3. TokensOf(2, Number(0), "payloadLength", two) = y
      BY <2>10, <3>0 DEF TokensOf, two, x, y
    <3>4. TokensOf(3, Text, "messageName", two) = <<>>
      BY <3>0 DEF TokensOf
    <3> HIDE DEF x, y, z
    <3> QED BY <3>1, <3>2, <3>3, <3>4 DEF two
  <2>4. Encode(NetPackHeader, HeaderFirst(a)) = (x \o <<>>) \o <<>>
    <3> DEFINE one == HeaderFirst(a)
    <3>0. Fits(NetPackHeader, one) /\ "payloadType" \in DOMAIN one /\ "payloadLength" \notin DOMAIN one /\ "messageName" \notin DOMAIN one
      BY HeaderFits
    <3> HIDE DEF one
    <3>1. Encode(NetPackHeader, one) = (TokensOf(1, Number(0), "payloadType", one) \o TokensOf(2, Number(0), "payloadLength", one)) \o TokensOf(3, Text, "messageName", one)
      BY <3>0, HeaderWritten
    <3>2. TokensOf(1, Number(0), "payloadType", one) = x
      BY <2>10, <3>0 DEF TokensOf, one, x, y
    <3>3. TokensOf(2, Number(0), "payloadLength", one) = <<>>
      BY <3>0 DEF TokensOf
    <3>4. TokensOf(3, Text, "messageName", one) = <<>>
      BY <3>0 DEF TokensOf
    <3> HIDE DEF x, y, z
    <3> QED BY <3>1, <3>2, <3>3, <3>4 DEF one
  <2>5. Encode(NetPackHeader, <<>>) = (<<>> \o <<>>) \o <<>>
    <3> DEFINE e == <<>>
    <3>1. Fits(NetPackHeader, e) /\ DOMAIN e = {}
      BY HeaderFits
    <3> HIDE DEF e
    <3>2. Encode(NetPackHeader, e) = (TokensOf(1, Number(0), "payloadType", e) \o TokensOf(2, Number(0), "payloadLength", e))
             \o TokensOf(3, Text, "messageName", e)
      BY <3>1, HeaderWritten
    <3>3. \A n, k, f : TokensOf(n, k, f, e) = <<>>
      BY <3>1 DEF TokensOf
    <3> QED BY <3>2, <3>3 DEF e
  <2> QED BY <2>2, <2>3, <2>4, <2>5
<1> HIDE DEF x, y, z, T1, T2, T3
<1>6. IsSeq(x) /\ IsSeq(y) /\ IsSeq(z)
  BY <1>1, <1>2, <1>3 DEF IsSeq
<1> DEFINE g == x \o y
           h == g \o z
<1>7. IsSeq(h) /\ Len(h) = 6 /\ h[3] = y[1] /\ SubSeq(h, 1, 2) = x /\ SubSeq(h, 1, 4) = x \o y
  <2>1. Len(x) = 2 /\ Len(y) = 2 /\ Len(z) = 2
    BY <1>1, <1>2, <1>3
  <2>2. /\ IsSeq(h) /\ Len(h) = 6 /\ h[3] = y[1]
        /\ SubSeq(h, 1, 2) = x /\ SubSeq(h, 1, 4) = g
    BY <1>6, <2>1, PairCut, Zenon
  <2> HIDE DEF h
  <2> QED BY <2>2
<1>8. g \o <<>> = g /\ x \o <<>> = x /\ <<>> \o <<>> = <<>>
  <2>1. IsSeq(g)
    BY <1>6, Joining
  <2>2. IsSeq(<<>>)
    <3>1. <<>> \in Seq({})
      OBVIOUS
    <3> QED BY <3>1 DEF IsSeq
  <2> HIDE DEF g
  <2> QED BY <1>6, <2>1, <2>2, Joining
<1> HIDE DEF h
<1> QED BY <1>4, <1>5, <1>7, <1>8 DEF HeaderStreamOf, h

\* What is read of the beginning of a header: whole fields, or nothing.
LEMMA HeaderCut ==
  ASSUME NEW a, NEW b, NEW c, NEW k \in 1 .. 6
  PROVE  LET read == Parse(NetPackHeader, SubSeq(HeaderStreamOf(a, b, c), 1, k))
         IN  /\ k = 6 => read.ok /\ read.msg = HeaderMsg(a, b, c)
             /\ k = 4 => read.ok /\ read.msg = HeaderSecond(a, b)
             /\ k = 2 => read.ok /\ read.msg = HeaderFirst(a)
             /\ k \in {1, 3, 5} => ~read.ok
<1> DEFINE h == HeaderStreamOf(a, b, c)
           read == Parse(NetPackHeader, SubSeq(h, 1, k))
<1>1. /\ IsSeq(h) /\ Len(h) = 6 /\ SubSeq(h, 1, 2) = Encode(NetPackHeader, HeaderFirst(a))
      /\ SubSeq(h, 1, 4) = Encode(NetPackHeader, HeaderSecond(a, b))
      /\ <<>> = Encode(NetPackHeader, <<>>)
  BY HeaderTokens
<1>2. /\ OuterOK(NetPackHeader, HeaderFirst(a)) /\ OuterOK(NetPackHeader, HeaderSecond(a, b))
      /\ OuterOK(NetPackHeader, HeaderMsg(a, b, c))
  <2>1. OuterOK(NetPackHeader, HeaderFirst(a))
    BY HeaderFits, HeaderTable, FlatOK
  <2>2. OuterOK(NetPackHeader, HeaderSecond(a, b))
    BY HeaderFits, HeaderTable, FlatOK
  <2>3. OuterOK(NetPackHeader, HeaderMsg(a, b, c))
    BY HeaderFits, HeaderTable, FlatOK
  <2> QED BY <2>1, <2>2, <2>3
<1>3. PICK T : h \in Seq(T)
  BY <1>1 DEF IsSeq
<1>4. k = 6 => read.ok /\ read.msg = HeaderMsg(a, b, c)
  <2>1. SubSeq(h, 1, 6) = h
    BY <1>1, <1>3, SubSeqFull
  <2>2. h = Encode(NetPackHeader, HeaderMsg(a, b, c))
    BY DEF HeaderStreamOf
  <2> HIDE DEF h
  <2> QED BY <1>2, <2>1, <2>2, ParseFacts DEF OuterOK
<1>5. k = 4 => read.ok /\ read.msg = HeaderSecond(a, b)
  BY <1>1, <1>2, ParseFacts DEF OuterOK
<1>6. k = 2 => read.ok /\ read.msg = HeaderFirst(a)
  BY <1>1, <1>2, ParseFacts DEF OuterOK
<1>7. k \in {1, 3, 5} => ~read.ok
  <2>1. \A n \in 0 .. 5 : SubSeq(h, 1, n + 1) = Append(SubSeq(h, 1, n), h[n + 1])
    BY <1>1, <1>3, SubSeqNext
  <2>2. SubSeq(h, 1, 0) = <<>>
    BY <1>3
  <2>3. SubSeq(h, 1, 1) = Append(Encode(NetPackHeader, <<>>), h[1])
    <3>1. SubSeq(h, 1, 0 + 1) = Append(SubSeq(h, 1, 0), h[0 + 1])
      BY <2>1
    <3> QED BY <1>1, <2>2, <3>1
  <2>4. SubSeq(h, 1, 3) = Append(Encode(NetPackHeader, HeaderFirst(a)), h[3])
    <3>1. SubSeq(h, 1, 2 + 1) = Append(SubSeq(h, 1, 2), h[2 + 1]) /\ 2 + 1 = 3
      BY <2>1
    <3> HIDE DEF h
    <3> QED BY <1>1, <3>1
  <2>5. SubSeq(h, 1, 5) = Append(Encode(NetPackHeader, HeaderSecond(a, b)), h[5])
    <3>1. SubSeq(h, 1, 4 + 1) = Append(SubSeq(h, 1, 4), h[4 + 1]) /\ 4 + 1 = 5
      BY <2>1
    <3> HIDE DEF h
    <3> QED BY <1>1, <3>1
  <2> HIDE DEF h
  <2>6. ~IsRead(NetPackHeader, SubSeq(h, 1, 1))
    <3> DEFINE t == h[1]
               m == <<>>
    <3>1. WellFormed(NetPackHeader) /\ Flat(NetPackHeader) /\ Fits(NetPackHeader, m)
      BY HeaderFits, HeaderTable
    <3>2. SubSeq(h, 1, 1) = Append(Encode(NetPackHeader, m), t)
      BY <2>3
    <3> HIDE DEF t, m
    <3>3. ~IsRead(NetPackHeader, Append(Encode(NetPackHeader, m), t))
      BY <3>1, LoneToken
    <3> QED BY <3>2, <3>3
  <2>7. ~IsRead(NetPackHeader, SubSeq(h, 1, 3))
    <3> DEFINE t == h[3]
               m == HeaderFirst(a)
    <3>1. WellFormed(NetPackHeader) /\ Flat(NetPackHeader) /\ Fits(NetPackHeader, m)
      BY HeaderFits, HeaderTable
    <3>2. SubSeq(h, 1, 3) = Append(Encode(NetPackHeader, m), t)
      BY <2>4
    <3> HIDE DEF t, m
    <3>3. ~IsRead(NetPackHeader, Append(Encode(NetPackHeader, m), t))
      BY <3>1, LoneToken
    <3> QED BY <3>2, <3>3
  <2>8. ~IsRead(NetPackHeader, SubSeq(h, 1, 5))
    <3> DEFINE t == h[5]
               m == HeaderSecond(a, b)
    <3>1. WellFormed(NetPackHeader) /\ Flat(NetPackHeader) /\ Fits(NetPackHeader, m)
      BY HeaderFits, HeaderTable
    <3>2. SubSeq(h, 1, 5) = Append(Encode(NetPackHeader, m), t)
      BY <2>5
    <3> HIDE DEF t, m
    <3>3. ~IsRead(NetPackHeader, Append(Encode(NetPackHeader, m), t))
      BY <3>1, LoneToken
    <3> QED BY <3>2, <3>3
  <2> QED BY <2>6, <2>7, <2>8, ParseFacts
<1> QED BY <1>4, <1>5, <1>6, <1>7 DEF h

-----------------------------------------------------------------------------
(* Messages without nested messages                                        *)

\* A message of the program that is what a handshake says of a file arrives as it was built.
LEMMA ClientFileInfoComes ==
  ASSUME NEW msg, msg = [f \in DOMAIN msg |-> msg[f]],
         {"FileId", "HasFile", "Percentage", "FileBitCount"} \subseteq DOMAIN msg,
         DOMAIN msg \subseteq {"FileId", "HasFile", "Percentage", "FileBit", "FileBitCount"},
         "FileBit" \in DOMAIN msg, IsSeq(msg["FileBit"])
  PROVE  LeafOK(ClientFileInfo, msg) /\ InnerOK(ClientFileInfo, msg) /\ OuterOK(ClientFileInfo, msg)
<1> DEFINE type == ClientFileInfo
<1>1. /\ type.required = {"FileId", "HasFile", "Percentage", "FileBitCount"}
      /\ DOMAIN type.fields = {"FileId", "HasFile", "Percentage", "FileBit", "FileBitCount"}
      /\ type.fields["FileId"] = Text /\ type.fields["HasFile"] = Number(0)
      /\ type.fields["Percentage"] = Number(0)
      /\ type.fields["FileBit"] = Repeated(Number(0))
      /\ type.fields["FileBitCount"] = Number(0)
  BY DEF ClientFileInfo, Message, ClientFileInfoFields, ClientFileInfoWire
<1>2. WellFormed(type)
  BY ClientFileInfoWellFormed
<1> HIDE DEF type
<1>3. \A f \in DOMAIN type.fields : Element(type, f).kind # "message" /\ (IsRepeated(type, f) => f \in {"FileBit"})
  BY <1>1, KindFacts DEF IsRepeated, Element
<1>4. Fits(type, msg)
  BY <1>1, <1>3 DEF Fits
<1>5. Flat(type)
  BY <1>3 DEF Flat
<1> QED BY <1>2, <1>4, <1>5, FlatOK DEF type

\* A message of the program that is a request for a chunk arrives as it was built.
LEMMA UploadRequestComes ==
  ASSUME NEW msg, msg = [f \in DOMAIN msg |-> msg[f]],
         {"ClientId", "FileId", "ChunkNumber"} \subseteq DOMAIN msg,
         DOMAIN msg \subseteq {"ClientId", "FileId", "ChunkNumber"}
  PROVE  LeafOK(UploadRequest, msg) /\ InnerOK(UploadRequest, msg) /\ OuterOK(UploadRequest, msg)
<1> DEFINE type == UploadRequest
<1>1. /\ type.required = {"ClientId", "FileId", "ChunkNumber"}
      /\ DOMAIN type.fields = {"ClientId", "FileId", "ChunkNumber"}
      /\ type.fields["ClientId"] = Text /\ type.fields["FileId"] = Text
      /\ type.fields["ChunkNumber"] = Number(0)
  BY DEF UploadRequest, Message, UploadRequestFields, UploadRequestWire
<1>2. WellFormed(type)
  BY UploadRequestWellFormed
<1> HIDE DEF type
<1>3. \A f \in DOMAIN type.fields : Element(type, f).kind # "message" /\ ~IsRepeated(type, f)
  BY <1>1, KindFacts DEF IsRepeated, Element
<1>4. Fits(type, msg)
  BY <1>1, <1>3 DEF Fits
<1>5. Flat(type)
  BY <1>3 DEF Flat
<1> QED BY <1>2, <1>4, <1>5, FlatOK DEF type

\* A message of the program that is the answer to a request for a chunk arrives as it was built.
LEMMA UploadReplyComes ==
  ASSUME NEW msg, msg = [f \in DOMAIN msg |-> msg[f]],
         {"ReturnCode"} \subseteq DOMAIN msg,
         DOMAIN msg \subseteq {"ReturnCode"}
  PROVE  LeafOK(UploadReply, msg) /\ InnerOK(UploadReply, msg) /\ OuterOK(UploadReply, msg)
<1> DEFINE type == UploadReply
<1>1. /\ type.required = {"ReturnCode"}
      /\ DOMAIN type.fields = {"ReturnCode"}
      /\ type.fields["ReturnCode"] = Number(0)
  BY DEF UploadReply, Message, UploadReplyFields, UploadReplyWire
<1>2. WellFormed(type)
  BY UploadReplyWellFormed
<1> HIDE DEF type
<1>3. \A f \in DOMAIN type.fields : Element(type, f).kind # "message" /\ ~IsRepeated(type, f)
  BY <1>1, KindFacts DEF IsRepeated, Element
<1>4. Fits(type, msg)
  BY <1>1, <1>3 DEF Fits
<1>5. Flat(type)
  BY <1>3 DEF Flat
<1> QED BY <1>2, <1>4, <1>5, FlatOK DEF type

\* A message of the program that is a peer the tracker names arrives as it was built.
LEMMA PeerComes ==
  ASSUME NEW msg, msg = [f \in DOMAIN msg |-> msg[f]],
         {"ClientId", "Ip", "MessagePort"} \subseteq DOMAIN msg,
         DOMAIN msg \subseteq {"ClientId", "Ip", "MessagePort"}
  PROVE  LeafOK(Peer, msg) /\ InnerOK(Peer, msg) /\ OuterOK(Peer, msg)
<1> DEFINE type == Peer
<1>1. /\ type.required = {"ClientId", "Ip", "MessagePort"}
      /\ DOMAIN type.fields = {"ClientId", "Ip", "MessagePort"}
      /\ type.fields["ClientId"] = Text /\ type.fields["Ip"] = Text
      /\ type.fields["MessagePort"] = Number(0)
  BY DEF Peer, Message, PeerFields, PeerWire
<1>2. WellFormed(type)
  BY PeerWellFormed
<1> HIDE DEF type
<1>3. \A f \in DOMAIN type.fields : Element(type, f).kind # "message" /\ ~IsRepeated(type, f)
  BY <1>1, KindFacts DEF IsRepeated, Element
<1>4. Fits(type, msg)
  BY <1>1, <1>3 DEF Fits
<1>5. Flat(type)
  BY <1>3 DEF Flat
<1> QED BY <1>2, <1>4, <1>5, FlatOK DEF type

\* A message of the program that is a query for peers arrives as it was built.
LEMMA QueryPeerComes ==
  ASSUME NEW msg, msg = [f \in DOMAIN msg |-> msg[f]],
         {"FileId", "Percentage"} \subseteq DOMAIN msg,
         DOMAIN msg \subseteq {"FileId", "Percentage", "NeedCount", "OwnedClients"},
         "OwnedClients" \in DOMAIN msg, IsSeq(msg["OwnedClients"])
  PROVE  LeafOK(QueryPeer, msg) /\ InnerOK(QueryPeer, msg) /\ OuterOK(QueryPeer, msg)
<1> DEFINE type == QueryPeer
<1>1. /\ type.required = {"FileId", "Percentage"}
      /\ DOMAIN type.fields = {"FileId", "Percentage", "NeedCount", "OwnedClients"}
      /\ type.fields["FileId"] = Text /\ type.fields["Percentage"] = Number(0)
      /\ type.fields["NeedCount"] = Number(20)
      /\ type.fields["OwnedClients"] = Repeated(Text)
  BY DEF QueryPeer, Message, QueryPeerFields, QueryPeerWire
<1>2. WellFormed(type)
  BY QueryPeerWellFormed
<1> HIDE DEF type
<1>3. \A f \in DOMAIN type.fields : Element(type, f).kind # "message" /\ (IsRepeated(type, f) => f \in {"OwnedClients"})
  BY <1>1, KindFacts DEF IsRepeated, Element
<1>4. Fits(type, msg)
  BY <1>1, <1>3 DEF Fits
<1>5. Flat(type)
  BY <1>3 DEF Flat
<1> QED BY <1>2, <1>4, <1>5, FlatOK DEF type

\* A message of the program that is a login arrives as it was built.
LEMMA LoginComes ==
  ASSUME NEW msg, msg = [f \in DOMAIN msg |-> msg[f]],
         {"ClientId"} \subseteq DOMAIN msg,
         DOMAIN msg \subseteq {"ClientId", "LoginIp", "MessagePort"}
  PROVE  LeafOK(Login, msg) /\ InnerOK(Login, msg) /\ OuterOK(Login, msg)
<1> DEFINE type == Login
<1>1. /\ type.required = {"ClientId"}
      /\ DOMAIN type.fields = {"ClientId", "LoginIp", "MessagePort"}
      /\ type.fields["ClientId"] = Text /\ type.fields["LoginIp"] = Text
      /\ type.fields["MessagePort"] = Number(9025)
  BY DEF Login, Message, LoginFields, LoginWire
<1>2. WellFormed(type)
  BY LoginWellFormed
<1> HIDE DEF type
<1>3. \A f \in DOMAIN type.fields : Element(type, f).kind # "message" /\ ~IsRepeated(type, f)
  BY <1>1, KindFacts DEF IsRepeated, Element
<1>4. Fits(type, msg)
  BY <1>1, <1>3 DEF Fits
<1>5. Flat(type)
  BY <1>3 DEF Flat
<1> QED BY <1>2, <1>4, <1>5, FlatOK DEF type

\* A message of the program that is a logout arrives as it was built.
LEMMA LogoutComes ==
  ASSUME NEW msg, msg = [f \in DOMAIN msg |-> msg[f]],
         {"ClientId"} \subseteq DOMAIN msg,
         DOMAIN msg \subseteq {"ClientId"}
  PROVE  LeafOK(Logout, msg) /\ InnerOK(Logout, msg) /\ OuterOK(Logout, msg)
<1> DEFINE type == Logout
<1>1. /\ type.required = {"ClientId"}
      /\ DOMAIN type.fields = {"ClientId"}
      /\ type.fields["ClientId"] = Text
  BY DEF Logout, Message, LogoutFields, LogoutWire
<1>2. WellFormed(type)
  BY LogoutWellFormed
<1> HIDE DEF type
<1>3. \A f \in DOMAIN type.fields : Element(type, f).kind # "message" /\ ~IsRepeated(type, f)
  BY <1>1, KindFacts DEF IsRepeated, Element
<1>4. Fits(type, msg)
  BY <1>1, <1>3 DEF Fits
<1>5. Flat(type)
  BY <1>3 DEF Flat
<1> QED BY <1>2, <1>4, <1>5, FlatOK DEF type

\* A message of the program that is a report of progress arrives as it was built.
LEMMA ReportProgressComes ==
  ASSUME NEW msg, msg = [f \in DOMAIN msg |-> msg[f]],
         {"ClientId", "FileId", "Percentage"} \subseteq DOMAIN msg,
         DOMAIN msg \subseteq {"ClientId", "FileId", "Percentage"}
  PROVE  LeafOK(ReportProgress, msg) /\ InnerOK(ReportProgress, msg) /\ OuterOK(ReportProgress, msg)
<1> DEFINE type == ReportProgress
<1>1. /\ type.required = {"ClientId", "FileId", "Percentage"}
      /\ DOMAIN type.fields = {"ClientId", "FileId", "Percentage"}
      /\ type.fields["ClientId"] = Text /\ type.fields["FileId"] = Text
      /\ type.fields["Percentage"] = Number(0)
  BY DEF ReportProgress, Message, ReportProgressFields, ReportProgressWire
<1>2. WellFormed(type)
  BY ReportProgressWellFormed
<1> HIDE DEF type
<1>3. \A f \in DOMAIN type.fields : Element(type, f).kind # "message" /\ ~IsRepeated(type, f)
  BY <1>1, KindFacts DEF IsRepeated, Element
<1>4. Fits(type, msg)
  BY <1>1, <1>3 DEF Fits
<1>5. Flat(type)
  BY <1>3 DEF Flat
<1> QED BY <1>2, <1>4, <1>5, FlatOK DEF type

\* A message of the program that is a publication arrives as it was built.
LEMMA PublishResourceComes ==
  ASSUME NEW msg, msg = [f \in DOMAIN msg |-> msg[f]],
         {"ClientId", "FileId"} \subseteq DOMAIN msg,
         DOMAIN msg \subseteq {"ClientId", "FileId"}
  PROVE  LeafOK(PublishResource, msg) /\ InnerOK(PublishResource, msg) /\ OuterOK(PublishResource, msg)
<1> DEFINE type == PublishResource
<1>1. /\ type.required = {"ClientId", "FileId"}
      /\ DOMAIN type.fields = {"ClientId", "FileId"}
      /\ type.fields["ClientId"] = Text /\ type.fields["FileId"] = Text
  BY DEF PublishResource, Message, PublishResourceFields, PublishResourceWire
<1>2. WellFormed(type)
  BY PublishResourceWellFormed
<1> HIDE DEF type
<1>3. \A f \in DOMAIN type.fields : Element(type, f).kind # "message" /\ ~IsRepeated(type, f)
  BY <1>1, KindFacts DEF IsRepeated, Element
<1>4. Fits(type, msg)
  BY <1>1, <1>3 DEF Fits
<1>5. Flat(type)
  BY <1>3 DEF Flat
<1> QED BY <1>2, <1>4, <1>5, FlatOK DEF type

\* A message of the program that is the tracker's answer to a message arrives as it was built.
LEMMA MessageReplyComes ==
  ASSUME NEW msg, msg = [f \in DOMAIN msg |-> msg[f]],
         {"ReturnCode"} \subseteq DOMAIN msg,
         DOMAIN msg \subseteq {"ReturnCode", "Message"}
  PROVE  LeafOK(MessageReply, msg) /\ InnerOK(MessageReply, msg) /\ OuterOK(MessageReply, msg)
<1> DEFINE type == MessageReply
<1>1. /\ type.required = {"ReturnCode"}
      /\ DOMAIN type.fields = {"ReturnCode", "Message"}
      /\ type.fields["ReturnCode"] = Number(0) /\ type.fields["Message"] = Text
  BY DEF MessageReply, Message, MessageReplyFields, MessageReplyWire
<1>2. WellFormed(type)
  BY MessageReplyWellFormed
<1> HIDE DEF type
<1>3. \A f \in DOMAIN type.fields : Element(type, f).kind # "message" /\ ~IsRepeated(type, f)
  BY <1>1, KindFacts DEF IsRepeated, Element
<1>4. Fits(type, msg)
  BY <1>1, <1>3 DEF Fits
<1>5. Flat(type)
  BY <1>3 DEF Flat
<1> QED BY <1>2, <1>4, <1>5, FlatOK DEF type

\* A message of the program that is a question to the resource server arrives as it was built.
LEMMA AskComes ==
  ASSUME NEW msg, msg = [f \in DOMAIN msg |-> msg[f]],
         {"num"} \subseteq DOMAIN msg,
         DOMAIN msg \subseteq {"num", "type", "key", "counta", "countb",
                              "fileid", "seed", "brief", "size"}
  PROVE  LeafOK(Ask, msg) /\ InnerOK(Ask, msg) /\ OuterOK(Ask, msg)
<1> DEFINE type == Ask
<1>1. /\ type.required = {"num"}
      /\ DOMAIN type.fields = {"num", "type", "key", "counta", "countb",
                               "fileid", "seed", "brief", "size"}
      /\ type.fields["num"] = Number(0) /\ type.fields["type"] = Number(0)
      /\ type.fields["key"] = Text /\ type.fields["counta"] = Number(0)
      /\ type.fields["countb"] = Number(0) /\ type.fields["fileid"] = Number(0)
      /\ type.fields["seed"] = Text /\ type.fields["brief"] = Text
      /\ type.fields["size"] = Number(0)
  BY DEF Ask, Message, AskFields, AskWire
<1>2. WellFormed(type)
  BY AskWellFormed
<1> HIDE DEF type
<1>3. \A f \in DOMAIN type.fields : Element(type, f).kind # "message" /\ ~IsRepeated(type, f)
  BY <1>1, KindFacts DEF IsRepeated, Element
<1>4. Fits(type, msg)
  BY <1>1, <1>3 DEF Fits
<1>5. Flat(type)
  BY <1>3 DEF Flat
<1> QED BY <1>2, <1>4, <1>5, FlatOK DEF type

\* A message of the program that is a resource found arrives as it was built.
LEMMA InfoComes ==
  ASSUME NEW msg, msg = [f \in DOMAIN msg |-> msg[f]],
         {"filename", "time", "fileid", "size", "type"} \subseteq DOMAIN msg,
         DOMAIN msg \subseteq {"filename", "time", "fileid", "size", "type"}
  PROVE  LeafOK(Info, msg) /\ InnerOK(Info, msg) /\ OuterOK(Info, msg)
<1> DEFINE type == Info
<1>1. /\ type.required = {"filename", "time", "fileid", "size", "type"}
      /\ DOMAIN type.fields = {"filename", "time", "fileid", "size", "type"}
      /\ type.fields["filename"] = Text /\ type.fields["time"] = Text
      /\ type.fields["fileid"] = Number(0) /\ type.fields["size"] = Number(0)
      /\ type.fields["type"] = Number(0)
  BY DEF Info, Message, InfoFields, InfoWire
<1>2. WellFormed(type)
  BY InfoWellFormed
<1> HIDE DEF type
<1>3. \A f \in DOMAIN type.fields : Element(type, f).kind # "message" /\ ~IsRepeated(type, f)
  BY <1>1, KindFacts DEF IsRepeated, Element
<1>4. Fits(type, msg)
  BY <1>1, <1>3 DEF Fits
<1>5. Flat(type)
  BY <1>3 DEF Flat
<1> QED BY <1>2, <1>4, <1>5, FlatOK DEF type

-----------------------------------------------------------------------------
(* Messages with nested messages                                           *)

\* A handshake arrives as it was built.
LEMMA ShakeHandComes ==
  ASSUME NEW client, NEW info, InnerOK(ClientFileInfo, info)
  PROVE  OuterOK(ShakeHand, [ClientId |-> client, Info |-> info])
<1> DEFINE type == ShakeHand
           msg == [ClientId |-> client, Info |-> info]
<1>1. /\ type.required = {"ClientId", "Info"} /\ DOMAIN type.fields = {"ClientId", "Info"}
      /\ type.fields["ClientId"] = Text /\ type.fields["Info"] = Nested(ClientFileInfo)
  BY DEF ShakeHand, Message, ShakeHandFields, ShakeHandWire
<1>2. DOMAIN msg = {"ClientId", "Info"} /\ msg = [f \in DOMAIN msg |-> msg[f]] /\ msg["Info"] = info
  OBVIOUS
<1>3. WellFormed(type)
  BY ShakeHandWellFormed
<1> HIDE DEF type, msg
<1>4. /\ \A f \in DOMAIN type.fields : ~IsRepeated(type, f)
      /\ \A f \in DOMAIN type.fields : Element(type, f).kind = "message" =>
           f = "Info" /\ Element(type, f).of = ClientFileInfo
  BY <1>1, KindFacts DEF IsRepeated, Element
<1>5. Fits(type, msg)
  BY <1>1, <1>2, <1>4 DEF Fits
<1>6. \A f \in DOMAIN msg : Element(type, f).kind = "message" =>
        \A i \in DOMAIN Values(type, msg, f) : InnerOK(Element(type, f).of, Values(type, msg, f)[i])
  <2> SUFFICES ASSUME NEW f \in DOMAIN msg, Element(type, f).kind = "message",
                      NEW i \in DOMAIN Values(type, msg, f)
               PROVE  InnerOK(Element(type, f).of, Values(type, msg, f)[i])
    OBVIOUS
  <2>1. f = "Info" /\ Element(type, f).of = ClientFileInfo /\ ~IsRepeated(type, f)
    BY <1>1, <1>2, <1>4
  <2>2. Values(type, msg, f) = <<info>>
    BY <1>2, <2>1 DEF Values
  <2> QED BY <2>1, <2>2
<1>7. OuterOK(type, msg)
  BY <1>3, <1>5, <1>6, OuterRoundTrip
<1> QED BY <1>7 DEF type, msg

\* A peer the tracker names arrives as it was built.
LEMMA PeerFileInfoComes ==
  ASSUME NEW peer, LeafOK(Peer, peer), NEW percentage
  PROVE  InnerOK(PeerFileInfo, [Client |-> peer, Percentage |-> percentage])
<1> DEFINE type == PeerFileInfo
           msg == [Client |-> peer, Percentage |-> percentage]
<1>1. /\ type.required = {"Client", "Percentage"} /\ DOMAIN type.fields = {"Client", "Percentage"}
      /\ type.fields["Client"] = Nested(Peer) /\ type.fields["Percentage"] = Number(0)
  BY DEF PeerFileInfo, Message, PeerFileInfoFields, PeerFileInfoWire
<1>2. DOMAIN msg = {"Client", "Percentage"} /\ msg = [f \in DOMAIN msg |-> msg[f]] /\ msg["Client"] = peer
  OBVIOUS
<1>3. WellFormed(type)
  BY PeerFileInfoWellFormed
<1> HIDE DEF type, msg
<1>4. /\ \A f \in DOMAIN type.fields : ~IsRepeated(type, f)
      /\ \A f \in DOMAIN type.fields : Element(type, f).kind = "message" =>
           f = "Client" /\ Element(type, f).of = Peer
  BY <1>1, KindFacts DEF IsRepeated, Element
<1>5. Fits(type, msg)
  BY <1>1, <1>2, <1>4 DEF Fits
<1>6. \A f \in DOMAIN msg : Element(type, f).kind = "message" =>
        \A i \in DOMAIN Values(type, msg, f) : LeafOK(Element(type, f).of, Values(type, msg, f)[i])
  <2> SUFFICES ASSUME NEW f \in DOMAIN msg, Element(type, f).kind = "message",
                      NEW i \in DOMAIN Values(type, msg, f)
               PROVE  LeafOK(Element(type, f).of, Values(type, msg, f)[i])
    OBVIOUS
  <2>1. f = "Client" /\ Element(type, f).of = Peer /\ ~IsRepeated(type, f)
    BY <1>1, <1>2, <1>4
  <2>2. Values(type, msg, f) = <<peer>>
    BY <1>2, <2>1 DEF Values
  <2> QED BY <2>1, <2>2
<1>7. InnerOK(type, msg)
  BY <1>3, <1>5, <1>6, InnerRoundTrip
<1> QED BY <1>7 DEF type, msg

\* The peers a tracker answers arrive as they were built.
LEMMA QueryPeerReplyComes ==
  ASSUME NEW code, NEW fileid, NEW number, NEW peers, IsSeq(peers),
         \A i \in DOMAIN peers : InnerOK(PeerFileInfo, peers[i])
  PROVE  OuterOK(QueryPeerReply,
                 [ReturnCode |-> code, FileId |-> fileid, Count |-> number, Info |-> peers])
<1> DEFINE type == QueryPeerReply
           msg == [ReturnCode |-> code, FileId |-> fileid, Count |-> number, Info |-> peers]
<1>1. /\ type.required = {"ReturnCode", "FileId", "Count"}
      /\ DOMAIN type.fields = {"ReturnCode", "FileId", "Count", "Info"}
      /\ type.fields["ReturnCode"] = Number(0) /\ type.fields["FileId"] = Text
      /\ type.fields["Count"] = Number(0) /\ type.fields["Info"] = Repeated(Nested(PeerFileInfo))
  BY DEF QueryPeerReply, Message, QueryPeerReplyFields, QueryPeerReplyWire
<1>2. /\ DOMAIN msg = {"ReturnCode", "FileId", "Count", "Info"}
      /\ msg = [f \in DOMAIN msg |-> msg[f]] /\ msg["Info"] = peers
  OBVIOUS
<1>3. WellFormed(type)
  BY QueryPeerReplyWellFormed
<1> HIDE DEF type, msg
<1>4. /\ \A f \in DOMAIN type.fields : IsRepeated(type, f) <=> f = "Info"
      /\ \A f \in DOMAIN type.fields : Element(type, f).kind = "message" =>
           f = "Info" /\ Element(type, f).of = PeerFileInfo
  BY <1>1, KindFacts DEF IsRepeated, Element
<1>5. Fits(type, msg)
  BY <1>1, <1>2, <1>4 DEF Fits
<1>6. \A f \in DOMAIN msg : Element(type, f).kind = "message" =>
        \A i \in DOMAIN Values(type, msg, f) : InnerOK(Element(type, f).of, Values(type, msg, f)[i])
  <2> SUFFICES ASSUME NEW f \in DOMAIN msg, Element(type, f).kind = "message",
                      NEW i \in DOMAIN Values(type, msg, f)
               PROVE  InnerOK(Element(type, f).of, Values(type, msg, f)[i])
    OBVIOUS
  <2>1. f = "Info" /\ Element(type, f).of = PeerFileInfo /\ IsRepeated(type, f)
    BY <1>1, <1>2, <1>4
  <2>2. Values(type, msg, f) = peers
    BY <1>2, <2>1 DEF Values
  <2> QED BY <2>1, <2>2
<1>7. OuterOK(type, msg)
  BY <1>3, <1>5, <1>6, OuterRoundTrip
<1> QED BY <1>7 DEF type, msg

\* An answer of the resource server arrives as it was built.
LEMMA ReplyComes ==
  ASSUME NEW msg, msg = [f \in DOMAIN msg |-> msg[f]], {"num", "flag", "info"} \subseteq DOMAIN msg,
         DOMAIN msg \subseteq {"num", "flag", "info", "count", "brief", "seed"},
         IsSeq(msg["info"]), \A i \in DOMAIN msg["info"] : InnerOK(Info, msg["info"][i])
  PROVE  OuterOK(Reply, msg)
<1> DEFINE type == Reply
<1>1. /\ type.required = {"num", "flag"}
      /\ DOMAIN type.fields = {"num", "flag", "info", "count", "brief", "seed"}
      /\ type.fields["num"] = Number(0) /\ type.fields["flag"] = Number(0)
      /\ type.fields["info"] = Repeated(Nested(Info)) /\ type.fields["count"] = Number(0)
      /\ type.fields["brief"] = Text /\ type.fields["seed"] = Text
  BY DEF Reply, Message, ReplyFields, ReplyWire
<1>3. WellFormed(type)
  BY ReplyWellFormed
<1> HIDE DEF type
<1>4. /\ \A f \in DOMAIN type.fields : IsRepeated(type, f) <=> f = "info"
      /\ \A f \in DOMAIN type.fields : Element(type, f).kind = "message" =>
           f = "info" /\ Element(type, f).of = Info
  BY <1>1, KindFacts DEF IsRepeated, Element
<1>5. Fits(type, msg)
  BY <1>1, <1>4 DEF Fits
<1>6. \A f \in DOMAIN msg : Element(type, f).kind = "message" =>
        \A i \in DOMAIN Values(type, msg, f) : InnerOK(Element(type, f).of, Values(type, msg, f)[i])
  <2> SUFFICES ASSUME NEW f \in DOMAIN msg, Element(type, f).kind = "message",
                      NEW i \in DOMAIN Values(type, msg, f)
               PROVE  InnerOK(Element(type, f).of, Values(type, msg, f)[i])
    OBVIOUS
  <2>1. f = "info" /\ Element(type, f).of = Info /\ IsRepeated(type, f)
    BY <1>1, <1>4
  <2>2. Values(type, msg, f) = msg["info"]
    BY <2>1 DEF Values
  <2> QED BY <2>1, <2>2
<1>7. OuterOK(type, msg)
  BY <1>3, <1>5, <1>6, OuterRoundTrip
<1> QED BY <1>7 DEF type

-----------------------------------------------------------------------------
(* The names of the messages                                               *)

\* The names of the messages, which NetPack::message goes by, all differ.
LEMMA TypeNames ==
  /\ NetPackHeader.name = "NetPackHeader" /\ ClientFileInfo.name = "ClientProto.FileInfo"
  /\ ShakeHand.name = "ClientProto.ShakeHand" /\ UploadRequest.name = "ClientProto.UploadRequest"
  /\ UploadReply.name = "ClientProto.UploadReply" /\ Peer.name = "TrackerProto.Peer"
  /\ PeerFileInfo.name = "TrackerProto.PeerFileInfo" /\ QueryPeer.name = "TrackerProto.QueryPeer"
  /\ QueryPeerReply.name = "TrackerProto.QueryPeerReply" /\ Login.name = "TrackerProto.Login"
  /\ Logout.name = "TrackerProto.Logout" /\ ReportProgress.name = "TrackerProto.ReportProgress"
  /\ PublishResource.name = "TrackerProto.PublishResource"
  /\ MessageReply.name = "TrackerProto.MessageReply" /\ Ask.name = "Ask" /\ Info.name = "Info"
  /\ Reply.name = "Reply" /\ Chunk.name = "Torrent.Chunk" /\ File.name = "Torrent.File"
  /\ Torrent.name = "Torrent.Torrent" /\ HistoryFileInfo.name = "JobHistory.FileInfo"
  /\ JobHistoryInfo.name = "JobHistory.JobHistoryInfo" /\ History.name = "JobHistory.History"
<1>1. \A name, fields, wire : Message(name, fields, wire).name = name
  BY DEF Message
<1> QED BY <1>1 DEF NetPackHeader, ClientFileInfo, ShakeHand, UploadRequest, UploadReply, Peer,
             PeerFileInfo, QueryPeer, QueryPeerReply, Login, Logout, ReportProgress,
             PublishResource, MessageReply, Ask, Info, Reply, Chunk, File, Torrent,
             HistoryFileInfo, JobHistoryInfo, History

(* The types of the messages that are sent.                                *)
SentTypes ==
  {ShakeHand, UploadRequest, UploadReply, QueryPeer, QueryPeerReply, Login, Logout,
   ReportProgress, PublishResource, MessageReply, Ask, Reply}

\* A name leads to the type that has it.
LEMMA NameLeads ==
  /\ \A type \in SentTypes : type \in MessageTypes /\ TypeNamed(type.name) = type
  /\ \A type \in MessageTypes : type.name # ""
<1>1. \A type \in SentTypes : type \in MessageTypes
  BY DEF SentTypes, MessageTypes
<1>2. \A type \in MessageTypes : type.name # ""
  BY TypeNames DEF MessageTypes
<1>3. ASSUME NEW type \in SentTypes, NEW other \in MessageTypes, other.name = type.name
      PROVE  other = type
  BY <1>3, TypeNames DEF SentTypes, MessageTypes
<1>4. ASSUME NEW type \in SentTypes PROVE TypeNamed(type.name) = type
  BY <1>1, <1>3 DEF TypeNamed
<1> QED BY <1>1, <1>2, <1>4

-----------------------------------------------------------------------------
(* What peers are asked and answer                                         *)

(* A refused handshake, and what a handshake and an upload are answered.   *)
Refusal == Pack(PAYLOAD_SHAKE_HAND, ShakeHand, New(ShakeHand))
ShakeAnswer(info) == Pack(PAYLOAD_SHAKE_HAND, ShakeHand, [ClientId |-> Owner, Info |-> info])
UploadAnswer(code) == Pack(PAYLOAD_UPLOAD_REPLY, UploadReply, [ReturnCode |-> code])

(* A message that arrives as it was built.                                 *)
Sound(pack) ==
  \E type \in SentTypes :
    pack = Pack(pack.payloadType, type, pack.msg) /\ OuterOK(type, pack.msg)

\* A message made of a type and of what is read of it as it was built is sound.
LEMMA SoundPack ==
  ASSUME NEW type \in SentTypes, NEW payloadType, NEW msg, OuterOK(type, msg)
  PROVE  LET pack == Pack(payloadType, type, msg)
         IN  /\ Sound(pack) /\ pack.name = type.name /\ pack.payloadType = payloadType
             /\ pack.msg = msg
<1> DEFINE pack == Pack(payloadType, type, msg)
<1>1. pack.name = type.name /\ pack.payloadType = payloadType /\ pack.msg = msg
  BY DEF Pack
<1>2. pack = Pack(pack.payloadType, type, pack.msg)
  BY <1>1
<1> HIDE DEF pack
<1>3. Sound(pack)
  BY <1>1, <1>2 DEF Sound
<1> QED BY <1>1, <1>3 DEF pack

\* What a handshake says of a file nobody downloads arrives as it was built.
LEMMA NotHereComes == InnerOK(ClientFileInfo, NotHere(TheFile)) /\ NotHere(TheFile).HasFile = 0
<1> DEFINE msg == NotHere(TheFile)
<1>1. /\ DOMAIN msg = {"FileId", "HasFile", "Percentage", "FileBit", "FileBitCount"}
      /\ msg = [f \in DOMAIN msg |-> msg[f]] /\ msg["FileBit"] = <<>> /\ msg.HasFile = 0
  BY DEF NotHere
<1>2. IsSeq(<<>>)
  <2>1. <<>> \in Seq({})
    OBVIOUS
  <2> QED BY <2>1 DEF IsSeq
<1> HIDE DEF msg
<1>3. InnerOK(ClientFileInfo, msg)
  BY <1>1, <1>2, ClientFileInfoComes
<1> QED BY <1>1, <1>3 DEF msg

\* What a handshake says of a file that is downloaded arrives as it was built, and the
\* receiver makes the same bitmap of it.
LEMMA HereComes ==
  ASSUME NEW bitmap, bitmap \in Bitmaps(FileSize)
  PROVE  /\ InnerOK(ClientFileInfo, Here(TheFile, bitmap))
         /\ Here(TheFile, bitmap).HasFile = 1 /\ Here(TheFile, bitmap).FileId = TheFile
         /\ conver_transport_format_bitmap(Here(TheFile, bitmap)) = bitmap
<1> DEFINE msg == Here(TheFile, bitmap)
           base == [FileId |-> TheFile, HasFile |-> 1, Percentage |-> percentage_map]
<1>1. /\ bitmap.size = FileSize /\ to_block_range(bitmap) \in Seq(SUBSET Nat)
      /\ resize(from_block_range(to_block_range(bitmap)), FileSize) = bitmap
  <2>1. FileSize \in Nat
    BY NetPackAssumption
  <2> QED BY <2>1, BitmapRoundTrip
<1>2. /\ DOMAIN base = {"FileId", "HasFile", "Percentage"} /\ base["HasFile"] = 1
      /\ base["FileId"] = TheFile
  OBVIOUS
<1>3. msg = convert_bitmap_to_transport_format(bitmap, base)
  BY DEF Here
<1> HIDE DEF base
<1>4. /\ DOMAIN msg = {"FileId", "HasFile", "Percentage", "FileBitCount", "FileBit"}
      /\ msg = [f \in DOMAIN msg |-> msg[f]]
      /\ msg["FileBit"] = to_block_range(bitmap) /\ msg["FileBitCount"] = bitmap.size
      /\ msg["HasFile"] = 1 /\ msg["FileId"] = TheFile
  BY <1>2, <1>3 DEF convert_bitmap_to_transport_format
<1>5. IsSeq(msg["FileBit"])
  BY <1>1, <1>4 DEF IsSeq
<1> HIDE DEF msg
<1>6. InnerOK(ClientFileInfo, msg)
  BY <1>4, <1>5, ClientFileInfoComes
<1>7. conver_transport_format_bitmap(msg) = bitmap
  BY <1>1, <1>4 DEF conver_transport_format_bitmap
<1> QED BY <1>4, <1>6, <1>7 DEF msg

(* What may be asked over a connection.                                    *)
RequestsOf(srv, bitmap) ==
  CASE srv = "peer" -> {ShakeHandRequest(bitmap)} \cup UploadRequests
    [] srv = "tracker" ->
         {LoginTracker, LogoutTracker, PublishResourceToTracker, ReportProgressToTracker}
           \cup {RequestClients(ids) : ids \in {<<>>, <<Owner>>}}
    [] srv = "resource" -> {Search, SearchCount, Check, Download, Upload}

\* Requests for chunks arrive as they were built.
LEMMA PeerRequests ==
  ASSUME NEW bitmap \in Bitmaps(FileSize)
  PROVE  /\ Sound(ShakeHandRequest(bitmap)) /\ ShakeHandRequest(bitmap).name = ShakeHand.name
         /\ ShakeHandRequest(bitmap).payloadType = PAYLOAD_SHAKE_HAND
         /\ ShakeHandRequest(bitmap).msg.Info.FileId = TheFile
         /\ \A pack \in UploadRequests :
              /\ Sound(pack) /\ pack.name = UploadRequest.name
              /\ pack.payloadType = PAYLOAD_UPLOAD_REQUEST
<1>1. /\ Sound(ShakeHandRequest(bitmap)) /\ ShakeHandRequest(bitmap).name = ShakeHand.name
      /\ ShakeHandRequest(bitmap).payloadType = PAYLOAD_SHAKE_HAND
      /\ ShakeHandRequest(bitmap).msg = [ClientId |-> Me, Info |-> Here(TheFile, bitmap)]
  <2> DEFINE msg == [ClientId |-> Me, Info |-> Here(TheFile, bitmap)]
  <2>1. InnerOK(ClientFileInfo, Here(TheFile, bitmap))
    BY HereComes
  <2>2. OuterOK(ShakeHand, msg)
    BY <2>1, ShakeHandComes
  <2>3. ShakeHand \in SentTypes
    BY DEF SentTypes
  <2> HIDE DEF msg
  <2> QED BY <2>2, <2>3, SoundPack DEF ShakeHandRequest, msg
<1>2. Here(TheFile, bitmap).FileId = TheFile
  BY HereComes
<1>3. ASSUME NEW pack \in UploadRequests
      PROVE  /\ Sound(pack) /\ pack.name = UploadRequest.name
             /\ pack.payloadType = PAYLOAD_UPLOAD_REQUEST
  <2>1. PICK chunk \in 0 .. FileSize - 1 :
          pack = Pack(PAYLOAD_UPLOAD_REQUEST, UploadRequest,
                      [ClientId |-> Me, FileId |-> TheFile, ChunkNumber |-> chunk])
    BY DEF UploadRequests
  <2> DEFINE msg == [ClientId |-> Me, FileId |-> TheFile, ChunkNumber |-> chunk]
  <2>2. DOMAIN msg = {"ClientId", "FileId", "ChunkNumber"} /\ msg = [f \in DOMAIN msg |-> msg[f]]
    OBVIOUS
  <2>3. UploadRequest \in SentTypes
    BY DEF SentTypes
  <2> HIDE DEF msg
  <2>4. OuterOK(UploadRequest, msg)
    BY <2>2, UploadRequestComes
  <2> QED BY <2>1, <2>3, <2>4, SoundPack DEF msg
<1> QED BY <1>1, <1>2, <1>3

-----------------------------------------------------------------------------
(* What the tracker and the resource server are asked                      *)

\* Nothing is a sequence.
LEMMA NoneIsSeq == IsSeq(<<>>)
<1>1. <<>> \in Seq({})
  OBVIOUS
<1> QED BY <1>1 DEF IsSeq

\* So is one element.
LEMMA OneIsSeq == \A a : IsSeq(<<a>>)
<1> SUFFICES ASSUME NEW a PROVE IsSeq(<<a>>)
  OBVIOUS
<1>1. <<a>> \in Seq({a})
  OBVIOUS
<1> QED BY <1>1 DEF IsSeq

\* Requests to the tracker arrive as they were built.
LEMMA TrackerRequests ==
  /\ Sound(LoginTracker) /\ LoginTracker.name = Login.name
  /\ Sound(LogoutTracker) /\ LogoutTracker.name = Logout.name
  /\ Sound(PublishResourceToTracker) /\ PublishResourceToTracker.name = PublishResource.name
  /\ Sound(ReportProgressToTracker) /\ ReportProgressToTracker.name = ReportProgress.name
  /\ \A ids \in {<<>>, <<Owner>>} :
       Sound(RequestClients(ids)) /\ RequestClients(ids).name = QueryPeer.name
<1>1. Sound(LoginTracker) /\ LoginTracker.name = Login.name
  <2> DEFINE msg == [ClientId |-> Me, MessagePort |-> 9025]
  <2>1. DOMAIN msg = {"ClientId", "MessagePort"} /\ msg = [f \in DOMAIN msg |-> msg[f]]
    OBVIOUS
  <2>2. Login \in SentTypes
    BY DEF SentTypes
  <2> HIDE DEF msg
  <2>4. OuterOK(Login, msg)
    BY <2>1, LoginComes
  <2> QED BY <2>2, <2>4, SoundPack DEF LoginTracker, msg
<1>2. Sound(LogoutTracker) /\ LogoutTracker.name = Logout.name
  <2> DEFINE msg == [ClientId |-> Me]
  <2>1. DOMAIN msg = {"ClientId"} /\ msg = [f \in DOMAIN msg |-> msg[f]]
    OBVIOUS
  <2>2. Logout \in SentTypes
    BY DEF SentTypes
  <2> HIDE DEF msg
  <2>4. OuterOK(Logout, msg)
    BY <2>1, LogoutComes
  <2> QED BY <2>2, <2>4, SoundPack DEF LogoutTracker, msg
<1>3. Sound(PublishResourceToTracker) /\ PublishResourceToTracker.name = PublishResource.name
  <2> DEFINE msg == [ClientId |-> Me, FileId |-> TheFile]
  <2>1. DOMAIN msg = {"ClientId", "FileId"} /\ msg = [f \in DOMAIN msg |-> msg[f]]
    OBVIOUS
  <2>2. PublishResource \in SentTypes
    BY DEF SentTypes
  <2> HIDE DEF msg
  <2>4. OuterOK(PublishResource, msg)
    BY <2>1, PublishResourceComes
  <2> QED BY <2>2, <2>4, SoundPack DEF PublishResourceToTracker, msg
<1>4. Sound(ReportProgressToTracker) /\ ReportProgressToTracker.name = ReportProgress.name
  <2> DEFINE msg == [ClientId |-> Me, FileId |-> TheFile, Percentage |-> percentage_map]
  <2>1. DOMAIN msg = {"ClientId", "FileId", "Percentage"} /\ msg = [f \in DOMAIN msg |-> msg[f]]
    OBVIOUS
  <2>2. ReportProgress \in SentTypes
    BY DEF SentTypes
  <2> HIDE DEF msg
  <2>4. OuterOK(ReportProgress, msg)
    BY <2>1, ReportProgressComes
  <2> QED BY <2>2, <2>4, SoundPack DEF ReportProgressToTracker, msg
<1>5. ASSUME NEW ids \in {<<>>, <<Owner>>}
      PROVE  Sound(RequestClients(ids)) /\ RequestClients(ids).name = QueryPeer.name
  <2> DEFINE msg == [FileId |-> TheFile, Percentage |-> percentage_map, NeedCount |-> 20,
                     OwnedClients |-> ids]
  <2>1. DOMAIN msg = {"FileId", "Percentage", "NeedCount", "OwnedClients"} /\ msg = [f \in DOMAIN msg |-> msg[f]] /\ msg["OwnedClients"] = ids
    OBVIOUS
  <2>2. QueryPeer \in SentTypes
    BY DEF SentTypes
  <2>3. IsSeq(ids)
    BY NoneIsSeq, OneIsSeq
  <2> HIDE DEF msg
  <2>4. OuterOK(QueryPeer, msg)
    BY <2>1, <2>3, QueryPeerComes
  <2> QED BY <2>2, <2>4, SoundPack DEF RequestClients, msg
<1> QED BY <1>1, <1>2, <1>3, <1>4, <1>5

\* Questions to the resource server arrive as they were built.
LEMMA ResourceRequests ==
  \A pack \in {Search, SearchCount, Check, Download, Upload} :
    Sound(pack) /\ pack.name = Ask.name /\ pack.payloadType = 0
<1>1. Sound(Search) /\ Search.name = Ask.name /\ Search.payloadType = 0
  <2> DEFINE msg == [num |-> 1, key |-> "word", type |-> 1, counta |-> 0, countb |-> 1]
  <2>1. DOMAIN msg = {"num", "key", "type", "counta", "countb"} /\ msg = [f \in DOMAIN msg |-> msg[f]]
    OBVIOUS
  <2>2. Ask \in SentTypes
    BY DEF SentTypes
  <2> HIDE DEF msg
  <2>4. OuterOK(Ask, msg)
    BY <2>1, AskComes
  <2> QED BY <2>2, <2>4, SoundPack DEF Search, msg
<1>2. Sound(SearchCount) /\ SearchCount.name = Ask.name /\ SearchCount.payloadType = 0
  <2> DEFINE msg == [num |-> 5, key |-> "word", type |-> 1]
  <2>1. DOMAIN msg = {"num", "key", "type"} /\ msg = [f \in DOMAIN msg |-> msg[f]]
    OBVIOUS
  <2>2. Ask \in SentTypes
    BY DEF SentTypes
  <2> HIDE DEF msg
  <2>4. OuterOK(Ask, msg)
    BY <2>1, AskComes
  <2> QED BY <2>2, <2>4, SoundPack DEF SearchCount, msg
<1>3. Sound(Check) /\ Check.name = Ask.name /\ Check.payloadType = 0
  <2> DEFINE msg == [num |-> 2, fileid |-> 7]
  <2>1. DOMAIN msg = {"num", "fileid"} /\ msg = [f \in DOMAIN msg |-> msg[f]]
    OBVIOUS
  <2>2. Ask \in SentTypes
    BY DEF SentTypes
  <2> HIDE DEF msg
  <2>4. OuterOK(Ask, msg)
    BY <2>1, AskComes
  <2> QED BY <2>2, <2>4, SoundPack DEF Check, msg
<1>4. Sound(Download) /\ Download.name = Ask.name /\ Download.payloadType = 0
  <2> DEFINE msg == [num |-> 3, fileid |-> 7]
  <2>1. DOMAIN msg = {"num", "fileid"} /\ msg = [f \in DOMAIN msg |-> msg[f]]
    OBVIOUS
  <2>2. Ask \in SentTypes
    BY DEF SentTypes
  <2> HIDE DEF msg
  <2>4. OuterOK(Ask, msg)
    BY <2>1, AskComes
  <2> QED BY <2>2, <2>4, SoundPack DEF Download, msg
<1>5. Sound(Upload) /\ Upload.name = Ask.name /\ Upload.payloadType = 0
  <2> DEFINE msg == [num |-> 4, seed |-> "torrent", type |-> 1, key |-> "name",
                     brief |-> "about", size |-> 9]
  <2>1. DOMAIN msg = {"num", "seed", "type", "key", "brief", "size"} /\ msg = [f \in DOMAIN msg |-> msg[f]]
    OBVIOUS
  <2>2. Ask \in SentTypes
    BY DEF SentTypes
  <2> HIDE DEF msg
  <2>4. OuterOK(Ask, msg)
    BY <2>1, AskComes
  <2> QED BY <2>2, <2>4, SoundPack DEF Upload, msg
<1> QED BY <1>1, <1>2, <1>3, <1>4, <1>5

\* Every request arrives as it was built.
LEMMA RequestsSound ==
  ASSUME NEW srv \in {"peer", "tracker", "resource"}, NEW bitmap \in Bitmaps(FileSize),
         NEW pack \in RequestsOf(srv, bitmap)
  PROVE  /\ Sound(pack)
         /\ srv = "peer" => pack = ShakeHandRequest(bitmap) \/ pack \in UploadRequests
         /\ srv # "peer" => pack.name # ShakeHand.name /\ pack.name # UploadRequest.name
         /\ srv # "tracker" => pack.name # QueryPeer.name
         /\ srv = "resource" => pack.name = Ask.name /\ pack.payloadType = 0
<1>1. CASE srv = "peer"
  <2>1. pack = ShakeHandRequest(bitmap) \/ pack \in UploadRequests
    BY <1>1 DEF RequestsOf
  <2>2. Sound(pack) /\ pack.name \in {ShakeHand.name, UploadRequest.name}
    BY <2>1, PeerRequests
  <2> QED BY <1>1, <2>1, <2>2, TypeNames
<1>2. CASE srv = "tracker"
  <2>1. pack \in {LoginTracker, LogoutTracker, PublishResourceToTracker, ReportProgressToTracker}
        \/ \E ids \in {<<>>, <<Owner>>} : pack = RequestClients(ids)
    BY <1>2 DEF RequestsOf
  <2>2. /\ Sound(pack)
        /\ pack.name \in {Login.name, Logout.name, PublishResource.name, ReportProgress.name, QueryPeer.name}
    BY <2>1, TrackerRequests
  <2> QED BY <1>2, <2>2, TypeNames
<1>3. CASE srv = "resource"
  <2>1. pack \in {Search, SearchCount, Check, Download, Upload}
    BY <1>3 DEF RequestsOf
  <2>2. Sound(pack) /\ pack.name = Ask.name /\ pack.payloadType = 0
    BY <2>1, ResourceRequests
  <2> QED BY <1>3, <2>2, TypeNames
<1> QED BY <1>1, <1>2, <1>3

-----------------------------------------------------------------------------
(* The answers                                                             *)

\* A handshake without any field, which refuses one, is sent as nothing and is not read.
LEMMA RefusalUnread == Encode(ShakeHand, New(ShakeHand)) = <<>> /\ ~IsRead(ShakeHand, <<>>)
<1> DEFINE type == ShakeHand
           msg == New(type)
<1>1. /\ type.required = {"ClientId", "Info"} /\ DOMAIN type.fields = {"ClientId", "Info"}
      /\ type.fields["ClientId"] = Text /\ type.fields["Info"] = Nested(ClientFileInfo)
      /\ DOMAIN type.order = 1 .. 2 /\ type.order[1] = "ClientId" /\ type.order[2] = "Info"
  BY DEF ShakeHand, Message, ShakeHandFields, ShakeHandWire
<1> HIDE DEF type
<1>2. \A f \in DOMAIN type.fields : ~IsRepeated(type, f)
  BY <1>1, KindFacts DEF IsRepeated
<1>3. DOMAIN msg = {}
  BY <1>2 DEF New
<1> HIDE DEF msg
<1> DEFINE groups == [n \in DOMAIN type.order |-> EncodeField(EncodeInner, type, msg, n)]
<1>4. \A n \in 1 .. 2 : groups[n] = <<>>
  <2> SUFFICES ASSUME NEW n \in 1 .. 2 PROVE EncodeField(EncodeInner, type, msg, n) = <<>>
    BY <1>1
  <2>1. Values(type, msg, type.order[n]) = <<>>
    BY <1>3 DEF Values
  <2>2. DOMAIN Values(type, msg, type.order[n]) = {}
    BY <2>1
  <2> QED BY <2>2 DEF EncodeField
<1>5. FlattenSeq(groups) = <<>>
  <2> DEFINE e == <<>>
             one == Append(e, e)
             both == Append(one, e)
  <2>1. e \in Seq(Seq({})) /\ e \in Seq({})
    OBVIOUS
  <2>2. one \in Seq(Seq({})) /\ Len(one) = 1 /\ one[1] = e
    OBVIOUS
  <2>3. groups = both
    <3>1. both \in Seq(Seq({})) /\ Len(both) = 2 /\ both[1] = e /\ both[2] = e
      OBVIOUS
    <3>2. IsSeq(groups) /\ Len(groups) = 2
      <4>1. groups \in [1 .. 2 -> {<<>>}]
        BY <1>1, <1>4
      <4> HIDE DEF groups
      <4> QED BY <4>1, FunctionIsSeq DEF IsSeq
    <3>3. IsSeq(both)
      BY <3>1 DEF IsSeq
    <3> HIDE DEF groups, both, e
    <3>4. \A i \in 1 .. 2 : groups[i] = both[i]
      <4>1. \A i \in 1 .. 2 : i = 1 \/ i = 2
        OBVIOUS
      <4> QED BY <1>4, <3>1, <4>1 DEF e
    <3> QED BY <3>1, <3>2, <3>3, <3>4, SameSeq
  <2> HIDE DEF groups
  <2>4. FlattenSeq(one) = FlattenSeq(e) \o e
    BY <2>1, FlattenLaws
  <2> HIDE DEF one
  <2>5. FlattenSeq(both) = FlattenSeq(one) \o e
    BY <2>1, <2>2, FlattenLaws
  <2>6. FlattenSeq(e) = <<>>
    BY FlattenEmpty
  <2>7. <<>> \o <<>> = <<>>
    OBVIOUS
  <2> QED BY <2>3, <2>4, <2>5, <2>6, <2>7
<1> HIDE DEF groups
<1>6. Encode(type, msg) = <<>>
  <2>1. Encode(type, msg) = FlattenSeq(FlattenSeq(groups))
    BY DEF Encode, EncodeAll, groups
  <2> QED BY <1>5, <2>1, FlattenEmpty
<1>7. ~IsRead(type, <<>>)
  <2> DEFINE none == <<>>
  <2>1. Split(none) = none
    BY SplitEmpty
  <2>2. \A n \in 1 .. 2 : Pieces(type, none, n) = none
    <3> SUFFICES ASSUME NEW n \in 1 .. 2 PROVE Pieces(type, none, n) = none
      OBVIOUS
    <3>1. type.order[n] \in DOMAIN type.fields
      <4>1. n = 1 \/ n = 2
        OBVIOUS
      <4> QED BY <1>1, <4>1
    <3>2. ~IsRepeated(type, type.order[n])
      BY <1>2, <3>1
    <3>3. Tagged(none, Tag(n, Element(type, type.order[n]))) = none
      BY TaggedEmpty
    <3> HIDE DEF none
    <3> QED BY <3>2, <3>3 DEF Pieces, none
  <2> HIDE DEF none
  <2>3. \A n \in 1 .. 2 : ~IsSet(type, none, n)
    <3> SUFFICES ASSUME NEW n \in 1 .. 2 PROVE ~IsSet(type, none, n)
      OBVIOUS
    <3>1. type.order[n] \in DOMAIN type.fields
      <4>1. n = 1 \/ n = 2
        OBVIOUS
      <4> QED BY <1>1, <4>1
    <3> QED BY <1>2, <2>2, <3>1 DEF IsSet, none
  <2>4. FieldsSet(type, none) = {}
    BY <1>1, <2>3 DEF FieldsSet
  <2>5. "Info" \in type.required
    BY <1>1
  <2>6. IsRead(type, none) => type.required \subseteq FieldsSet(type, none)
    BY <2>1 DEF IsRead, AllRead
  <2> QED BY <2>4, <2>5, <2>6 DEF none
<1> QED BY <1>6, <1>7 DEF type, msg

(* What may be answered to a request.                                      *)
PeerAnswersTo(lost, bitmaps_, request) ==
  IF request.name = ShakeHand.name
    THEN {pack \in {Refusal} : lost} \cup {ShakeAnswer(NotHere(TheFile))}
           \cup {ShakeAnswer(Here(TheFile, b)) : b \in bitmaps_}
    ELSE {UploadAnswer(ERROR_OK), UploadAnswer(ERROR_UNKNOWN)}
AnswersOf(srv, lost, bitmaps_, request) ==
  CASE srv = "peer" -> PeerAnswersTo(lost, bitmaps_, request)
    [] srv = "tracker" -> TrackerReplies(request)
    [] srv = "resource" -> ResourceReplies(request)

\* The answers of a peer arrive as they were built, unless they refuse a handshake.
LEMMA PeerAnswersSound ==
  ASSUME NEW lost, NEW bs \in SUBSET Bitmaps(FileSize), NEW request,
         NEW pack \in PeerAnswersTo(lost, bs, request)
  PROVE  /\ Sound(pack) \/ (lost /\ pack = Refusal)
         /\ request.name = ShakeHand.name =>
              /\ pack.name = ShakeHand.name
              /\ \/ pack = Refusal
                 \/ pack.msg.Info.HasFile = 0
                 \/ pack.msg.Info.HasFile = 1 /\ conver_transport_format_bitmap(pack.msg.Info) \in bs
         /\ request.name # ShakeHand.name => pack.name = UploadReply.name
<1>1. ASSUME request.name = ShakeHand.name, lost, pack = Refusal
      PROVE  pack.name = ShakeHand.name
  BY <1>1 DEF Refusal, Pack
<1>2. ASSUME NEW info, InnerOK(ClientFileInfo, info), pack = ShakeAnswer(info)
      PROVE  Sound(pack) /\ pack.name = ShakeHand.name /\ pack.msg.Info = info
  <2> DEFINE msg == [ClientId |-> Owner, Info |-> info]
  <2>1. OuterOK(ShakeHand, msg) /\ msg.Info = info
    BY <1>2, ShakeHandComes
  <2>2. ShakeHand \in SentTypes
    BY DEF SentTypes
  <2>3. pack = Pack(PAYLOAD_SHAKE_HAND, ShakeHand, msg)
    BY <1>2 DEF ShakeAnswer
  <2> HIDE DEF msg
  <2>4. Sound(pack) /\ pack.name = ShakeHand.name /\ pack.msg = msg
    BY <2>1, <2>2, <2>3, SoundPack
  <2> QED BY <2>1, <2>4
<1>3. ASSUME NEW code, pack = UploadAnswer(code)
      PROVE  Sound(pack) /\ pack.name = UploadReply.name
  <2> DEFINE msg == [ReturnCode |-> code]
  <2>1. DOMAIN msg = {"ReturnCode"} /\ msg = [f \in DOMAIN msg |-> msg[f]]
    OBVIOUS
  <2>2. UploadReply \in SentTypes
    BY DEF SentTypes
  <2>3. pack = Pack(PAYLOAD_UPLOAD_REPLY, UploadReply, msg)
    BY <1>3 DEF UploadAnswer
  <2> HIDE DEF msg
  <2>4. OuterOK(UploadReply, msg)
    BY <2>1, UploadReplyComes
  <2> QED BY <2>2, <2>3, <2>4, SoundPack
<1>4. CASE request.name = ShakeHand.name
  <2>1. \/ lost /\ pack = Refusal
        \/ pack = ShakeAnswer(NotHere(TheFile))
        \/ \E b \in bs : pack = ShakeAnswer(Here(TheFile, b))
    BY <1>4 DEF PeerAnswersTo
  <2>2. CASE lost /\ pack = Refusal
    BY <1>1, <1>4, <2>2
  <2>3. CASE pack = ShakeAnswer(NotHere(TheFile))
    <3>1. InnerOK(ClientFileInfo, NotHere(TheFile)) /\ NotHere(TheFile).HasFile = 0
      BY NotHereComes
    <3>2. Sound(pack) /\ pack.name = ShakeHand.name /\ pack.msg.Info = NotHere(TheFile)
      BY <1>2, <2>3, <3>1
    <3> QED BY <1>4, <3>1, <3>2
  <2>4. CASE \E b \in bs : pack = ShakeAnswer(Here(TheFile, b))
    <3>1. PICK b \in bs : pack = ShakeAnswer(Here(TheFile, b))
      BY <2>4
    <3>2. b \in Bitmaps(FileSize)
      OBVIOUS
    <3>3. /\ InnerOK(ClientFileInfo, Here(TheFile, b)) /\ Here(TheFile, b).HasFile = 1
          /\ conver_transport_format_bitmap(Here(TheFile, b)) = b
      BY <3>2, HereComes
    <3>4. Sound(pack) /\ pack.name = ShakeHand.name /\ pack.msg.Info = Here(TheFile, b)
      BY <1>2, <3>1, <3>3
    <3> QED BY <1>4, <3>1, <3>3, <3>4
  <2> QED BY <2>1, <2>2, <2>3, <2>4
<1>5. CASE request.name # ShakeHand.name
  <2>1. pack = UploadAnswer(ERROR_OK) \/ pack = UploadAnswer(ERROR_UNKNOWN)
    BY <1>5 DEF PeerAnswersTo
  <2> QED BY <1>3, <1>5, <2>1
<1> QED BY <1>4, <1>5

\* The answers of the tracker arrive as they were built.
LEMMA TrackerAnswersSound ==
  ASSUME NEW request, NEW pack \in TrackerReplies(request)
  PROVE  /\ Sound(pack)
         /\ request.name = QueryPeer.name => pack.name = QueryPeerReply.name
<1>1. CASE request.name = QueryPeer.name
  <2>1. PICK code \in {ERROR_OK, ERROR_UNKNOWN}, peers \in {<<>>, <<OnePeer, OnePeer>>} :
          pack = Pack(PAYLOAD_REQUEST_PEER_REPLAY, QueryPeerReply,
                   [ReturnCode |-> code, FileId |-> TheFile, Count |-> Len(peers), Info |-> peers])
    BY <1>1 DEF TrackerReplies
  <2> DEFINE client == [ClientId |-> Owner, Ip |-> "ip", MessagePort |-> 9025]
             one == [Client |-> client, Percentage |-> percentage_map]
             msg == [ReturnCode |-> code, FileId |-> TheFile, Count |-> Len(peers), Info |-> peers]
  <2>2. DOMAIN client = {"ClientId", "Ip", "MessagePort"} /\ client = [f \in DOMAIN client |-> client[f]]
    OBVIOUS
  <2>3. OnePeer = one
    BY DEF OnePeer
  <2> HIDE DEF client
  <2>4. LeafOK(Peer, client)
    BY <2>2, PeerComes
  <2>5. InnerOK(PeerFileInfo, one)
    BY <2>4, PeerFileInfoComes
  <2> HIDE DEF one
  <2>6. IsSeq(peers) /\ \A i \in DOMAIN peers : peers[i] = one
    <3>1. CASE peers = <<>>
      BY <3>1, NoneIsSeq
    <3>2. CASE peers = <<OnePeer, OnePeer>>
      <4>1. peers \in Seq({one}) /\ Len(peers) = 2 /\ peers[1] = one /\ peers[2] = one
        BY <2>3, <3>2
      <4> QED BY <4>1 DEF IsSeq
    <3> QED BY <2>1, <3>1, <3>2
  <2>7. OuterOK(QueryPeerReply, msg)
    BY <2>5, <2>6, QueryPeerReplyComes
  <2>8. QueryPeerReply \in SentTypes
    BY DEF SentTypes
  <2> HIDE DEF msg
  <2>9. Sound(pack) /\ pack.name = QueryPeerReply.name
    BY <2>1, <2>7, <2>8, SoundPack DEF msg
  <2> QED BY <2>9
<1>2. CASE request.name # QueryPeer.name
  <2>1. PICK msg \in {[ReturnCode |-> ERROR_OK], [ReturnCode |-> ERROR_UNKNOWN, Message |-> "why"]} :
          pack = Pack(PAYLOAD_MESSAGE_REPLY, MessageReply, msg)
    BY <1>2 DEF TrackerReplies
  <2>2. /\ "ReturnCode" \in DOMAIN msg /\ DOMAIN msg \subseteq {"ReturnCode", "Message"}
        /\ msg = [f \in DOMAIN msg |-> msg[f]]
    BY <2>1
  <2>3. OuterOK(MessageReply, msg)
    BY <2>2, MessageReplyComes
  <2>4. MessageReply \in SentTypes
    BY DEF SentTypes
  <2> QED BY <1>2, <2>1, <2>3, <2>4, SoundPack
<1> QED BY <1>1, <1>2

\* The answers of the resource server arrive as they were built.
LEMMA ResourceAnswersSound ==
  ASSUME NEW request, NEW pack \in ResourceReplies(request)
  PROVE  Sound(pack) /\ pack.name = Reply.name /\ pack.payloadType = 0
<1> DEFINE n == request.msg.num
<1>1. PICK msg : /\ pack = Pack(0, Reply, msg)
                 /\ \/ \E flag \in {0, 1} : msg = [num |-> n, flag |-> flag, info |-> <<>>]
                    \/ msg = [num |-> n, flag |-> 1, info |-> <<OneInfo>>]
                    \/ msg = [num |-> n, flag |-> 1, info |-> <<>>, count |-> 3,
                              brief |-> "about", seed |-> "torrent"]
  BY DEF ResourceReplies
<1> HIDE DEF n
<1>2. /\ {"num", "flag", "info"} \subseteq DOMAIN msg
      /\ DOMAIN msg \subseteq {"num", "flag", "info", "count", "brief", "seed"}
      /\ msg = [f \in DOMAIN msg |-> msg[f]] /\ msg["info"] \in {<<>>, <<OneInfo>>}
  BY <1>1
<1>3. InnerOK(Info, OneInfo)
  <2>1. /\ DOMAIN OneInfo = {"filename", "time", "fileid", "size", "type"}
        /\ OneInfo = [f \in DOMAIN OneInfo |-> OneInfo[f]]
    BY DEF OneInfo
  <2> QED BY <2>1, InfoComes
<1>4. IsSeq(msg["info"]) /\ \A i \in DOMAIN msg["info"] : InnerOK(Info, msg["info"][i])
  <2>1. CASE msg["info"] = <<>>
    BY <2>1, NoneIsSeq
  <2>2. CASE msg["info"] = <<OneInfo>>
    <3>1. IsSeq(<<OneInfo>>) /\ \A i \in DOMAIN <<OneInfo>> : <<OneInfo>>[i] = OneInfo
      BY OneIsSeq
    <3> QED BY <1>3, <2>2, <3>1
  <2> QED BY <1>2, <2>1, <2>2
<1>5. OuterOK(Reply, msg)
  BY <1>2, <1>4, ReplyComes
<1>6. Reply \in SentTypes
  BY DEF SentTypes
<1> QED BY <1>1, <1>5, <1>6, SoundPack

-----------------------------------------------------------------------------
(* Messages that are read as they were built                               *)

(* A message the receiver reads as it was built, or, once a receive has    *)
(* returned less than it asked for, one that is not read at all.           *)
HeaderStream(pack) == Encode(NetPackHeader, HeaderOf(pack))
Body(pack) == Encode(TypeNamed(pack.name), pack.msg)
Readable(pack) == IsRead(TypeNamed(pack.name), Body(pack))
Good(lost, pack) ==
  /\ TypeNamed(pack.name) \in SentTypes /\ TypeNamed(pack.name).name = pack.name
  /\ pack = Pack(pack.payloadType, TypeNamed(pack.name), pack.msg)
  /\ IsSeq(Body(pack))
  /\ Readable(pack) => Decode(TypeNamed(pack.name), Body(pack)) = pack.msg
  /\ Readable(pack) \/ lost

\* A message that arrives as it was built is good, and so is a refused handshake.
LEMMA GoodPacks ==
  ASSUME NEW lost, NEW pack, Sound(pack) \/ (lost /\ pack = Refusal)
  PROVE  Good(lost, pack)
<1>1. ASSUME NEW type \in SentTypes, pack = Pack(pack.payloadType, type, pack.msg)
      PROVE  TypeNamed(pack.name) = type /\ type.name = pack.name
  <2>1. pack.name = type.name
    BY <1>1 DEF Pack
  <2> QED BY <2>1, NameLeads
<1>2. CASE Sound(pack)
  <2>1. PICK type \in SentTypes : pack = Pack(pack.payloadType, type, pack.msg) /\ OuterOK(type, pack.msg)
    BY <1>2 DEF Sound
  <2>2. TypeNamed(pack.name) = type /\ type.name = pack.name
    BY <1>1, <2>1
  <2> QED BY <2>1, <2>2 DEF Good, Body, Readable, OuterOK
<1>3. CASE lost /\ pack = Refusal
  <2>1. /\ pack = Pack(pack.payloadType, ShakeHand, pack.msg) /\ pack.msg = New(ShakeHand)
        /\ ShakeHand \in SentTypes
    BY <1>3 DEF Refusal, Pack, SentTypes
  <2>2. TypeNamed(pack.name) = ShakeHand /\ ShakeHand.name = pack.name
    BY <1>1, <2>1
  <2>3. Body(pack) = <<>> /\ ~Readable(pack)
    BY <2>1, <2>2, RefusalUnread DEF Body, Readable
  <2> QED BY <1>3, <2>1, <2>2, <2>3, NoneIsSeq DEF Good
<1> QED BY <1>2, <1>3

\* What is written for a length.
LEMMA LengthFacts ==
  ASSUME NEW n
  PROVE  /\ IsSeq(LengthBytes(n)) /\ Len(LengthBytes(n)) = 4 /\ IsLength(LengthBytes(n))
         /\ LengthBytes(n)[1][3] = n /\ LengthBytes(n)[1][2] = 1
<1> DEFINE s == LengthBytes(n)
<1>1. s \in [1 .. 4 -> {<<"int32", byte, n>> : byte \in 1 .. 4}]
  BY DEF LengthBytes
<1>2. \A i \in 1 .. 4 : s[i][1] = "int32" /\ s[i][2] = i /\ s[i][3] = n
  BY DEF LengthBytes
<1> DEFINE S == {<<"int32", byte, n>> : byte \in 1 .. 4}
<1> HIDE DEF s, S
<1>3. IsSeq(s) /\ Len(s) = 4
  <2>1. s \in [1 .. 4 -> S] /\ 4 \in Nat
    BY <1>1 DEF S
  <2>2. s \in Seq(S) /\ Len(s) = 4
    BY <2>1, FunctionIsSeq
  <2> QED BY <2>2 DEF IsSeq
<1> QED BY <1>2, <1>3 DEF IsLength, s

\* The streams of a message.
LEMMA StreamOfPack ==
  ASSUME NEW lost, NEW pack, Good(lost, pack)
  PROVE  LET h == HeaderStream(pack)
             b == Body(pack)
         IN  /\ IsSeq(b) /\ Len(b) \in Nat
             /\ HeaderOf(pack) = HeaderMsg(pack.payloadType, Len(b), pack.name)
             /\ h = HeaderStreamOf(pack.payloadType, Len(b), pack.name)
             /\ IsSeq(h) /\ Len(h) = 6 /\ h[3][1] = "tag"
             /\ sendBy(pack) = LengthBytes(6) \o (h \o b) /\ IsSeq(sendBy(pack))
             /\ connentSends(pack) = LengthBytes(Len(b)) \o b /\ IsSeq(connentSends(pack))
<1> DEFINE h == HeaderStream(pack)
           b == Body(pack)
           l == LengthBytes(6)
           m == LengthBytes(Len(b))
<1>1. IsSeq(b) /\ Len(b) \in Nat
  BY SeqFacts DEF Good
<1>2. HeaderOf(pack) = HeaderMsg(pack.payloadType, Len(b), pack.name)
  BY DEF HeaderOf, HeaderMsg, ByteSize, Body
<1>3. h = HeaderStreamOf(pack.payloadType, Len(b), pack.name)
  BY <1>2 DEF HeaderStream, HeaderStreamOf
<1>4. IsSeq(h) /\ Len(h) = 6 /\ h[3][1] = "tag"
  BY <1>3, HeaderTokens
<1>5. sendBy(pack) = (l \o h) \o b
  BY <1>4 DEF sendBy, HeaderStream, Body
<1>6. connentSends(pack) = m \o b
  BY DEF connentSends, Body
<1>7. IsSeq(l) /\ IsSeq(m)
  BY LengthFacts
<1> HIDE DEF h, b, l, m
<1>8. (l \o h) \o b = l \o (h \o b) /\ IsSeq(l \o h) /\ IsSeq(m \o b)
  <2>1. (l \o h) \o b = l \o (h \o b)
    <3>1. IsSeq(l) /\ IsSeq(h) /\ IsSeq(b)
      BY <1>1, <1>4, <1>7
    <3> QED BY <3>1, JoinThree
  <2>2. IsSeq(l \o h)
    BY <1>4, <1>7, Joining
  <2>3. IsSeq(m \o b)
    BY <1>1, <1>7, Joining
  <2> QED BY <2>1, <2>2, <2>3
<1>9. IsSeq((l \o h) \o b)
  <2> DEFINE g == l \o h
  <2>1. IsSeq(g)
    BY <1>8
  <2> HIDE DEF g
  <2>2. IsSeq(g \o b)
    BY <1>1, <2>1, Joining
  <2> QED BY <2>2 DEF g
<1> QED BY <1>1, <1>2, <1>3, <1>4, <1>5, <1>6, <1>8, <1>9 DEF h, b, l, m

\* A message of which only some fields are known.
LEMMA TypedFacts ==
  ASSUME NEW a, NEW name, NEW msg
  PROVE  LET typed == [NoPack EXCEPT !.payloadType = a]
         IN  /\ typed.payloadType = a
             /\ [typed EXCEPT !.name = name, !.msg = msg] = [payloadType |-> a, name |-> name, msg |-> msg]
<1> DEFINE e == <<>>
           base == [payloadType |-> 0, name |-> "", msg |-> e]
           typed == [base EXCEPT !.payloadType = a]
<1>1. NoPack = base
  BY DEF NoPack
<1> HIDE DEF e
<1>2. /\ DOMAIN typed = {"payloadType", "name", "msg"} /\ typed = [f \in DOMAIN typed |-> typed[f]]
      /\ typed["payloadType"] = a
  OBVIOUS
<1> HIDE DEF base, typed
<1> DEFINE named == [typed EXCEPT !.name = name]
           r == [named EXCEPT !.msg = msg]
<1>4. /\ DOMAIN named = {"payloadType", "name", "msg"} /\ named = [f \in DOMAIN named |-> named[f]]
      /\ named["payloadType"] = a /\ named["name"] = name
  BY <1>2
<1> HIDE DEF named
<1>5. /\ DOMAIN r = {"payloadType", "name", "msg"} /\ r = [f \in DOMAIN r |-> r[f]]
      /\ r["payloadType"] = a /\ r["name"] = name /\ r["msg"] = msg
  BY <1>4
<1>6. r = [typed EXCEPT !.name = name, !.msg = msg]
  BY DEF named
<1> HIDE DEF r
<1>7. r = [payloadType |-> a, name |-> name, msg |-> msg]
  BY <1>5
<1>3. [typed EXCEPT !.name = name, !.msg = msg] = [payloadType |-> a, name |-> name, msg |-> msg]
  BY <1>6, <1>7
<1> QED BY <1>1, <1>2, <1>3 DEF typed

\* A whole message is heard as it was said, or not at all.
LEMMA MessageHeard ==
  ASSUME NEW lost, NEW pack, Good(lost, pack)
  PROVE  LET m == message(HeaderOf(pack), Body(pack))
         IN  /\ Readable(pack) => m = [ok |-> TRUE, pack |-> pack]
             /\ ~Readable(pack) => ~m.ok /\ m.pack.payloadType = pack.payloadType
<1> DEFINE header == HeaderOf(pack)
           type == TypeNamed(pack.name)
           n == Len(Body(pack))
           typed == [NoPack EXCEPT !.payloadType = pack.payloadType]
           m == message(header, Body(pack))
           read == Parse(type, Body(pack))
<1>1. header = HeaderMsg(pack.payloadType, n, pack.name)
  BY StreamOfPack
<1>2. /\ Get(NetPackHeader, header, "messageName") = pack.name
      /\ Get(NetPackHeader, header, "payloadType") = pack.payloadType
  BY <1>1 DEF Get, HeaderMsg
<1>3. \E t \in MessageTypes : t.name = pack.name
  <2>1. type \in MessageTypes /\ type.name = pack.name
    BY NameLeads DEF Good
  <2> HIDE DEF type
  <2> QED BY <2>1
<1> HIDE DEF header
<1>4. m = IF read.ok THEN [ok |-> TRUE, pack |-> [typed EXCEPT !.name = pack.name, !.msg = read.msg]]
          ELSE [ok |-> FALSE, pack |-> typed]
  BY <1>2, <1>3 DEF message
<1>5. /\ typed.payloadType = pack.payloadType
      /\ [typed EXCEPT !.name = pack.name, !.msg = read.msg]
           = [payloadType |-> pack.payloadType, name |-> pack.name, msg |-> read.msg]
  <2> HIDE DEF read
  <2> QED BY TypedFacts, Zenon
<1> HIDE DEF typed, m
<1>6. ASSUME Readable(pack) PROVE m = [ok |-> TRUE, pack |-> pack]
  <2>1. read.ok /\ read.msg = pack.msg
    BY <1>6, ParseFacts DEF Good, Readable
  <2> HIDE DEF read
  <2>2. [typed EXCEPT !.name = pack.name, !.msg = read.msg]
          = [payloadType |-> pack.payloadType, name |-> pack.name, msg |-> pack.msg]
    BY <1>5, <2>1
  <2>3. pack = [payloadType |-> pack.payloadType, name |-> pack.name, msg |-> pack.msg]
    BY DEF Good, Pack
  <2> QED BY <1>4, <2>1, <2>2, <2>3
<1>7. ASSUME ~Readable(pack) PROVE ~m.ok /\ m.pack.payloadType = pack.payloadType
  <2>1. ~read.ok
    BY <1>7, ParseFacts DEF Readable
  <2> HIDE DEF read
  <2> QED BY <1>4, <1>5, <2>1
<1> QED BY <1>6, <1>7 DEF m, header

\* A header that lacks the name of its message leads to no message, whatever follows it.
LEMMA MessageAstray ==
  ASSUME NEW a, NEW b, NEW payload, NEW header, header = HeaderFirst(a) \/ header = HeaderSecond(a, b)
  PROVE  ~message(header, payload).ok /\ message(header, payload).pack.payloadType = a
<1>1. /\ Get(NetPackHeader, header, "messageName") = ""
      /\ Get(NetPackHeader, header, "payloadType") = a
  <2>1. NetPackHeader.fields["messageName"].dflt = ""
    <3>1. NetPackHeader.fields["messageName"] = Text
      BY HeaderTable
    <3>2. Text.dflt = ""
      BY DEF Text
    <3> QED BY <3>1, <3>2
  <2>2. DOMAIN header \in {{"payloadType"}, {"payloadType", "payloadLength"}} /\ header["payloadType"] = a
    BY DEF HeaderFirst, HeaderSecond
  <2> QED BY <2>1, <2>2 DEF Get
<1>2. ~(\E type \in MessageTypes : type.name = "")
  BY NameLeads
<1> DEFINE typed == [NoPack EXCEPT !.payloadType = a]
<1>3. typed.payloadType = a
  BY TypedFacts
<1>4. message(header, payload) = [ok |-> FALSE, pack |-> typed]
  BY <1>1, <1>2 DEF message
<1> HIDE DEF typed
<1> QED BY <1>3, <1>4

-----------------------------------------------------------------------------
(* What a receive does                                                     *)

(* What is left on a connection after a receive that returned less than it *)
(* asked for: nothing that can be taken for a length.                      *)
Leftover(s) ==
  /\ s # <<>>
  /\ s[1][1] # "int32" \/ Len(s) = 2 \/ (Len(s) > 2 /\ s[3][2] = 1)
Quiet(lost, in) == in = <<>> \/ (lost /\ Leftover(in))

(* After a, s goes on with b.                                              *)
After(a, b, s) == \A i \in 1 .. Len(b) : s[i + Len(a)] = b[i]

\* What comes second in a joined sequence.
LEMMA JoinedTail == ASSUME NEW a, IsSeq(a), NEW b, IsSeq(b) PROVE After(a, b, a \o b)
BY Joining DEF After

\* The beginning of a sequence, and what comes after it.
LEMMA JoinedCut ==
  ASSUME NEW a, IsSeq(a), NEW b, IsSeq(b), NEW k \in 0 .. Len(a), NEW s, s = a \o b
  PROVE  LET r == SubSeq(s, k + 1, Len(s))
         IN  /\ IsSeq(s) /\ Len(s) = Len(a) + Len(b) /\ k \in 0 .. Len(s)
             /\ SubSeq(s, 1, k) = SubSeq(a, 1, k) /\ Len(SubSeq(s, 1, k)) = k
             /\ IsSeq(r) /\ Len(r) = Len(a) + Len(b) - k
             /\ k < Len(a) => r[1] = a[k + 1]
             /\ k = Len(a) => r = b /\ SubSeq(s, 1, k) = a
<1>1. /\ IsSeq(s) /\ Len(s) = Len(a) + Len(b) /\ Len(a) \in Nat /\ Len(b) \in Nat
      /\ \A i \in 1 .. Len(a) : s[i] = a[i]
  BY Joining
<1>2. SubSeq(s, 1, Len(a)) = a /\ SubSeq(s, Len(a) + 1, Len(s)) = b
  BY Joining
<1>3. k \in 0 .. Len(s)
  BY <1>1
<1> DEFINE t == SubSeq(s, 1, k)
           u == SubSeq(a, 1, k)
           r == SubSeq(s, k + 1, Len(s))
<1>4. /\ IsSeq(t) /\ Len(t) = k /\ \A i \in 1 .. k : t[i] = s[i]
      /\ IsSeq(r) /\ Len(r) = Len(s) - k /\ \A i \in 1 .. Len(s) - k : r[i] = s[i + k]
  BY <1>1, <1>3, Cutting
<1>5. IsSeq(u) /\ Len(u) = k /\ \A i \in 1 .. k : u[i] = a[i]
  BY <1>1, Cutting
<1> HIDE DEF t, u, r
<1>6. t = u
  <2>1. \A i \in 1 .. k : i \in 1 .. Len(a)
    BY <1>1
  <2>2. \A i \in 1 .. k : t[i] = u[i]
    BY <1>1, <1>4, <1>5, <2>1
  <2> QED BY <1>4, <1>5, <2>2, SameSeq
<1>7. k < Len(a) => r[1] = a[k + 1]
  <2> SUFFICES ASSUME k < Len(a) PROVE r[1] = a[k + 1]
    OBVIOUS
  <2>1. 1 \in 1 .. Len(s) - k /\ k + 1 \in 1 .. Len(a) /\ 1 + k = k + 1
    BY <1>1
  <2> QED BY <1>1, <1>4, <2>1
<1>8. k = Len(a) => r = b /\ t = a
  BY <1>2 DEF r, t
<1> QED BY <1>1, <1>3, <1>4, <1>6, <1>7, <1>8 DEF t, u, r

\* What is left over never begins with a length.
LEMMA LeftoverIsNoLength ==
  ASSUME NEW s, IsSeq(s), Leftover(s), NEW k \in 1 .. Len(s)
  PROVE  ~IsLength(SubSeq(s, 1, k))
<1> DEFINE t == SubSeq(s, 1, k)
<1>1. Len(s) \in Nat /\ k \in 0 .. Len(s)
  BY SeqFacts
<1>2. Len(t) = k /\ \A i \in 1 .. k : t[i] = s[i]
  BY <1>1, Cutting
<1> HIDE DEF t
<1>3. ASSUME IsLength(t) PROVE FALSE
  <2>1. k = 4 /\ t[1][1] = "int32" /\ t[3][2] = 3
    BY <1>2, <1>3 DEF IsLength
  <2>2. s[1][1] = "int32" /\ s[3][2] = 3 /\ Len(s) >= 4
    BY <1>1, <1>2, <2>1
  <2> DEFINE n == Len(s)
  <2>3. s[1][1] # "int32" \/ n = 2 \/ (n > 2 /\ s[3][2] = 1)
    BY DEF Leftover
  <2>4. n # 2
    BY <1>1, <2>2
  <2>5. s[3][2] # 1
    BY <2>2
  <2> HIDE DEF n
  <2> QED BY <2>2, <2>3, <2>4, <2>5
<1> QED BY <1>3 DEF t

\* What is left over stays so when a length, and a message, come after it.
LEMMA LeftoverGrows ==
  ASSUME NEW s, IsSeq(s), Leftover(s), NEW n, NEW b, IsSeq(b), NEW x, x = LengthBytes(n) \o b
  PROVE  Leftover(s \o x) /\ IsSeq(s \o x)
<1> DEFINE r == s \o x
           l == LengthBytes(n)
<1>1. IsSeq(l) /\ Len(l) = 4 /\ l[1][2] = 1
  BY LengthFacts
<1>2. IsSeq(x) /\ Len(x) = 4 + Len(b) /\ Len(b) \in Nat /\ x[1] = l[1]
  <2> HIDE DEF l
  <2>1. x = l \o b
    BY DEF l
  <2> DEFINE y == l \o b
  <2>2. IsSeq(y) /\ Len(y) = Len(l) + Len(b) /\ Len(b) \in Nat
    BY <1>1, Joining
  <2>3. \A i \in 1 .. Len(l) : y[i] = l[i]
    BY <1>1, Joining
  <2> HIDE DEF y
  <2>4. x = y
    BY <2>1 DEF y
  <2> QED BY <1>1, <2>2, <2>3, <2>4
<1> HIDE DEF l
<1>3. /\ IsSeq(r) /\ Len(r) = Len(s) + Len(x) /\ Len(s) \in Nat
      /\ \A i \in 1 .. Len(s) : r[i] = s[i]
  BY <1>2, Joining
<1>4. \A i \in 1 .. Len(x) : r[i + Len(s)] = x[i]
  <2>1. IsSeq(x)
    BY <1>2
  <2> QED BY <2>1, JoinedTail DEF After
<1>5. Len(s) # 0
  <2>1. s = [i \in 1 .. Len(s) |-> s[i]]
    BY SeqFacts
  <2>2. Len(s) = 0 => s = <<>>
    BY <2>1
  <2> QED BY <2>2 DEF Leftover
<1> HIDE DEF r
<1>6. r[1] = s[1] /\ Len(r) > 4 /\ r # <<>>
  <2>1. Len(r) > 4
    BY <1>2, <1>3, <1>5
  <2>2. r # <<>>
    BY <2>1
  <2> QED BY <1>3, <1>5, <2>1, <2>2
<1>7. CASE s[1][1] # "int32"
  BY <1>3, <1>6, <1>7 DEF Leftover, r
<1>8. CASE Len(s) = 2
  <2>1. r[1 + 2] = x[1]
    BY <1>2, <1>4, <1>8
  <2>2. r[3][2] = 1
    BY <1>1, <1>2, <2>1
  <2> QED BY <1>3, <1>6, <2>2 DEF Leftover, r
<1>9. CASE Len(s) > 2 /\ s[3][2] = 1
  <2>1. r[3] = s[3]
    BY <1>3, <1>9
  <2> QED BY <1>3, <1>6, <1>9, <2>1 DEF Leftover, r
<1> QED BY <1>7, <1>8, <1>9 DEF Leftover

---------------------------------------------------------------------------
(* One receive, of k tokens, as a relation between what an end had before  *)
(* it and has after it: what it does, the length it waits for, what it has *)
(* of it, the stream on its way to it, and the message it heard.           *)
ReadyOf(e) == IF e = "caller" THEN "use" ELSE "answer"
ConnType(e) == IF e = "caller" THEN Reply ELSE Ask

GetsLength(t, s2, w2, c2) ==
  IF IsLength(t) /\ t[1][3] \in 1 .. 999
    THEN s2 = "header" /\ w2 = t[1][3] /\ c2 = <<>>
    ELSE s2 = "broken"
GetsHeader(t, s2, w2, c2) ==
  LET read == Parse(NetPackHeader, t)
  IN  IF read.ok
        THEN s2 = "payload" /\ w2 = Get(NetPackHeader, read.msg, "payloadLength") /\ c2 = read.msg
        ELSE s2 = "broken"
GetsPayload(e, w, c, k, t, h, s2, c2, h2) ==
  IF k = w THEN s2 = ReadyOf(e) /\ c2 = <<>> /\ h2 = <<message(c, t)>>
  ELSE s2 = "broken" /\ h2 = h
GetsConnLength(w, k, length, s2, w2, c2) ==
  IF Len(length) < 4 THEN s2 = "conn_length" /\ w2 = w - k /\ c2 = length
  ELSE IF IsLength(length) THEN s2 = "conn_content" /\ w2 = length[1][3] /\ c2 = <<>>
  ELSE s2 = "broken"
GetsConnContent(e, w, k, receive, h, s2, w2, c2, h2) ==
  LET read == Parse(ConnType(e), receive)
  IN  IF k = w
        THEN /\ s2 = ReadyOf(e) /\ c2 = <<>>
             /\ h2 = <<[ok |-> read.ok, pack |-> Pack(0, ConnType(e), read.msg)]>>
        ELSE s2 = "conn_content" /\ w2 = w - k /\ c2 = receive /\ h2 = h

Gets(e, s, w, c, in, h, k, s2, w2, c2, in2, h2) ==
  LET t == SubSeq(in, 1, k)
  IN  /\ k <= Len(in) /\ (k = 0 => w = 0) /\ in2 = SubSeq(in, k + 1, Len(in))
      /\ \/ s = "length" /\ k \in 1 .. w /\ h2 = h /\ GetsLength(t, s2, w2, c2)
         \/ s = "header" /\ k \in 1 .. w /\ h2 = h /\ GetsHeader(t, s2, w2, c2)
         \/ s = "payload" /\ k \in 0 .. w /\ GetsPayload(e, w, c, k, t, h, s2, c2, h2)
         \/ s = "conn_length" /\ k \in 1 .. w /\ h2 = h /\ GetsConnLength(w, k, c \o t, s2, w2, c2)
         \/ s = "conn_content" /\ k \in 1 .. Len(in)
            /\ GetsConnContent(e, w, k, c \o t, h, s2, w2, c2, h2)

-----------------------------------------------------------------------------
(* A receive of NetPack                                                    *)

(* How an end starts to receive.                                           *)
FirstOf(srv) == IF srv = "resource" THEN "conn_length" ELSE "length"

(* An end that rests: nothing is on its way to it but what is left over.   *)
RestsAt(lost, srv, s, w, c, in) ==
  \/ lost /\ s = "broken"
  \/ s = FirstOf(srv) /\ w = 4 /\ c = <<>> /\ Quiet(lost, in)

(* An end that has read less than a header: what it takes for a payload    *)
(* leaves something over.                                                  *)
Astray(pack, w, c, in) ==
  /\ w \in Nat /\ in # <<>>
  /\ \/ c = HeaderFirst(pack.payloadType) /\ w = 0
     \/ c = HeaderSecond(pack.payloadType, w)
  /\ (w = 0 /\ in[1][1] # "int32") \/ Len(in) = w + 2

(* An end a message is on its way to, with NetPack and with connent.       *)
PackReads(lost, pack, s, w, c, in) ==
  \/ s = "length" /\ w = 4 /\ c = <<>> /\ (in = sendBy(pack) \/ (lost /\ Leftover(in)))
  \/ s = "header" /\ w = 6 /\ in = HeaderStream(pack) \o Body(pack)
  \/ s = "payload" /\ c = HeaderOf(pack) /\ w = Len(Body(pack)) /\ in = Body(pack)
  \/ s = "payload" /\ lost /\ Astray(pack, w, c, in)
ConnReads(pack, s, w, c, in) ==
  \/ s = "conn_length" /\ IsSeq(c) /\ c \o in = connentSends(pack) /\ Len(c) < 4 /\ w = 4 - Len(c)
  \/ s = "conn_content" /\ IsSeq(c) /\ c \o in = Body(pack) /\ w = Len(in)

BusyAt(lost, srv, pack, e, s, w, c, in, h) ==
  \/ lost /\ s = "broken"
  \/ srv # "resource" /\ PackReads(lost, pack, s, w, c, in)
  \/ srv = "resource" /\ ConnReads(pack, s, w, c, in)
  \/ s = ReadyOf(e) /\ Quiet(lost, in) /\ h # <<>>

(* What an end makes of a message.                                         *)
HeardOK(lost, h, pack) ==
  \/ h = <<>>
  \/ h = <<[ok |-> TRUE, pack |-> pack]>> /\ Readable(pack)
  \/ lost /\ Len(h) = 1 /\ ~h[1].ok /\ h[1].pack.payloadType = pack.payloadType

(* The message and the connection it goes over.                            *)
Carried(lost, srv, pack, e) ==
  /\ Good(lost, pack)
  /\ srv = "resource" => ~lost /\ pack.payloadType = 0 /\ TypeNamed(pack.name) = ConnType(e)

(* What an end receives of a message that is on its way to it, and what it *)
(* has then.                                                               *)
Receives(lost, lost2, srv, pack, e, s, w, c, in, h, k, s2, w2, c2, in2, h2) ==
  /\ lost => lost2
  /\ Carried(lost, srv, pack, e)
  /\ IsSeq(in) /\ HeardOK(lost, h, pack)
  /\ BusyAt(lost, srv, pack, e, s, w, c, in, h)
  /\ Gets(e, s, w, c, in, h, k, s2, w2, c2, in2, h2)
  /\ k # w /\ srv # "resource" => lost2
GetsOn(lost, srv, pack, e, s, w, c, in, h) ==
  BusyAt(lost, srv, pack, e, s, w, c, in, h) /\ HeardOK(lost, h, pack) /\ IsSeq(in)

\* More may be lost.
LEMMA MoreLost ==
  ASSUME NEW lost, NEW lost2, lost => lost2
  PROVE  /\ \A in : Quiet(lost, in) => Quiet(lost2, in)
         /\ \A h, pack : HeardOK(lost, h, pack) => HeardOK(lost2, h, pack)
         /\ \A srv, s, w, c, in : RestsAt(lost, srv, s, w, c, in) => RestsAt(lost2, srv, s, w, c, in)
         /\ \A srv, pack, e, s, w, c, in, h :
              BusyAt(lost, srv, pack, e, s, w, c, in, h) => BusyAt(lost2, srv, pack, e, s, w, c, in, h)
<1>1. \A in : Quiet(lost, in) => Quiet(lost2, in)
  BY DEF Quiet
<1>2. \A h, pack : HeardOK(lost, h, pack) => HeardOK(lost2, h, pack)
  BY DEF HeardOK
<1>3. \A srv, s, w, c, in : RestsAt(lost, srv, s, w, c, in) => RestsAt(lost2, srv, s, w, c, in)
  BY <1>1 DEF RestsAt
<1>4. \A pack, s, w, c, in : PackReads(lost, pack, s, w, c, in) => PackReads(lost2, pack, s, w, c, in)
  BY DEF PackReads
<1>5. \A srv, pack, e, s, w, c, in, h :
        BusyAt(lost, srv, pack, e, s, w, c, in, h) => BusyAt(lost2, srv, pack, e, s, w, c, in, h)
  BY <1>1, <1>4 DEF BusyAt
<1> QED BY <1>1, <1>2, <1>3, <1>5

\* An end that rests receives nothing, or breaks.
LEMMA RestsGets ==
  ASSUME NEW lost, NEW srv, lost => srv # "resource", NEW e, NEW s, NEW w, NEW c, NEW in, IsSeq(in),
         NEW h, RestsAt(lost, srv, s, w, c, in), NEW k, NEW s2, NEW w2, NEW c2, NEW in2, NEW h2,
         Gets(e, s, w, c, in, h, k, s2, w2, c2, in2, h2)
  PROVE  lost /\ s2 = "broken" /\ h2 = h /\ IsSeq(in2)
<1> DEFINE n == Len(in)
           t == SubSeq(in, 1, k)
<1>1. n \in Nat /\ (in = <<>> => n = 0)
  BY SeqFacts
<1>2. s = FirstOf(srv) /\ w = 4 /\ Quiet(lost, in)
  BY DEF RestsAt, Gets
<1>3. k \in 1 .. 4 /\ k <= n
  BY <1>2 DEF Gets, FirstOf
<1> HIDE DEF n
<1>4. in # <<>>
  BY <1>1, <1>3
<1>5. lost /\ Leftover(in) /\ s = "length"
  BY <1>2, <1>4 DEF Quiet, FirstOf
<1>6. ~IsLength(t)
  <2>1. k \in 1 .. Len(in)
    BY <1>1, <1>3 DEF n
  <2> QED BY <1>5, <2>1, LeftoverIsNoLength
<1> HIDE DEF t
<1>7. s2 = "broken" /\ h2 = h
  BY <1>5, <1>6 DEF Gets, GetsLength, t
<1>8. IsSeq(in2)
  <2>1. k \in 0 .. Len(in)
    BY <1>1, <1>3 DEF n
  <2> QED BY <2>1, Cutting DEF Gets
<1> QED BY <1>5, <1>7, <1>8

\* The length of a header is received whole, or not at all.
LEMMA LengthGets ==
  ASSUME NEW lost, NEW lost2, NEW srv, NEW pack, NEW e, NEW s, NEW w, NEW c, NEW in, NEW h, NEW k,
         NEW s2, NEW w2, NEW c2, NEW in2, NEW h2,
         Receives(lost, lost2, srv, pack, e, s, w, c, in, h, k, s2, w2, c2, in2, h2),
         srv # "resource", s = "length"
  PROVE  GetsOn(lost2, srv, pack, e, s2, w2, c2, in2, h2)
<1>0. /\ lost => lost2
      /\ Good(lost, pack) /\ IsSeq(in) /\ HeardOK(lost, h, pack)
      /\ w = 4 /\ (in = sendBy(pack) \/ (lost /\ Leftover(in)))
      /\ Gets(e, "length", w, c, in, h, k, s2, w2, c2, in2, h2)
      /\ k # w => lost2
  BY DEF Receives, Carried, BusyAt, PackReads, ReadyOf
<1> USE <1>0
<1> SUFFICES BusyAt(lost2, srv, pack, e, s2, w2, c2, in2, h2) /\ HeardOK(lost2, h2, pack) /\ IsSeq(in2)
  BY DEF GetsOn
<1> DEFINE t == SubSeq(in, 1, k)
<1>1. /\ k \in 1 .. 4 /\ k <= Len(in) /\ in2 = SubSeq(in, k + 1, Len(in)) /\ h2 = h
      /\ GetsLength(t, s2, w2, c2)
  BY DEF Gets
<1>2. Len(in) \in Nat
  BY SeqFacts
<1>3. k \in 0 .. Len(in) /\ k \in 1 .. Len(in)
  BY <1>1, <1>2
<1>4. IsSeq(in2) /\ HeardOK(lost2, h2, pack) /\ Len(t) = k
  BY <1>1, <1>3, Cutting, MoreLost
<1> HIDE DEF t
<1>5. CASE lost /\ Leftover(in)
  <2>1. ~IsLength(t)
    BY <1>3, <1>5, LeftoverIsNoLength DEF t
  <2>2. s2 = "broken"
    BY <1>1, <2>1 DEF GetsLength
  <2> QED BY <1>4, <1>5, <2>2 DEF BusyAt
<1>6. CASE k # 4
  <2>1. ~IsLength(t)
    BY <1>4, <1>6 DEF IsLength
  <2>2. s2 = "broken"
    BY <1>1, <2>1 DEF GetsLength
  <2> QED BY <1>4, <1>6, <2>2 DEF BusyAt
<1>7. CASE in = sendBy(pack) /\ k = 4
  <2> DEFINE a == LengthBytes(6)
             b == HeaderStream(pack) \o Body(pack)
  <2>1. IsSeq(a) /\ Len(a) = 4 /\ IsLength(a) /\ a[1][3] = 6
    BY LengthFacts
  <2>2. in = a \o b /\ IsSeq(b)
    <3>1. IsSeq(HeaderStream(pack)) /\ IsSeq(Body(pack)) /\ in = a \o b
      BY <1>7, StreamOfPack
    <3> QED BY <3>1, Joining
  <2> HIDE DEF a, b
  <2>3. t = a /\ in2 = b
    <3>1. IsSeq(a) /\ IsSeq(b) /\ k \in 0 .. Len(a) /\ in = a \o b
      BY <1>7, <2>1, <2>2
    <3>2. k = Len(a)
      BY <1>7, <2>1
    <3>3. SubSeq(in, k + 1, Len(in)) = b /\ SubSeq(in, 1, k) = a
      BY ONLY <3>1, <3>2, JoinedCut
    <3> QED BY <1>1, <3>3 DEF t
  <2>4. s2 = "header" /\ w2 = 6
    BY <1>1, <2>1, <2>3 DEF GetsLength
  <2> QED BY <1>4, <2>3, <2>4 DEF BusyAt, PackReads, b
<1> QED BY <1>5, <1>6, <1>7

\* A header is received whole, in part without a name, or not at all.
LEMMA HeaderGets ==
  ASSUME NEW lost, NEW lost2, NEW srv, NEW pack, NEW e, NEW s, NEW w, NEW c, NEW in, NEW h, NEW k,
         NEW s2, NEW w2, NEW c2, NEW in2, NEW h2,
         Receives(lost, lost2, srv, pack, e, s, w, c, in, h, k, s2, w2, c2, in2, h2),
         srv # "resource", s = "header"
  PROVE  GetsOn(lost2, srv, pack, e, s2, w2, c2, in2, h2)
<1>0. /\ lost => lost2
      /\ Good(lost, pack) /\ IsSeq(in) /\ HeardOK(lost, h, pack)
      /\ w = 6 /\ in = HeaderStream(pack) \o Body(pack)
      /\ Gets(e, "header", w, c, in, h, k, s2, w2, c2, in2, h2)
      /\ k # w => lost2
  BY DEF Receives, Carried, BusyAt, PackReads, ReadyOf
<1> USE <1>0
<1> SUFFICES BusyAt(lost2, srv, pack, e, s2, w2, c2, in2, h2) /\ HeardOK(lost2, h2, pack) /\ IsSeq(in2)
  BY DEF GetsOn
<1> DEFINE t == SubSeq(in, 1, k)
           a == HeaderStream(pack)
           b == Body(pack)
           n == Len(b)
           p == pack.payloadType
           read == Parse(NetPackHeader, t)
<1>1. /\ k \in 1 .. 6 /\ k <= Len(in) /\ in2 = SubSeq(in, k + 1, Len(in)) /\ h2 = h
      /\ GetsHeader(t, s2, w2, c2)
  BY DEF Gets
<1>2. /\ IsSeq(a) /\ Len(a) = 6 /\ a[3][1] = "tag" /\ IsSeq(b) /\ n \in Nat
      /\ a = HeaderStreamOf(p, n, pack.name) /\ HeaderOf(pack) = HeaderMsg(p, n, pack.name)
  BY StreamOfPack
<1> HIDE DEF a, b, n, p
<1>3. /\ IsSeq(in2) /\ t = SubSeq(a, 1, k) /\ Len(in2) = 6 + n - k
      /\ k = 6 => in2 = b
      /\ k < 6 => in2[1] = a[k + 1]
  <2>1. IsSeq(a) /\ IsSeq(b) /\ k \in 0 .. Len(a) /\ in = a \o b
    BY <1>1, <1>2 DEF a, b
  <2>2. SubSeq(in, 1, k) = SubSeq(a, 1, k)
    BY ONLY <2>1, JoinedCut
  <2>3. IsSeq(SubSeq(in, k + 1, Len(in)))
    BY ONLY <2>1, JoinedCut
  <2>4. Len(SubSeq(in, k + 1, Len(in))) = Len(a) + Len(b) - k
    BY ONLY <2>1, JoinedCut
  <2>5. k < Len(a) => SubSeq(in, k + 1, Len(in))[1] = a[k + 1]
    BY ONLY <2>1, JoinedCut
  <2>6. k = Len(a) => SubSeq(in, k + 1, Len(in)) = b
    BY ONLY <2>1, JoinedCut
  <2> QED BY <1>1, <1>2, <2>2, <2>3, <2>4, <2>5, <2>6 DEF n, t
<1>4. HeardOK(lost2, h2, pack)
  BY <1>1, MoreLost
<1>5. /\ k = 6 => read.ok /\ read.msg = HeaderMsg(p, n, pack.name)
      /\ k = 4 => read.ok /\ read.msg = HeaderSecond(p, n)
      /\ k = 2 => read.ok /\ read.msg = HeaderFirst(p)
      /\ k \in {1, 3, 5} => ~read.ok
  <2>1. k \in 1 .. 6 /\ n \in Nat
    BY <1>1, <1>2
  <2>2. t = SubSeq(HeaderStreamOf(p, n, pack.name), 1, k)
    BY <1>2, <1>3
  <2>3. LET r == Parse(NetPackHeader, SubSeq(HeaderStreamOf(p, n, pack.name), 1, k))
        IN  /\ k = 6 => r.ok /\ r.msg = HeaderMsg(p, n, pack.name)
            /\ k = 4 => r.ok /\ r.msg = HeaderSecond(p, n)
            /\ k = 2 => r.ok /\ r.msg = HeaderFirst(p)
            /\ k \in {1, 3, 5} => ~r.ok
    BY ONLY <2>1, HeaderCut
  <2> QED BY <2>2, <2>3 DEF read
<1> HIDE DEF t, read
<1>6. IF read.ok
        THEN s2 = "payload" /\ w2 = Get(NetPackHeader, read.msg, "payloadLength") /\ c2 = read.msg
        ELSE s2 = "broken"
  BY <1>1 DEF GetsHeader, read
<1>7. CASE k = 6
  <2>1. Get(NetPackHeader, HeaderMsg(p, n, pack.name), "payloadLength") = n
    BY DEF Get, HeaderMsg
  <2>2. s2 = "payload" /\ w2 = n /\ c2 = HeaderOf(pack) /\ in2 = b
    BY <1>2, <1>3, <1>5, <1>6, <1>7, <2>1
  <2> QED BY <1>3, <1>4, <2>2 DEF BusyAt, PackReads, n, b
<1>8. CASE k = 4
  <2>1. Get(NetPackHeader, HeaderSecond(p, n), "payloadLength") = n
    BY DEF Get, HeaderSecond
  <2>2. s2 = "payload" /\ w2 = n /\ c2 = HeaderSecond(p, n)
    BY <1>5, <1>6, <1>8, <2>1
  <2>3. Len(in2) = n + 2 /\ in2 # <<>>
    <3>1. Len(in2) = n + 2
      BY <1>2, <1>3, <1>8
    <3> QED BY <1>2, <3>1
  <2>4. lost2
    BY <1>8
  <2>5. Astray(pack, w2, c2, in2)
    BY <1>2, <2>2, <2>3 DEF Astray, p
  <2> QED BY <1>3, <1>4, <2>2, <2>4, <2>5 DEF BusyAt, PackReads
<1>9. CASE k = 2
  <2>1. Get(NetPackHeader, HeaderFirst(p), "payloadLength") = 0
    <3>1. NetPackHeader.fields["payloadLength"] = Number(0) /\ Number(0).dflt = 0
      BY HeaderTable DEF Number
    <3> QED BY <3>1 DEF Get, HeaderFirst
  <2>2. s2 = "payload" /\ w2 = 0 /\ c2 = HeaderFirst(p)
    BY <1>5, <1>6, <1>9, <2>1
  <2>3. in2 # <<>> /\ in2[1][1] # "int32"
    <3>1. Len(in2) = n + 4
      BY <1>2, <1>3, <1>9
    <3>2. in2[1] = a[3]
      BY <1>3, <1>9
    <3>3. in2 # <<>>
      BY <1>2, <3>1
    <3> QED BY <1>2, <3>2, <3>3
  <2>4. lost2
    BY <1>9
  <2>5. Astray(pack, w2, c2, in2)
    BY <2>2, <2>3 DEF Astray, p
  <2> QED BY <1>3, <1>4, <2>2, <2>4, <2>5 DEF BusyAt, PackReads
<1>10. CASE k \in {1, 3, 5}
  <2>1. s2 = "broken" /\ lost2
    BY <1>5, <1>6, <1>10
  <2> QED BY <1>3, <1>4, <2>1 DEF BusyAt
<1> QED BY <1>1, <1>7, <1>8, <1>9, <1>10

-----------------------------------------------------------------------------
(* A receive of connent                                                    *)

\* A sequence is its beginning and the rest.
LEMMA CutJoined ==
  ASSUME NEW s, IsSeq(s), NEW k \in 0 .. Len(s)
  PROVE  /\ IsSeq(SubSeq(s, 1, k)) /\ Len(SubSeq(s, 1, k)) = k
         /\ IsSeq(SubSeq(s, k + 1, Len(s))) /\ Len(SubSeq(s, k + 1, Len(s))) = Len(s) - k
         /\ SubSeq(s, 1, k) \o SubSeq(s, k + 1, Len(s)) = s
         /\ k = Len(s) => SubSeq(s, 1, k) = s /\ SubSeq(s, k + 1, Len(s)) = <<>>
<1> DEFINE t == SubSeq(s, 1, k)
           r == SubSeq(s, k + 1, Len(s))
<1>1. /\ IsSeq(t) /\ Len(t) = k /\ \A i \in 1 .. k : t[i] = s[i]
      /\ IsSeq(r) /\ Len(r) = Len(s) - k /\ \A i \in 1 .. Len(s) - k : r[i] = s[i + k]
      /\ k = Len(s) => t = s /\ r = <<>>
  BY Cutting
<1>2. Len(s) \in Nat
  BY SeqFacts
<1> DEFINE u == t \o r
<1> HIDE DEF t, r
<1>7. IsSeq(t) /\ IsSeq(r)
  BY <1>1
<1>8. /\ IsSeq(u) /\ Len(u) = Len(t) + Len(r)
      /\ \A i \in 1 .. Len(t) : u[i] = t[i]
  BY ONLY <1>7, Joining
<1>9. \A i \in 1 .. Len(r) : u[i + Len(t)] = r[i]
  BY ONLY <1>7, JoinedTail DEF After
<1>3. /\ IsSeq(u) /\ Len(u) = k + Len(r) /\ \A i \in 1 .. k : u[i] = t[i]
      /\ \A i \in 1 .. Len(r) : u[i + k] = r[i]
  BY <1>1, <1>8, <1>9
<1> HIDE DEF u
<1>4. Len(u) = Len(s)
  BY <1>1, <1>2, <1>3
<1>5. ASSUME NEW i \in 1 .. Len(u) PROVE u[i] = s[i]
  <2>1. CASE i <= k
    <3>1. i \in 1 .. k
      BY <1>2, <1>4, <2>1
    <3> QED BY <1>1, <1>3, <3>1
  <2>2. CASE i > k
    <3> DEFINE j == i - k
    <3>1. j \in 1 .. Len(s) - k /\ i = j + k
      BY <1>2, <1>4, <2>2
    <3> HIDE DEF j
    <3>2. u[i] = r[j] /\ r[j] = s[i]
      BY <1>1, <1>3, <3>1
    <3> QED BY <3>2
  <2>3. i <= k \/ i > k
    BY <1>2, <1>4
  <2> QED BY <2>1, <2>2, <2>3
<1>6. u = s
  BY <1>3, <1>4, <1>5, SameSeq
<1> QED BY <1>1, <1>6 DEF u, t, r

\* What has been received grows by what is received, which is no longer on its way.
LEMMA ReceivedMore ==
  ASSUME NEW c, IsSeq(c), NEW s, IsSeq(s), NEW k \in 0 .. Len(s)
  PROVE  /\ IsSeq(c \o SubSeq(s, 1, k)) /\ Len(c \o SubSeq(s, 1, k)) = Len(c) + k
         /\ (c \o SubSeq(s, 1, k)) \o SubSeq(s, k + 1, Len(s)) = c \o s
<1> DEFINE t == SubSeq(s, 1, k)
           r == SubSeq(s, k + 1, Len(s))
           d == c \o t
<1>1. IsSeq(t) /\ IsSeq(r) /\ Len(t) = k /\ t \o r = s
  BY CutJoined
<1> HIDE DEF t, r
<1>2. IsSeq(d) /\ Len(d) = Len(c) + k
  BY <1>1, Joining
<1>3. IsSeq(c) /\ IsSeq(t) /\ IsSeq(r)
  BY <1>1
<1>4. (c \o t) \o r = c \o (t \o r)
  BY ONLY <1>3, JoinThree
<1> QED BY <1>1, <1>2, <1>4 DEF t, r

\* Two sequences in two parts each are the same part by part if their first parts are as long.
LEMMA SameParts ==
  ASSUME NEW a, IsSeq(a), NEW b, IsSeq(b), NEW x, IsSeq(x), NEW y, IsSeq(y),
         Len(a) = Len(x), NEW s, s = a \o b, s = x \o y
  PROVE  a = x /\ b = y
<1>1. SubSeq(a \o b, 1, Len(a)) = a /\ SubSeq(a \o b, Len(a) + 1, Len(a \o b)) = b
  BY Joining
<1>2. SubSeq(x \o y, 1, Len(x)) = x /\ SubSeq(x \o y, Len(x) + 1, Len(x \o y)) = y
  BY Joining
<1> QED BY <1>1, <1>2

\* A payload is received whole, or not at all.
LEMMA PayloadGets ==
  ASSUME NEW lost, NEW lost2, NEW srv, NEW pack, NEW e, NEW s, NEW w, NEW c, NEW in, NEW h, NEW k,
         NEW s2, NEW w2, NEW c2, NEW in2, NEW h2,
         Receives(lost, lost2, srv, pack, e, s, w, c, in, h, k, s2, w2, c2, in2, h2),
         srv # "resource", s = "payload"
  PROVE  GetsOn(lost2, srv, pack, e, s2, w2, c2, in2, h2)
<1>0. /\ lost => lost2
      /\ Good(lost, pack) /\ IsSeq(in) /\ HeardOK(lost, h, pack)
      /\ \/ c = HeaderOf(pack) /\ w = Len(Body(pack)) /\ in = Body(pack)
         \/ lost /\ Astray(pack, w, c, in)
      /\ Gets(e, "payload", w, c, in, h, k, s2, w2, c2, in2, h2)
      /\ k # w => lost2
  BY DEF Receives, Carried, BusyAt, PackReads, ReadyOf
<1> USE <1>0
<1> SUFFICES BusyAt(lost2, srv, pack, e, s2, w2, c2, in2, h2) /\ HeardOK(lost2, h2, pack) /\ IsSeq(in2)
  BY DEF GetsOn
<1> DEFINE t == SubSeq(in, 1, k)
           m == message(c, t)
<1>1. /\ k \in 0 .. w /\ k <= Len(in) /\ in2 = SubSeq(in, k + 1, Len(in))
      /\ GetsPayload(e, w, c, k, t, h, s2, c2, h2)
  BY DEF Gets
<1>2. Len(in) \in Nat
  BY SeqFacts
<1>3. k \in 0 .. Len(in)
  BY <1>1, <1>2
<1>4. /\ IsSeq(in2) /\ Len(in2) = Len(in) - k
      /\ k = Len(in) => t = in /\ in2 = <<>>
  <2>1. /\ IsSeq(SubSeq(in, k + 1, Len(in))) /\ Len(SubSeq(in, k + 1, Len(in))) = Len(in) - k
        /\ k = Len(in) => SubSeq(in, 1, k) = in /\ SubSeq(in, k + 1, Len(in)) = <<>>
    BY <1>3, CutJoined
  <2> QED BY <1>1, <2>1
<1>5. k = 0 => in2 = in
  <2>1. k = 0 => SubSeq(in, k + 1, Len(in)) = in
    BY <1>3, Cutting
  <2> QED BY <1>1, <2>1
<1> HIDE DEF t, m
<1>6. CASE k # w
  <2>1. s2 = "broken" /\ h2 = h /\ lost2
    BY <1>1, <1>6 DEF GetsPayload
  <2>2. HeardOK(lost2, h2, pack)
    BY <2>1, MoreLost
  <2> QED BY <1>4, <2>1, <2>2 DEF BusyAt
<1>7. ASSUME k = w PROVE s2 = ReadyOf(e) /\ h2 = <<m>> /\ h2 # <<>> /\ Len(h2) = 1 /\ h2[1] = m
  <2>1. s2 = ReadyOf(e) /\ h2 = <<m>>
    BY <1>1, <1>7 DEF GetsPayload, m
  <2> QED BY <2>1
<1>8. CASE k = w /\ c = HeaderOf(pack) /\ w = Len(Body(pack)) /\ in = Body(pack)
  <2>1. t = Body(pack) /\ in2 = <<>>
    BY <1>4, <1>8
  <2>2. m = message(HeaderOf(pack), Body(pack))
    BY <1>8, <2>1 DEF m
  <2>3. /\ Readable(pack) => m = [ok |-> TRUE, pack |-> pack]
        /\ ~Readable(pack) => ~m.ok /\ m.pack.payloadType = pack.payloadType
    BY <2>2, MessageHeard
  <2>4. HeardOK(lost2, h2, pack)
    <3>1. CASE Readable(pack)
      BY <1>7, <1>8, <2>3, <3>1 DEF HeardOK
    <3>2. CASE ~Readable(pack)
      BY <1>7, <1>8, <2>3, <3>2 DEF HeardOK, Good
    <3> QED BY <3>1, <3>2
  <2> QED BY <1>4, <1>7, <1>8, <2>1, <2>4 DEF BusyAt, Quiet
<1>9. CASE k = w /\ lost /\ Astray(pack, w, c, in)
  <2>1. c = HeaderFirst(pack.payloadType) \/ c = HeaderSecond(pack.payloadType, w)
    BY <1>9 DEF Astray
  <2>2. ~m.ok /\ m.pack.payloadType = pack.payloadType
    BY <2>1, MessageAstray DEF m
  <2>3. HeardOK(lost2, h2, pack)
    BY <1>7, <1>9, <2>2 DEF HeardOK
  <2>4. Leftover(in2)
    <3>1. CASE w = 0 /\ in[1][1] # "int32"
      BY <1>5, <1>9, <3>1 DEF Leftover, Astray
    <3>2. CASE Len(in) = w + 2
      <4>1. Len(in2) = 2
        BY <1>4, <1>9, <3>2 DEF Astray
      <4>2. in2 # <<>>
        BY <4>1
      <4> QED BY <4>1, <4>2 DEF Leftover
    <3> QED BY <1>9, <3>1, <3>2 DEF Astray
  <2> QED BY <1>4, <1>7, <1>9, <2>3, <2>4 DEF BusyAt, Quiet
<1> QED BY <1>6, <1>8, <1>9

\* The length of a message for the resource server, in pieces.
LEMMA ConnLengthGets ==
  ASSUME NEW lost, NEW lost2, NEW srv, NEW pack, NEW e, NEW s, NEW w, NEW c, NEW in, NEW h, NEW k,
         NEW s2, NEW w2, NEW c2, NEW in2, NEW h2,
         Receives(lost, lost2, srv, pack, e, s, w, c, in, h, k, s2, w2, c2, in2, h2),
         srv = "resource", s = "conn_length"
  PROVE  GetsOn(lost2, srv, pack, e, s2, w2, c2, in2, h2)
<1>0. /\ lost => lost2
      /\ Good(lost, pack) /\ IsSeq(in) /\ HeardOK(lost, h, pack) /\ IsSeq(c)
      /\ c \o in = connentSends(pack) /\ Len(c) < 4 /\ w = 4 - Len(c)
      /\ Gets(e, "conn_length", w, c, in, h, k, s2, w2, c2, in2, h2)
  BY DEF Receives, Carried, BusyAt, ConnReads, ReadyOf
<1> USE <1>0
<1> SUFFICES ConnReads(pack, s2, w2, c2, in2) /\ h2 = h /\ IsSeq(in2)
  <2>1. HeardOK(lost2, h, pack)
    BY MoreLost
  <2> QED BY <2>1 DEF GetsOn, BusyAt
<1> DEFINE t == SubSeq(in, 1, k)
           d == c \o t
           b == Body(pack)
           n == Len(b)
           l == LengthBytes(n)
<1>1. /\ k \in 1 .. w /\ k <= Len(in) /\ in2 = SubSeq(in, k + 1, Len(in)) /\ h2 = h
      /\ GetsConnLength(w, k, d, s2, w2, c2)
  BY DEF Gets
<1>2. Len(in) \in Nat /\ Len(c) \in Nat
  BY SeqFacts
<1>3. k \in 0 .. Len(in)
  BY <1>1, <1>2
<1>4. IsSeq(in2) /\ Len(in2) = Len(in) - k
  <2>1. /\ IsSeq(SubSeq(in, k + 1, Len(in))) /\ Len(SubSeq(in, k + 1, Len(in))) = Len(in) - k
    BY <1>3, CutJoined
  <2> QED BY <1>1, <2>1
<1>5. IsSeq(d) /\ Len(d) = Len(c) + k /\ d \o in2 = c \o in
  <2>1. IsSeq(c) /\ IsSeq(in) /\ k \in 0 .. Len(in)
    BY <1>3
  <2>2. /\ IsSeq(c \o SubSeq(in, 1, k)) /\ Len(c \o SubSeq(in, 1, k)) = Len(c) + k
        /\ (c \o SubSeq(in, 1, k)) \o SubSeq(in, k + 1, Len(in)) = c \o in
    BY ONLY <2>1, ReceivedMore
  <2> QED BY <1>1, <2>2
<1>6. IsSeq(b) /\ n \in Nat /\ connentSends(pack) = l \o b
  BY StreamOfPack
<1>7. IsSeq(l) /\ Len(l) = 4 /\ IsLength(l) /\ l[1][3] = n
  BY LengthFacts
<1> HIDE DEF t, d, b, n, l
<1>8. CASE Len(d) < 4
  <2>1. s2 = "conn_length" /\ w2 = w - k /\ c2 = d
    <3>1. ~IsLength(d) /\ Len(d) # 4
      BY <1>2, <1>5, <1>8 DEF IsLength
    <3> QED BY <1>1, <1>8, <3>1, Zenon DEF GetsConnLength
  <2>2. w2 = 4 - Len(d)
    BY <1>1, <1>2, <1>5, <2>1
  <2> QED BY <1>1, <1>4, <1>5, <1>8, <2>1, <2>2 DEF ConnReads
<1>9. CASE Len(d) = 4
  <2>1. d = l /\ in2 = b
    <3> DEFINE both == connentSends(pack)
    <3>1. IsSeq(d) /\ IsSeq(in2) /\ IsSeq(l) /\ IsSeq(b) /\ Len(d) = Len(l) /\ both = d \o in2 /\ both = l \o b
      BY <1>4, <1>5, <1>6, <1>7, <1>9
    <3> HIDE DEF both
    <3> QED BY ONLY <3>1, SameParts
  <2>2. s2 = "conn_content" /\ w2 = n /\ c2 = <<>>
    BY <1>1, <1>7, <1>9, <2>1 DEF GetsConnLength
  <2>3. <<>> \o in2 = b
    <3>1. IsSeq(<<>>)
      BY NoneIsSeq
    <3> QED BY <1>4, <2>1, <3>1, Joining
  <2> QED BY <1>1, <1>4, <2>1, <2>2, <2>3, NoneIsSeq DEF ConnReads, b, n
<1>10. Len(d) < 4 \/ Len(d) = 4
  BY <1>1, <1>2, <1>5
<1> QED BY <1>8, <1>9, <1>10

\* A message for the resource server, in pieces.
LEMMA ConnContentGets ==
  ASSUME NEW lost, NEW lost2, NEW srv, NEW pack, NEW e, NEW s, NEW w, NEW c, NEW in, NEW h, NEW k,
         NEW s2, NEW w2, NEW c2, NEW in2, NEW h2,
         Receives(lost, lost2, srv, pack, e, s, w, c, in, h, k, s2, w2, c2, in2, h2),
         srv = "resource", s = "conn_content"
  PROVE  GetsOn(lost2, srv, pack, e, s2, w2, c2, in2, h2)
<1>0. /\ lost => lost2
      /\ Good(lost, pack) /\ IsSeq(in) /\ HeardOK(lost, h, pack) /\ IsSeq(c)
      /\ c \o in = Body(pack) /\ w = Len(in)
      /\ ~lost /\ pack.payloadType = 0 /\ TypeNamed(pack.name) = ConnType(e)
      /\ Gets(e, "conn_content", w, c, in, h, k, s2, w2, c2, in2, h2)
  BY DEF Receives, Carried, BusyAt, ConnReads, ReadyOf
<1> USE <1>0
<1> SUFFICES /\ IsSeq(in2)
             /\ \/ ConnReads(pack, s2, w2, c2, in2) /\ h2 = h
                \/ s2 = ReadyOf(e) /\ in2 = <<>> /\ h2 = <<[ok |-> TRUE, pack |-> pack]>> /\ Readable(pack)
  <2>1. HeardOK(lost2, h, pack)
    BY MoreLost
  <2>2. CASE ConnReads(pack, s2, w2, c2, in2) /\ h2 = h
    BY <2>1, <2>2 DEF GetsOn, BusyAt
  <2>3. CASE s2 = ReadyOf(e) /\ in2 = <<>> /\ h2 = <<[ok |-> TRUE, pack |-> pack]>> /\ Readable(pack)
    BY <2>3 DEF GetsOn, BusyAt, Quiet, HeardOK
  <2> QED BY <2>2, <2>3
<1> DEFINE t == SubSeq(in, 1, k)
           d == c \o t
           read == Parse(ConnType(e), d)
<1>1. /\ k \in 1 .. Len(in) /\ in2 = SubSeq(in, k + 1, Len(in))
      /\ GetsConnContent(e, w, k, d, h, s2, w2, c2, h2)
  BY DEF Gets
<1>2. Len(in) \in Nat /\ Len(c) \in Nat
  BY SeqFacts
<1>3. k \in 0 .. Len(in)
  BY <1>1, <1>2
<1>4. IsSeq(in2) /\ Len(in2) = Len(in) - k /\ (k = Len(in) => t = in /\ in2 = <<>>)
  <2>1. /\ IsSeq(SubSeq(in, k + 1, Len(in))) /\ Len(SubSeq(in, k + 1, Len(in))) = Len(in) - k
        /\ k = Len(in) => SubSeq(in, 1, k) = in /\ SubSeq(in, k + 1, Len(in)) = <<>>
    BY <1>3, CutJoined
  <2> QED BY <1>1, <2>1
<1>5. IsSeq(d) /\ d \o in2 = c \o in
  <2>1. IsSeq(c) /\ IsSeq(in) /\ k \in 0 .. Len(in)
    BY <1>3
  <2>2. /\ IsSeq(c \o SubSeq(in, 1, k))
        /\ (c \o SubSeq(in, 1, k)) \o SubSeq(in, k + 1, Len(in)) = c \o in
    BY ONLY <2>1, ReceivedMore
  <2> QED BY <1>1, <2>2
<1>6. k = Len(in) => d = Body(pack)
  BY <1>4
<1> HIDE DEF t, d, read
<1>7. CASE k # w
  <2>1. s2 = "conn_content" /\ w2 = w - k /\ c2 = d /\ h2 = h
    BY <1>1, <1>7 DEF GetsConnContent
  <2> QED BY <1>4, <1>5, <2>1 DEF ConnReads
<1>8. CASE k = w
  <2>1. /\ s2 = ReadyOf(e)
        /\ h2 = <<[ok |-> read.ok, pack |-> Pack(0, ConnType(e), read.msg)]>>
    BY <1>1, <1>8 DEF GetsConnContent, read
  <2>2. read.ok /\ read.msg = pack.msg /\ Readable(pack)
    <3>1. IsRead(ConnType(e), Body(pack)) /\ Decode(ConnType(e), Body(pack)) = pack.msg /\ Readable(pack)
      BY DEF Good, Readable
    <3>2. read = Parse(ConnType(e), Body(pack))
      BY <1>6, <1>8 DEF read
    <3> QED BY <3>1, <3>2, ParseFacts
  <2>3. Pack(0, ConnType(e), pack.msg) = pack
    BY DEF Good
  <2>4. h2 = <<[ok |-> TRUE, pack |-> pack]>>
    <3>1. read.ok = TRUE
      BY <2>2 DEF read, Parse, Read, Cut
    <3> QED BY <2>1, <2>2, <2>3, <3>1
  <2> QED BY <1>4, <1>8, <2>1, <2>2, <2>4
<1> QED BY <1>7, <1>8

-----------------------------------------------------------------------------
(* A receive of either end                                                 *)

\* An end a message is on its way to gets on with it, however much it receives.
LEMMA BusyGets ==
  ASSUME NEW lost, NEW lost2, NEW srv, NEW pack, NEW e, NEW s, NEW w, NEW c, NEW in, NEW h, NEW k,
         NEW s2, NEW w2, NEW c2, NEW in2, NEW h2,
         Receives(lost, lost2, srv, pack, e, s, w, c, in, h, k, s2, w2, c2, in2, h2)
  PROVE  GetsOn(lost2, srv, pack, e, s2, w2, c2, in2, h2)
<1>1. /\ Good(lost, pack) /\ IsSeq(in) /\ HeardOK(lost, h, pack) /\ (lost => lost2)
      /\ Gets(e, s, w, c, in, h, k, s2, w2, c2, in2, h2)
  BY DEF Carried, Receives
<1>2. s \in {"length", "header", "payload", "conn_length", "conn_content"}
  BY <1>1 DEF Gets
<1>3. CASE srv # "resource" /\ PackReads(lost, pack, s, w, c, in)
  <2>1. CASE s = "length"
    BY <1>3, <2>1, LengthGets
  <2>2. CASE s = "header"
    BY <1>3, <2>2, HeaderGets
  <2>3. CASE s = "payload"
    BY <1>3, <2>3, PayloadGets
  <2> QED BY <1>3, <2>1, <2>2, <2>3 DEF PackReads
<1>4. CASE srv = "resource" /\ ConnReads(pack, s, w, c, in)
  <2>1. CASE s = "conn_length"
    BY <1>4, <2>1, ConnLengthGets
  <2>2. CASE s = "conn_content"
    BY <1>4, <2>2, ConnContentGets
  <2> QED BY <1>4, <2>1, <2>2 DEF ConnReads
<1>5. s # "broken" /\ s # ReadyOf(e)
  BY <1>2 DEF ReadyOf
<1> QED BY <1>3, <1>4, <1>5 DEF BusyAt, Receives

---------------------------------------------------------------------------
(* What the variables hold.                                                *)
ExchangeTypes ==
  /\ DOMAIN step = Ends /\ DOMAIN want = Ends /\ DOMAIN content = Ends
  /\ DOMAIN incoming = Ends /\ DOMAIN said = Ends /\ DOMAIN heard = Ends
  /\ \A e \in Ends : IsSeq(incoming[e])
  /\ whole \in BOOLEAN
  /\ server \in {"peer", "tracker", "resource"}

\* A receive of one end leaves the other as it is.
LEMMA ReceiveGets ==
  ASSUME ExchangeTypes, NEW e \in Ends, Receive(e)
  PROVE  /\ \E k : /\ Gets(e, step[e], want[e], content[e], incoming[e], heard[e], k,
                           step'[e], want'[e], content'[e], incoming'[e], heard'[e])
                   /\ whole' = (whole /\ k = want[e])
         /\ \A o \in Ends \ {e} :
              /\ step'[o] = step[o] /\ want'[o] = want[o] /\ content'[o] = content[o]
              /\ incoming'[o] = incoming[o] /\ heard'[o] = heard[o]
         /\ UNCHANGED <<server, bitmaps, said>>
         /\ DOMAIN step' = Ends /\ DOMAIN want' = Ends /\ DOMAIN content' = Ends
         /\ DOMAIN incoming' = Ends /\ DOMAIN heard' = Ends
<1> DEFINE Got(k) == /\ Gets(e, step[e], want[e], content[e], incoming[e], heard[e], k,
                             step'[e], want'[e], content'[e], incoming'[e], heard'[e])
                     /\ whole' = (whole /\ k = want[e])
           Rest == /\ \A o \in Ends \ {e} :
                        /\ step'[o] = step[o] /\ want'[o] = want[o] /\ content'[o] = content[o]
                        /\ incoming'[o] = incoming[o] /\ heard'[o] = heard[o]
                   /\ UNCHANGED <<server, bitmaps, said>>
                   /\ DOMAIN step' = Ends /\ DOMAIN want' = Ends /\ DOMAIN content' = Ends
                   /\ DOMAIN incoming' = Ends /\ DOMAIN heard' = Ends
<1>1. ASSUME NEW where, NEW length, NEW read, Goes(e, where, length, read)
      PROVE  /\ step'[e] = where /\ want'[e] = length /\ content'[e] = read
             /\ \A o \in Ends \ {e} : step'[o] = step[o] /\ want'[o] = want[o] /\ content'[o] = content[o]
             /\ DOMAIN step' = Ends /\ DOMAIN want' = Ends /\ DOMAIN content' = Ends
  BY <1>1 DEF Goes, ExchangeTypes
<1>2. ASSUME NEW k, receiveBytes(e, k)
      PROVE  /\ k <= Len(incoming[e]) /\ (k = 0 => want[e] = 0)
             /\ incoming'[e] = SubSeq(incoming[e], k + 1, Len(incoming[e]))
             /\ whole' = (whole /\ k = want[e])
             /\ \A o \in Ends \ {e} : incoming'[o] = incoming[o]
             /\ DOMAIN incoming' = Ends
  BY <1>2 DEF receiveBytes, ExchangeTypes
<1>3. ASSUME NEW what, Hears(e, what)
      PROVE  /\ heard'[e] = <<what>> /\ Goes(e, ReadyOf(e), 0, <<>>)
             /\ \A o \in Ends \ {e} : heard'[o] = heard[o]
             /\ DOMAIN heard' = Ends
  BY <1>3 DEF Hears, ReadyOf, ExchangeTypes
<1>4. heard' = heard => heard'[e] = heard[e] /\ (\A o \in Ends \ {e} : heard'[o] = heard[o]) /\ DOMAIN heard' = Ends
  BY DEF ExchangeTypes
<1>5. CASE receiveHeaderLength(e)
  <2>1. PICK k \in 1 .. want[e] :
          /\ receiveBytes(e, k)
          /\ IF IsLength(Received(e, k)) /\ Received(e, k)[1][3] \in 1 .. 999
               THEN Goes(e, "header", Received(e, k)[1][3], <<>>)
               ELSE Goes(e, "broken", 0, <<>>)
    BY <1>5 DEF receiveHeaderLength, Breaks
  <2>2. UNCHANGED <<link, bitmaps, said, heard>> /\ step[e] = "length"
    BY <1>5 DEF receiveHeaderLength
  <2>5. k \in 1 .. want[e] /\ receiveBytes(e, k)
    BY <2>1
  <2> DEFINE t == Received(e, k)
  <2>6. \/ IsLength(t) /\ t[1][3] \in 1 .. 999 /\ Goes(e, "header", t[1][3], <<>>)
        \/ ~(IsLength(t) /\ t[1][3] \in 1 .. 999) /\ Goes(e, "broken", 0, <<>>)
    BY <2>1
  <2>7. t = SubSeq(incoming[e], 1, k)
    BY DEF Received
  <2> HIDE DEF t
  <2>8. GetsLength(t, step'[e], want'[e], content'[e])
    BY <1>1, <2>6 DEF GetsLength
  <2>3. Rest
    BY <1>1, <1>2, <1>4, <2>2, <2>5, <2>6 DEF link
  <2>4. Got(k)
    BY <1>2, <1>4, <2>2, <2>5, <2>7, <2>8 DEF Gets
  <2> QED BY <2>3, <2>4
<1>6. CASE receiveHeader(e)
  <2> DEFINE t(k) == Received(e, k)
             read(k) == Parse(NetPackHeader, Received(e, k))
  <2>1. PICK k \in 1 .. want[e] :
          /\ receiveBytes(e, k)
          /\ IF read(k).ok
               THEN Goes(e, "payload", Get(NetPackHeader, read(k).msg, "payloadLength"), read(k).msg)
               ELSE Goes(e, "broken", 0, <<>>)
    BY <1>6 DEF receiveHeader, Breaks
  <2>2. UNCHANGED <<link, bitmaps, said, heard>> /\ step[e] = "header"
    BY <1>6 DEF receiveHeader
  <2>3. GetsHeader(SubSeq(incoming[e], 1, k), step'[e], want'[e], content'[e]) /\ Rest
    BY <1>1, <1>2, <1>4, <2>1, <2>2 DEF GetsHeader, Received, link
  <2>4. Got(k)
    BY <1>2, <1>4, <2>1, <2>2, <2>3 DEF Gets
  <2> QED BY <2>3, <2>4
<1>7. CASE receivePayload(e)
  <2>1. PICK k \in 0 .. want[e] :
          /\ receiveBytes(e, k)
          /\ IF k = want[e]
               THEN Hears(e, message(content[e], Received(e, k)))
               ELSE Goes(e, "broken", 0, <<>>) /\ UNCHANGED heard
    BY <1>7 DEF receivePayload, Breaks
  <2>2. UNCHANGED <<link, bitmaps, said>> /\ step[e] = "payload"
    BY <1>7 DEF receivePayload
  <2>3. /\ GetsPayload(e, want[e], content[e], k, SubSeq(incoming[e], 1, k), heard[e],
                       step'[e], content'[e], heard'[e])
        /\ Rest
    <3>1. CASE k = want[e]
      <4>1. Hears(e, message(content[e], Received(e, k)))
        BY <2>1, <3>1
      <4>2. Goes(e, ReadyOf(e), 0, <<>>)
        BY <1>3, <4>1
      <4> QED BY <1>1, <1>2, <1>3, <2>1, <2>2, <3>1, <4>1, <4>2 DEF GetsPayload, Received, link
    <3>2. CASE k # want[e]
      BY <1>1, <1>2, <1>4, <2>1, <2>2, <3>2 DEF GetsPayload, link
    <3> QED BY <3>1, <3>2
  <2>4. Got(k)
    BY <1>2, <2>1, <2>2, <2>3 DEF Gets
  <2> QED BY <2>3, <2>4
<1>8. CASE ConnLength(e)
  <2> DEFINE d(k) == content[e] \o Received(e, k)
  <2>1. PICK k \in 1 .. want[e] :
          /\ receiveBytes(e, k)
          /\ IF Len(d(k)) < 4 THEN Goes(e, "conn_length", want[e] - k, d(k))
             ELSE IF IsLength(d(k)) THEN Goes(e, "conn_content", d(k)[1][3], <<>>)
             ELSE Goes(e, "broken", 0, <<>>)
    BY <1>8 DEF ConnLength, Breaks
  <2>2. UNCHANGED <<link, bitmaps, said, heard>> /\ step[e] = "conn_length"
    BY <1>8 DEF ConnLength
  <2>5. k \in 1 .. want[e] /\ receiveBytes(e, k)
    BY <2>1
  <2> DEFINE b == d(k)
  <2>6. \/ Len(b) < 4 /\ Goes(e, "conn_length", want[e] - k, b)
        \/ ~(Len(b) < 4) /\ IsLength(b) /\ Goes(e, "conn_content", b[1][3], <<>>)
        \/ ~(Len(b) < 4) /\ ~IsLength(b) /\ Goes(e, "broken", 0, <<>>)
    BY <2>1
  <2>7. b = content[e] \o SubSeq(incoming[e], 1, k)
    BY DEF Received
  <2> HIDE DEF b
  <2>8. GetsConnLength(want[e], k, b, step'[e], want'[e], content'[e])
    BY <1>1, <2>6 DEF GetsConnLength
  <2>3. Rest
    BY <1>1, <1>2, <1>4, <2>2, <2>5, <2>6 DEF link
  <2>4. Got(k)
    BY <1>2, <1>4, <2>2, <2>5, <2>7, <2>8 DEF Gets
  <2> QED BY <2>3, <2>4
<1>9. CASE ConnContent(e)
  <2> DEFINE d(k) == content[e] \o Received(e, k)
             read(k) == Parse(ConnType(e), d(k))
  <2>1. PICK k \in 1 .. Len(incoming[e]) :
          /\ receiveBytes(e, k)
          /\ IF k = want[e]
               THEN Hears(e, [ok |-> read(k).ok, pack |-> Pack(0, ConnType(e), read(k).msg)])
               ELSE Goes(e, "conn_content", want[e] - k, d(k)) /\ UNCHANGED heard
    BY <1>9 DEF ConnContent, ConnType
  <2>2. UNCHANGED <<link, bitmaps, said>> /\ step[e] = "conn_content"
    BY <1>9 DEF ConnContent
  <2>3. /\ GetsConnContent(e, want[e], k, content[e] \o SubSeq(incoming[e], 1, k), heard[e],
                           step'[e], want'[e], content'[e], heard'[e])
        /\ Rest
    <3>1. CASE k = want[e]
      <4> DEFINE what == [ok |-> read(k).ok, pack |-> Pack(0, ConnType(e), read(k).msg)]
      <4>1. Hears(e, what)
        BY <2>1, <3>1
      <4>2. what = [ok |-> Parse(ConnType(e), content[e] \o SubSeq(incoming[e], 1, k)).ok,
                    pack |-> Pack(0, ConnType(e), Parse(ConnType(e), content[e] \o SubSeq(incoming[e], 1, k)).msg)]
        BY DEF Received
      <4> HIDE DEF what
      <4>3. Goes(e, ReadyOf(e), 0, <<>>)
        BY <1>3, <4>1
      <4> QED BY <1>1, <1>2, <1>3, <2>1, <2>2, <3>1, <4>1, <4>2, <4>3 DEF GetsConnContent, link
    <3>2. CASE k # want[e]
      BY <1>1, <1>2, <1>4, <2>1, <2>2, <3>2 DEF GetsConnContent, Received, link
    <3> QED BY <3>1, <3>2
  <2>4. Got(k)
    BY <1>2, <2>1, <2>2, <2>3 DEF Gets
  <2> QED BY <2>3, <2>4
<1> QED BY <1>5, <1>6, <1>7, <1>8, <1>9 DEF Receive

-----------------------------------------------------------------------------
(* Requests and answers take turns                                         *)

\* What may be answered once may be answered when more is lost and more has been shown.
LEMMA AnswersMore ==
  ASSUME NEW srv \in {"peer", "tracker", "resource"}, NEW lost, NEW lost2, lost => lost2,
         NEW bs, NEW bs2, bs \subseteq bs2, NEW request, NEW pack \in AnswersOf(srv, lost, bs, request)
  PROVE  pack \in AnswersOf(srv, lost2, bs2, request)
<1>1. CASE srv = "peer"
  <2>1. pack \in PeerAnswersTo(lost, bs, request)
    BY <1>1 DEF AnswersOf
  <2>2. pack \in PeerAnswersTo(lost2, bs2, request)
    BY <2>1 DEF PeerAnswersTo
  <2> QED BY <1>1, <2>2 DEF AnswersOf
<1>2. CASE srv = "tracker"
  BY <1>2 DEF AnswersOf
<1>3. CASE srv = "resource"
  BY <1>3 DEF AnswersOf
<1> QED BY <1>1, <1>2, <1>3

\* The requests are good messages for the server's end.
LEMMA RequestCarried ==
  ASSUME NEW srv \in {"peer", "tracker", "resource"}, NEW bitmap \in Bitmaps(FileSize),
         NEW pack \in RequestsOf(srv, bitmap), NEW lost, lost => srv # "resource"
  PROVE  Carried(lost, srv, pack, "server")
<1>1. Sound(pack) /\ (srv = "resource" => pack.name = Ask.name /\ pack.payloadType = 0)
  BY RequestsSound
<1>2. Good(lost, pack)
  BY <1>1, GoodPacks
<1>3. srv = "resource" => TypeNamed(pack.name) = Ask
  BY <1>1, NameLeads DEF SentTypes
<1> QED BY <1>1, <1>2, <1>3 DEF Carried, ConnType

\* The answers are good messages for the caller's end.
LEMMA AnswerCarried ==
  ASSUME NEW srv \in {"peer", "tracker", "resource"}, NEW bs \in SUBSET Bitmaps(FileSize), NEW request,
         NEW lost, lost => srv # "resource", NEW pack \in AnswersOf(srv, lost, bs, request)
  PROVE  Carried(lost, srv, pack, "caller")
<1>1. CASE srv = "peer"
  <2>1. pack \in PeerAnswersTo(lost, bs, request)
    BY <1>1 DEF AnswersOf
  <2>2. Sound(pack) \/ (lost /\ pack = Refusal)
    BY <2>1, PeerAnswersSound
  <2>3. Good(lost, pack)
    BY <2>2, GoodPacks
  <2> QED BY <1>1, <2>3 DEF Carried
<1>2. CASE srv = "tracker"
  <2>1. Sound(pack)
    BY <1>2, TrackerAnswersSound DEF AnswersOf
  <2>2. Good(lost, pack)
    BY <2>1, GoodPacks
  <2> QED BY <1>2, <2>2 DEF Carried
<1>3. CASE srv = "resource"
  <2>1. Sound(pack) /\ pack.name = Reply.name /\ pack.payloadType = 0
    BY <1>3, ResourceAnswersSound DEF AnswersOf
  <2>2. Good(lost, pack)
    BY <2>1, GoodPacks
  <2>3. TypeNamed(pack.name) = Reply
    BY <2>1, NameLeads DEF SentTypes
  <2> QED BY <1>3, <2>1, <2>2, <2>3 DEF Carried, ConnType
<1> QED BY <1>1, <1>2, <1>3

\* A message is sent to an end that rests.
LEMMA RestsThenBusy ==
  ASSUME NEW lost, NEW srv, lost => srv # "resource", NEW pack, Good(lost, pack), NEW e,
         NEW s, NEW w, NEW c, NEW in, IsSeq(in), RestsAt(lost, srv, s, w, c, in), NEW h,
         NEW x, x = IF srv = "resource" THEN connentSends(pack) ELSE sendBy(pack)
  PROVE  BusyAt(lost, srv, pack, e, s, w, c, in \o x, h) /\ IsSeq(in \o x)
<1>1. /\ IsSeq(sendBy(pack)) /\ IsSeq(connentSends(pack)) /\ IsSeq(Body(pack)) /\ IsSeq(HeaderStream(pack))
      /\ sendBy(pack) = LengthBytes(6) \o (HeaderStream(pack) \o Body(pack))
  BY StreamOfPack
<1>2. IsSeq(x)
  BY <1>1
<1>3. IsSeq(in \o x) /\ (in = <<>> => in \o x = x)
  BY <1>2, Joining
<1>4. CASE lost /\ s = "broken"
  BY <1>3, <1>4 DEF BusyAt
<1>5. CASE srv # "resource" /\ s = "length" /\ w = 4 /\ c = <<>> /\ Quiet(lost, in)
  <2>1. in \o x = sendBy(pack) \/ (lost /\ Leftover(in \o x))
    <3>1. CASE in = <<>>
      BY <1>3, <1>5, <3>1
    <3>2. CASE lost /\ Leftover(in)
      <4> DEFINE b == HeaderStream(pack) \o Body(pack)
      <4>1. IsSeq(b)
        BY <1>1, Joining
      <4>2. x = LengthBytes(6) \o b
        BY <1>1, <1>5
      <4> HIDE DEF b
      <4>3. IsSeq(in) /\ Leftover(in) /\ IsSeq(b) /\ x = LengthBytes(6) \o b
        BY <3>2, <4>1, <4>2
      <4>4. Leftover(in \o x)
        BY ONLY <4>3, LeftoverGrows
      <4> QED BY <3>2, <4>4
    <3> QED BY <1>5, <3>1, <3>2 DEF Quiet
  <2> QED BY <1>3, <1>5, <2>1 DEF BusyAt, PackReads
<1>6. CASE srv = "resource" /\ s = "conn_length" /\ w = 4 /\ c = <<>> /\ in = <<>>
  <2>1. c \o (in \o x) = connentSends(pack)
    <3>1. in \o x = x /\ x = connentSends(pack) /\ IsSeq(c)
      BY <1>3, <1>6, NoneIsSeq
    <3>2. c \o x = x
      BY <1>2, <1>6, <3>1, Joining
    <3> QED BY <3>1, <3>2
  <2>2. Len(c) = 0
    BY <1>6
  <2> QED BY <1>3, <1>6, <2>1, <2>2, NoneIsSeq DEF BusyAt, ConnReads
<1> QED BY <1>4, <1>5, <1>6 DEF RestsAt, FirstOf, Quiet

-----------------------------------------------------------------------------
(* The inductive invariant of the exchange                                 *)

(* A receive of NetPack has returned less than it asked for.               *)
Lost == ~whole /\ server # "resource"

Rests(e) == RestsAt(Lost, server, step[e], want[e], content[e], incoming[e])
Busy(e) == BusyAt(Lost, server, said[Other(e)], e, step[e], want[e], content[e], incoming[e], heard[e])

(* Requests and answers take turns: both ends rest, or the server is busy  *)
(* with the caller's request, or the caller with the server's answer.      *)
Turn ==
  \/ step["caller"] = "idle" /\ Quiet(Lost, incoming["caller"]) /\ Rests("server")
  \/ /\ Rests("caller") /\ Busy("server") /\ heard["caller"] = <<>>
     /\ said["caller"] \in RequestsOf(server, mine)
  \/ /\ Busy("caller") /\ Rests("server")
     /\ said["caller"] \in RequestsOf(server, mine)
     /\ said["server"] \in AnswersOf(server, Lost, shown, said["caller"])

ShownInv ==
  /\ mine \in Bitmaps(FileSize) /\ owners \in Bitmaps(FileSize)
  /\ \A b \in shown : b \in Bitmaps(FileSize) /\ b.ones \subseteq owners.ones
  /\ filed = NoBitmap \/ filed \in shown

HeardInv == \A e \in Ends : HeardOK(Lost, heard[e], said[Other(e)])

ExchangeInv == ExchangeTypes /\ Turn /\ ShownInv /\ HeardInv

\* Of the two ends, each is the other's other.
LEMMA EndsFacts ==
  /\ "caller" \in Ends /\ "server" \in Ends
  /\ Other("caller") = "server" /\ Other("server") = "caller"
  /\ \A e \in Ends : e = "caller" \/ e = "server"
BY DEF Ends, Other

\* The initial states satisfy the invariant.
LEMMA ExchangeInit == NetPackInit => ExchangeInv
<1> SUFFICES ASSUME NetPackInit PROVE ExchangeInv
  OBVIOUS
<1>1. server \in {"peer", "tracker", "resource"}
  BY NetPackAssumption DEF NetPackInit
<1>2. ExchangeTypes
  BY <1>1, NoneIsSeq DEF NetPackInit, ExchangeTypes
<1>3. step["caller"] = "idle" /\ step["server"] = FirstOf(server) /\ want["server"] = 4
      /\ content["server"] = <<>> /\ \A e \in Ends : incoming[e] = <<>> /\ heard[e] = <<>>
  BY EndsFacts DEF NetPackInit, FirstStep, FirstOf
<1>4. Turn
  BY <1>3, EndsFacts DEF Turn, Rests, RestsAt, Quiet
<1>5. ShownInv
  BY DEF NetPackInit, ShownInv
<1>6. HeardInv
  BY <1>3 DEF HeardInv, HeardOK
<1> QED BY <1>2, <1>4, <1>5, <1>6 DEF ExchangeInv

\* The message each end is busy with is good.
LEMMA SaidCarried ==
  ASSUME ExchangeInv
  PROVE  /\ said["caller"] \in RequestsOf(server, mine) => Carried(Lost, server, said["caller"], "server")
         /\ said["server"] \in AnswersOf(server, Lost, shown, said["caller"])
              => Carried(Lost, server, said["server"], "caller")
         /\ Lost => server # "resource"
         /\ shown \in SUBSET Bitmaps(FileSize) /\ mine \in Bitmaps(FileSize)
<1>1. server \in {"peer", "tracker", "resource"} /\ mine \in Bitmaps(FileSize) /\ shown \in SUBSET Bitmaps(FileSize)
  BY DEF ExchangeInv, ExchangeTypes, ShownInv
<1>2. Lost => server # "resource"
  BY DEF Lost
<1>3. said["caller"] \in RequestsOf(server, mine) => Carried(Lost, server, said["caller"], "server")
  BY <1>1, <1>2, RequestCarried
<1>4. said["server"] \in AnswersOf(server, Lost, shown, said["caller"])
        => Carried(Lost, server, said["server"], "caller")
  BY <1>1, <1>2, AnswerCarried
<1> QED BY <1>1, <1>2, <1>3, <1>4

\* A receive preserves the invariant.
LEMMA ReceiveInv ==
  ASSUME ExchangeInv, NEW e \in Ends, Receive(e)
  PROVE  ExchangeInv'
<1> DEFINE o == Other(e)
<1>1. ExchangeTypes /\ Turn /\ ShownInv /\ HeardInv
  BY DEF ExchangeInv
<1>2. /\ \A x \in Ends \ {e} :
           /\ step'[x] = step[x] /\ want'[x] = want[x] /\ content'[x] = content[x]
           /\ incoming'[x] = incoming[x] /\ heard'[x] = heard[x]
      /\ UNCHANGED <<server, bitmaps, said>>
      /\ DOMAIN step' = Ends /\ DOMAIN want' = Ends /\ DOMAIN content' = Ends
      /\ DOMAIN incoming' = Ends /\ DOMAIN heard' = Ends
  BY <1>1, ReceiveGets
<1>3. PICK k : /\ Gets(e, step[e], want[e], content[e], incoming[e], heard[e], k,
                       step'[e], want'[e], content'[e], incoming'[e], heard'[e])
               /\ whole' = (whole /\ k = want[e])
  BY <1>1, ReceiveGets
<1>4. o \in Ends \ {e} /\ Other(o) = e /\ Ends = {e, o}
  BY DEF Ends, Other
<1> HIDE DEF o
<1>5. (Lost => Lost') /\ (k # want[e] /\ server # "resource" => Lost')
  BY <1>2, <1>3 DEF Lost
<1>6. Rests(o) => Rests(o)'
  <2> SUFFICES ASSUME Rests(o) PROVE RestsAt(Lost', server', step'[o], want'[o], content'[o], incoming'[o])
    BY DEF Rests
  <2>1. RestsAt(Lost', server, step[o], want[o], content[o], incoming[o])
    BY <1>5, MoreLost DEF Rests
  <2> QED BY <1>2, <1>4, <2>1
<1>7. Busy(o) => Busy(o)'
  <2> SUFFICES ASSUME Busy(o)
               PROVE  BusyAt(Lost', server', said'[e], o, step'[o], want'[o], content'[o], incoming'[o], heard'[o])
    BY <1>4 DEF Busy
  <2>1. BusyAt(Lost', server, said[e], o, step[o], want[o], content[o], incoming[o], heard[o])
    BY <1>4, <1>5, MoreLost DEF Busy
  <2> QED BY <1>2, <1>4, <2>1
<1>8. HeardOK(Lost', heard'[o], said'[e]) /\ IsSeq(incoming'[o])
  <2>1. HeardOK(Lost, heard[o], said[e])
    BY <1>1, <1>4 DEF HeardInv
  <2>2. HeardOK(Lost', heard[o], said[e])
    BY <1>5, <2>1, MoreLost
  <2>3. IsSeq(incoming[o])
    BY <1>1, <1>4 DEF ExchangeTypes
  <2> QED BY <1>2, <1>4, <2>2, <2>3
<1>9. /\ IsSeq(incoming[e]) /\ HeardOK(Lost, heard[e], said[o])
      /\ (Lost => server # "resource")
  BY <1>1, <1>4 DEF ExchangeTypes, HeardInv, Lost, o
<1>10. ASSUME Rests(e)
       PROVE  Rests(e)' /\ heard'[e] = heard[e] /\ HeardOK(Lost', heard'[e], said'[o]) /\ IsSeq(incoming'[e])
  <2>1. Lost /\ step'[e] = "broken" /\ heard'[e] = heard[e] /\ IsSeq(incoming'[e])
    BY <1>3, <1>9, <1>10, RestsGets DEF Rests
  <2>2. Rests(e)'
    BY <1>5, <2>1 DEF Rests, RestsAt
  <2>3. HeardOK(Lost', heard[e], said[o])
    BY <1>5, <1>9, MoreLost
  <2> QED BY <1>2, <2>1, <2>2, <2>3
<1>11. ASSUME Busy(e), Carried(Lost, server, said[o], e)
       PROVE  Busy(e)' /\ HeardOK(Lost', heard'[e], said'[o]) /\ IsSeq(incoming'[e])
  <2>1. BusyAt(Lost, server, said[o], e, step[e], want[e], content[e], incoming[e], heard[e])
    BY <1>11 DEF Busy, o
  <2>2. Receives(Lost, Lost', server, said[o], e, step[e], want[e], content[e], incoming[e], heard[e],
                 k, step'[e], want'[e], content'[e], incoming'[e], heard'[e])
    BY <1>3, <1>5, <1>9, <1>11, <2>1 DEF Receives
  <2>3. GetsOn(Lost', server, said[o], e, step'[e], want'[e], content'[e], incoming'[e], heard'[e])
    BY <2>2, BusyGets
  <2> QED BY <1>2, <2>3 DEF GetsOn, Busy, o
<1>12. step[e] # "idle"
  BY <1>3 DEF Gets
<1>13. ShownInv'
  BY <1>1, <1>2 DEF ShownInv, bitmaps
<1>14. ExchangeTypes' /\ HeardInv' <=> IsSeq(incoming'[e]) /\ HeardOK(Lost', heard'[e], said'[o])
  <2>1. ExchangeTypes' <=> IsSeq(incoming'[e])
    BY <1>1, <1>2, <1>3, <1>4, <1>8 DEF ExchangeTypes
  <2>2. HeardInv' <=> HeardOK(Lost', heard'[e], said'[o])
    BY <1>4, <1>8 DEF HeardInv, o
  <2> QED BY <2>1, <2>2
<1>15. CASE step["caller"] = "idle" /\ Quiet(Lost, incoming["caller"]) /\ Rests("server")
  <2>1. e = "server" /\ o = "caller"
    BY <1>12, <1>15, EndsFacts DEF o
  <2>2. Rests("server")' /\ ExchangeTypes' /\ HeardInv'
    BY <1>10, <1>14, <1>15, <2>1
  <2>3. step'["caller"] = "idle" /\ incoming'["caller"] = incoming["caller"]
    BY <1>2, <1>4, <1>15, <2>1
  <2>4. Quiet(Lost', incoming'["caller"])
    BY <1>5, <1>15, <2>3, MoreLost
  <2>5. Turn'
    BY <2>2, <2>3, <2>4 DEF Turn
  <2> QED BY <1>13, <2>2, <2>5 DEF ExchangeInv
<1>16. CASE /\ Rests("caller") /\ Busy("server") /\ heard["caller"] = <<>>
            /\ said["caller"] \in RequestsOf(server, mine)
  <2>1. Carried(Lost, server, said["caller"], "server")
    BY <1>16, SaidCarried
  <2>2. said'["caller"] \in RequestsOf(server', mine')
    BY <1>2, <1>16 DEF bitmaps
  <2>3. Rests("caller")' /\ Busy("server")' /\ heard'["caller"] = <<>> /\ ExchangeTypes' /\ HeardInv'
    <3>1. CASE e = "caller"
      <4>1. o = "server"
        BY <3>1, EndsFacts DEF o
      <4> QED BY <1>7, <1>10, <1>14, <1>16, <3>1, <4>1
    <3>2. CASE e = "server"
      <4>1. o = "caller"
        BY <3>2, EndsFacts DEF o
      <4> QED BY <1>2, <1>4, <1>6, <1>11, <1>14, <1>16, <2>1, <3>2, <4>1
    <3> QED BY <3>1, <3>2, EndsFacts
  <2>4. Turn'
    BY <2>2, <2>3 DEF Turn
  <2> QED BY <1>13, <2>3, <2>4 DEF ExchangeInv
<1>17. CASE /\ Busy("caller") /\ Rests("server")
            /\ said["caller"] \in RequestsOf(server, mine)
            /\ said["server"] \in AnswersOf(server, Lost, shown, said["caller"])
  <2>1. Carried(Lost, server, said["server"], "caller")
    BY <1>17, SaidCarried
  <2>2. said'["caller"] \in RequestsOf(server', mine')
    BY <1>2, <1>17 DEF bitmaps
  <2>3. said'["server"] \in AnswersOf(server', Lost', shown', said'["caller"])
    <3>1. server \in {"peer", "tracker", "resource"}
      BY <1>1 DEF ExchangeTypes
    <3>2. said["server"] \in AnswersOf(server, Lost', shown, said["caller"])
      BY <1>5, <1>17, <3>1, AnswersMore
    <3> QED BY <1>2, <3>2 DEF bitmaps
  <2>4. Busy("caller")' /\ Rests("server")' /\ ExchangeTypes' /\ HeardInv'
    <3>1. CASE e = "caller"
      <4>1. o = "server"
        BY <3>1, EndsFacts DEF o
      <4> QED BY <1>6, <1>11, <1>14, <1>17, <2>1, <3>1, <4>1
    <3>2. CASE e = "server"
      <4>1. o = "caller"
        BY <3>2, EndsFacts DEF o
      <4> QED BY <1>7, <1>10, <1>14, <1>17, <3>2, <4>1
    <3> QED BY <3>1, <3>2, EndsFacts
  <2>5. Turn'
    BY <2>2, <2>3, <2>4 DEF Turn
  <2> QED BY <1>13, <2>4, <2>5 DEF ExchangeInv
<1> QED BY <1>1, <1>15, <1>16, <1>17 DEF Turn

-----------------------------------------------------------------------------
(* Its preservation, by calls and answers                                  *)

\* What an end says is sent to the other.
LEMMA SayFacts ==
  ASSUME ExchangeTypes, NEW e \in Ends, NEW pack, Say(e, pack)
  PROVE  /\ said'[e] = pack /\ said'[Other(e)] = said[Other(e)] /\ DOMAIN said' = Ends
         /\ incoming'[e] = incoming[e] /\ DOMAIN incoming' = Ends
         /\ incoming'[Other(e)] = incoming[Other(e)]
              \o (IF server = "resource" THEN connentSends(pack) ELSE sendBy(pack))
BY EndsFacts DEF ExchangeTypes, Say, Stream, Other

\* An end that goes on leaves the other as it is.
LEMMA GoesFacts ==
  ASSUME ExchangeTypes, NEW e \in Ends, NEW where, NEW length, NEW read, Goes(e, where, length, read)
  PROVE  /\ step'[e] = where /\ want'[e] = length /\ content'[e] = read
         /\ step'[Other(e)] = step[Other(e)] /\ want'[Other(e)] = want[Other(e)]
         /\ content'[Other(e)] = content[Other(e)]
         /\ DOMAIN step' = Ends /\ DOMAIN want' = Ends /\ DOMAIN content' = Ends
BY EndsFacts DEF ExchangeTypes, Goes, Other

\* Between two calls, and while it answers or uses an answer, each end is where it should be.
LEMMA WhoseTurn ==
  ASSUME ExchangeInv
  PROVE  /\ step["caller"] = "idle" => Quiet(Lost, incoming["caller"]) /\ Rests("server")
         /\ step["server"] = "answer" =>
              /\ Rests("caller") /\ heard["caller"] = <<>> /\ said["caller"] \in RequestsOf(server, mine)
              /\ Quiet(Lost, incoming["server"]) /\ heard["server"] # <<>>
         /\ step["caller"] = "use" =>
              /\ Rests("server") /\ said["caller"] \in RequestsOf(server, mine)
              /\ said["server"] \in AnswersOf(server, Lost, shown, said["caller"])
              /\ Quiet(Lost, incoming["caller"]) /\ heard["caller"] # <<>>
<1>1. \A e \in Ends : Rests(e) => step[e] \in {"broken", "length", "conn_length"}
  BY DEF Rests, RestsAt, FirstOf
<1>2. \A e \in Ends : Busy(e) =>
        \/ step[e] \in {"broken", "length", "header", "payload", "conn_length", "conn_content"}
        \/ step[e] = ReadyOf(e) /\ Quiet(Lost, incoming[e]) /\ heard[e] # <<>>
  BY DEF Busy, BusyAt, PackReads, ConnReads
<1>3. ReadyOf("caller") = "use" /\ ReadyOf("server") = "answer"
  BY DEF ReadyOf
<1>4. Turn
  BY DEF ExchangeInv
<1> QED BY <1>1, <1>2, <1>3, <1>4, EndsFacts DEF Turn

\* A call preserves the invariant.
LEMMA CallInv == ExchangeInv /\ Call => ExchangeInv'
<1> SUFFICES ASSUME ExchangeInv, Call PROVE ExchangeInv'
  OBVIOUS
<1>1. ExchangeTypes /\ ShownInv
  BY DEF ExchangeInv
<1>2. Quiet(Lost, incoming["caller"]) /\ Rests("server")
  BY WhoseTurn DEF Call
<1>3. PICK pack \in Requests : Say("caller", pack)
  BY DEF Call
<1>4. Goes("caller", FirstOf(server), 4, <<>>)
  BY DEF Call, FirstStep, FirstOf
<1>5. /\ UNCHANGED <<server, mine, owners, shares, filed, shown, whole>>
      /\ \A e \in Ends : heard'[e] = <<>>
      /\ DOMAIN heard' = Ends
  BY DEF Call, bitmaps
<1>6. Lost' <=> Lost
  BY <1>5 DEF Lost
<1>7. pack \in RequestsOf(server, mine)
  BY <1>1, <1>3 DEF ExchangeTypes, Requests, RequestsOf
<1>8. Carried(Lost, server, pack, "server")
  <2>1. server \in {"peer", "tracker", "resource"} /\ mine \in Bitmaps(FileSize) /\ (Lost => server # "resource")
    BY <1>1 DEF ExchangeTypes, ShownInv, Lost
  <2> QED BY <1>7, <2>1, RequestCarried
<1> DEFINE x == IF server = "resource" THEN connentSends(pack) ELSE sendBy(pack)
<1>9. /\ said'["caller"] = pack /\ said'["server"] = said["server"] /\ DOMAIN said' = Ends
      /\ incoming'["caller"] = incoming["caller"] /\ DOMAIN incoming' = Ends
      /\ incoming'["server"] = incoming["server"] \o x
  BY <1>1, <1>3, SayFacts, EndsFacts
<1>10. /\ step'["caller"] = FirstOf(server) /\ want'["caller"] = 4 /\ content'["caller"] = <<>>
       /\ step'["server"] = step["server"] /\ want'["server"] = want["server"]
       /\ content'["server"] = content["server"]
       /\ DOMAIN step' = Ends /\ DOMAIN want' = Ends /\ DOMAIN content' = Ends
  BY <1>1, <1>4, GoesFacts, EndsFacts
<1>11. /\ BusyAt(Lost, server, pack, "server", step["server"], want["server"], content["server"],
                 incoming["server"] \o x, heard'["server"])
       /\ IsSeq(incoming["server"] \o x)
  <2>1. /\ Lost => server # "resource"
        /\ Good(Lost, pack) /\ IsSeq(incoming["server"])
        /\ RestsAt(Lost, server, step["server"], want["server"], content["server"], incoming["server"])
    BY <1>1, <1>2, <1>8, EndsFacts DEF Carried, ExchangeTypes, Rests, Lost
  <2>2. x = IF server = "resource" THEN connentSends(pack) ELSE sendBy(pack)
    OBVIOUS
  <2> HIDE DEF x
  <2> QED BY <2>1, <2>2, RestsThenBusy
<1> HIDE DEF x
<1>12. Rests("caller")' /\ Busy("server")'
  BY <1>2, <1>5, <1>6, <1>9, <1>10, <1>11, EndsFacts DEF Rests, RestsAt, Busy
<1>13. ExchangeTypes'
  BY <1>1, <1>5, <1>9, <1>10, <1>11, EndsFacts DEF ExchangeTypes
<1>14. HeardInv'
  BY <1>5 DEF HeardInv, HeardOK
<1>15. ShownInv'
  BY <1>1, <1>5 DEF ShownInv
<1>16. Turn'
  BY <1>5, <1>7, <1>9, <1>12, EndsFacts DEF Turn
<1> QED BY <1>13, <1>14, <1>15, <1>16 DEF ExchangeInv

\* An answer that may be given preserves the invariant.
LEMMA AnswerInv ==
  ASSUME ExchangeInv, step["server"] = "answer", NEW pack, Say("server", pack),
         Goes("server", FirstStep, 4, <<>>), UNCHANGED <<server, mine, heard, whole>>,
         pack \in AnswersOf(server, Lost, shown', said["caller"]), ShownInv'
  PROVE  ExchangeInv'
<1>1. ExchangeTypes /\ ShownInv /\ HeardInv
  BY DEF ExchangeInv
<1>2. /\ Rests("caller") /\ heard["caller"] = <<>> /\ said["caller"] \in RequestsOf(server, mine)
      /\ Quiet(Lost, incoming["server"])
  BY WhoseTurn
<1>3. Lost' <=> Lost
  BY DEF Lost
<1>4. Carried(Lost, server, pack, "caller")
  <2>1. server \in {"peer", "tracker", "resource"} /\ shown' \in SUBSET Bitmaps(FileSize)
        /\ (Lost => server # "resource")
    BY <1>1 DEF ExchangeTypes, ShownInv, Lost
  <2> QED BY <2>1, AnswerCarried
<1> DEFINE x == IF server = "resource" THEN connentSends(pack) ELSE sendBy(pack)
<1>5. /\ said'["server"] = pack /\ said'["caller"] = said["caller"] /\ DOMAIN said' = Ends
      /\ incoming'["server"] = incoming["server"] /\ DOMAIN incoming' = Ends
      /\ incoming'["caller"] = incoming["caller"] \o x
  <2>1. ExchangeTypes /\ "server" \in Ends /\ Say("server", pack)
    BY <1>1, EndsFacts
  <2>2. /\ said'["server"] = pack /\ said'[Other("server")] = said[Other("server")] /\ DOMAIN said' = Ends
        /\ incoming'["server"] = incoming["server"] /\ DOMAIN incoming' = Ends
        /\ incoming'[Other("server")] = incoming[Other("server")] \o x
    BY ONLY <2>1, SayFacts
  <2> QED BY <2>2, EndsFacts
<1>6. /\ step'["server"] = FirstOf(server) /\ want'["server"] = 4 /\ content'["server"] = <<>>
      /\ step'["caller"] = step["caller"] /\ want'["caller"] = want["caller"]
      /\ content'["caller"] = content["caller"]
      /\ DOMAIN step' = Ends /\ DOMAIN want' = Ends /\ DOMAIN content' = Ends
  <2>1. FirstStep = FirstOf(server)
    BY DEF FirstStep, FirstOf
  <2> QED BY <1>1, <2>1, GoesFacts, EndsFacts
<1>7. /\ BusyAt(Lost, server, pack, "caller", step["caller"], want["caller"], content["caller"],
                incoming["caller"] \o x, heard["caller"])
      /\ IsSeq(incoming["caller"] \o x)
  <2>1. /\ Lost => server # "resource"
        /\ Good(Lost, pack) /\ IsSeq(incoming["caller"])
        /\ RestsAt(Lost, server, step["caller"], want["caller"], content["caller"], incoming["caller"])
    BY <1>1, <1>2, <1>4, EndsFacts DEF Carried, ExchangeTypes, Rests, Lost
  <2>2. x = IF server = "resource" THEN connentSends(pack) ELSE sendBy(pack)
    OBVIOUS
  <2> HIDE DEF x
  <2> QED BY <2>1, <2>2, RestsThenBusy
<1> HIDE DEF x
<1>8. Rests("server")' /\ Busy("caller")'
  BY <1>2, <1>3, <1>5, <1>6, <1>7, EndsFacts DEF Rests, RestsAt, Busy
<1>9. ExchangeTypes'
  BY <1>1, <1>5, <1>6, <1>7, EndsFacts DEF ExchangeTypes
<1>10. HeardInv'
  <2>1. HeardOK(Lost', heard'["server"], said'["caller"])
    BY <1>1, <1>3, <1>5, EndsFacts DEF HeardInv
  <2>2. HeardOK(Lost', heard'["caller"], said'["server"])
    BY <1>2 DEF HeardOK
  <2> QED BY <2>1, <2>2, EndsFacts DEF HeardInv
<1>11. said'["server"] \in AnswersOf(server', Lost', shown', said'["caller"])
  BY <1>3, <1>5
<1>12. Turn'
  BY <1>2, <1>5, <1>8, <1>11 DEF Turn
<1> QED BY <1>9, <1>10, <1>12 DEF ExchangeInv

\* The answer of a peer preserves the invariant.
LEMMA PeerAnswersInv == ExchangeInv /\ PeerAnswers => ExchangeInv'
<1> SUFFICES ASSUME ExchangeInv, PeerAnswers PROVE ExchangeInv'
  OBVIOUS
<1> DEFINE request == said["caller"]
           h == heard["server"]
<1>1. ExchangeTypes /\ ShownInv /\ HeardInv
  BY DEF ExchangeInv
<1>2. request \in RequestsOf("peer", mine) /\ h # <<>> /\ HeardOK(Lost, h, request)
  BY <1>1, WhoseTurn, EndsFacts DEF PeerAnswers, HeardInv
<1>3. ShownInv'
  BY <1>1 DEF PeerAnswers, ShownInv
<1>4. \/ h[1] = [ok |-> TRUE, pack |-> request]
      \/ Lost /\ ~h[1].ok /\ h[1].pack.payloadType = request.payloadType
  BY <1>2 DEF HeardOK
<1>5. mine \in Bitmaps(FileSize)
  BY <1>1 DEF ShownInv
<1>6. request = ShakeHandRequest(mine) \/ request \in UploadRequests
  BY <1>2, <1>5, RequestsSound
<1>7. h[1].pack.payloadType = request.payloadType
  BY <1>4
<1>8. Process \in PeerAnswersTo(Lost, shown', request)
  <2>1. CASE request = ShakeHandRequest(mine)
    <3>1. /\ request.name = ShakeHand.name /\ request.payloadType = PAYLOAD_SHAKE_HAND
          /\ request.msg.Info.FileId = TheFile
      BY <1>5, <2>1, PeerRequests
    <3> HIDE DEF request
    <3>2. Process = Pack(PAYLOAD_SHAKE_HAND, ShakeHand, HandleShakeHand)
      BY <1>7, <3>1 DEF Process, PAYLOAD_SHAKE_HAND, PAYLOAD_UPLOAD_REQUEST
    <3>3. CASE h[1] = [ok |-> TRUE, pack |-> request]
      <4>1. Cast("server", ShakeHand) /\ h[1].pack.msg.Info.FileId = TheFile
        BY <3>1, <3>3 DEF Cast
      <4>2. HandleShakeHand = [ClientId |-> Owner, Info |-> IF shares THEN Here(TheFile, owners) ELSE NotHere(TheFile)]
        BY <4>1 DEF HandleShakeHand
      <4>3. CASE shares
        <5>1. Process = ShakeAnswer(Here(TheFile, owners)) /\ owners \in shown'
          BY <3>2, <4>1, <4>2, <4>3 DEF ShakeAnswer, PeerAnswers
        <5> QED BY <3>1, <5>1 DEF PeerAnswersTo
      <4>4. CASE ~shares
        <5>1. Process = ShakeAnswer(NotHere(TheFile))
          BY <3>2, <4>2, <4>4 DEF ShakeAnswer
        <5> QED BY <3>1, <5>1 DEF PeerAnswersTo
      <4> QED BY <4>3, <4>4
    <3>4. CASE Lost /\ ~h[1].ok
      <4>1. HandleShakeHand = New(ShakeHand)
        BY <3>4 DEF HandleShakeHand, Cast
      <4>2. Process = Refusal
        BY <3>2, <4>1 DEF Refusal
      <4> QED BY <3>1, <3>4, <4>2 DEF PeerAnswersTo
    <3> QED BY <1>4, <3>3, <3>4
  <2>2. CASE request \in UploadRequests
    <3>1. request.name # ShakeHand.name /\ request.payloadType = PAYLOAD_UPLOAD_REQUEST
      BY <1>5, <2>2, PeerRequests, TypeNames
    <3> HIDE DEF request
    <3>2. Process = Pack(PAYLOAD_UPLOAD_REPLY, UploadReply, HandleUploadRequest)
      BY <1>7, <3>1 DEF Process, PAYLOAD_SHAKE_HAND, PAYLOAD_UPLOAD_REQUEST
    <3>3. Process \in {UploadAnswer(ERROR_OK), UploadAnswer(ERROR_UNKNOWN)}
      BY <3>2 DEF HandleUploadRequest, UploadAnswer
    <3> QED BY <3>1, <3>3 DEF PeerAnswersTo
  <2> QED BY <1>6, <2>1, <2>2
<1>9. /\ step["server"] = "answer" /\ Say("server", Process) /\ Goes("server", FirstStep, 4, <<>>)
      /\ UNCHANGED <<server, mine, heard, whole>> /\ server = "peer"
  BY DEF PeerAnswers, link
<1>10. Process \in AnswersOf(server, Lost, shown', request)
  BY <1>8, <1>9 DEF AnswersOf
<1> QED BY <1>3, <1>9, <1>10, AnswerInv

\* The answer of the tracker or the resource server preserves the invariant.
LEMMA ServerAnswersInv == ExchangeInv /\ ServerAnswers => ExchangeInv'
<1> SUFFICES ASSUME ExchangeInv, ServerAnswers PROVE ExchangeInv'
  OBVIOUS
<1>1. ExchangeTypes /\ ShownInv /\ HeardInv
  BY DEF ExchangeInv
<1>2. heard["server"][1].pack = said["caller"]
  <2>1. heard["server"] # <<>> /\ HeardOK(Lost, heard["server"], said["caller"]) /\ heard["server"][1].ok
    BY <1>1, WhoseTurn, EndsFacts DEF ServerAnswers, HeardInv
  <2> QED BY <2>1 DEF HeardOK
<1>3. PICK reply \in Replies : Say("server", reply)
  BY DEF ServerAnswers
<1>4. /\ step["server"] = "answer" /\ Goes("server", FirstStep, 4, <<>>) /\ server # "peer"
      /\ UNCHANGED <<server, mine, owners, shares, filed, shown, heard, whole>>
  BY DEF ServerAnswers, link, bitmaps
<1>5. reply \in AnswersOf(server, Lost, shown', said["caller"])
  BY <1>1, <1>2, <1>3, <1>4 DEF ExchangeTypes, Replies, AnswersOf
<1>6. ShownInv'
  BY <1>1, <1>4 DEF ShownInv
<1> QED BY <1>3, <1>4, <1>5, <1>6, AnswerInv

-----------------------------------------------------------------------------
(* By the use of an answer, and what follows from it                       *)

\* What the caller does after it has used an answer, or failed to, preserves the invariant.
LEMMA UsedInv ==
  ASSUME ExchangeInv, step["caller"] = "use",
         \/ Goes("caller", "idle", 0, <<>>)
         \/ Lost /\ Goes("caller", "broken", 0, <<>>),
         UNCHANGED <<server, mine, shown, incoming, said, heard, whole>>, ShownInv'
  PROVE  ExchangeInv'
<1>1. ExchangeTypes /\ HeardInv
  BY DEF ExchangeInv
<1>2. /\ Rests("server") /\ said["caller"] \in RequestsOf(server, mine)
      /\ said["server"] \in AnswersOf(server, Lost, shown, said["caller"])
      /\ Quiet(Lost, incoming["caller"])
  BY WhoseTurn
<1>3. Lost' <=> Lost
  BY DEF Lost
<1>4. /\ step'["caller"] = "idle" \/ (Lost /\ step'["caller"] = "broken")
      /\ step'["server"] = step["server"] /\ want'["server"] = want["server"]
      /\ content'["server"] = content["server"]
      /\ DOMAIN step' = Ends /\ DOMAIN want' = Ends /\ DOMAIN content' = Ends
  BY <1>1, GoesFacts, EndsFacts
<1>5. ExchangeTypes'
  BY <1>1, <1>4 DEF ExchangeTypes
<1>6. HeardInv'
  BY <1>1, <1>3 DEF HeardInv
<1>7. Rests("server")'
  BY <1>2, <1>3, <1>4 DEF Rests
<1>8. CASE step'["caller"] = "idle"
  BY <1>2, <1>3, <1>5, <1>6, <1>7, <1>8 DEF ExchangeInv, Turn
<1>9. CASE Lost /\ step'["caller"] = "broken"
  <2>1. Busy("caller")'
    BY <1>3, <1>9 DEF Busy, BusyAt
  <2>2. said'["server"] \in AnswersOf(server', Lost', shown', said'["caller"])
    BY <1>2, <1>3
  <2> QED BY <1>2, <1>5, <1>6, <1>7, <2>1, <2>2 DEF ExchangeInv, Turn
<1> QED BY <1>4, <1>8, <1>9

\* The caller's use of a handshake preserves the invariant.
LEMMA UseShakeHandInv == ExchangeInv /\ UseShakeHand => ExchangeInv'
<1> SUFFICES ASSUME ExchangeInv, UseShakeHand PROVE ExchangeInv'
  OBVIOUS
<1> DEFINE request == said["caller"]
           answer == said["server"]
           h == heard["caller"]
<1>1. ExchangeTypes /\ ShownInv /\ HeardInv
  BY DEF ExchangeInv
<1>2. /\ step["caller"] = "use" /\ request.name = ShakeHand.name
      /\ UNCHANGED <<server, mine, owners, shown, incoming, said, heard, whole>>
  BY DEF UseShakeHand, link
<1>3. /\ request \in RequestsOf(server, mine) /\ answer \in AnswersOf(server, Lost, shown, request)
      /\ h # <<>> /\ HeardOK(Lost, h, answer)
  BY <1>1, <1>2, WhoseTurn, EndsFacts DEF HeardInv
<1>4. server \in {"peer", "tracker", "resource"} /\ mine \in Bitmaps(FileSize) /\ shown \in SUBSET Bitmaps(FileSize)
  BY <1>1 DEF ExchangeTypes, ShownInv
<1>5. server = "peer"
  BY <1>2, <1>3, <1>4, RequestsSound
<1>6. answer \in PeerAnswersTo(Lost, shown, request)
  BY <1>3, <1>5 DEF AnswersOf
<1>7. /\ answer.name = ShakeHand.name
      /\ \/ answer = Refusal
         \/ answer.msg.Info.HasFile = 0
         \/ answer.msg.Info.HasFile = 1 /\ conver_transport_format_bitmap(answer.msg.Info) \in shown
  BY <1>2, <1>4, <1>6, PeerAnswersSound
<1>8. Lost \/ (h[1] = [ok |-> TRUE, pack |-> answer] /\ Readable(answer))
  BY <1>3 DEF HeardOK
<1>9. h[1].ok => h[1].pack = answer /\ Readable(answer)
  BY <1>3 DEF HeardOK
<1>10. CASE Cast("caller", ShakeHand)
  <2>1. h[1].pack = answer /\ Readable(answer)
    BY <1>9, <1>10 DEF Cast
  <2>2. answer # Refusal
    <3>1. ASSUME answer = Refusal PROVE FALSE
      <4>1. Refusal.name = ShakeHand.name /\ Refusal.msg = New(ShakeHand)
        BY DEF Refusal, Pack
      <4>2. TypeNamed(ShakeHand.name) = ShakeHand
        BY NameLeads DEF SentTypes
      <4>3. ~Readable(Refusal)
        BY <4>1, <4>2, RefusalUnread DEF Readable, Body
      <4> QED BY <2>1, <3>1, <4>3
    <3> QED BY <3>1
  <2> DEFINE info == answer.msg.Info
  <2>3. \/ info.HasFile = 0
        \/ info.HasFile = 1 /\ conver_transport_format_bitmap(info) \in shown
    BY <1>7, <2>2
  <2>4. /\ Goes("caller", "idle", 0, <<>>)
        /\ filed' = IF info.HasFile = 0 THEN NoBitmap ELSE conver_transport_format_bitmap(info)
    <3>1. heard["caller"][1].pack.msg.Info = info
      BY <2>1
    <3> HIDE DEF info
    <3> QED BY <1>10, <3>1 DEF UseShakeHand
  <2> HIDE DEF info
  <2>5. filed' = NoBitmap \/ filed' \in shown
    BY <2>3, <2>4
  <2>6. ShownInv'
    BY <1>1, <1>2, <2>5 DEF ShownInv
  <2> QED BY <1>2, <2>4, <2>6, UsedInv
<1>11. CASE ~Cast("caller", ShakeHand)
  <2>1. Goes("caller", "broken", 0, <<>>) /\ filed' = filed
    BY <1>11 DEF UseShakeHand, Breaks
  <2>2. Lost
    BY <1>7, <1>8, <1>11 DEF Cast
  <2>3. ShownInv'
    BY <1>1, <1>2, <2>1 DEF ShownInv
  <2> QED BY <1>2, <2>1, <2>2, <2>3, UsedInv
<1> QED BY <1>10, <1>11

\* The caller's use of another answer preserves the invariant.
LEMMA UseReplyInv == ExchangeInv /\ UseReply => ExchangeInv'
<1> SUFFICES ASSUME ExchangeInv, UseReply PROVE ExchangeInv'
  OBVIOUS
<1> DEFINE request == said["caller"]
           answer == said["server"]
           h == heard["caller"]
<1>1. ExchangeTypes /\ ShownInv /\ HeardInv
  BY DEF ExchangeInv
<1>2. /\ step["caller"] = "use" /\ request.name # ShakeHand.name
      /\ UNCHANGED <<server, mine, owners, filed, shown, incoming, said, heard, whole>>
  BY DEF UseReply, link, bitmaps
<1>3. /\ request \in RequestsOf(server, mine) /\ answer \in AnswersOf(server, Lost, shown, request)
      /\ h # <<>> /\ HeardOK(Lost, h, answer)
  BY <1>1, <1>2, WhoseTurn, EndsFacts DEF HeardInv
<1>4. server \in {"peer", "tracker", "resource"} /\ mine \in Bitmaps(FileSize) /\ shown \in SUBSET Bitmaps(FileSize)
  BY <1>1 DEF ExchangeTypes, ShownInv
<1>5. Lost \/ h[1] = [ok |-> TRUE, pack |-> answer]
  BY <1>3 DEF HeardOK
<1>6. NullHurts => Lost
  <2>1. CASE request.name = UploadRequest.name
    <3>1. server = "peer"
      BY <1>3, <1>4, <2>1, RequestsSound
    <3>2. answer \in PeerAnswersTo(Lost, shown, request)
      BY <1>3, <3>1 DEF AnswersOf
    <3>3. answer.name = UploadReply.name
      BY <1>2, <1>4, <3>2, PeerAnswersSound
    <3>4. request.name # QueryPeer.name
      BY <2>1, TypeNames
    <3> QED BY <1>5, <3>3, <3>4 DEF NullHurts, Cast
  <2>2. CASE request.name = QueryPeer.name
    <3>1. server = "tracker"
      BY <1>3, <1>4, <2>2, RequestsSound
    <3>2. answer \in TrackerReplies(request)
      BY <1>3, <3>1 DEF AnswersOf
    <3>3. answer.name = QueryPeerReply.name
      BY <2>2, <3>2, TrackerAnswersSound
    <3>4. request.name # UploadRequest.name
      BY <2>2, TypeNames
    <3> QED BY <1>5, <3>3, <3>4 DEF NullHurts, Cast
  <2> QED BY <2>1, <2>2 DEF NullHurts
<1>7. Goes("caller", "idle", 0, <<>>) \/ (Lost /\ Goes("caller", "broken", 0, <<>>))
  BY <1>6 DEF UseReply, Breaks
<1>8. ShownInv'
  BY <1>1, <1>2 DEF ShownInv
<1> QED BY <1>2, <1>7, <1>8, UsedInv

\* What leaves the connection alone preserves the invariant.
LEMMA SameInv ==
  ASSUME ExchangeInv, ShownInv',
         UNCHANGED <<server, mine, shown, incoming, step, want, content, said, heard, whole>>
  PROVE  ExchangeInv'
<1>1. ExchangeTypes /\ Turn /\ HeardInv
  BY DEF ExchangeInv
<1>2. Lost' <=> Lost
  BY DEF Lost
<1>3. ExchangeTypes'
  BY <1>1 DEF ExchangeTypes
<1>4. HeardInv'
  BY <1>1, <1>2 DEF HeardInv
<1>5. \A e \in Ends : (Rests(e)' <=> Rests(e)) /\ (Busy(e)' <=> Busy(e))
  BY <1>2 DEF Rests, Busy
<1>6. Turn'
  BY <1>1, <1>2, <1>5, EndsFacts DEF Turn
<1> QED BY <1>3, <1>4, <1>6 DEF ExchangeInv

\* What the peer does with its own download preserves the invariant.
LEMMA OwnerInv == ExchangeInv /\ (OwnerDownloads \/ OwnerRemovesJob) => ExchangeInv'
<1> SUFFICES ASSUME ExchangeInv, OwnerDownloads \/ OwnerRemovesJob PROVE ExchangeInv'
  OBVIOUS
<1>1. ExchangeTypes /\ Turn /\ ShownInv /\ HeardInv
  BY DEF ExchangeInv
<1>2. UNCHANGED <<server, mine, filed, shown, incoming, step, want, content, said, heard, whole>>
  BY DEF OwnerDownloads, OwnerRemovesJob, link
<1>3. owners' \in Bitmaps(FileSize) /\ owners.ones \subseteq owners'.ones
  <2>1. PICK ones \in SUBSET (0 .. FileSize - 1) : owners = Bitmap(FileSize, ones)
    BY <1>1 DEF ShownInv, Bitmaps
  <2>2. CASE OwnerDownloads
    <3>1. PICK chunk \in 0 .. FileSize - 1 : owners' = [owners EXCEPT !.ones = @ \cup {chunk}]
      BY <2>2 DEF OwnerDownloads
    <3>2. owners' = Bitmap(FileSize, ones \cup {chunk})
      BY <2>1, <3>1 DEF Bitmap
    <3>3. ones \cup {chunk} \in SUBSET (0 .. FileSize - 1)
      OBVIOUS
    <3>4. owners' \in Bitmaps(FileSize)
      BY <3>2, <3>3 DEF Bitmaps
    <3>5. owners.ones = ones /\ owners'.ones = ones \cup {chunk}
      BY <2>1, <3>2 DEF Bitmap
    <3> QED BY <3>4, <3>5
  <2>3. CASE OwnerRemovesJob
    BY <1>1, <2>3 DEF OwnerRemovesJob, ShownInv
  <2> QED BY <2>2, <2>3
<1>4. ShownInv'
  BY <1>1, <1>2, <1>3 DEF ShownInv
<1> QED BY <1>2, <1>4, SameInv

\* Every step preserves the invariant.
LEMMA ExchangeNext == ExchangeInv /\ [NetPackNext]_netpackVars => ExchangeInv'
<1> SUFFICES ASSUME ExchangeInv, [NetPackNext]_netpackVars PROVE ExchangeInv'
  OBVIOUS
<1>1. CASE Call
  BY <1>1, CallInv
<1>2. ASSUME NEW e \in Ends, Receive(e) PROVE ExchangeInv'
  BY <1>2, ReceiveInv
<1>3. CASE PeerAnswers
  BY <1>3, PeerAnswersInv
<1>4. CASE ServerAnswers
  BY <1>4, ServerAnswersInv
<1>5. CASE UseShakeHand
  BY <1>5, UseShakeHandInv
<1>6. CASE UseReply
  BY <1>6, UseReplyInv
<1>7. CASE OwnerDownloads \/ OwnerRemovesJob
  BY <1>7, OwnerInv
<1>8. CASE UNCHANGED netpackVars
  <2>1. UNCHANGED <<server, mine, owners, filed, shown, incoming, step, want, content, said, heard, whole>>
    BY <1>8 DEF netpackVars
  <2>2. ShownInv'
    BY <2>1 DEF ExchangeInv, ShownInv
  <2> QED BY <2>1, <2>2, SameInv
<1> QED BY <1>1, <1>2, <1>3, <1>4, <1>5, <1>6, <1>7, <1>8 DEF NetPackNext

\* The inductive invariant holds in every reachable state.
LEMMA ExchangeInvariant == NetPackSpec => []ExchangeInv
<1> QED BY ExchangeInit, ExchangeNext, PTL DEF NetPackSpec

(* As long as every receive of NetPack returns what it asked for, and      *)
(* always with connent, each end gets every message the other builds, with *)
(* its type and all its fields, no end breaks, and nothing is left over    *)
(* between two calls: receiveFrom (netpack.cc) and the exchange of         *)
(* resource_conn.cpp, for every file and any number of calls.              *)
THEOREM MessagesInStep == NetPackSpec => []InStep
<1>1. ExchangeInv => InStep
  <2> SUFFICES ASSUME ExchangeInv, whole \/ server = "resource"
               PROVE  /\ \A e \in Ends : step[e] # "broken"
                      /\ \A e \in Ends : heard[e] # <<>> =>
                           heard[e][1] = [ok |-> TRUE, pack |-> said[Other(e)]]
                      /\ step["caller"] = "idle" =>
                           incoming["caller"] = <<>> /\ incoming["server"] = <<>>
    BY DEF InStep
  <2>1. ~Lost
    BY DEF Lost
  <2>2. \A e \in Ends : Rests(e) => step[e] # "broken" /\ incoming[e] = <<>>
    BY <2>1 DEF Rests, RestsAt, FirstOf, Quiet
  <2>3. \A e \in Ends : Busy(e) => step[e] # "broken"
    BY <2>1 DEF Busy, BusyAt, PackReads, ConnReads, ReadyOf
  <2>4. Turn /\ HeardInv
    BY DEF ExchangeInv
  <2>5. \A e \in Ends : step[e] # "broken"
    BY <2>2, <2>3, <2>4, EndsFacts DEF Turn
  <2>6. ASSUME NEW e \in Ends, heard[e] # <<>>
        PROVE  heard[e][1] = [ok |-> TRUE, pack |-> said[Other(e)]]
    BY <2>1, <2>4, <2>6 DEF HeardInv, HeardOK
  <2>7. step["caller"] = "idle" => incoming["caller"] = <<>> /\ incoming["server"] = <<>>
    BY <2>1, <2>2, EndsFacts, WhoseTurn DEF Quiet
  <2> QED BY <2>5, <2>6, <2>7
<1> QED BY <1>1, ExchangeInvariant, PTL

(* However the bytes arrive, neither end takes anything for a message that *)
(* the other has not sent: message() of netpack.cc, after any number of    *)
(* receives that returned less than they asked for.                        *)
THEOREM NothingIsInvented == NetPackSpec => []NothingInvented
<1>1. ExchangeInv => NothingInvented
  <2> SUFFICES ASSUME HeardInv, NEW e \in Ends, heard[e] # <<>>, heard[e][1].ok
               PROVE  heard[e][1].pack = said[Other(e)]
    BY DEF ExchangeInv, NothingInvented
  <2>1. HeardOK(Lost, heard[e], said[Other(e)])
    BY DEF HeardInv
  <2> QED BY <2>1 DEF HeardOK
<1> QED BY <1>1, ExchangeInvariant, PTL

(* The bitmap the caller keeps for a peer (FileOwnerInfo) is one the peer  *)
(* has shown, of the size of the file, and claims no chunk the peer does   *)
(* not have, for files and blocks of every size.                           *)
THEOREM FiledBitmapWasShown == NetPackSpec => []FiledWasShown
<1>1. ExchangeInv => FiledWasShown
  <2> SUFFICES ASSUME ShownInv, filed # NoBitmap
               PROVE  filed \in shown /\ filed.size = FileSize /\ filed.ones \subseteq owners.ones
    BY DEF ExchangeInv, FiledWasShown
  <2>1. filed \in shown /\ filed \in Bitmaps(FileSize) /\ filed.ones \subseteq owners.ones
    BY DEF ShownInv
  <2>2. filed.size = FileSize
    BY <2>1 DEF Bitmaps, Bitmap
  <2> QED BY <2>1, <2>2
<1> QED BY <1>1, ExchangeInvariant, PTL

=============================================================================
