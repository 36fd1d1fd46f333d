---------------------------- MODULE Lists_proofs ----------------------------
(***************************************************************************)
(* Facts about numbers and lists that several proofs need: induction with  *)
(* a set in the place of the predicate, and what FlattenSeq of the         *)
(* community modules returns, which they define by recursion.              *)
(***************************************************************************)
EXTENDS Integers, Sequences, SequencesExt, SequenceTheorems,
        WellFoundedInduction, TLAPS

LEMMA LessIsWellFounded == IsWellFoundedOn({ss \in Nat \X Nat : ss[1] < ss[2]}, Nat)
BY NatLessThanWellFounded, Zenon DEF OpToRel

LEMMA Smallest ==
  ASSUME NEW T, T \subseteq Nat, T # {}
  PROVE  \E m \in T : \A k \in T : m <= k
<1> DEFINE R == {ss \in Nat \X Nat : ss[1] < ss[2]}
<1>1. \A k, m \in Nat : k < m => <<k, m>> \in R
  OBVIOUS
<1>2. IsWellFoundedOn(R, Nat)
  BY LessIsWellFounded
<1> HIDE DEF R
<1>3. \E m \in T : \A k \in T : ~ (<<k, m>> \in R)
  BY <1>2, WFMin
<1>4. \A k, m \in T : ~ (k < m) => m <= k
  OBVIOUS
<1> QED BY <1>1, <1>3, <1>4

LEMMA Induction ==
  ASSUME NEW T, 0 \in T, \A n \in Nat : n \in T => n + 1 \in T
  PROVE  Nat \subseteq T
<1> DEFINE B == Nat \ T
<1> SUFFICES ASSUME B # {} PROVE FALSE
  OBVIOUS
<1>1. PICK m \in B : \A k \in B : m <= k
  BY Smallest
<1>2. m # 0 /\ m - 1 \in Nat /\ m - 1 \notin B
  BY <1>1
<1> QED BY <1>2

-----------------------------------------------------------------------------
(* FlattenSeq: upTo[i] is what the first i lists make.                     *)

Flattened(upTo, seqs, m) ==
  upTo = [i \in 1 .. m |-> IF i = 1 THEN seqs[i] ELSE upTo[i - 1] \o seqs[i]]

LEMMA FlattenedAt ==
  ASSUME NEW upTo, NEW seqs, NEW m, Flattened(upTo, seqs, m)
  PROVE  \A i \in 1 .. m :
           upTo[i] = IF i = 1 THEN seqs[i] ELSE upTo[i - 1] \o seqs[i]
<1> DEFINE body == [i \in 1 .. m |-> IF i = 1 THEN seqs[i] ELSE upTo[i - 1] \o seqs[i]]
<1>1. upTo = body
  BY DEF Flattened
<1>2. \A i \in 1 .. m :
        body[i] = IF i = 1 THEN seqs[i] ELSE upTo[i - 1] \o seqs[i]
  OBVIOUS
<1> HIDE DEF body
<1> QED BY <1>1, <1>2

LEMMA FlattenedExists ==
  ASSUME NEW seqs
  PROVE  \A m \in Nat : \E upTo : Flattened(upTo, seqs, m)
<1> DEFINE T == {m \in Nat : \E upTo : Flattened(upTo, seqs, m)}
<1>1. 0 \in T
  <2> DEFINE none == [i \in 1 .. 0 |-> seqs[i]]
  <2>1. Flattened(none, seqs, 0)
    BY DEF Flattened
  <2> QED BY <2>1
<1>2. ASSUME NEW m \in Nat, m \in T
      PROVE  m + 1 \in T
  <2>1. PICK upTo : Flattened(upTo, seqs, m)
    BY <1>2
  <2> DEFINE more == [i \in 1 .. m + 1 |->
                        IF i = 1 THEN seqs[i] ELSE upTo[i - 1] \o seqs[i]]
  <2>2. \A i \in 1 .. m : upTo[i] = more[i]
    <3>1. \A i \in 1 .. m :
            upTo[i] = IF i = 1 THEN seqs[i] ELSE upTo[i - 1] \o seqs[i]
      BY <2>1, FlattenedAt
    <3> QED BY <3>1
  <2>3. \A i \in 1 .. m + 1 : i # 1 => i - 1 \in 1 .. m
    OBVIOUS
  <2>4. \A i \in 1 .. m + 1 :
          more[i] = IF i = 1 THEN seqs[i] ELSE more[i - 1] \o seqs[i]
    <3> TAKE i \in 1 .. m + 1
    <3>1. more[i] = IF i = 1 THEN seqs[i] ELSE upTo[i - 1] \o seqs[i]
      OBVIOUS
    <3>2. i # 1 => upTo[i - 1] = more[i - 1]
      BY <2>2, <2>3
    <3> HIDE DEF more
    <3> QED BY <3>1, <3>2
  <2>5. Flattened(more, seqs, m + 1)
    <3>1. more = [i \in 1 .. m + 1 |-> more[i]]
      OBVIOUS
    <3> HIDE DEF more
    <3> QED BY <2>4, <3>1 DEF Flattened
  <2> QED BY <2>5
<1> HIDE DEF T
<1>3. Nat \subseteq T
  BY <1>1, <1>2, Induction
<1> QED BY <1>3 DEF T

(* What the first lists make does not depend on those after them.          *)
LEMMA FlattenedAgree ==
  ASSUME NEW S, NEW seqs \in Seq(Seq(S)), NEW more \in Seq(Seq(S)),
         Len(seqs) <= Len(more), \A i \in DOMAIN seqs : more[i] = seqs[i],
         NEW f, NEW g,
         Flattened(f, seqs, Len(seqs)), Flattened(g, more, Len(more))
  PROVE  \A i \in 1 .. Len(seqs) : f[i] = g[i] /\ f[i] \in Seq(S)
<1> DEFINE T == {n \in Nat : n + 1 <= Len(seqs) =>
                               f[n + 1] = g[n + 1] /\ f[n + 1] \in Seq(S)}
<1>0. /\ Len(seqs) \in Nat /\ Len(more) \in Nat /\ Len(seqs) <= Len(more)
      /\ DOMAIN seqs = 1 .. Len(seqs) /\ \A i \in DOMAIN seqs : more[i] = seqs[i]
      /\ \A i \in 1 .. Len(seqs) : seqs[i] \in Seq(S)
  OBVIOUS
<1>1. \A i \in 1 .. Len(seqs) :
        /\ f[i] = IF i = 1 THEN seqs[i] ELSE f[i - 1] \o seqs[i]
        /\ g[i] = IF i = 1 THEN seqs[i] ELSE g[i - 1] \o seqs[i]
  <2>1. \A i \in 1 .. Len(seqs) :
          f[i] = IF i = 1 THEN seqs[i] ELSE f[i - 1] \o seqs[i]
    BY FlattenedAt
  <2>2. \A i \in 1 .. Len(more) :
          g[i] = IF i = 1 THEN more[i] ELSE g[i - 1] \o more[i]
    BY FlattenedAt
  <2>3. \A i \in 1 .. Len(seqs) : i \in 1 .. Len(more)
    BY <1>0
  <2>4. \A i \in 1 .. Len(seqs) : more[i] = seqs[i]
    BY <1>0
  <2> QED BY <2>1, <2>2, <2>3, <2>4
<1>2. 0 \in T
  BY <1>0, <1>1
<1>3. ASSUME NEW n \in Nat, n \in T
      PROVE  n + 1 \in T
  <2> SUFFICES ASSUME n + 2 <= Len(seqs)
               PROVE  f[n + 2] = g[n + 2] /\ f[n + 2] \in Seq(S)
    OBVIOUS
  <2>1. f[n + 1] = g[n + 1] /\ f[n + 1] \in Seq(S)
    BY <1>0, <1>3
  <2>2. /\ f[n + 2] = f[n + 1] \o seqs[n + 2] /\ g[n + 2] = g[n + 1] \o seqs[n + 2]
        /\ seqs[n + 2] \in Seq(S)
    <3>1. n + 2 \in 1 .. Len(seqs) /\ n + 2 # 1 /\ (n + 2) - 1 = n + 1
      BY <1>0
    <3> QED BY <1>0, <1>1, <3>1
  <2> QED BY <2>1, <2>2, ConcatProperties
<1> HIDE DEF T
<1>4. Nat \subseteq T
  BY <1>2, <1>3, Induction
<1>5. \A i \in 1 .. Len(seqs) : i - 1 \in Nat /\ (i - 1) + 1 = i /\ i <= Len(seqs)
  BY <1>0
<1> QED BY <1>4, <1>5 DEF T

LEMMA FlattenDef ==
  ASSUME NEW seqs, Len(seqs) \in Nat, Len(seqs) # 0
  PROVE  \E upTo : Flattened(upTo, seqs, Len(seqs)) /\ FlattenSeq(seqs) = upTo[Len(seqs)]
<1> DEFINE upTo == CHOOSE f : Flattened(f, seqs, Len(seqs))
<1>1. FlattenSeq(seqs) = upTo[Len(seqs)]
  BY DEF FlattenSeq, Flattened
<1>2. Flattened(upTo, seqs, Len(seqs))
  BY FlattenedExists
<1> QED BY <1>1, <1>2

LEMMA FlattenNone ==
  ASSUME NEW seqs, Len(seqs) = 0
  PROVE  FlattenSeq(seqs) = seqs
BY DEF FlattenSeq

LEMMA FlattenOne ==
  ASSUME NEW S, NEW s \in Seq(S)
  PROVE  FlattenSeq(<< s >>) = s
<1> DEFINE one == << s >>
<1>1. Len(one) = 1 /\ Len(one) \in Nat /\ Len(one) # 0 /\ one[1] = s
  OBVIOUS
<1> HIDE DEF one
<1>2. PICK upTo : Flattened(upTo, one, Len(one)) /\ FlattenSeq(one) = upTo[Len(one)]
  BY <1>1, FlattenDef
<1>3. upTo[1] = one[1]
  BY <1>1, <1>2, FlattenedAt
<1> QED BY <1>1, <1>2, <1>3 DEF one

LEMMA FlattenAppend ==
  ASSUME NEW S, NEW seqs \in Seq(Seq(S)), NEW s \in Seq(S)
  PROVE  /\ FlattenSeq(seqs) \in Seq(S)
         /\ FlattenSeq(Append(seqs, s)) = FlattenSeq(seqs) \o s
<1> DEFINE more == Append(seqs, s)
<1>1. /\ more \in Seq(Seq(S)) /\ Len(more) = Len(seqs) + 1 /\ Len(seqs) \in Nat
      /\ more[Len(seqs) + 1] = s
      /\ DOMAIN seqs = 1 .. Len(seqs) /\ \A i \in DOMAIN seqs : more[i] = seqs[i]
  OBVIOUS
<1> HIDE DEF more
<1>2. PICK g : Flattened(g, more, Len(more)) /\ FlattenSeq(more) = g[Len(more)]
  <2>1. Len(more) \in Nat /\ Len(more) # 0
    BY <1>1
  <2> QED BY ONLY <2>1, FlattenDef
<1>3. CASE Len(seqs) = 0
  <2>1. seqs = <<>> /\ FlattenSeq(seqs) = <<>> /\ <<>> \in Seq(S)
    BY <1>3, FlattenNone, EmptySeq
  <2>2. FlattenSeq(more) = s
    BY <1>1, <1>2, <1>3, FlattenedAt
  <2>3. <<>> \o s = s
    BY ConcatEmptySeq
  <2> QED BY <2>1, <2>2, <2>3 DEF more
<1>4. CASE Len(seqs) # 0
  <2>1. PICK f : Flattened(f, seqs, Len(seqs)) /\ FlattenSeq(seqs) = f[Len(seqs)]
    BY <1>1, <1>4, FlattenDef
  <2>2. f[Len(seqs)] = g[Len(seqs)] /\ f[Len(seqs)] \in Seq(S)
    <3>1. Len(seqs) <= Len(more)
      BY <1>1
    <3>2. \A i \in 1 .. Len(seqs) : f[i] = g[i] /\ f[i] \in Seq(S)
      BY <1>1, <1>2, <2>1, <3>1, FlattenedAgree
    <3> QED BY <1>1, <1>4, <3>2
  <2>3. g[Len(more)] = g[Len(seqs)] \o s
    <3>1. Len(more) \in 1 .. Len(more) /\ Len(more) # 1 /\ Len(more) - 1 = Len(seqs)
      BY <1>1, <1>4
    <3>2. \A i \in 1 .. Len(more) :
            g[i] = IF i = 1 THEN more[i] ELSE g[i - 1] \o more[i]
      BY <1>2, FlattenedAt
    <3>3. g[Len(more)] = g[Len(more) - 1] \o more[Len(more)]
      BY <3>1, <3>2
    <3> QED BY <1>1, <3>1, <3>3
  <2> QED BY <1>2, <2>1, <2>2, <2>3 DEF more
<1> QED BY <1>3, <1>4

-----------------------------------------------------------------------------
(* Induction over lists.                                                   *)
LEMMA ListInduction ==
  ASSUME NEW S, NEW T, <<>> \in T,
         \A s \in Seq(S), e \in S : s \in T => Append(s, e) \in T
  PROVE  Seq(S) \subseteq T
<1> DEFINE N == {n \in Nat : \A s \in Seq(S) : Len(s) = n => s \in T}
<1>1. 0 \in N
  <2>1. \A s \in Seq(S) : Len(s) = 0 => s = <<>>
    BY EmptySeq
  <2> QED BY <2>1
<1>2. ASSUME NEW n \in Nat, n \in N
      PROVE  n + 1 \in N
  <2> SUFFICES ASSUME NEW s \in Seq(S), Len(s) = n + 1
               PROVE  s \in T
    OBVIOUS
  <2>1. s # <<>>
    BY EmptySeq
  <2>2. PICK r \in Seq(S), e \in S : s = Append(r, e)
    BY <2>1, SequenceEmptyOrAppend
  <2>3. Len(r) = n
    <3>1. Len(Append(r, e)) = Len(r) + 1 /\ Len(r) \in Nat
      BY AppendProperties, LenProperties
    <3> QED BY <2>2, <3>1
  <2> QED BY <1>2, <2>2, <2>3
<1> HIDE DEF N
<1>3. Nat \subseteq N
  BY <1>1, <1>2, Induction
<1>4. \A s \in Seq(S) : Len(s) \in Nat
  OBVIOUS
<1> QED BY <1>3, <1>4 DEF N

(* As an operator, so that a use of it names the set the lists are over.   *)
Associative(L) == \A s, t, u \in L : (s \o t) \o u = s \o (t \o u)

LEMMA Regroup == \A S : Associative(Seq(S))
<1> SUFFICES ASSUME NEW S PROVE \A s, t, u \in Seq(S) : (s \o t) \o u = s \o (t \o u)
  BY DEF Associative
<1> QED BY ConcatAssociative

(* What the concatenation of two members of a set of lists holds, as a     *)
(* property of that set.                                                   *)
Joins(L) ==
  \A s, t \in L :
    /\ s \o t \in L /\ Len(s \o t) = Len(s) + Len(t)
    /\ \A i \in 1 .. Len(s) + Len(t) :
         (s \o t)[i] = IF i <= Len(s) THEN s[i] ELSE t[i - Len(s)]

LEMMA Joining == \A S : Joins(Seq(S))
<1> SUFFICES ASSUME NEW S PROVE Joins(Seq(S))
  OBVIOUS
<1> QED BY ConcatProperties DEF Joins

LEMMA FlattenConcat ==
  ASSUME NEW S, NEW left \in Seq(Seq(S))
  PROVE  \A right \in Seq(Seq(S)) :
           FlattenSeq(left \o right) = FlattenSeq(left) \o FlattenSeq(right)
<1> DEFINE T == {right \in Seq(Seq(S)) :
                   FlattenSeq(left \o right) = FlattenSeq(left) \o FlattenSeq(right)}
<1>1. <<>> \in T
  <2>1. /\ <<>> \in Seq(Seq(S)) /\ left \o <<>> = left
        /\ FlattenSeq(left) \in Seq(S) /\ FlattenSeq(<<>>) = <<>>
    BY EmptySeq, ConcatEmptySeq, FlattenAppend, FlattenNone
  <2> QED BY <2>1, ConcatEmptySeq
<1>2. ASSUME NEW right \in Seq(Seq(S)), NEW s \in Seq(S), right \in T
      PROVE  Append(right, s) \in T
  <2>1. /\ left \o right \in Seq(Seq(S)) /\ Append(right, s) \in Seq(Seq(S))
        /\ left \o Append(right, s) = Append(left \o right, s)
    <3>1. /\ Append(right, s) = right \o << s >> /\ << s >> \in Seq(Seq(S))
          /\ left \o right \in Seq(Seq(S))
      BY AppendIsConcat, ConcatProperties
    <3>2. left \o (right \o << s >>) = (left \o right) \o << s >>
      <4>1. Associative(Seq(Seq(S)))
        BY Regroup
      <4> QED BY <3>1, <4>1 DEF Associative
    <3>3. Append(left \o right, s) = (left \o right) \o << s >>
      BY <3>1, AppendIsConcat
    <3>4. Append(right, s) \in Seq(Seq(S))
      BY AppendProperties
    <3> QED BY <3>1, <3>2, <3>3, <3>4
  <2>2. /\ FlattenSeq(Append(left \o right, s)) = FlattenSeq(left \o right) \o s
        /\ FlattenSeq(Append(right, s)) = FlattenSeq(right) \o s
        /\ FlattenSeq(left) \in Seq(S) /\ FlattenSeq(right) \in Seq(S)
    BY <2>1, FlattenAppend
  <2>3. (FlattenSeq(left) \o FlattenSeq(right)) \o s
          = FlattenSeq(left) \o (FlattenSeq(right) \o s)
    <3>1. Associative(Seq(S))
      BY Regroup
    <3> QED BY <2>2, <3>1 DEF Associative
  <2> QED BY <1>2, <2>1, <2>2, <2>3
<1> HIDE DEF T
<1>3. Seq(Seq(S)) \subseteq T
  BY <1>1, <1>2, ListInduction
<1> QED BY <1>3 DEF T

(* Lists of one element each make the list of these elements.              *)
LEMMA FlattenSingles ==
  ASSUME NEW S
  PROVE  \A seqs \in Seq(Seq(S)) :
           (\A i \in DOMAIN seqs : Len(seqs[i]) = 1) =>
             /\ Len(FlattenSeq(seqs)) = Len(seqs)
             /\ \A i \in DOMAIN seqs : FlattenSeq(seqs)[i] = seqs[i][1]
<1> DEFINE P(seqs) ==
             (\A i \in DOMAIN seqs : Len(seqs[i]) = 1) =>
               /\ Len(FlattenSeq(seqs)) = Len(seqs)
               /\ \A i \in DOMAIN seqs : FlattenSeq(seqs)[i] = seqs[i][1]
           T == {seqs \in Seq(Seq(S)) : P(seqs)}
<1>1. <<>> \in T
  <2>1. <<>> \in Seq(Seq(S)) /\ FlattenSeq(<<>>) = <<>> /\ DOMAIN <<>> = {}
    BY EmptySeq, FlattenNone
  <2> QED BY <2>1
<1>2. ASSUME NEW seqs \in Seq(Seq(S)), NEW s \in Seq(S), seqs \in T
      PROVE  Append(seqs, s) \in T
  <2> DEFINE more == Append(seqs, s)
  <2>1. /\ more \in Seq(Seq(S)) /\ Len(more) = Len(seqs) + 1 /\ Len(seqs) \in Nat
        /\ DOMAIN more = 1 .. Len(more) /\ DOMAIN seqs = 1 .. Len(seqs)
        /\ \A i \in 1 .. Len(seqs) : more[i] = seqs[i]
        /\ more[Len(seqs) + 1] = s
    OBVIOUS
  <2>2. FlattenSeq(more) = FlattenSeq(seqs) \o s /\ FlattenSeq(seqs) \in Seq(S)
    BY FlattenAppend
  <2> HIDE DEF more
  <2> SUFFICES ASSUME \A i \in DOMAIN more : Len(more[i]) = 1
               PROVE  /\ Len(FlattenSeq(more)) = Len(more)
                      /\ \A i \in DOMAIN more : FlattenSeq(more)[i] = more[i][1]
    BY <2>1 DEF more
  <2>3. Len(s) = 1 /\ \A i \in DOMAIN seqs : Len(seqs[i]) = 1
    <3>1. Len(seqs) + 1 \in DOMAIN more /\ \A i \in DOMAIN seqs : i \in DOMAIN more
      BY <2>1
    <3> QED BY <2>1, <3>1
  <2>4. /\ Len(FlattenSeq(seqs)) = Len(seqs)
        /\ \A i \in 1 .. Len(seqs) : FlattenSeq(seqs)[i] = seqs[i][1]
    BY <1>2, <2>1, <2>3
  <2>5. /\ Len(FlattenSeq(more)) = Len(seqs) + 1
        /\ \A i \in 1 .. Len(seqs) : FlattenSeq(more)[i] = FlattenSeq(seqs)[i]
        /\ FlattenSeq(more)[Len(seqs) + 1] = s[1]
    <3> DEFINE flat == FlattenSeq(seqs)
    <3>1. flat \in Seq(S) /\ Len(flat) = Len(seqs) /\ FlattenSeq(more) = flat \o s
      BY <2>2, <2>4
    <3> HIDE DEF flat
    <3>2. /\ Len(flat \o s) = Len(flat) + Len(s)
          /\ \A i \in 1 .. Len(flat) + Len(s) :
               (flat \o s)[i] = IF i <= Len(flat) THEN flat[i] ELSE s[i - Len(flat)]
      BY ONLY <3>1, s \in Seq(S), ConcatProperties
    <3>3. Len(seqs) + 1 \in 1 .. Len(seqs) + 1 /\ (Len(seqs) + 1) - Len(seqs) = 1
      BY <2>1
    <3> QED BY <2>1, <2>3, <3>1, <3>2, <3>3 DEF flat
  <2>6. \A i \in 1 .. Len(more) : i \in 1 .. Len(seqs) \/ i = Len(seqs) + 1
    BY <2>1
  <2> QED BY <2>1, <2>4, <2>5, <2>6
<1> HIDE DEF T
<1>3. Seq(Seq(S)) \subseteq T
  BY <1>1, <1>2, ListInduction
<1> QED BY <1>3 DEF T

(* Empty lists make an empty list.                                         *)
LEMMA FlattenEmpties ==
  ASSUME NEW S
  PROVE  \A seqs \in Seq(Seq(S)) :
           (\A i \in DOMAIN seqs : seqs[i] = <<>>) => FlattenSeq(seqs) = <<>>
<1> DEFINE P(seqs) ==
             (\A i \in DOMAIN seqs : seqs[i] = <<>>) => FlattenSeq(seqs) = <<>>
           T == {seqs \in Seq(Seq(S)) : P(seqs)}
<1>1. <<>> \in T
  BY EmptySeq, FlattenNone
<1>2. ASSUME NEW seqs \in Seq(Seq(S)), NEW s \in Seq(S), seqs \in T
      PROVE  Append(seqs, s) \in T
  <2> DEFINE more == Append(seqs, s)
  <2>1. /\ more \in Seq(Seq(S)) /\ Len(more) = Len(seqs) + 1 /\ Len(seqs) \in Nat
        /\ DOMAIN more = 1 .. Len(more) /\ DOMAIN seqs = 1 .. Len(seqs)
        /\ \A i \in 1 .. Len(seqs) : more[i] = seqs[i]
        /\ more[Len(seqs) + 1] = s
    OBVIOUS
  <2>2. FlattenSeq(more) = FlattenSeq(seqs) \o s
    BY FlattenAppend
  <2> HIDE DEF more
  <2> SUFFICES ASSUME \A i \in DOMAIN more : more[i] = <<>>
               PROVE  FlattenSeq(more) = <<>>
    BY <2>1 DEF more
  <2>3. s = <<>> /\ \A i \in DOMAIN seqs : seqs[i] = <<>>
    <3>1. Len(seqs) + 1 \in DOMAIN more /\ \A i \in DOMAIN seqs : i \in DOMAIN more
      BY <2>1
    <3> QED BY <2>1, <3>1
  <2>4. FlattenSeq(seqs) = <<>>
    BY <1>2, <2>3
  <2> QED BY <2>2, <2>3, <2>4, EmptySeq, ConcatEmptySeq
<1> HIDE DEF T
<1>3. Seq(Seq(S)) \subseteq T
  BY <1>1, <1>2, ListInduction
<1> QED BY <1>3 DEF T

LEMMA ListOf ==
  ASSUME NEW S, NEW n \in Nat, NEW f \in [1 .. n -> S]
  PROVE  f \in Seq(S) /\ Len(f) = n /\ DOMAIN f = 1 .. n
OBVIOUS
=============================================================================
