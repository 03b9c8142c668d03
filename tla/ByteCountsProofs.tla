-------------------------- MODULE ByteCountsProofs --------------------------
(***************************************************************************)
(* How the sums of ByteCounts change when a thing joins or leaves: for     *)
(* sets of things, then for the sequences of sizes that a queue goes by.   *)
(***************************************************************************)
EXTENDS ByteCounts, Functions, FiniteSetTheorems, SequenceTheorems, TLAPS

-----------------------------------------------------------------------------
(* Sets.                                                                   *)

\* A buffer of n bytes contributes n.
LEMMA ByteCount ==
  ASSUME NEW f, NEW n \in Nat
  PROVE  IsFiniteSet({f} \X (1 .. n)) /\ Cardinality({f} \X (1 .. n)) = n
<1>. DEFINE g == [i \in 1 .. n |-> <<f, i>>]
<1>1. g \in [1 .. n -> {f} \X (1 .. n)]
  OBVIOUS
<1>2. IsInjective(g)
  <2>1. DOMAIN g = 1 .. n /\ \A i \in 1 .. n : g[i] = <<f, i>>
    OBVIOUS
  <2>. HIDE DEF g
  <2>. QED BY <2>1 DEF IsInjective
<1>3. \A t \in {f} \X (1 .. n) : \E i \in 1 .. n : g[i] = t
  OBVIOUS
<1>4. g \in Bijection(1 .. n, {f} \X (1 .. n))
  <2>. HIDE DEF g
  <2>. QED BY <1>1, <1>2, <1>3 DEF Bijection, Injection, Surjection
<1>5. IsFiniteSet(1 .. n) /\ Cardinality(1 .. n) = n
  BY FS_Interval
<1>. QED BY <1>4, <1>5, FS_Bijection DEF ExistsBijection

\* The bytes of one more buffer come on top of the others.
LEMMA BytesAdd ==
  ASSUME NEW S, NEW size, NEW f, f \notin S, size[f] \in Nat,
         IsFiniteSet(BytesOf(S, size))
  PROVE  /\ IsFiniteSet(BytesOf(S \cup {f}, size))
         /\ Cardinality(BytesOf(S \cup {f}, size))
              = Cardinality(BytesOf(S, size)) + size[f]
<1>. DEFINE B == {f} \X (1 .. size[f])
<1>1. BytesOf(S \cup {f}, size) = BytesOf(S, size) \cup B
  BY DEF BytesOf
<1>2. BytesOf(S, size) \cap B = {}
  BY DEF BytesOf
<1>3. IsFiniteSet(B) /\ Cardinality(B) = size[f]
  BY ByteCount
<1>4. Cardinality({}) = 0 /\ Cardinality(BytesOf(S, size)) \in Nat
  BY FS_EmptySet, FS_CardinalityType
<1>5. /\ IsFiniteSet(BytesOf(S, size) \cup B)
      /\ Cardinality(BytesOf(S, size) \cup B)
           = Cardinality(BytesOf(S, size)) + size[f]
  <2>. DEFINE A == BytesOf(S, size)
  <2>. HIDE DEF A, B
  <2>1. /\ IsFiniteSet(A \cup B)
        /\ Cardinality(A \cup B) = Cardinality(A) + Cardinality(B) - Cardinality(A \cap B)
    <3>1. IsFiniteSet(A) /\ IsFiniteSet(B)
      BY <1>3 DEF A
    <3>. QED BY <3>1, FS_Union
  <2>2. Cardinality(A \cap B) = 0
    BY <1>2, <1>4 DEF A
  <2>3. Cardinality(A) \in Nat
    BY <1>4 DEF A
  <2>4. Cardinality(A \cup B) = Cardinality(A) + size[f]
    BY <1>3, <2>1, <2>2, <2>3
  <2>. QED BY <2>1, <2>4 DEF A
<1>. QED BY <1>1, <1>5

\* Taking a buffer away takes its bytes away.
LEMMA BytesRemove ==
  ASSUME NEW S, NEW size, NEW f \in S, size[f] \in Nat,
         IsFiniteSet(BytesOf(S, size))
  PROVE  /\ IsFiniteSet(BytesOf(S \ {f}, size))
         /\ Cardinality(BytesOf(S \ {f}, size))
              = Cardinality(BytesOf(S, size)) - size[f]
<1>1. BytesOf(S \ {f}, size) \subseteq BytesOf(S, size)
  BY DEF BytesOf
<1>2. IsFiniteSet(BytesOf(S \ {f}, size))
  BY <1>1, FS_Subset
<1>3. (S \ {f}) \cup {f} = S /\ f \notin S \ {f}
  OBVIOUS
<1>4. Cardinality(BytesOf(S, size))
        = Cardinality(BytesOf(S \ {f}, size)) + size[f]
  <2>. DEFINE R == S \ {f}
  <2>1. f \notin R /\ R \cup {f} = S
    BY <1>3
  <2>2. IsFiniteSet(BytesOf(R, size))
    BY <1>2
  <2>. HIDE DEF R
  <2>3. Cardinality(BytesOf(R \cup {f}, size)) = Cardinality(BytesOf(R, size)) + size[f]
    BY <2>1, <2>2, BytesAdd
  <2>. QED BY <2>1, <2>3 DEF R
<1>5. Cardinality(BytesOf(S \ {f}, size)) \in Nat
  BY <1>2, FS_CardinalityType
<1>. QED BY <1>2, <1>4, <1>5

\* The size of a buffer outside S does not matter to S.
LEMMA BytesSame ==
  ASSUME NEW S, NEW size, NEW f, NEW n, f \notin S
  PROVE  BytesOf(S, [size EXCEPT ![f] = n]) = BytesOf(S, size)
<1>1. \A g \in S : [size EXCEPT ![f] = n][g] = size[g]
  OBVIOUS
<1>. QED BY <1>1 DEF BytesOf

\* As many bytes belong to things that correspond to each other.
LEMMA BytesMoved ==
  ASSUME NEW S, NEW T, NEW size, NEW other, NEW g \in Bijection(S, T),
         \A x \in S : other[g[x]] = size[x], IsFiniteSet(BytesOf(S, size))
  PROVE  /\ IsFiniteSet(BytesOf(T, other))
         /\ Cardinality(BytesOf(T, other)) = Cardinality(BytesOf(S, size))
<1>. DEFINE A == BytesOf(S, size)
            B == BytesOf(T, other)
            h == [z \in A |-> <<g[z[1]], z[2]>>]
<1>1. /\ g \in [S -> T] /\ \A x, y \in S : g[x] = g[y] => x = y
      /\ \A t \in T : \E x \in S : g[x] = t
  BY DEF Bijection, Injection, Surjection, IsInjective
<1>2. \A z \in A : z[1] \in S /\ z[2] \in 1 .. size[z[1]] /\ z = <<z[1], z[2]>>
  BY DEF BytesOf
<1>3. ASSUME NEW x \in S, NEW b \in 1 .. size[x]
      PROVE  <<x, b>> \in A /\ h[<<x, b>>] = <<g[x], b>> /\ <<g[x], b>> \in B
  BY <1>1 DEF BytesOf
<1>. HIDE DEF A
<1>4. h \in [A -> B]
  BY <1>2, <1>3
<1>5. IsInjective(h)
  <2>1. DOMAIN h = A /\ \A z \in A : h[z] = <<g[z[1]], z[2]>>
    OBVIOUS
  <2>. HIDE DEF h
  <2>. SUFFICES ASSUME NEW y \in A, NEW z \in A, h[y] = h[z] PROVE y = z
    BY <2>1 DEF IsInjective
  <2>2. g[y[1]] = g[z[1]] /\ y[2] = z[2]
    BY <2>1
  <2>. QED BY <1>1, <1>2, <2>2
<1>6. ASSUME NEW w \in B PROVE \E z \in A : h[z] = w
  <2>0. PICK t \in T : w \in {t} \X (1 .. other[t])
    BY DEF BytesOf
  <2>1. PICK b \in 1 .. other[t] : w = <<t, b>>
    BY <2>0
  <2>2. PICK x \in S : g[x] = t
    BY <1>1
  <2>3. <<x, b>> \in A /\ h[<<x, b>>] = w
    BY <1>3, <2>1, <2>2
  <2>. QED BY <2>3
<1>7. h \in Bijection(A, B)
  <2>. HIDE DEF h, B
  <2>. QED BY <1>4, <1>5, <1>6 DEF Bijection, Injection, Surjection
<1>. QED BY <1>7, FS_Bijection DEF A, B, ExistsBijection

-----------------------------------------------------------------------------
(* Sequences of sizes.                                                     *)

\* There are finitely many bytes.
LEMMA LoadFinite ==
  ASSUME NEW q \in Seq(Nat)
  PROVE  IsFiniteSet(BytesOf(DOMAIN q, q)) /\ Load(q) \in Nat
<1>. DEFINE bytes == [i \in DOMAIN q |-> {i} \X (1 .. q[i])]
            parts == {bytes[i] : i \in DOMAIN q}
<1>1. IsFiniteSet(DOMAIN q)
  <2>1. DOMAIN q = 1 .. Len(q) /\ Len(q) \in Nat
    OBVIOUS
  <2>. QED BY <2>1, FS_Interval
<1>2. IsFiniteSet(parts)
  <2>1. bytes \in [DOMAIN q -> parts] /\ \A t \in parts : \E i \in DOMAIN q : bytes[i] = t
    OBVIOUS
  <2>. HIDE DEF bytes, parts
  <2>2. bytes \in Surjection(DOMAIN q, parts)
    BY <2>1 DEF Surjection
  <2>. QED BY <1>1, <2>2, FS_Surjection
<1>3. \A t \in parts : IsFiniteSet(t)
  <2>1. \A i \in DOMAIN q : q[i] \in Nat
    OBVIOUS
  <2>2. \A i \in DOMAIN q : IsFiniteSet({i} \X (1 .. q[i]))
    BY <2>1, ByteCount
  <2>. QED BY <2>2
<1>4. UNION parts = BytesOf(DOMAIN q, q)
  BY DEF BytesOf
<1>5. IsFiniteSet(UNION parts)
  <2>. HIDE DEF parts
  <2>. QED BY <1>2, <1>3, FS_UNION
<1>. QED BY <1>4, <1>5, FS_CardinalityType DEF Load

LEMMA LoadEmpty == Load(<<>>) = 0
<1>1. BytesOf(DOMAIN <<>>, <<>>) = {}
  BY DEF BytesOf
<1>. QED BY <1>1, FS_EmptySet DEF Load

\* The load grows by what is put at the back ...
LEMMA LoadAppend ==
  ASSUME NEW q \in Seq(Nat), NEW n \in Nat
  PROVE  Load(Append(q, n)) = Load(q) + n
<1>. DEFINE t == Append(q, n)
            D == DOMAIN q
            last == Len(q) + 1
<1>1. /\ DOMAIN t = D \cup {last} /\ last \notin D /\ t[last] = n
      /\ \A i \in D : t[i] = q[i]
  OBVIOUS
<1>2. BytesOf(D, t) = BytesOf(D, q)
  <2>. HIDE DEF t, D
  <2>. QED BY <1>1 DEF BytesOf
<1>3. IsFiniteSet(BytesOf(D, q))
  BY LoadFinite
<1>. HIDE DEF t, D, last
<1>4. Cardinality(BytesOf(D \cup {last}, t)) = Cardinality(BytesOf(D, t)) + n
  BY <1>1, <1>2, <1>3, BytesAdd
<1>. QED BY <1>1, <1>2, <1>4 DEF Load, t, D

\* ... and shrinks by what is taken from the front.
LEMMA LoadTail ==
  ASSUME NEW q \in Seq(Nat), q # <<>>
  PROVE  Load(Tail(q)) = Load(q) - Head(q)
<1>. DEFINE t == Tail(q)
            D == DOMAIN q
            g == [i \in DOMAIN t |-> i + 1]
<1>1. /\ 1 \in D /\ q[1] = Head(q) /\ q[1] \in Nat /\ Len(q) \in Nat \ {0}
      /\ D = 1 .. Len(q) /\ DOMAIN t = 1 .. Len(q) - 1 /\ t \in Seq(Nat)
      /\ \A i \in DOMAIN t : t[i] = q[i + 1]
  OBVIOUS
<1>2. g \in Bijection(DOMAIN t, D \ {1})
  <2>1. /\ g \in [DOMAIN t -> D \ {1}] /\ DOMAIN g = DOMAIN t
        /\ \A i \in DOMAIN t : g[i] = i + 1
    BY <1>1
  <2>2. \A j \in D \ {1} : j - 1 \in DOMAIN t /\ g[j - 1] = j
    BY <1>1
  <2>. HIDE DEF g
  <2>3. IsInjective(g)
    BY <1>1, <2>1 DEF IsInjective
  <2>. QED BY <2>1, <2>2, <2>3 DEF Bijection, Injection, Surjection
<1>3. \A i \in DOMAIN t : q[g[i]] = t[i]
  BY <1>1
<1>4. IsFiniteSet(BytesOf(DOMAIN t, t)) /\ IsFiniteSet(BytesOf(D, q)) /\ Load(q) \in Nat
  BY <1>1, LoadFinite
<1>5. Cardinality(BytesOf(D \ {1}, q)) = Load(t)
  <2>. HIDE DEF g, t, D
  <2>. QED BY <1>2, <1>3, <1>4, BytesMoved DEF Load
<1>6. Cardinality(BytesOf(D \ {1}, q)) = Load(q) - q[1]
  <2>. HIDE DEF t, D
  <2>1. Cardinality(BytesOf(D \ {1}, q)) = Cardinality(BytesOf(D, q)) - q[1]
    BY <1>1, <1>4, BytesRemove
  <2>. QED BY <2>1 DEF Load, D
<1>. QED BY <1>1, <1>5, <1>6

\* The rest of a sequence, by index.
LEMMA TailByIndex ==
  ASSUME NEW S, NEW s \in Seq(S), s # <<>>
  PROVE  Tail(s) = [i \in 1 .. Len(s) - 1 |-> s[i + 1]]
<1>. DEFINE t == Tail(s)
<1>1. /\ t \in Seq(S) /\ Len(t) = Len(s) - 1
      /\ \A i \in 1 .. Len(s) - 1 : t[i] = s[i + 1]
  OBVIOUS
<1>2. t \in [1 .. Len(t) -> S]
  BY <1>1, LenProperties
<1>. HIDE DEF t
<1>3. t = [i \in 1 .. Len(t) |-> t[i]]
  BY <1>2
<1>4. t = [i \in 1 .. Len(s) - 1 |-> s[i + 1]]
  BY <1>1, <1>3
<1>. QED BY <1>4 DEF t

\* A longer sequence, by index.
LEMMA AppendByIndex ==
  ASSUME NEW S, NEW s \in Seq(S), NEW x \in S
  PROVE  Append(s, x) = [i \in 1 .. Len(s) + 1 |-> IF i \in 1 .. Len(s) THEN s[i] ELSE x]
<1>. DEFINE t == Append(s, x)
<1>1. /\ t \in Seq(S) /\ Len(t) = Len(s) + 1 /\ Len(s) \in Nat
      /\ \A i \in 1 .. Len(s) : t[i] = s[i]
      /\ t[Len(s) + 1] = x
  OBVIOUS
<1>2. t \in [1 .. Len(t) -> S]
  BY <1>1, LenProperties
<1>. HIDE DEF t
<1>3. t = [i \in 1 .. Len(t) |-> t[i]]
  BY <1>2
<1>4. \A i \in 1 .. Len(s) + 1 : t[i] = IF i \in 1 .. Len(s) THEN s[i] ELSE x
  BY <1>1
<1>5. t = [i \in 1 .. Len(s) + 1 |-> IF i \in 1 .. Len(s) THEN s[i] ELSE x]
  BY <1>1, <1>3, <1>4
<1>. QED BY <1>5 DEF t
=============================================================================
