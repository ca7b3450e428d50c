---------------------------- MODULE QueueProofs -----------------------------
(***************************************************************************)
(* What filtering and moving elements does to a queue.  Facts about every  *)
(* prefix of a queue are proved by induction on its length, in the form    *)
(* "a set of naturals that has 0 and is closed under successor is Nat".    *)
(***************************************************************************)
EXTENDS Queues, Integers, FiniteSets, SequenceTheorems, WellFoundedInduction, TLAPS

(* Every nonempty set of naturals has a least element.                     *)
LEMMA LeastNat ==
    ASSUME NEW T \in SUBSET Nat, T # {}
    PROVE  \E x \in T : \A y \in T : x <= y
<1>1. IsWellFoundedOn(OpToRel(<, Nat), Nat)
  BY NatLessThanWellFounded, Zenon
<1>2. PICK x \in T : \A y \in T : ~ (<<y, x>> \in OpToRel(<, Nat))
  BY <1>1, WFMin, Zenon
<1>3. \A y \in T : ~ (y < x)
  BY <1>2, Zenon DEF OpToRel
<1> QED
  BY <1>3, SMT

(* Induction over the naturals, for a set rather than a predicate.         *)
LEMMA SetInduction ==
    ASSUME NEW G \in SUBSET Nat, 0 \in G, \A n \in G : n + 1 \in G
    PROVE  G = Nat
<1>1. SUFFICES ASSUME Nat \ G # {} PROVE FALSE
  BY Zenon
<1>2. PICK x \in Nat \ G : \A y \in Nat \ G : x <= y
  BY <1>1, LeastNat, Zenon
<1>3. x # 0 /\ x - 1 \in Nat /\ x - 1 \notin Nat \ G
  BY <1>2, SMT
<1> QED
  BY <1>2, <1>3, SMT

-----------------------------------------------------------------------------
(* Appending an element adds it, and keeps a queue without duplicates so   *)
(* if it was not there yet.                                                *)
LEMMA AppendFacts ==
    ASSUME NEW X, NEW q \in Seq(X), NEW e \in X
    PROVE  /\ Append(q, e) \in Seq(X)
           /\ Len(Append(q, e)) = Len(q) + 1
           /\ Range(Append(q, e)) = Range(q) \cup {e}
           /\ IsInjective(q) /\ e \notin Range(q) => IsInjective(Append(q, e))
<1>1. /\ Append(q, e) \in Seq(X) /\ Len(Append(q, e)) = Len(q) + 1
      /\ DOMAIN Append(q, e) = 1 .. Len(q) + 1 /\ DOMAIN q = 1 .. Len(q)
      /\ \A i \in 1 .. Len(q) : Append(q, e)[i] = q[i]
      /\ Append(q, e)[Len(q) + 1] = e
  BY AppendProperties, LenProperties
<1>2. Len(q) \in Nat
  BY LenProperties
<1> DEFINE a == Append(q, e)
<1> HIDE DEF a
<1>3. Range(a) = Range(q) \cup {e}
  <2>1. ASSUME NEW x \in Range(a) PROVE x \in Range(q) \cup {e}
    BY <1>1, <1>2, <2>1 DEF Range, a
  <2>2. ASSUME NEW x \in Range(q) PROVE x \in Range(a)
    BY <1>1, <1>2, <2>2 DEF Range, a
  <2>3. e \in Range(a)
    BY <1>1, <1>2 DEF Range, a
  <2> QED
    BY <2>1, <2>2, <2>3
<1>4. IsInjective(q) /\ e \notin Range(q) => IsInjective(a)
  BY <1>1, <1>2 DEF IsInjective, Range, a
<1> QED
  BY <1>1, <1>3, <1>4 DEF a

(* Taking the head off a queue without duplicates takes that element out.  *)
LEMMA TailFacts ==
    ASSUME NEW X, NEW q \in Seq(X), q # << >>
    PROVE  /\ Tail(q) \in Seq(X) /\ Head(q) \in X
           /\ Len(Tail(q)) = Len(q) - 1 /\ Len(q) > 0
           /\ Head(q) \in Range(q)
           /\ Range(Tail(q)) \subseteq Range(q)
           /\ IsInjective(q) => /\ IsInjective(Tail(q))
                               /\ Range(Tail(q)) = Range(q) \ {Head(q)}
<1>1. /\ Len(q) \in Nat /\ Len(q) > 0 /\ DOMAIN q = 1 .. Len(q)
      /\ Head(q) = q[1] /\ Head(q) \in X
      /\ Tail(q) \in Seq(X) /\ Len(Tail(q)) = Len(q) - 1
      /\ DOMAIN Tail(q) = 1 .. Len(q) - 1
      /\ \A i \in 1 .. Len(q) - 1 : Tail(q)[i] = q[i + 1]
  BY HeadTailProperties, LenProperties, EmptySeq
<1> DEFINE r == Tail(q)
<1> HIDE DEF r
<1>2. Head(q) \in Range(q)
  BY <1>1 DEF Range
<1>3. Range(r) \subseteq Range(q)
  BY <1>1 DEF Range, r
<1>4. ASSUME IsInjective(q)
      PROVE  IsInjective(r) /\ Range(r) = Range(q) \ {Head(q)}
  <2>1. IsInjective(r)
    BY <1>1, <1>4 DEF IsInjective, r
  <2>2. Head(q) \notin Range(r)
    BY <1>1, <1>4 DEF IsInjective, Range, r
  <2>3. ASSUME NEW x \in Range(q), x # Head(q) PROVE x \in Range(r)
    <3>1. PICK i \in 1 .. Len(q) : q[i] = x
      BY <1>1 DEF Range
    <3>2. i - 1 \in 1 .. Len(q) - 1 /\ r[i - 1] = x
      BY <1>1, <2>3, <3>1 DEF r
    <3> QED
      BY <3>2, <1>1, Zenon DEF Range, r
  <2> QED
    BY <2>1, <2>2, <2>3, <1>3
<1> QED
  BY <1>1, <1>2, <1>3, <1>4 DEF r

-----------------------------------------------------------------------------
(* One step of the loop in Without.                                        *)
KeepStep(q, S, f, i) ==
    IF i = 0 THEN << >>
    ELSE IF q[i] \in S THEN f[i - 1]
    ELSE Append(f[i - 1], q[i])

(* A function satisfies the loop's equation on the first n elements of q.  *)
KeepDefined(X, q, S, n) ==
    \E f \in [0 .. n -> Seq(X)] :
        \A i \in 0 .. n : f[i] = KeepStep(q, S, f, i)

(* The loop in Without is well defined on every prefix of its queue.       *)
LEMMA KeepExists ==
    ASSUME NEW X, NEW q \in Seq(X), NEW S
    PROVE  \A n \in 0 .. Len(q) : KeepDefined(X, q, S, n)
<1> DEFINE P(n, f) == \A i \in 0 .. n : f[i] = KeepStep(q, S, f, i)
<1> DEFINE G == {n \in Nat : n <= Len(q) => \E f \in [0 .. n -> Seq(X)] : P(n, f)}
<1>1. 0 \in G
  <2>1. P(0, [i \in 0 .. 0 |-> << >>])
    BY DEF KeepStep
  <2>2. [i \in 0 .. 0 |-> << >>] \in [0 .. 0 -> Seq(X)]
    OBVIOUS
  <2> QED
    BY <2>1, <2>2, Zenon
<1>2. ASSUME NEW n \in G PROVE n + 1 \in G
  <2>0. n \in Nat /\ n + 1 \in Nat
    BY <1>2
  <2>1. SUFFICES ASSUME n + 1 <= Len(q)
                 PROVE  \E f \in [0 .. n + 1 -> Seq(X)] : P(n + 1, f)
    <3> HIDE DEF P
    <3> QED
      BY <2>0
  <2>2. n \in Nat /\ n <= Len(q)
    BY <1>2, <2>1
  <2>3. PICK f \in [0 .. n -> Seq(X)] : P(n, f)
    BY <1>2, <2>2, SMTT(30)
  <2> DEFINE v == KeepStep(q, S, f, n + 1)
  <2> DEFINE g == [i \in 0 .. n + 1 |-> IF i = n + 1 THEN v ELSE f[i]]
  <2>4. q[n + 1] \in X
    BY <2>1, <2>2
  <2>5. v \in Seq(X)
    BY <2>4, <2>3, <2>2 DEF KeepStep
  <2> HIDE DEF v
  <2>6. g \in [0 .. n + 1 -> Seq(X)]
    BY <2>5, <2>3, <2>2
  <2>7. \A i \in 0 .. n : g[i] = f[i]
    BY <2>2
  <2>8. g[n + 1] = v
    BY <2>2
  <2> HIDE DEF g
  <2>9. \A i \in 0 .. n + 1 : KeepStep(q, S, g, i) = KeepStep(q, S, f, i)
    BY <2>7, <2>2 DEF KeepStep
  <2>10. P(n + 1, g)
    BY <2>7, <2>8, <2>9, <2>3, <2>2 DEF v
  <2> QED
    BY <2>6, <2>10, Zenon
<1> HIDE DEF G
<1>3. G = Nat
  <2>1. G \in SUBSET Nat
    BY DEF G
  <2> QED
    BY <1>1, <1>2, <2>1, SetInduction
<1>4. ASSUME NEW n \in 0 .. Len(q) PROVE KeepDefined(X, q, S, n)
  <2>1. n \in Nat /\ n <= Len(q)
    OBVIOUS
  <2>2. n \in G
    BY <1>3, <2>1
  <2> HIDE DEF P
  <2>3. \E f \in [0 .. n -> Seq(X)] : P(n, f)
    BY <2>1, <2>2, Zenon DEF G
  <2> QED
    BY <2>3, Zenon DEF P, KeepDefined
<1> QED
  BY <1>4

(* What filtering a queue keeps: the elements outside S, each as often and *)
(* in the order it had; so the queue gets no longer and no element is      *)
(* duplicated.                                                             *)
LEMMA WithoutFacts ==
    ASSUME NEW X, NEW q \in Seq(X), NEW S
    PROVE  /\ Without(q, S) \in Seq(X)
           /\ Len(Without(q, S)) <= Len(q)
           /\ Range(Without(q, S)) = Range(q) \ S
           /\ IsInjective(q) => IsInjective(Without(q, S))
<1>0. KeepDefined(X, q, S, Len(q))
  <2>1. Len(q) \in 0 .. Len(q)
    BY LenProperties
  <2> QED
    BY <2>1, KeepExists
<1> DEFINE keep == CHOOSE k : k = [i \in 0 .. Len(q) |-> KeepStep(q, S, k, i)]
<1>1. Without(q, S) = keep[Len(q)]
  BY DEF Without, KeepStep
<1>2. keep = [i \in 0 .. Len(q) |-> KeepStep(q, S, keep, i)]
  <2>1. PICK f \in [0 .. Len(q) -> Seq(X)] :
               \A i \in 0 .. Len(q) : f[i] = KeepStep(q, S, f, i)
    BY <1>0 DEF KeepDefined
  <2>2. f = [i \in 0 .. Len(q) |-> KeepStep(q, S, f, i)]
    BY <2>1
  <2> QED
    BY <2>2, Zenon
<1> HIDE DEF keep
<1> DEFINE Good(i) ==
      /\ keep[i] \in Seq(X)
      /\ Len(keep[i]) <= i
      /\ Range(keep[i]) = {q[j] : j \in 1 .. i} \ S
      /\ IsInjective(q) => IsInjective(keep[i])
<1> DEFINE G == {n \in Nat : n <= Len(q) => Good(n)}
<1>3. 0 \in G
  <2>1. keep[0] = << >>
    <3>1. 0 \in 0 .. Len(q)
      BY LenProperties
    <3> QED
      BY <3>1, <1>2 DEF KeepStep
  <2>2. << >> \in Seq(X) /\ Len(<< >>) = 0 /\ IsInjective(<< >>)
    BY DEF IsInjective
  <2>3. Range(<< >>) = {} /\ {q[j] : j \in 1 .. 0} = {}
    BY DEF Range
  <2>4. Good(0)
    BY <2>1, <2>2, <2>3
  <2> HIDE DEF Good
  <2> QED
    BY <2>4
<1>4. ASSUME NEW n \in G PROVE n + 1 \in G
  <2>1. SUFFICES ASSUME n + 1 <= Len(q) PROVE Good(n + 1)
    BY <1>4
  <2>2. n \in Nat /\ Good(n)
    BY <1>4, <2>1
  <2>3. q[n + 1] \in X
    BY <2>1, <2>2
  <2>4. keep[n + 1] = IF q[n + 1] \in S THEN keep[n] ELSE Append(keep[n], q[n + 1])
    <3>1. n + 1 \in 0 .. Len(q) /\ n + 1 # 0 /\ (n + 1) - 1 = n
      BY <2>1, <2>2
    <3>2. keep[n + 1] = KeepStep(q, S, keep, n + 1)
      BY <1>2, <3>1, Zenon
    <3> QED
      BY <3>1, <3>2 DEF KeepStep
  <2>5. {q[j] : j \in 1 .. n + 1} = {q[j] : j \in 1 .. n} \cup {q[n + 1]}
    <3>1. n \in Nat
      BY <2>2
    <3> HIDE DEF Good, G
    <3>2. 1 .. n + 1 = (1 .. n) \cup {n + 1}
      BY <3>1
    <3> QED
      BY <3>2, Zenon
  <2>6. CASE q[n + 1] \in S
    BY <2>6, <2>2, <2>4, <2>5
  <2>7. CASE q[n + 1] \notin S
    <3> DEFINE k == keep[n]
    <3> DEFINE e == q[n + 1]
    <3>1. keep[n + 1] = Append(k, e) /\ k \in Seq(X) /\ Len(k) <= n
      BY <2>7, <2>2, <2>4
    <3>2. Append(k, e) \in Seq(X) /\ Len(Append(k, e)) = Len(k) + 1
      BY <3>1, <2>3
    <3>3. Range(Append(k, e)) = Range(k) \cup {e}
      BY <3>1, <2>3, AppendFacts
    <3>4. ASSUME IsInjective(q) PROVE IsInjective(Append(k, e))
      <4>1. e \notin {q[j] : j \in 1 .. n}
        BY <3>4, <2>1, <2>2 DEF IsInjective
      <4>2. IsInjective(k) /\ e \notin Range(k)
        BY <3>4, <4>1, <2>2
      <4> QED
        BY <4>2, <3>1, <2>3, AppendFacts
    <3> QED
      BY <3>1, <3>2, <3>3, <3>4, <2>2, <2>5, <2>7
  <2> QED
    BY <2>6, <2>7
<1> HIDE DEF G
<1>5. G = Nat
  <2>1. G \in SUBSET Nat
    BY DEF G
  <2> QED
    BY <1>3, <1>4, <2>1, SetInduction
<1>6. Good(Len(q))
  <2>1. Len(q) \in G /\ Len(q) <= Len(q)
    BY <1>5, LenProperties
  <2> HIDE DEF Good
  <2> QED
    BY <2>1 DEF G
<1>7. Range(q) = {q[j] : j \in 1 .. Len(q)}
  BY DEF Range
<1> QED
  BY <1>1, <1>6, <1>7
=============================================================================
