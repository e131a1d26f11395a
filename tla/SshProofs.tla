------------------------------ MODULE SshProofs -------------------------------
(***************************************************************************)
(* Proofs about the two modules of the SSH side that stand alone: the      *)
(* parsers of OpenSSH configurations (SshConfig) for every text, and the   *)
(* commands on a session (SshSession) for every number of calls and every  *)
(* limit.                                                                  *)
(*                                                                         *)
(* The parsers give their result as a whole after the last line, by        *)
(* FlattenSeq, a recursive function.  What it computes is found by         *)
(* induction first: it exists, it is unique, it grows with the sequence.   *)
(***************************************************************************)
EXTENDS SshConfig, SshSession, FiniteSetTheorems, SequenceTheorems, WellFoundedInduction, TLAPS

-----------------------------------------------------------------------------
(* Numbers, FlattenSeq and lists. *)

(* A set of numbers that is not empty has a least one. *)
LEMMA LeastNumber ==
    ASSUME NEW S \in SUBSET Nat, S # {}
    PROVE  \E n \in S : \A m \in S : n <= m
<1>1. PICK n \in S : \A m \in S : ~ (<<m, n>> \in OpToRel(<, Nat))
  BY NatLessThanWellFounded, WFMin
<1>2. \A m \in S : ~ (m < n)
  BY <1>1 DEF OpToRel
<1> QED BY <1>2

(* Induction over the numbers, as a property of sets. *)
LEMMA NumbersFromZero ==
    ASSUME NEW S, 0 \in S, \A n \in Nat : n \in S => n + 1 \in S
    PROVE  Nat \subseteq S
<1> DEFINE Left == Nat \ S
<1>1. SUFFICES ASSUME Left # {} PROVE FALSE
  OBVIOUS
<1>2. PICK n \in Left : \A m \in Left : n <= m
  BY <1>1, LeastNumber
<1>3. n - 1 \in Nat /\ ~ (n <= n - 1)
  BY <1>2
<1>4. n - 1 \in S
  BY <1>2, <1>3
<1> QED BY <1>2, <1>3, <1>4

(* What FlattenSeq's recursive function is: the flattening of each prefix. *)
Flattening(seqs, f) ==
    f = [i \in 1..Len(seqs) |-> IF i = 1 THEN seqs[i] ELSE f[i-1] \o seqs[i]]

(* The same, one element at a time. *)
LEMMA FlatteningSteps ==
    ASSUME NEW seqs, Len(seqs) \in Nat, NEW f
    PROVE  Flattening(seqs, f) <=>
               /\ f = [i \in 1..Len(seqs) |-> f[i]]
               /\ \A n \in Nat : n + 1 <= Len(seqs) =>
                      f[n + 1] = IF n = 0 THEN seqs[1] ELSE f[n] \o seqs[n + 1]
<1> DEFINE value(i) == IF i = 1 THEN seqs[i] ELSE f[i-1] \o seqs[i]
<1>1. ASSUME NEW n \in Nat
      PROVE  value(n + 1) = IF n = 0 THEN seqs[1] ELSE f[n] \o seqs[n + 1]
  <2>1. n + 1 - 1 = n /\ (n + 1 = 1 <=> n = 0)
    OBVIOUS
  <2> QED BY <2>1
<1>2. Flattening(seqs, f) <=> f = [i \in 1..Len(seqs) |-> value(i)]
  BY DEF Flattening
<1> HIDE DEF value
<1>3. ASSUME f = [i \in 1..Len(seqs) |-> value(i)]
      PROVE  /\ f = [i \in 1..Len(seqs) |-> f[i]]
             /\ \A n \in Nat : n + 1 <= Len(seqs) =>
                      f[n + 1] = IF n = 0 THEN seqs[1] ELSE f[n] \o seqs[n + 1]
  <2>1. \A i \in 1..Len(seqs) : f[i] = value(i)
    BY <1>3
  <2>2. f = [i \in 1..Len(seqs) |-> f[i]]
    BY <1>3, <2>1
  <2>3. \A n \in Nat : n + 1 <= Len(seqs) => f[n + 1] = value(n + 1)
    BY <2>1
  <2> QED BY <1>1, <2>2, <2>3
<1>4. ASSUME f = [i \in 1..Len(seqs) |-> f[i]],
             \A n \in Nat : n + 1 <= Len(seqs) =>
                      f[n + 1] = IF n = 0 THEN seqs[1] ELSE f[n] \o seqs[n + 1]
      PROVE  f = [i \in 1..Len(seqs) |-> value(i)]
  <2>1. ASSUME NEW i \in 1..Len(seqs) PROVE f[i] = value(i)
    <3>1. i - 1 \in Nat /\ (i - 1) + 1 = i
      OBVIOUS
    <3>2. f[(i - 1) + 1] = value((i - 1) + 1)
      BY <1>1, <1>4, <3>1
    <3> QED BY <3>1, <3>2
  <2> QED BY <1>4, <2>1
<1> QED BY <1>2, <1>3, <1>4

(* There is at most one such function, *)
LEMMA FlatteningUnique ==
    ASSUME NEW seqs, Len(seqs) \in Nat, NEW f, NEW g, Flattening(seqs, f), Flattening(seqs, g)
    PROVE  f = g
<1> DEFINE Agree(n) == n \in 1..Len(seqs) => f[n] = g[n]
<1>1. Agree(0)
  OBVIOUS
<1>2. ASSUME NEW n \in Nat, Agree(n) PROVE Agree(n + 1)
  BY <1>2, FlatteningSteps
<1>3. \A n \in Nat : Agree(n)
  <2> DEFINE Good == {n \in Nat : Agree(n)}
  <2> HIDE DEF Agree
  <2>1. 0 \in Good /\ \A n \in Nat : n \in Good => n + 1 \in Good
    BY <1>1, <1>2
  <2>2. Nat \subseteq Good
    <3> HIDE DEF Good
    <3> QED BY <2>1, NumbersFromZero
  <2> QED BY <2>2
<1>4. \A n \in 1..Len(seqs) : f[n] = g[n]
  BY <1>3
<1>5. f = [i \in 1..Len(seqs) |-> f[i]] /\ g = [i \in 1..Len(seqs) |-> g[i]]
  BY FlatteningSteps
<1> QED BY <1>4, <1>5

(* which is then the one FlattenSeq takes its result from, *)
LEMMA FlattenSeqIs ==
    ASSUME NEW seqs, Len(seqs) \in Nat \ {0}, NEW f, Flattening(seqs, f)
    PROVE  FlattenSeq(seqs) = f[Len(seqs)]
<1>1. FlattenSeq(seqs) = (CHOOSE g : Flattening(seqs, g))[Len(seqs)]
  BY DEF FlattenSeq, Flattening
<1>2. Flattening(seqs, CHOOSE g : Flattening(seqs, g))
  OBVIOUS
<1>3. (CHOOSE g : Flattening(seqs, g)) = f
  BY <1>2, FlatteningUnique
<1> QED BY <1>1, <1>3

(* and there is one for every sequence of sequences. *)
LEMMA FlatteningExists ==
    ASSUME NEW X, NEW seqs \in Seq(Seq(X))
    PROVE  \E f \in [1..Len(seqs) -> Seq(X)] : Flattening(seqs, f)
<1> DEFINE Steps(n, f) ==
        \A k \in Nat : k + 1 <= n =>
            f[k + 1] = IF k = 0 THEN seqs[1] ELSE f[k] \o seqs[k + 1]
    Upto(n) == n <= Len(seqs) => \E f \in [1..n -> Seq(X)] : Steps(n, f)
<1>1. Upto(0)
  <2>1. [i \in 1..0 |-> <<>>] \in [1..0 -> Seq(X)]
    OBVIOUS
  <2>2. \A f : Steps(0, f)
    OBVIOUS
  <2> HIDE DEF Steps
  <2> QED BY <2>1, <2>2
<1>2. ASSUME NEW n \in Nat, Upto(n) PROVE Upto(n + 1)
  <2> SUFFICES ASSUME n + 1 <= Len(seqs)
               PROVE  \E f \in [1..(n + 1) -> Seq(X)] : Steps(n + 1, f)
    OBVIOUS
  <2>1. n <= Len(seqs)
    OBVIOUS
  <2>2. PICK f \in [1..n -> Seq(X)] : Steps(n, f)
    <3> HIDE DEF Steps
    <3> QED BY <1>2, <2>1
  <2> DEFINE next == IF n = 0 THEN seqs[1] ELSE f[n] \o seqs[n + 1]
             g == [i \in 1..(n + 1) |-> IF i <= n THEN f[i] ELSE next]
  <2>3. next \in Seq(X)
    <3>1. seqs[1] \in Seq(X) /\ seqs[n + 1] \in Seq(X)
      OBVIOUS
    <3>2. n # 0 => f[n] \in Seq(X)
      OBVIOUS
    <3> QED BY <3>1, <3>2, ConcatProperties
  <2>4. g \in [1..(n + 1) -> Seq(X)]
    BY <2>3
  <2>5. Steps(n + 1, g)
    <3> SUFFICES ASSUME NEW k \in Nat, k + 1 <= n + 1
                 PROVE  g[k + 1] = IF k = 0 THEN seqs[1] ELSE g[k] \o seqs[k + 1]
      OBVIOUS
    <3>1. k # 0 => g[k] = f[k]
      OBVIOUS
    <3>2. CASE k + 1 <= n
      <4>1. g[k + 1] = f[k + 1]
        BY <3>2
      <4> QED BY <2>2, <3>1, <3>2, <4>1
    <3>3. CASE k = n
      <4>1. g[k + 1] = next
        BY <3>3
      <4> QED BY <3>1, <3>3, <4>1
    <3> QED BY <3>2, <3>3
  <2> HIDE DEF g, Steps
  <2> QED BY <2>4, <2>5
<1>3. Upto(Len(seqs))
  <2> DEFINE Good == {n \in Nat : Upto(n)}
  <2> HIDE DEF Upto
  <2>1. 0 \in Good /\ \A n \in Nat : n \in Good => n + 1 \in Good
    BY <1>1, <1>2
  <2>2. Nat \subseteq Good
    <3> HIDE DEF Good
    <3> QED BY <2>1, NumbersFromZero
  <2> QED BY <2>2
<1>4. PICK f \in [1..Len(seqs) -> Seq(X)] : Steps(Len(seqs), f)
  <2> HIDE DEF Steps
  <2>1. Len(seqs) <= Len(seqs)
    OBVIOUS
  <2> QED BY <1>3, <2>1
<1>5. Flattening(seqs, f)
  <2>1. f = [i \in 1..Len(seqs) |-> f[i]]
    OBVIOUS
  <2>2. Len(seqs) \in Nat
    OBVIOUS
  <2> QED BY <1>4, <2>1, <2>2, FlatteningSteps
<1> QED BY <1>5

(* What FlattenSeq makes of no sequence at all, of the sequences over one set,
   and of one sequence more. *)
LEMMA FlattenNone ==
    FlattenSeq(<<>>) = <<>>
BY DEF FlattenSeq

LEMMA FlattenInto ==
    ASSUME NEW X, NEW seqs \in Seq(Seq(X))
    PROVE  FlattenSeq(seqs) \in Seq(X)
<1>1. CASE seqs = <<>>
  <2>1. <<>> \in Seq(X)
    OBVIOUS
  <2> QED BY <1>1, <2>1, FlattenNone
<1>2. CASE seqs # <<>>
  <2>1. PICK f \in [1..Len(seqs) -> Seq(X)] : Flattening(seqs, f)
    BY FlatteningExists
  <2>2. Len(seqs) \in Nat \ {0}
    BY <1>2
  <2>3. FlattenSeq(seqs) = f[Len(seqs)]
    BY <2>1, <2>2, FlattenSeqIs
  <2>4. Len(seqs) \in 1..Len(seqs)
    BY <2>2
  <2> QED BY <2>1, <2>3, <2>4
<1> QED BY <1>1, <1>2

LEMMA FlattenLast ==
    ASSUME NEW X, NEW seqs \in Seq(Seq(X)), NEW last \in Seq(X)
    PROVE  FlattenSeq(Append(seqs, last)) = FlattenSeq(seqs) \o last
<1> DEFINE longer == Append(seqs, last)
           n == Len(seqs)
<1>1. longer \in Seq(Seq(X)) /\ Len(longer) = n + 1 /\ n \in Nat
  OBVIOUS
<1>2. \A k \in Nat : k + 1 <= n => longer[k + 1] = seqs[k + 1]
  OBVIOUS
<1>3. longer[n + 1] = last
  OBVIOUS
<1> HIDE DEF longer
<1>4. PICK g \in [1..(n + 1) -> Seq(X)] : Flattening(longer, g)
  BY <1>1, FlatteningExists
<1>5. FlattenSeq(longer) = g[n + 1]
  <2>1. Len(longer) \in Nat \ {0}
    BY <1>1
  <2> QED BY <1>1, <1>4, <2>1, FlattenSeqIs
<1>6. \A k \in Nat : k + 1 <= n + 1 =>
          g[k + 1] = IF k = 0 THEN longer[1] ELSE g[k] \o longer[k + 1]
  <2>1. Len(longer) \in Nat /\ Len(longer) = n + 1
    BY <1>1
  <2> HIDE DEF n
  <2>2. \A k \in Nat : k + 1 <= Len(longer) =>
            g[k + 1] = IF k = 0 THEN longer[1] ELSE g[k] \o longer[k + 1]
    BY <1>4, <2>1, FlatteningSteps
  <2> QED BY <2>1, <2>2
<1>7. CASE seqs = <<>>
  <2>1. n = 0 /\ <<>> \o last = last
    BY <1>7
  <2>2. g[1] = last
    BY <1>3, <1>6, <2>1
  <2> QED BY <1>5, <1>7, <2>1, <2>2, FlattenNone DEF longer
<1>8. CASE seqs # <<>>
  <2> DEFINE f == [i \in 1..n |-> g[i]]
  <2>1. n \in Nat \ {0}
    BY <1>8
  <2>2. Flattening(seqs, f)
    <3>1. ASSUME NEW k \in Nat, k + 1 <= n
          PROVE  f[k + 1] = IF k = 0 THEN seqs[1] ELSE f[k] \o seqs[k + 1]
      <4>1. f[k + 1] = g[k + 1] /\ (k # 0 => f[k] = g[k])
        BY <3>1
      <4>2. longer[k + 1] = seqs[k + 1]
        BY <1>2, <3>1
      <4> QED BY <1>6, <3>1, <4>1, <4>2
    <3>2. f = [i \in 1..Len(seqs) |-> f[i]]
      OBVIOUS
    <3> HIDE DEF f
    <3> QED BY <1>1, <3>1, <3>2, FlatteningSteps
  <2>3. FlattenSeq(seqs) = f[n]
    <3> HIDE DEF f
    <3> QED BY <2>1, <2>2, FlattenSeqIs
  <2>4. f[n] = g[n]
    BY <2>1
  <2>5. g[n + 1] = g[n] \o last
    <3> HIDE DEF n
    <3>1. n \in Nat /\ n + 1 <= n + 1 /\ n # 0
      BY <2>1
    <3>2. g[n + 1] = g[n] \o longer[n + 1]
      BY <1>6, <3>1
    <3> QED BY <1>3, <3>2
  <2> QED BY <1>5, <2>3, <2>4, <2>5 DEF longer
<1> QED BY <1>7, <1>8

(* A sequence that is not empty is another one with an element appended. *)
LEMMA FrontAndLast ==
    ASSUME NEW S, NEW s \in Seq(S), s # <<>>
    PROVE  \E front \in Seq(S) : /\ Len(s) = Len(front) + 1
                                 /\ s = Append(front, s[Len(s)])
                                 /\ \A i \in 1..Len(front) : front[i] = s[i]
<1> DEFINE n == Len(s) - 1
           front == [i \in 1..n |-> s[i]]
<1>1. n \in Nat /\ Len(s) = n + 1
  OBVIOUS
<1> HIDE DEF n
<1>2. front \in Seq(S) /\ Len(front) = n
  BY <1>1
<1>3. s[Len(s)] \in S
  BY <1>1
<1>4. s = Append(front, s[Len(s)])
  <2> DEFINE whole == Append(front, s[Len(s)])
  <2>1. whole \in Seq(S) /\ Len(whole) = n + 1
    <3> HIDE DEF front
    <3> QED BY <1>2, <1>3
  <2>2. \A i \in 1..(n + 1) : whole[i] = s[i]
    BY <1>1, <1>2
  <2> HIDE DEF whole
  <2> QED BY <1>1, <2>1, <2>2, SeqEqual
<1>5. \A i \in 1..Len(front) : front[i] = s[i]
  BY <1>2
<1> HIDE DEF front
<1> QED BY <1>1, <1>2, <1>4, <1>5

(* The elements of some are those of all at the positions at, in their order,
   and the elements of all at other positions are empty. *)
Fits(all, some, at) ==
    /\ \A i \in 1..Len(some) : some[i] = all[at[i]]
    /\ \A i, k \in 1..Len(some) : i < k => at[i] < at[k]
    /\ \A j \in 1..Len(all) : (\A i \in 1..Len(some) : at[i] # j) => all[j] = <<>>

(* Empty sequences make no difference to what a sequence of sequences flattens
   to: it is told from the others, in their order. *)
LEMMA FlattenGaps ==
    ASSUME NEW X, NEW all \in Seq(Seq(X)), NEW some \in Seq(Seq(X)),
           NEW at \in [1..Len(some) -> 1..Len(all)], Fits(all, some, at)
    PROVE  FlattenSeq(all) = FlattenSeq(some)
<1> DEFINE Same(n) ==
        \A a, s \in Seq(Seq(X)) : \A f \in [1..Len(s) -> 1..n] :
            Len(a) = n /\ Fits(a, s, f) => FlattenSeq(a) = FlattenSeq(s)
<1>1. Same(0)
  <2> SUFFICES ASSUME NEW a \in Seq(Seq(X)), NEW s \in Seq(Seq(X)), NEW f \in [1..Len(s) -> 1..0],
                      Len(a) = 0
               PROVE  FlattenSeq(a) = FlattenSeq(s)
    OBVIOUS
  <2>1. Len(s) = 0
    <3>1. Len(s) \in Nat
      OBVIOUS
    <3>2. \A i \in 1..Len(s) : f[i] \in 1..0
      OBVIOUS
    <3>3. Len(s) # 0 => 1 \in 1..Len(s)
      BY <3>1
    <3> QED BY <3>2, <3>3
  <2> QED BY <2>1
<1>2. ASSUME NEW n \in Nat, Same(n) PROVE Same(n + 1)
  <2> SUFFICES ASSUME NEW a \in Seq(Seq(X)), NEW s \in Seq(Seq(X)),
                      NEW f \in [1..Len(s) -> 1..(n + 1)], Len(a) = n + 1, Fits(a, s, f)
               PROVE  FlattenSeq(a) = FlattenSeq(s)
    OBVIOUS
  <2>1. PICK front \in Seq(Seq(X)) : /\ Len(front) = n
                                     /\ a = Append(front, a[n + 1])
                                     /\ \A i \in 1..n : front[i] = a[i]
    <3>1. a # <<>>
      OBVIOUS
    <3>2. PICK front \in Seq(Seq(X)) : /\ Len(a) = Len(front) + 1
                                       /\ a = Append(front, a[Len(a)])
                                       /\ \A i \in 1..Len(front) : front[i] = a[i]
      BY <3>1, FrontAndLast
    <3>3. Len(front) = n
      BY <3>2
    <3> QED BY <3>2, <3>3
  <2>2. FlattenSeq(a) = FlattenSeq(front) \o a[n + 1]
    <3>1. a[n + 1] \in Seq(X)
      OBVIOUS
    <3> QED BY <2>1, <3>1, FlattenLast
  <2>3. ASSUME NEW t \in Seq(Seq(X)), NEW g \in [1..Len(t) -> 1..n], Fits(front, t, g)
        PROVE  FlattenSeq(front) = FlattenSeq(t)
    BY <1>2, <2>1, <2>3
  <2> DEFINE m == Len(s)
  <2>4. CASE \E i \in 1..m : f[i] = n + 1
    <3>1. PICK i \in 1..m : f[i] = n + 1
      BY <2>4
    <3>2. m \in Nat /\ m # 0 /\ f[m] = n + 1
      <4>1. m \in Nat
        OBVIOUS
      <4>2. m # 0 /\ m \in 1..m /\ (i # m => i < m)
        BY <4>1
      <4>3. f[m] \in 1..(n + 1)
        BY <4>2
      <4>4. i # m => f[i] < f[m]
        BY <4>2 DEF Fits
      <4> QED BY <3>1, <4>1, <4>2, <4>3, <4>4
    <3>3. PICK t \in Seq(Seq(X)) : /\ Len(t) = m - 1
                                   /\ s = Append(t, s[m])
                                   /\ \A k \in 1..(m - 1) : t[k] = s[k]
      <4>1. s # <<>>
        BY <3>2
      <4>2. PICK t \in Seq(Seq(X)) : /\ m = Len(t) + 1
                                     /\ s = Append(t, s[m])
                                     /\ \A k \in 1..Len(t) : t[k] = s[k]
        BY <4>1, FrontAndLast
      <4>3. Len(t) = m - 1
        BY <4>2
      <4> QED BY <4>2, <4>3
    <3> DEFINE g == [k \in 1..Len(t) |-> f[k]]
    <3>4. \A k \in 1..(m - 1) : k \in 1..m /\ k < m /\ f[k] \in 1..n
      <4> TAKE k \in 1..(m - 1)
      <4>1. k \in 1..m /\ k < m /\ m \in 1..m
        BY <3>2
      <4>2. f[k] \in 1..(n + 1) /\ f[k] < f[m]
        BY <4>1 DEF Fits
      <4> QED BY <3>2, <4>1, <4>2
    <3>5. g \in [1..Len(t) -> 1..n]
      BY <3>3, <3>4
    <3>6. Fits(front, t, g)
      <4>1. \A k \in 1..Len(t) : t[k] = front[g[k]]
        <5> TAKE k \in 1..Len(t)
        <5>1. t[k] = s[k] /\ g[k] = f[k] /\ f[k] \in 1..n /\ k \in 1..m
          BY <3>3, <3>4
        <5>2. s[k] = a[f[k]]
          BY <5>1 DEF Fits
        <5> QED BY <2>1, <5>1, <5>2
      <4>2. \A k, l \in 1..Len(t) : k < l => g[k] < g[l]
        <5> TAKE k, l \in 1..Len(t)
        <5>1. k \in 1..m /\ l \in 1..m /\ g[k] = f[k] /\ g[l] = f[l]
          BY <3>3, <3>4
        <5> QED BY <5>1 DEF Fits
      <4>3. ASSUME NEW j \in 1..Len(front), \A k \in 1..Len(t) : g[k] # j
            PROVE  front[j] = <<>>
        <5>1. j \in 1..Len(a) /\ j # n + 1
          BY <2>1
        <5>2. ASSUME NEW k \in 1..m PROVE f[k] # j
          <6>1. CASE k = m
            BY <3>2, <5>1, <6>1
          <6>2. CASE k # m
            <7>1. k \in 1..(m - 1)
              <8> HIDE DEF m, g
              <8> QED BY <3>2, <6>2
            <7>2. k \in 1..Len(t) /\ g[k] = f[k]
              BY <3>3, <7>1
            <7> QED BY <4>3, <7>2
          <6> QED BY <6>1, <6>2
        <5>3. a[j] = <<>>
          BY <5>1, <5>2 DEF Fits
        <5> QED BY <2>1, <5>3
      <4> HIDE DEF g
      <4> QED BY <4>1, <4>2, <4>3 DEF Fits
    <3>7. FlattenSeq(front) = FlattenSeq(t)
      <4> HIDE DEF g
      <4> QED BY <2>3, <3>5, <3>6
    <3>8. s[m] = a[n + 1] /\ a[n + 1] \in Seq(X)
      <4>1. m \in 1..Len(s)
        BY <3>2
      <4>2. s[m] = a[f[m]]
        BY <4>1 DEF Fits
      <4> QED BY <3>2, <4>2
    <3>9. FlattenSeq(s) = FlattenSeq(t) \o a[n + 1]
      BY <3>3, <3>8, FlattenLast
    <3> QED BY <2>2, <3>7, <3>9
  <2>5. CASE \A i \in 1..m : f[i] # n + 1
    <3>1. a[n + 1] = <<>>
      <4>1. n + 1 \in 1..Len(a)
        OBVIOUS
      <4> QED BY <2>5, <4>1 DEF Fits
    <3>2. f \in [1..Len(s) -> 1..n]
      <4>1. ASSUME NEW i \in 1..m PROVE f[i] \in 1..n
        <5>1. f[i] \in 1..(n + 1) /\ f[i] # n + 1
          BY <2>5
        <5> QED BY <5>1
      <4> QED BY <4>1
    <3>3. Fits(front, s, f)
      <4>1. \A i \in 1..m : f[i] \in 1..n
        BY <3>2
      <4>2. \A j \in 1..n : j \in 1..Len(a)
        OBVIOUS
      <4> QED BY <2>1, <4>1, <4>2 DEF Fits
    <3>4. FlattenSeq(front) = FlattenSeq(s)
      BY <2>3, <3>2, <3>3
    <3>5. FlattenSeq(front) \o <<>> = FlattenSeq(front)
      BY FlattenInto, ConcatEmptySeq
    <3> QED BY <2>2, <3>1, <3>4, <3>5
  <2> QED BY <2>4, <2>5
<1>3. \A n \in Nat : Same(n)
  <2> DEFINE Good == {n \in Nat : Same(n)}
  <2> HIDE DEF Same
  <2>1. 0 \in Good /\ \A n \in Nat : n \in Good => n + 1 \in Good
    BY <1>1, <1>2
  <2>2. Nat \subseteq Good
    <3> HIDE DEF Good
    <3> QED BY <2>1, NumbersFromZero
  <2> QED BY <2>2
<1>4. Len(all) \in Nat
  OBVIOUS
<1> QED BY <1>3, <1>4

(* A sequence with each element of a set once. *)
Lists(s, A) ==
    /\ s \in Seq(A)
    /\ \A x \in A : \E n \in 1..Len(s) : s[n] = x
    /\ \A n, m \in 1..Len(s) : s[n] = s[m] => n = m

(* Lists of nothing, of one element, of two sets. *)
LEMMA ListsNothing == Lists(<<>>, {})
BY DEF Lists

LEMMA ListsOne ==
    ASSUME NEW x
    PROVE  Lists(<<x>>, {x})
<1>1. <<x>> \in Seq({x}) /\ Len(<<x>>) = 1 /\ <<x>>[1] = x
  OBVIOUS
<1>2. \A n \in 1..1 : n = 1
  OBVIOUS
<1> QED BY <1>1, <1>2 DEF Lists

LEMMA ListsBoth ==
    ASSUME NEW s, NEW A, NEW t, NEW B, Lists(s, A), Lists(t, B), A \intersect B = {}
    PROVE  Lists(s \o t, A \union B)
<1>1. s \in Seq(A \union B) /\ t \in Seq(A \union B)
  BY DEF Lists
<1> DEFINE l == Len(s) + Len(t)
<1>2. /\ s \o t \in Seq(A \union B)
      /\ Len(s \o t) = l
      /\ \A i \in 1..l : (s \o t)[i] = IF i <= Len(s) THEN s[i] ELSE t[i - Len(s)]
  BY <1>1, ConcatProperties
<1>3. Len(s) \in Nat /\ Len(t) \in Nat
  BY <1>1
<1>4. \A i \in 1..Len(s) : i \in 1..l /\ (s \o t)[i] = s[i]
  BY <1>2, <1>3
<1>5. \A i \in 1..Len(t) : Len(s) + i \in 1..l /\ (s \o t)[Len(s) + i] = t[i]
  <2> TAKE i \in 1..Len(t)
  <2>1. Len(s) + i \in 1..l /\ ~ (Len(s) + i <= Len(s)) /\ (Len(s) + i) - Len(s) = i
    BY <1>3
  <2> QED BY <1>2, <2>1
<1>6. ASSUME NEW x \in A \union B PROVE \E n \in 1..l : (s \o t)[n] = x
  <2>1. CASE x \in A
    BY <1>4, <2>1 DEF Lists
  <2>2. CASE x \in B
    BY <1>5, <2>2 DEF Lists
  <2> QED BY <2>1, <2>2
<1>7. ASSUME NEW n \in 1..l, NEW m \in 1..l, (s \o t)[n] = (s \o t)[m] PROVE n = m
  <2>1. \A i \in 1..l : \/ i \in 1..Len(s) /\ (s \o t)[i] = s[i] /\ s[i] \in A
                        \/ /\ i - Len(s) \in 1..Len(t)
                           /\ (s \o t)[i] = t[i - Len(s)] /\ t[i - Len(s)] \in B
    <3> TAKE i \in 1..l
    <3>1. CASE i <= Len(s)
      <4>1. i \in 1..Len(s)
        BY <1>3, <3>1
      <4>2. s[i] \in A
        BY <4>1 DEF Lists
      <4> QED BY <1>4, <4>1, <4>2
    <3>2. CASE ~ (i <= Len(s))
      <4>1. i - Len(s) \in 1..Len(t)
        BY <1>3, <3>2
      <4>2. t[i - Len(s)] \in B
        BY <4>1 DEF Lists
      <4>3. (s \o t)[i] = t[i - Len(s)]
        BY <1>2, <3>2
      <4> QED BY <4>1, <4>2, <4>3
    <3> QED BY <3>1, <3>2
  <2>2. CASE n \in 1..Len(s) /\ m \in 1..Len(s)
    BY <1>4, <1>7, <2>2 DEF Lists
  <2>3. CASE n \notin 1..Len(s) /\ m \notin 1..Len(s)
    <3>1. /\ n - Len(s) \in 1..Len(t) /\ (s \o t)[n] = t[n - Len(s)]
          /\ m - Len(s) \in 1..Len(t) /\ (s \o t)[m] = t[m - Len(s)]
      BY <2>1, <2>3
    <3>2. n - Len(s) = m - Len(s)
      BY <1>7, <3>1 DEF Lists
    <3> QED BY <1>3, <3>2
  <2>4. n \in 1..Len(s) <=> m \in 1..Len(s)
    BY <1>7, <2>1
  <2> QED BY <2>2, <2>3, <2>4
<1> HIDE DEF l
<1> QED BY <1>2, <1>6, <1>7 DEF Lists

(* A list has each of its elements once. *)
LEMMA CountInList ==
    ASSUME NEW s, NEW A, Lists(s, A), NEW x
    PROVE  Cardinality({n \in DOMAIN s : s[n] = x}) = IF x \in A THEN 1 ELSE 0
<1> DEFINE At == {n \in DOMAIN s : s[n] = x}
<1>1. DOMAIN s = 1..Len(s) /\ \A n \in 1..Len(s) : s[n] \in A
  BY DEF Lists
<1>2. CASE x \in A
  <2>1. PICK n \in 1..Len(s) : s[n] = x
    BY <1>2 DEF Lists
  <2>2. At = {n}
    BY <1>1, <2>1 DEF Lists
  <2>3. Cardinality({n}) = 1
    BY FS_Singleton
  <2> QED BY <1>2, <2>2, <2>3
<1>3. CASE x \notin A
  <2>1. At = {}
    BY <1>1, <1>3
  <2> QED BY <1>3, <2>1, FS_EmptySet
<1> QED BY <1>2, <1>3

(* Of N elements those whose index is not in T: one to a sequence, and as a set. *)
Singles(N, T, b) == [i \in 1..N |-> IF i \in T THEN <<>> ELSE <<b[i]>>]
Kept(N, T, b) == {b[i] : i \in (1..N) \ T}

(* Flattening picks the elements whose index is not in T. *)
LEMMA FlattenSingles ==
    ASSUME NEW T, NEW A, NEW N \in Nat, NEW b \in [1..N -> A],
           \A i, k \in 1..N : b[i] = b[k] => i = k
    PROVE  Lists(FlattenSeq(Singles(N, T, b)), Kept(N, T, b))
<1> DEFINE parts(n) == [i \in 1..n |-> IF i \in T THEN <<>> ELSE <<b[i]>>]
           kept(n) == {b[i] : i \in (1..n) \ T}
           Good(n) == n <= N => Lists(FlattenSeq(parts(n)), kept(n))
<1>1. Good(0)
  <2>1. parts(0) = <<>> /\ kept(0) = {}
    OBVIOUS
  <2> HIDE DEF parts, kept
  <2> QED BY <2>1, FlattenNone, ListsNothing
<1>2. ASSUME NEW n \in Nat, Good(n) PROVE Good(n + 1)
  <2> SUFFICES ASSUME n + 1 <= N PROVE Lists(FlattenSeq(parts(n + 1)), kept(n + 1))
    OBVIOUS
  <2> DEFINE last == IF n + 1 \in T THEN <<>> ELSE <<b[n + 1]>>
             added == IF n + 1 \in T THEN {} ELSE {b[n + 1]}
  <2>1. n + 1 \in 1..N /\ b[n + 1] \in A
    OBVIOUS
  <2>2. \A i \in 1..n : i \in 1..N /\ b[i] \in A /\ b[i] # b[n + 1]
    BY <2>1
  <2>3. parts(n) \in Seq(Seq(A)) /\ Len(parts(n)) = n
    <3>1. \A i \in 1..n : <<>> \in Seq(A) /\ <<b[i]>> \in Seq(A)
      BY <2>2
    <3> QED BY <3>1
  <2>4. last \in Seq(A)
    <3>1. <<>> \in Seq(A) /\ <<b[n + 1]>> \in Seq(A)
      BY <2>1
    <3> QED BY <3>1
  <2>5. parts(n + 1) = Append(parts(n), last)
    <3>1. parts(n + 1) \in Seq(Seq(A)) /\ Len(parts(n + 1)) = n + 1
      <4>1. \A i \in 1..(n + 1) : <<>> \in Seq(A) /\ <<b[i]>> \in Seq(A)
        BY <2>1, <2>2
      <4> QED BY <4>1
    <3>2. \A i \in 1..(n + 1) : parts(n + 1)[i] = IF i \in 1..n THEN parts(n)[i] ELSE last
      OBVIOUS
    <3> HIDE DEF parts, last
    <3>3. Append(parts(n), last) \in Seq(Seq(A)) /\ Len(Append(parts(n), last)) = n + 1
      BY <2>3, <2>4
    <3>4. \A i \in 1..(n + 1) : Append(parts(n), last)[i] = IF i \in 1..n THEN parts(n)[i] ELSE last
      BY <2>3, <2>4
    <3> QED BY <3>1, <3>2, <3>3, <3>4, SeqEqual
  <2>6. FlattenSeq(parts(n + 1)) = FlattenSeq(parts(n)) \o last
    <3> HIDE DEF parts, last
    <3> QED BY <2>3, <2>4, <2>5, FlattenLast
  <2>7. Lists(last, added)
    BY ListsNothing, ListsOne
  <2>8. kept(n) \intersect added = {}
    BY <2>2
  <2>9. kept(n + 1) = kept(n) \union added
    <3>1. 1..(n + 1) = (1..n) \union {n + 1}
      OBVIOUS
    <3>2. (1..(n + 1)) \ T = ((1..n) \ T) \union (IF n + 1 \in T THEN {} ELSE {n + 1})
      BY <3>1
    <3> QED BY <3>2
  <2>10. Lists(FlattenSeq(parts(n)), kept(n))
    <3>1. n <= N
      OBVIOUS
    <3> HIDE DEF parts, kept
    <3> QED BY <1>2, <3>1
  <2> HIDE DEF parts, kept, last, added
  <2>11. Lists(FlattenSeq(parts(n)) \o last, kept(n) \union added)
    BY <2>7, <2>8, <2>10, ListsBoth
  <2> QED BY <2>6, <2>9, <2>11
<1>3. Good(N)
  <2> DEFINE S == {n \in Nat : Good(n)}
  <2> HIDE DEF Good
  <2>1. 0 \in S /\ \A n \in Nat : n \in S => n + 1 \in S
    BY <1>1, <1>2
  <2>2. Nat \subseteq S
    <3> HIDE DEF S
    <3> QED BY <2>1, NumbersFromZero
  <2> QED BY <2>2
<1> HIDE DEF parts, kept
<1>4. Lists(FlattenSeq(parts(N)), kept(N))
  BY <1>3
<1> QED BY <1>4 DEF parts, kept, Singles, Kept

-----------------------------------------------------------------------------
(* The parsers. *)

USE LinesAssumption

(* The lines the parsers add to a section, which only a Host line ends, and what
   they make of them. *)
Body(i) == {j \in (i + 1)..Len(text) : Sections \intersect ((i + 1)..j) = {}}
Fills(i, field) == {j \in Body(i) : text[j].directive = field /\ text[j].args # <<>>}
Filled(i) ==
    [field \in {f \in Fields : Fills(i, f) # {}} |->
        text[CHOOSE j \in Fills(i, field) : \A k \in Fills(i, field) : j <= k].args]
Imports(parser, i) ==
    /\ text[i].args # <<>>
    /\ \A n \in DOMAIN text[i].args : text[i].args[n] \notin Wildcards
    /\ Port(parser, Filled(i)) \in PortNumbers

(* Sections with an alias, and the one that lines are still added to. *)
Opens(i) == i \in Sections /\ text[i].args # <<>>
Latest(i) == \A k \in Sections : k <= i

(* A Host block: the words of its line, the values of its fields, its line. *)
Values == UNION {[fields -> Seq(STRING)] : fields \in SUBSET Fields}
Block == [aliases : Seq(STRING) \ {<<>>}, values : Values, line : Nat]

(* Each block is a section with an alias and has the values it gives; the blocks
   are in the order of the text, and no section with an alias is missing. *)
MeetsText(b) ==
    /\ Opens(blocks[b].line)
    /\ blocks[b].aliases = text[blocks[b].line].args
    /\ blocks[b].values = Filled(blocks[b].line)

BlocksMeetText ==
    /\ blocks \in Seq(Block)
    /\ \A b \in 1..Len(blocks) : MeetsText(b)
    /\ \A b, c \in 1..Len(blocks) : b < c => blocks[b].line < blocks[c].line
    /\ \A i \in Sections : Opens(i) => \E b \in 1..Len(blocks) : blocks[b].line = i

(* The block being filled is that of the latest section, if that has an alias. *)
CurrentIsLatest ==
    IF current = 0
    THEN \A i \in Sections : Opens(i) => ~ Latest(i)
    ELSE current = Len(blocks) /\ Latest(blocks[current].line)

(* The lines that need no warning before the end, and those warned about. *)
Heeded(j) ==
    \/ text[j].directive = Nothing
    \/ Opens(j)
    \/ \E i \in Sections : Opens(i) /\ \E f \in Fields : j \in Fills(i, f)
Unheeded == {j \in DOMAIN text : ~ Heeded(j)}

Warned == Lists(warnings, Unheeded)

-----------------------------------------------------------------------------

(* A line without a directive neither opens a section nor gives a field. *)
LEMMA NothingIsNoDirective ==
    Nothing # "host" /\ Nothing \notin Fields /\ "host" \notin Fields
BY NothingAssumption DEF Fields

(* What reading a line adds to the text: to its sections, to the lines of a
   section and to the lines that give a field.  Only the latest section grows. *)
LEMMA LineAdded ==
    ASSUME text \in Seq(Lines), NEW line \in Lines, text' = Append(text, line)
    PROVE  /\ Len(text) \in Nat /\ DOMAIN text = 1..Len(text)
           /\ text' \in Seq(Lines) /\ DOMAIN text' = 1..(Len(text) + 1)
           /\ Len(text') = Len(text) + 1
           /\ \A j \in 1..Len(text) : text'[j] = text[j]
           /\ text'[Len(text) + 1] = line
OBVIOUS

LEMMA SectionsGrow ==
    ASSUME text \in Seq(Lines), NEW line \in Lines, text' = Append(text, line)
    PROVE  /\ Sections \subseteq 1..Len(text)
           /\ Sections' = Sections \union (IF line.directive = "host" THEN {Len(text) + 1} ELSE {})
BY LineAdded DEF Sections

LEMMA SectionGrows ==
    ASSUME text \in Seq(Lines), NEW line \in Lines, text' = Append(text, line),
           NEW i \in Sections
    PROVE  /\ Body(i) \subseteq 1..Len(text)
           /\ Body(i)' = Body(i) \union
                  (IF line.directive # "host" /\ Latest(i) THEN {Len(text) + 1} ELSE {})
<1> DEFINE n == Len(text)
<1>1. n \in Nat /\ Sections \subseteq 1..n /\ i \in 1..n
  BY LineAdded, SectionsGrow
<1>2. Sections' = Sections \union (IF line.directive = "host" THEN {n + 1} ELSE {})
  BY SectionsGrow
<1>3. Body(i) = {j \in (i + 1)..n : Sections \intersect ((i + 1)..j) = {}}
  BY DEF Body
<1>4. Body(i)' = {j \in (i + 1)..(n + 1) : Sections' \intersect ((i + 1)..j) = {}}
  BY LineAdded DEF Body
<1> HIDE DEF n
<1>5. \A j \in (i + 1)..n : Sections' \intersect ((i + 1)..j) = Sections \intersect ((i + 1)..j)
  BY <1>1, <1>2
<1>6. Sections' \intersect ((i + 1)..(n + 1)) = {} <=> line.directive # "host" /\ Latest(i)
  <2>1. n + 1 \in (i + 1)..(n + 1)
    BY <1>1
  <2>2. Sections \intersect ((i + 1)..(n + 1)) = {} <=> Latest(i)
    BY <1>1 DEF Latest
  <2> QED BY <1>2, <2>1, <2>2
<1>7. (i + 1)..(n + 1) = ((i + 1)..n) \union {n + 1}
  <2>1. i \in Nat /\ i <= n /\ n \in Nat
    BY <1>1
  <2> QED BY <2>1
<1>8. Body(i) \subseteq 1..n
  BY <1>1, <1>3
<1>9. Body(i)' = Body(i) \union (IF line.directive # "host" /\ Latest(i) THEN {n + 1} ELSE {})
  BY <1>3, <1>4, <1>5, <1>6, <1>7
<1> QED BY <1>8, <1>9 DEF n

LEMMA GivesGrow ==
    ASSUME text \in Seq(Lines), NEW line \in Lines, text' = Append(text, line),
           NEW i \in Sections, NEW f \in Fields
    PROVE  /\ Fills(i, f) \subseteq 1..Len(text)
           /\ Fills(i, f)' = Fills(i, f) \union
                  (IF line.directive = f /\ line.args # <<>> /\ Latest(i)
                   THEN {Len(text) + 1} ELSE {})
<1>1. \A j \in Body(i) : text'[j] = text[j]
  BY SectionGrows, LineAdded
<1>2. text'[Len(text) + 1] = line
  BY LineAdded
<1>3. line.directive = f => line.directive # "host"
  BY DEF Fields
<1>4. Fills(i, f) \subseteq 1..Len(text)
  BY SectionGrows DEF Fills
<1>5. Fills(i, f)' = {j \in Body(i)' : text'[j].directive = f /\ text'[j].args # <<>>}
  BY DEF Fills
<1>6. Fills(i, f) = {j \in Body(i) : text[j].directive = f /\ text[j].args # <<>>}
  BY DEF Fills
<1>7. Body(i)' = Body(i) \union
                  (IF line.directive # "host" /\ Latest(i) THEN {Len(text) + 1} ELSE {})
  BY SectionGrows
<1> QED BY <1>1, <1>2, <1>3, <1>4, <1>5, <1>6, <1>7

(* The section a line opens is empty. *)
LEMMA NewSectionIsEmpty ==
    ASSUME text \in Seq(Lines), NEW line \in Lines, text' = Append(text, line),
           NEW i, i = Len(text) + 1, NEW f
    PROVE  Fills(i, f)' = {}
<1>1. Body(i)' = {}
  BY LineAdded DEF Body
<1> QED BY <1>1 DEF Fills

-----------------------------------------------------------------------------
(* The first line of a set of lines. *)

First(S) == CHOOSE j \in S : \A k \in S : j <= k

LEMMA FirstIs ==
    ASSUME NEW S \in SUBSET Nat, NEW j \in S, \A k \in S : j <= k
    PROVE  First(S) = j
<1>1. First(S) \in S /\ \A k \in S : First(S) <= k
  BY DEF First
<1>2. First(S) \in Nat /\ j \in Nat /\ First(S) <= j /\ j <= First(S)
  BY <1>1
<1> QED BY <1>2

(* The values of a section, before and after a line. *)
LEMMA GivenIs ==
    /\ \A i : Filled(i) = [f \in {f \in Fields : Fills(i, f) # {}} |->
                              text[First(Fills(i, f))].args]
    /\ \A i : Filled(i)' = [f \in {f \in Fields : Fills(i, f)' # {}} |->
                               text'[First(Fills(i, f)')].args]
BY DEF Filled, First

(* A line that is no field with a value does not change them, nor does any line
   after the next Host line. *)
LEMMA GivenKept ==
    ASSUME text \in Seq(Lines), NEW line \in Lines, text' = Append(text, line),
           NEW i \in Sections,
           line.directive \notin Fields \/ line.args = <<>> \/ ~ Latest(i)
    PROVE  Filled(i)' = Filled(i)
<1>1. \A f \in Fields : Fills(i, f)' = Fills(i, f)
  BY GivesGrow
<1>2. \A f \in Fields : Fills(i, f) # {} => text'[First(Fills(i, f))] = text[First(Fills(i, f))]
  <2> TAKE f \in Fields
  <2> HAVE Fills(i, f) # {}
  <2>1. Fills(i, f) \in SUBSET Nat /\ Fills(i, f) \subseteq 1..Len(text)
    BY GivesGrow
  <2>2. PICK j \in Fills(i, f) : \A k \in Fills(i, f) : j <= k
    BY <2>1, LeastNumber
  <2>3. First(Fills(i, f)) = j
    BY <2>1, <2>2, FirstIs
  <2> QED BY <2>1, <2>3, LineAdded
<1> QED BY <1>1, <1>2, GivenIs

(* A field with a value gives it to the latest section, unless it has one. *)
LEMMA GivenMore ==
    ASSUME text \in Seq(Lines), NEW line \in Lines, text' = Append(text, line),
           NEW i \in Sections, Latest(i), line.directive \in Fields, line.args # <<>>
    PROVE  Filled(i)' = [f \in DOMAIN Filled(i) \union {line.directive} |->
                            IF f \in DOMAIN Filled(i) THEN Filled(i)[f] ELSE line.args]
<1> DEFINE n == Len(text)
<1>1. \A f \in Fields :
          /\ Fills(i, f) \subseteq 1..n
          /\ Fills(i, f)' = Fills(i, f) \union (IF f = line.directive THEN {n + 1} ELSE {})
  <2> TAKE f \in Fields
  <2>1. line.directive = f /\ line.args # <<>> /\ Latest(i) <=> f = line.directive
    OBVIOUS
  <2> QED BY <2>1, GivesGrow
<1>2. n \in Nat
  BY LineAdded
<1> HIDE DEF n
<1>3. \A f \in Fields : Fills(i, f) # {} => /\ First(Fills(i, f)') = First(Fills(i, f))
                                            /\ First(Fills(i, f)) \in 1..n
  <2> TAKE f \in Fields
  <2> HAVE Fills(i, f) # {}
  <2>1. Fills(i, f) \in SUBSET Nat /\ Fills(i, f)' \in SUBSET Nat
    <3>1. 1..n \subseteq Nat /\ n + 1 \in Nat
      BY <1>2
    <3> QED BY <1>1, <3>1
  <2>2. PICK j \in Fills(i, f) : \A k \in Fills(i, f) : j <= k
    BY <2>1, LeastNumber
  <2>3. j \in 1..n /\ j \in Fills(i, f)' /\ \A k \in Fills(i, f)' : j <= k
    <3>1. j \in 1..n /\ j <= n + 1
      BY <1>1, <1>2, <2>2
    <3>2. Fills(i, f)' \subseteq Fills(i, f) \union {n + 1} /\ Fills(i, f) \subseteq Fills(i, f)'
      BY <1>1
    <3> QED BY <2>2, <3>1, <3>2
  <2>4. First(Fills(i, f)) = j
    BY <2>1, <2>2, FirstIs
  <2>5. First(Fills(i, f)') = j
    BY <2>1, <2>3, FirstIs
  <2> QED BY <2>3, <2>4, <2>5
<1>4. \A f \in Fields : Fills(i, f) = {} /\ f = line.directive => First(Fills(i, f)') = n + 1
  <2> TAKE f \in Fields
  <2> HAVE Fills(i, f) = {} /\ f = line.directive
  <2>1. Fills(i, f)' = {n + 1}
    BY <1>1
  <2>2. {n + 1} \in SUBSET Nat /\ n + 1 \in {n + 1} /\ \A k \in {n + 1} : n + 1 <= k
    BY <1>2
  <2>3. First({n + 1}) = n + 1
    BY <2>2, FirstIs
  <2> QED BY <2>1, <2>3
<1>5. /\ DOMAIN Filled(i) = {f \in Fields : Fills(i, f) # {}}
      /\ \A f \in DOMAIN Filled(i) : Filled(i)[f] = text[First(Fills(i, f))].args
  BY GivenIs
<1>6. {f \in Fields : Fills(i, f)' # {}} = DOMAIN Filled(i) \union {line.directive}
  BY <1>1, <1>5
<1>7. \A f \in {f \in Fields : Fills(i, f)' # {}} :
          text'[First(Fills(i, f)')].args =
              IF f \in DOMAIN Filled(i) THEN Filled(i)[f] ELSE line.args
  <2> TAKE f \in {f \in Fields : Fills(i, f)' # {}}
  <2>1. CASE Fills(i, f) # {}
    <3>1. f \in DOMAIN Filled(i) /\ Filled(i)[f] = text[First(Fills(i, f))].args
      BY <1>5, <2>1
    <3>2. First(Fills(i, f)') = First(Fills(i, f)) /\ First(Fills(i, f)) \in 1..n
      BY <1>3, <2>1
    <3>3. text'[First(Fills(i, f))] = text[First(Fills(i, f))]
      BY <3>2, LineAdded DEF n
    <3> QED BY <3>1, <3>2, <3>3
  <2>2. CASE Fills(i, f) = {}
    <3>1. f = line.directive
      BY <1>1, <2>2
    <3>2. First(Fills(i, f)') = n + 1 /\ f \notin DOMAIN Filled(i)
      BY <1>4, <1>5, <2>2, <3>1
    <3>3. text'[n + 1] = line
      BY LineAdded DEF n
    <3> QED BY <3>2, <3>3
  <2> QED BY <2>1, <2>2
<1> QED BY <1>6, <1>7, GivenIs

LEMMA NewSectionGivesNothing ==
    ASSUME text \in Seq(Lines), NEW line \in Lines, text' = Append(text, line),
           NEW i, i = Len(text) + 1
    PROVE  Filled(i)' = <<>>
<1>1. {f \in Fields : Fills(i, f)' # {}} = {}
  BY NewSectionIsEmpty
<1>2. DOMAIN Filled(i)' = {}
  BY <1>1, GivenIs
<1> QED BY <1>1, <1>2, GivenIs

LEMMA GivenTyped ==
    ASSUME text \in Seq(Lines), NEW i \in Sections
    PROVE  /\ Filled(i) \in Values
           /\ DOMAIN Filled(i) \subseteq Fields
           /\ Filled(i) \in [DOMAIN Filled(i) -> Seq(STRING)]
<1>1. Filled(i) = [f \in {f \in Fields : Fills(i, f) # {}} |-> text[First(Fills(i, f))].args]
  BY GivenIs
<1>2. ASSUME NEW f \in Fields, Fills(i, f) # {} PROVE text[First(Fills(i, f))].args \in Seq(STRING)
  <2>1. Fills(i, f) \subseteq DOMAIN text /\ Fills(i, f) \in SUBSET Nat
    BY DEF Fills, Body, Sections
  <2>2. PICK j \in Fills(i, f) : \A k \in Fills(i, f) : j <= k
    BY <1>2, <2>1, LeastNumber
  <2>3. First(Fills(i, f)) = j
    BY <2>1, <2>2, FirstIs
  <2>4. text[j] \in Lines
    BY <2>1, <2>2
  <2> QED BY <2>3, <2>4
<1>3. DOMAIN Filled(i) \subseteq Fields
  BY <1>1
<1>4. Filled(i) \in [DOMAIN Filled(i) -> Seq(STRING)]
  BY <1>1, <1>2
<1> QED BY <1>3, <1>4 DEF Values

-----------------------------------------------------------------------------
(* Each line keeps what the parser knows. *)

LEMMA OpensGrow ==
    ASSUME text \in Seq(Lines), NEW line \in Lines, text' = Append(text, line), NEW i
    PROVE  /\ Opens(i) => i \in Sections /\ i \in 1..Len(text)
           /\ Opens(i)' => i \in 1..(Len(text) + 1)
           /\ i \in 1..Len(text) => (Opens(i)' <=> Opens(i))
           /\ i = Len(text) + 1 => (Opens(i)' <=> line.directive = "host" /\ line.args # <<>>)
<1>1. Opens(i) => i \in Sections /\ i \in 1..Len(text)
  BY SectionsGrow DEF Opens
<1>2. Opens(i)' => i \in 1..(Len(text) + 1)
  BY LineAdded DEF Opens, Sections
<1>3. i \in 1..Len(text) => (Opens(i)' <=> Opens(i))
  BY LineAdded DEF Opens, Sections
<1>4. ASSUME i = Len(text) + 1
      PROVE  Opens(i)' <=> line.directive = "host" /\ line.args # <<>>
  <2>1. i \in DOMAIN text' /\ text'[i] = line
    BY <1>4, LineAdded
  <2> QED BY <2>1 DEF Opens, Sections
<1> QED BY <1>1, <1>2, <1>3, <1>4

(* A block meets the text after a line if it does so there. *)
LEMMA MeetsTextAt ==
    ASSUME NEW b, NEW i, blocks'[b].line = i, Opens(i)', blocks'[b].aliases = text'[i].args,
           blocks'[b].values = Filled(i)'
    PROVE  MeetsText(b)'
BY DEF MeetsText

(* A block that is left alone still meets the text, if its section gives the
   same values. *)
LEMMA StillMeetsText ==
    ASSUME text \in Seq(Lines), NEW line \in Lines, text' = Append(text, line),
           NEW b, NEW i, blocks[b].line = i, MeetsText(b), blocks'[b] = blocks[b],
           Filled(i)' = Filled(i)
    PROVE  MeetsText(b)'
<1>1. Opens(i) /\ blocks[b].aliases = text[i].args /\ blocks[b].values = Filled(i)
  BY DEF MeetsText
<1>2. i \in 1..Len(text)
  BY <1>1, OpensGrow
<1>3. Opens(i)'
  BY <1>1, <1>2, OpensGrow
<1>4. text'[i] = text[i]
  BY <1>2, LineAdded
<1>5. /\ blocks'[b].line = i
      /\ blocks'[b].aliases = text'[i].args
      /\ blocks'[b].values = Filled(i)'
  BY <1>1, <1>4
<1> QED BY <1>3, <1>5, MeetsTextAt

(* A section that had been opened before is still found. *)
LEMMA StillFound ==
    ASSUME text \in Seq(Lines), BlocksMeetText, NEW line \in Lines, text' = Append(text, line),
           NEW i \in 1..Len(text), Opens(i)'
    PROVE  \E b \in 1..Len(blocks) : blocks[b].line = i
<1>1. Opens(i)
  BY OpensGrow
<1> QED BY <1>1 DEF BlocksMeetText, Opens

(* A line that leaves the blocks alone and opens no section with an alias. *)
LEMMA SameBlocks ==
    ASSUME text \in Seq(Lines), NEW line \in Lines, text' = Append(text, line),
           BlocksMeetText, blocks' = blocks,
           line.directive # "host" \/ line.args = <<>>,
           \A i \in Sections : Opens(i) => Filled(i)' = Filled(i)
    PROVE  BlocksMeetText'
<1>1. ASSUME NEW b \in 1..Len(blocks) PROVE MeetsText(b)'
  <2>1. PICK i : i = blocks[b].line
    OBVIOUS
  <2>2. MeetsText(b)
    BY DEF BlocksMeetText
  <2>3. Opens(i)
    BY <2>1, <2>2 DEF MeetsText
  <2>4. i \in Sections
    BY <2>3, OpensGrow
  <2>5. Filled(i)' = Filled(i)
    BY <2>3, <2>4
  <2> QED BY <2>1, <2>2, <2>5, StillMeetsText
<1>2. ASSUME NEW i \in Sections', Opens(i)' PROVE \E b \in 1..Len(blocks) : blocks[b].line = i
  <2>1. i \in 1..(Len(text) + 1) /\ i # Len(text) + 1
    BY <1>2, OpensGrow
  <2>2. i \in 1..Len(text)
    BY <2>1, LineAdded
  <2> QED BY <1>2, <2>2, StillFound
<1> QED BY <1>1, <1>2 DEF BlocksMeetText

(* A Host line with an alias: a block of its own, which meets the text. *)
LEMMA HostStep ==
    ASSUME text \in Seq(Lines), BlocksMeetText, NEW line \in Lines, Host(line)
    PROVE  BlocksMeetText' /\ CurrentIsLatest'
<1>1. PICK n, m : n = Len(text) /\ m = Len(blocks)
  OBVIOUS
<1> DEFINE block == [aliases |-> line.args, values |-> <<>>, line |-> n + 1]
<1>2. /\ text' = Append(text, line) /\ blocks' = Append(blocks, block) /\ current' = m + 1
      /\ line.directive = "host" /\ line.args # <<>>
  BY <1>1 DEF Host, Read, LineNumber
<1>3. n \in Nat /\ m \in Nat /\ blocks \in Seq(Block)
  BY <1>1, <1>2, LineAdded DEF BlocksMeetText
<1>4. block \in Block
  <2>1. <<>> \in [{} -> Seq(STRING)] /\ {} \in SUBSET Fields
    OBVIOUS
  <2>2. <<>> \in Values
    BY <2>1 DEF Values
  <2>3. line.args \in Seq(STRING) \ {<<>>}
    BY <1>2
  <2> QED BY <1>3, <2>2, <2>3 DEF Block
<1>5. block.line = n + 1 /\ block.aliases = line.args /\ block.values = <<>>
  OBVIOUS
<1> HIDE DEF block
<1>6. /\ blocks' \in Seq(Block) /\ Len(blocks') = m + 1
      /\ \A b \in 1..m : blocks'[b] = blocks[b]
      /\ blocks'[m + 1] = block
  BY <1>1, <1>2, <1>3, <1>4
<1>7. ASSUME NEW b \in 1..m PROVE MeetsText(b)' /\ blocks[b].line \in 1..n
  <2>1. PICK i : i = blocks[b].line
    OBVIOUS
  <2>2. MeetsText(b)
    BY <1>1 DEF BlocksMeetText
  <2>3. Opens(i)
    BY <2>1, <2>2 DEF MeetsText
  <2>4. i \in Sections /\ i \in 1..n
    BY <1>1, <1>2, <2>3, OpensGrow
  <2>5. Filled(i)' = Filled(i)
    <3>1. line.directive \notin Fields
      BY <1>2 DEF Fields
    <3> QED BY <1>2, <2>4, <3>1, GivenKept
  <2> QED BY <1>2, <1>6, <2>1, <2>2, <2>4, <2>5, StillMeetsText
<1>8. MeetsText(m + 1)'
  <2>1. PICK b, i : b = m + 1 /\ i = n + 1
    OBVIOUS
  <2>2. Opens(i)' /\ text'[i] = line /\ Filled(i)' = <<>>
    BY <1>1, <1>2, <2>1, OpensGrow, LineAdded, NewSectionGivesNothing
  <2>3. MeetsText(b)'
    BY <1>5, <1>6, <2>1, <2>2, MeetsTextAt
  <2> QED BY <2>1, <2>3
<1>9. \A b \in 1..(m + 1) : b \in 1..m \/ b = m + 1
  BY <1>3
<1>10. \A b \in 1..(m + 1) : MeetsText(b)'
  BY <1>7, <1>8, <1>9
<1>11. \A b, c \in 1..(m + 1) : b < c => blocks'[b].line < blocks'[c].line
  <2> TAKE b, c \in 1..(m + 1)
  <2> HAVE b < c
  <2>1. b \in 1..m
    BY <1>3
  <2>2. CASE c \in 1..m
    BY <1>1, <1>6, <2>1, <2>2 DEF BlocksMeetText
  <2>3. CASE c = m + 1
    <3>1. blocks'[c].line = n + 1 /\ blocks'[b].line \in 1..n
      BY <1>5, <1>6, <1>7, <2>1, <2>3
    <3> QED BY <1>3, <3>1
  <2> QED BY <1>9, <2>2, <2>3
<1>12. ASSUME NEW i \in Sections', Opens(i)' PROVE \E b \in 1..(m + 1) : blocks'[b].line = i
  <2>1. i \in 1..(n + 1)
    BY <1>1, <1>2, <1>12, OpensGrow
  <2>2. CASE i = n + 1
    <3>1. m + 1 \in 1..(m + 1)
      BY <1>3
    <3> QED BY <1>5, <1>6, <2>2, <3>1
  <2>3. CASE i # n + 1
    <3>1. i \in 1..n
      BY <1>3, <2>1, <2>3
    <3>2. PICK b \in 1..m : blocks[b].line = i
      BY <1>1, <1>2, <1>12, <3>1, StillFound
    <3>3. b \in 1..(m + 1)
      BY <1>3
    <3> QED BY <1>6, <3>2, <3>3
  <2> QED BY <2>2, <2>3
<1>13. BlocksMeetText'
  BY <1>6, <1>10, <1>11, <1>12 DEF BlocksMeetText
<1>14. CurrentIsLatest'
  <2>1. PICK i : i = n + 1
    OBVIOUS
  <2>2. \A k \in Sections' : k <= i
    BY <1>1, <1>2, <1>3, <2>1, LineAdded DEF Sections
  <2>3. Latest(i)'
    BY <2>2 DEF Latest
  <2>4. current' # 0 /\ current' = Len(blocks') /\ blocks'[current'].line = i
    BY <1>2, <1>3, <1>5, <1>6, <2>1
  <2> QED BY <2>2, <2>4 DEF CurrentIsLatest, Latest
<1> QED BY <1>13, <1>14

LEMMA MoreValues ==
    ASSUME NEW values \in Values, NEW line \in Lines, line.directive \in Fields
    PROVE  [f \in DOMAIN values \union {line.directive} |->
                IF f \in DOMAIN values THEN values[f] ELSE line.args] \in Values
<1> DEFINE more == [f \in DOMAIN values \union {line.directive} |->
                        IF f \in DOMAIN values THEN values[f] ELSE line.args]
<1>1. PICK D \in SUBSET Fields : values \in [D -> Seq(STRING)]
  BY DEF Values
<1>2. D \union {line.directive} \in SUBSET Fields /\ line.args \in Seq(STRING)
  OBVIOUS
<1>3. more \in [D \union {line.directive} -> Seq(STRING)]
  BY <1>1, <1>2
<1> QED BY <1>2, <1>3 DEF Values

(* A field with a value, in the block being filled. *)
LEMMA FieldStep ==
    ASSUME text \in Seq(Lines), BlocksMeetText, CurrentIsLatest, NEW line \in Lines, Field(line)
    PROVE  BlocksMeetText' /\ CurrentIsLatest'
<1>1. PICK m, i : m = Len(blocks) /\ i = blocks[m].line
  OBVIOUS
<1>2. /\ current = m /\ m # 0 /\ Latest(i) /\ current' = current
      /\ text' = Append(text, line)
      /\ line.directive \in Fields /\ line.args # <<>>
  BY <1>1 DEF Field, Read, CurrentIsLatest
<1>3. m \in Nat /\ m \in 1..m /\ blocks \in Seq(Block) /\ blocks[m] \in Block
  BY <1>1, <1>2 DEF BlocksMeetText
<1> DEFINE values == blocks[m].values
           more == [f \in DOMAIN values \union {line.directive} |->
                        IF f \in DOMAIN values THEN values[f] ELSE line.args]
<1>4. blocks' = [blocks EXCEPT ![m].values = more]
  BY <1>2 DEF Field
<1>5. more \in Values
  <2>1. values \in Values
    BY <1>3 DEF Block
  <2> QED BY <1>2, <2>1, MoreValues
<1>6. /\ Opens(i) /\ i \in Sections /\ values = Filled(i)
      /\ blocks[m].aliases = text[i].args /\ i \in 1..Len(text)
  BY <1>1, <1>2, <1>3, OpensGrow DEF BlocksMeetText, MeetsText
<1>7. more = Filled(i)'
  <2>1. Filled(i)' = [f \in DOMAIN Filled(i) \union {line.directive} |->
                        IF f \in DOMAIN Filled(i) THEN Filled(i)[f] ELSE line.args]
    BY <1>2, <1>6, GivenMore
  <2>2. values = Filled(i)
    BY <1>6
  <2> HIDE DEF values
  <2> QED BY <2>1, <2>2
<1> HIDE DEF more, values
<1>8. [blocks[m] EXCEPT !.values = more] \in Block
  BY <1>3, <1>5 DEF Block
<1>9. /\ blocks' \in Seq(Block) /\ Len(blocks') = m
      /\ \A b \in 1..m : b # m => blocks'[b] = blocks[b]
      /\ blocks'[m] = [blocks[m] EXCEPT !.values = more]
  BY <1>1, <1>3, <1>4, <1>8
<1>10. /\ blocks'[m].line = i /\ blocks'[m].values = more
       /\ blocks'[m].aliases = blocks[m].aliases
  BY <1>1, <1>3, <1>9 DEF Block
<1>11. MeetsText(m)'
  <2>1. Opens(i)' /\ text'[i] = text[i]
    BY <1>2, <1>6, OpensGrow, LineAdded
  <2>2. /\ blocks'[m].line = i
        /\ blocks'[m].aliases = text'[i].args
        /\ blocks'[m].values = Filled(i)'
    BY <1>6, <1>7, <1>10, <2>1
  <2> QED BY <2>1, <2>2, MeetsTextAt
<1>12. ASSUME NEW b \in 1..m, b # m PROVE MeetsText(b)'
  <2>1. PICK k : k = blocks[b].line
    OBVIOUS
  <2>2. MeetsText(b)
    BY <1>1 DEF BlocksMeetText
  <2>3. Opens(k) /\ k \in Sections /\ k \in 1..Len(text)
    BY <1>2, <2>1, <2>2, OpensGrow DEF MeetsText
  <2>4. ~ Latest(k)
    <3>1. b < m
      BY <1>3, <1>12
    <3>2. k < i
      BY <1>1, <1>3, <2>1, <3>1 DEF BlocksMeetText
    <3> QED BY <1>6, <2>3, <3>2, LineAdded DEF Latest
  <2>5. Filled(k)' = Filled(k)
    BY <1>2, <2>3, <2>4, GivenKept
  <2> QED BY <1>2, <1>9, <1>12, <2>1, <2>2, <2>5, StillMeetsText
<1>13. \A b \in 1..m : MeetsText(b)'
  BY <1>11, <1>12
<1>14. \A b \in 1..m : blocks'[b].line = blocks[b].line
  BY <1>1, <1>9, <1>10
<1>15. \A b, c \in 1..m : b < c => blocks'[b].line < blocks'[c].line
  BY <1>1, <1>14 DEF BlocksMeetText
<1>16. ASSUME NEW k \in Sections', Opens(k)' PROVE \E b \in 1..m : blocks'[b].line = k
  <2>1. k \in 1..Len(text)
    <3>1. k \in 1..(Len(text) + 1) /\ k # Len(text) + 1
      BY <1>2, <1>16, OpensGrow DEF Fields
    <3> QED BY <1>2, <3>1, LineAdded
  <2>2. \E b \in 1..m : blocks[b].line = k
    BY <1>1, <1>2, <1>16, <2>1, StillFound
  <2> QED BY <1>14, <2>2
<1>17. BlocksMeetText'
  BY <1>9, <1>13, <1>15, <1>16 DEF BlocksMeetText
<1>18. CurrentIsLatest'
  <2>1. Sections' = Sections
    BY <1>2, SectionsGrow DEF Fields
  <2>2. \A k \in Sections' : k <= i
    BY <1>2, <2>1 DEF Latest
  <2>3. current' # 0 /\ current' = Len(blocks') /\ blocks'[current'].line = i
    BY <1>2, <1>9, <1>10
  <2> QED BY <2>2, <2>3 DEF CurrentIsLatest, Latest
<1> QED BY <1>17, <1>18

(* A line without a Host directive or a field: the block being filled is still
   that of the latest section. *)
LEMMA StillLatest ==
    ASSUME text \in Seq(Lines), CurrentIsLatest, NEW line \in Lines, text' = Append(text, line),
           line.directive # "host", blocks' = blocks, current' = current
    PROVE  CurrentIsLatest'
<1>1. Sections' = Sections
  BY SectionsGrow
<1>2. ASSUME NEW i PROVE Latest(i)' <=> Latest(i)
  BY <1>1 DEF Latest
<1>3. ASSUME NEW i \in Sections' PROVE Opens(i)' <=> Opens(i)
  BY <1>1, SectionsGrow, OpensGrow
<1>4. CASE current = 0
  BY <1>1, <1>2, <1>3, <1>4 DEF CurrentIsLatest
<1>5. CASE current # 0
  <2>1. PICK i : i = blocks[current].line
    OBVIOUS
  <2>2. \A k \in Sections' : k <= i
    BY <1>1, <1>5, <2>1 DEF CurrentIsLatest, Latest
  <2> QED BY <1>5, <2>1, <2>2 DEF CurrentIsLatest, Latest
<1> QED BY <1>4, <1>5

(* A Host line without an alias closes the block before it. *)
LEMMA HostWithoutAliasStep ==
    ASSUME text \in Seq(Lines), BlocksMeetText, NEW line \in Lines, HostWithoutAlias(line)
    PROVE  BlocksMeetText' /\ CurrentIsLatest'
<1>1. /\ text' = Append(text, line) /\ blocks' = blocks /\ current' = 0
      /\ line.directive = "host" /\ line.args = <<>>
  BY DEF HostWithoutAlias, Read
<1>2. \A i \in Sections : Filled(i)' = Filled(i)
  BY <1>1, GivenKept
<1>3. BlocksMeetText'
  BY <1>1, <1>2, SameBlocks
<1>4. ASSUME NEW i \in Sections', Opens(i)' PROVE ~ Latest(i)'
  <2>1. PICK n : n = Len(text) + 1
    OBVIOUS
  <2>2. i \in 1..n /\ i # n
    BY <1>1, <1>4, <2>1, OpensGrow
  <2>3. n \in Sections' /\ n \in Nat
    BY <1>1, <2>1, SectionsGrow, LineAdded
  <2> QED BY <2>2, <2>3 DEF Latest
<1> QED BY <1>1, <1>3, <1>4 DEF CurrentIsLatest

(* A line with nothing on it, and one that is ignored. *)
LEMMA OtherLineStep ==
    ASSUME text \in Seq(Lines), BlocksMeetText, CurrentIsLatest, NEW line \in Lines,
           Blank(line) \/ Ignored(line)
    PROVE  BlocksMeetText' /\ CurrentIsLatest'
<1>1. /\ text' = Append(text, line) /\ blocks' = blocks /\ current' = current
      /\ line.directive # "host"
      /\ line.directive \notin Fields \/ line.args = <<>> \/ current = 0
  <2>1. "host" # Nothing /\ Nothing \notin Fields /\ "host" \notin Fields
    BY NothingIsNoDirective
  <2>2. CASE Blank(line)
    BY <2>1, <2>2 DEF Blank, Read
  <2>3. CASE Ignored(line)
    BY <2>1, <2>3 DEF Ignored, Read
  <2> QED BY <2>2, <2>3
<1>2. \A i \in Sections : Opens(i) => Filled(i)' = Filled(i)
  BY <1>1, GivenKept DEF CurrentIsLatest
<1>3. BlocksMeetText'
  BY <1>1, <1>2, SameBlocks
<1> QED BY <1>1, <1>3, StillLatest

-----------------------------------------------------------------------------
(* Warnings. *)

LEMMA ListsAppend ==
    ASSUME NEW s, NEW A, Lists(s, A), NEW x, x \notin A
    PROVE  Lists(Append(s, x), A \union {x})
<1>1. Lists(s \o <<x>>, A \union {x})
  <2>1. A \intersect {x} = {}
    OBVIOUS
  <2> QED BY <2>1, ListsOne, ListsBoth
<1>2. s \o <<x>> = Append(s, x)
  BY DEF Lists
<1> QED BY <1>1, <1>2

(* A line that was heeded, or not, when it was read stays so. *)
LEMMA HeededKept ==
    ASSUME text \in Seq(Lines), NEW line \in Lines, text' = Append(text, line),
           NEW j \in 1..Len(text)
    PROVE  Heeded(j)' <=> Heeded(j)
<1>1. text'[j] = text[j] /\ (Opens(j)' <=> Opens(j)) /\ Len(text) \in Nat
  BY LineAdded, OpensGrow
<1>2. ASSUME NEW i \in Sections, NEW f \in Fields
      PROVE  /\ Opens(i)' <=> Opens(i)
             /\ j \in Fills(i, f)' <=> j \in Fills(i, f)
  <2>1. i \in 1..Len(text)
    BY SectionsGrow
  <2>2. j # Len(text) + 1
    BY <1>1
  <2> QED BY <2>1, <2>2, OpensGrow, GivesGrow
<1>3. ASSUME NEW i \in Sections', NEW f \in Fields, j \in Fills(i, f)' PROVE i \in Sections
  <2>1. i # Len(text) + 1
    BY <1>3, NewSectionIsEmpty
  <2> QED BY <2>1, SectionsGrow
<1>4. Sections \subseteq Sections'
  BY SectionsGrow
<1> QED BY <1>1, <1>2, <1>3, <1>4 DEF Heeded

LEMMA UnheededGrows ==
    ASSUME text \in Seq(Lines), NEW line \in Lines, text' = Append(text, line),
           NEW n, n = Len(text) + 1
    PROVE  /\ Unheeded' = IF Heeded(n)' THEN Unheeded ELSE Unheeded \union {n}
           /\ n \notin Unheeded
<1>1. Unheeded = {j \in 1..Len(text) : ~ Heeded(j)}
  BY LineAdded DEF Unheeded
<1>2. Unheeded' = {j \in DOMAIN text' : ~ Heeded(j)'}
  BY DEF Unheeded
<1>3. DOMAIN text' = 1..Len(text) \union {n} /\ n \notin 1..Len(text)
  BY LineAdded
<1>4. \A j \in 1..Len(text) : Heeded(j)' <=> Heeded(j)
  BY HeededKept
<1> QED BY <1>1, <1>2, <1>3, <1>4

(* A line is warned about just when it is not heeded. *)
LEMMA WarnedStep ==
    ASSUME text \in Seq(Lines), BlocksMeetText, CurrentIsLatest, Warned,
           NEW line \in Lines, ReadLine(line)
    PROVE  Warned'
<1>1. PICK n : n = Len(text) + 1
  OBVIOUS
<1>2. text' = Append(text, line)
  BY DEF ReadLine, Blank, HostWithoutAlias, Host, Ignored, Field, Read
<1>3. text'[n] = line /\ (Opens(n)' <=> line.directive = "host" /\ line.args # <<>>)
  BY <1>1, <1>2, LineAdded, OpensGrow
<1>4. (\E i \in Sections' : Opens(i)' /\ \E f \in Fields : n \in Fills(i, f)') <=>
          /\ line.directive \in Fields /\ line.args # <<>>
          /\ \E i \in Sections : Opens(i) /\ Latest(i)
  <2>1. \A i \in Sections, f \in Fields :
            /\ Opens(i)' <=> Opens(i)
            /\ n \in Fills(i, f)' <=> line.directive = f /\ line.args # <<>> /\ Latest(i)
    <3> TAKE i \in Sections, f \in Fields
    <3>1. n \notin Fills(i, f) /\ i \in 1..Len(text)
      BY <1>1, <1>2, GivesGrow, SectionsGrow, LineAdded
    <3> QED BY <1>1, <1>2, <3>1, GivesGrow, OpensGrow
  <2>2. \A i \in Sections' : i \in Sections \/ i = n
    BY <1>1, <1>2, SectionsGrow
  <2>3. \A f \in Fields : Fills(n, f)' = {}
    BY <1>1, <1>2, NewSectionIsEmpty
  <2>4. Sections \subseteq Sections'
    BY <1>2, SectionsGrow
  <2> QED BY <2>1, <2>2, <2>3, <2>4
<1>5. (\E i \in Sections : Opens(i) /\ Latest(i)) <=> current # 0
  <2>1. CASE current = 0
    BY <2>1 DEF CurrentIsLatest
  <2>2. CASE current # 0
    <3>1. PICK i : i = blocks[current].line
      OBVIOUS
    <3>2. current \in 1..Len(blocks)
      BY <2>2 DEF CurrentIsLatest, BlocksMeetText
    <3>3. Opens(i) /\ Latest(i)
      BY <2>2, <3>1, <3>2 DEF CurrentIsLatest, BlocksMeetText, MeetsText
    <3> QED BY <2>2, <3>3 DEF Opens
  <2> QED BY <2>1, <2>2
<1>6. Heeded(n)' <=> \/ line.directive = Nothing
                     \/ line.directive = "host" /\ line.args # <<>>
                     \/ line.directive \in Fields /\ line.args # <<>> /\ current # 0
  BY <1>3, <1>4, <1>5 DEF Heeded
<1>7. CASE Heeded(n)'
  <2>1. warnings' = warnings
    BY <1>6, <1>7, NothingIsNoDirective
       DEF ReadLine, Blank, HostWithoutAlias, Host, Ignored, Field
  <2>2. Unheeded' = Unheeded
    BY <1>1, <1>2, <1>7, UnheededGrows
  <2> QED BY <2>1, <2>2 DEF Warned
<1>8. CASE ~ Heeded(n)'
  <2>1. warnings' = Append(warnings, n)
    BY <1>1, <1>6, <1>8, NothingIsNoDirective
       DEF ReadLine, Blank, HostWithoutAlias, Host, Ignored, Field, Warn, LineNumber
  <2>2. Unheeded' = Unheeded \union {n} /\ n \notin Unheeded
    BY <1>1, <1>2, <1>8, UnheededGrows
  <2>3. Lists(Append(warnings, n), Unheeded \union {n})
    BY <2>2, ListsAppend DEF Warned
  <2> QED BY <2>1, <2>2, <2>3 DEF Warned
<1> QED BY <1>7, <1>8

-----------------------------------------------------------------------------
(* Type correctness and the invariant. *)

LEMMA ReadText ==
    ASSUME NEW line \in Lines, ReadLine(line)
    PROVE  text' = Append(text, line) /\ imported = Nothing /\ imported' = Nothing
BY DEF ReadLine, Blank, HostWithoutAlias, Host, Ignored, Field, Read

(* What Finish computes. *)
Parsed(p) ==
    LET Taken(b) == Accepts(p, b.values, b.aliases)
    IN [hosts |-> FlattenSeq([i \in DOMAIN blocks |->
            IF Taken(blocks[i])
            THEN Items(p, blocks[i].values, blocks[i].aliases) ELSE <<>>]),
        warnings |-> warnings \o FlattenSeq([i \in DOMAIN blocks |->
            IF Taken(blocks[i]) THEN <<>> ELSE <<blocks[i].line>>])]

ImportedIsParsed == imported # Nothing => imported = [p \in Parsers |-> Parsed(p)]

(* The inductive invariant. *)
ParserInv ==
    /\ text \in Seq(Lines)
    /\ BlocksMeetText
    /\ CurrentIsLatest
    /\ Warned
    /\ ImportedIsParsed

LEMMA InvInitially ==
    ASSUME ParserInit
    PROVE  ParserInv
<1>1. text = <<>> /\ blocks = <<>> /\ current = 0 /\ warnings = <<>> /\ imported = Nothing
  BY DEF ParserInit
<1>2. Sections = {} /\ Unheeded = {}
  BY <1>1 DEF Sections, Unheeded, Heeded
<1>3. BlocksMeetText
  <2>1. blocks \in Seq(Block) /\ Len(blocks) = 0
    BY <1>1
  <2> QED BY <1>2, <2>1 DEF BlocksMeetText
<1>4. text \in Seq(Lines)
  BY <1>1
<1>5. Warned
  BY <1>1, <1>2, ListsNothing DEF Warned
<1> QED BY <1>1, <1>2, <1>3, <1>4, <1>5 DEF ParserInv, CurrentIsLatest, ImportedIsParsed

(* What keeps the text keeps the invariant: Finish, which sets the result to
   what it computes, and a step that changes nothing. *)
LEMMA InvUnread ==
    ASSUME ParserInv, UNCHANGED <<text, blocks, current, warnings>>,
           imported' = imported \/ imported' = [p \in Parsers |-> Parsed(p)]
    PROVE  ParserInv'
<1>1. BlocksMeetText'
  <2>1. Sections' = Sections /\ \A i : Opens(i)' <=> Opens(i)
    BY DEF Opens, Sections
  <2>2. ASSUME NEW i PROVE Filled(i)' = Filled(i)
    BY DEF Filled, Fills, Body, Sections
  <2>3. ASSUME NEW b \in 1..Len(blocks) PROVE MeetsText(b)'
    <3>1. PICK i : i = blocks[b].line
      OBVIOUS
    <3>2. MeetsText(b)
      BY DEF ParserInv, BlocksMeetText
    <3> QED BY <2>1, <2>2, <3>1, <3>2, MeetsTextAt DEF MeetsText
  <2> QED BY <2>1, <2>3 DEF ParserInv, BlocksMeetText
<1>2. CurrentIsLatest'
  BY DEF ParserInv, CurrentIsLatest, Latest, Opens, Sections
<1>3. Warned'
  <2>1. Unheeded' = Unheeded
    BY DEF Unheeded, Heeded, Opens, Fills, Body, Sections
  <2> QED BY <2>1 DEF ParserInv, Warned
<1>4. ImportedIsParsed'
  <2>1. \A p \in Parsers : Parsed(p)' = Parsed(p)
    BY DEF Parsed
  <2> QED BY <2>1 DEF ParserInv, ImportedIsParsed
<1> QED BY <1>1, <1>2, <1>3, <1>4 DEF ParserInv

(* The blocks and the warnings meet the text, line by line. *)
LEMMA ParserInvariant == ParserSpec => []ParserInv
<1>1. ParserInit => ParserInv
  BY InvInitially
<1>2. ParserInv /\ [ParserNext]_parserVars => ParserInv'
  <2> SUFFICES ASSUME ParserInv, [ParserNext]_parserVars PROVE ParserInv'
    OBVIOUS
  <2>1. CASE UNCHANGED parserVars
    BY <2>1, InvUnread DEF parserVars
  <2>2. CASE Finish
    <3>1. imported' = [p \in Parsers |-> Parsed(p)]
      BY <2>2 DEF Finish, Parsed
    <3> QED BY <2>2, <3>1, InvUnread DEF Finish
  <2>3. ASSUME NEW line \in Lines, ReadLine(line) PROVE ParserInv'
    <3>1. /\ text \in Seq(Lines) /\ BlocksMeetText /\ CurrentIsLatest /\ Warned
      BY DEF ParserInv
    <3>2. text' \in Seq(Lines) /\ imported' = Nothing
      BY <2>3, <3>1, ReadText, LineAdded
    <3>3. BlocksMeetText' /\ CurrentIsLatest'
      BY <2>3, <3>1, HostStep, FieldStep, HostWithoutAliasStep, OtherLineStep DEF ReadLine
    <3>4. Warned'
      BY <2>3, <3>1, WarnedStep
    <3> QED BY <3>2, <3>3, <3>4 DEF ParserInv, ImportedIsParsed
  <2> QED BY <2>1, <2>2, <2>3 DEF ParserNext
<1> QED BY <1>1, <1>2, PTL DEF ParserSpec

(* The parser's state has its type for every text: blocks have aliases, fields
   and the number of a line of the text (parseSshConfig). *)
THEOREM ParserTypeCorrect == ParserSpec => []ParserTypeOK
<1>1. ASSUME ParserInv PROVE ParserTypeOK
  <2>1. text \in Seq(Lines) /\ blocks \in Seq(Block)
    BY <1>1 DEF ParserInv, BlocksMeetText
  <2>2. current \in 0..Len(blocks)
    BY <1>1, <2>1 DEF ParserInv, CurrentIsLatest
  <2>3. ASSUME NEW i \in DOMAIN blocks
        PROVE  /\ blocks[i].aliases \in Seq(STRING) \ {<<>>}
               /\ DOMAIN blocks[i].values \subseteq Fields
               /\ blocks[i].values \in [DOMAIN blocks[i].values -> Seq(STRING)]
               /\ blocks[i].line \in DOMAIN text
    <3>1. blocks[i] \in Block /\ MeetsText(i)
      BY <1>1, <2>1 DEF ParserInv, BlocksMeetText
    <3>2. blocks[i].line \in Sections /\ blocks[i].values = Filled(blocks[i].line)
      BY <3>1 DEF MeetsText, Opens
    <3> QED BY <2>1, <3>1, <3>2, GivenTyped DEF Block, Sections
  <2>4. warnings \in Seq(DOMAIN text)
    <3>1. warnings \in Seq(Unheeded) /\ Unheeded \subseteq DOMAIN text
      BY <1>1 DEF ParserInv, Warned, Lists, Unheeded
    <3> QED BY <3>1
  <2>5. imported = Nothing \/ DOMAIN imported = Parsers
    BY <1>1 DEF ParserInv, ImportedIsParsed
  <2> QED BY <2>1, <2>2, <2>3, <2>4, <2>5 DEF ParserTypeOK
<1> QED BY <1>1, ParserInvariant, PTL

-----------------------------------------------------------------------------
(* The result and the text. *)

LEMMA TakenIsImportable ==
    ASSUME BlocksMeetText, NEW p, NEW b \in 1..Len(blocks)
    PROVE  Accepts(p, blocks[b].values, blocks[b].aliases) <=> Imports(p, blocks[b].line)
BY DEF BlocksMeetText, MeetsText, Opens, Accepts, Imports, Wildcard

LEMMA ImportableOpens ==
    ASSUME NEW p, NEW i \in Sections, Imports(p, i)
    PROVE  Opens(i)
BY DEF Opens, Imports

(* The servers of the blocks are those of the text. *)
LEMMA HostsOfText ==
    ASSUME text \in Seq(Lines), BlocksMeetText, NEW p
    PROVE  LET ServersOf(i) == IF i \in Sections /\ Imports(p, i)
                               THEN Items(p, Filled(i), text[i].args) ELSE <<>>
           IN Parsed(p).hosts = FlattenSeq([i \in DOMAIN text |-> ServersOf(i)])
<1> DEFINE ServersOf(i) == IF i \in Sections /\ Imports(p, i)
                           THEN Items(p, Filled(i), text[i].args) ELSE <<>>
           Taken(b) == IF Accepts(p, blocks[b].values, blocks[b].aliases)
                       THEN Items(p, blocks[b].values, blocks[b].aliases) ELSE <<>>
           n == Len(text)
           m == Len(blocks)
           X == {Item(p, Filled(i), alias) : i \in 1..n, alias \in STRING}
           all == [i \in 1..n |-> ServersOf(i)]
           some == [b \in 1..m |-> Taken(b)]
           at == [b \in 1..m |-> blocks[b].line]
<1>1. n \in Nat /\ m \in Nat /\ DOMAIN text = 1..n /\ DOMAIN blocks = 1..m
  BY DEF BlocksMeetText
<1>2. \A i \in 1..n : ServersOf(i) \in Seq(X)
  <2> TAKE i \in 1..n
  <2>1. text[i].args \in Seq(STRING)
    BY <1>1
  <2>2. Items(p, Filled(i), text[i].args) \in Seq(X)
    <3> DEFINE l == Len(text[i].args)
               items == [k \in 1..l |-> Item(p, Filled(i), text[i].args[k])]
    <3>1. l \in Nat /\ DOMAIN text[i].args = 1..l
      BY <2>1
    <3>2. \A k \in 1..l : Item(p, Filled(i), text[i].args[k]) \in X
      BY <2>1
    <3>3. Items(p, Filled(i), text[i].args) = items
      BY <3>1 DEF Items
    <3> HIDE DEF X, l
    <3> QED BY <3>1, <3>2, <3>3
  <2>3. <<>> \in Seq(X)
    OBVIOUS
  <2> HIDE DEF X
  <2> QED BY <2>2, <2>3
<1>3. \A b \in 1..m : /\ blocks[b].line \in Sections /\ blocks[b].line \in 1..n
                      /\ Taken(b) = ServersOf(blocks[b].line)
  <2> TAKE b \in 1..m
  <2>1. /\ blocks[b].line \in Sections
        /\ blocks[b].aliases = text[blocks[b].line].args
        /\ blocks[b].values = Filled(blocks[b].line)
    BY DEF BlocksMeetText, MeetsText, Opens
  <2>2. blocks[b].line \in 1..n
    BY <1>1, <2>1 DEF Sections
  <2>3. Accepts(p, blocks[b].values, blocks[b].aliases) <=> Imports(p, blocks[b].line)
    BY TakenIsImportable
  <2> QED BY <2>1, <2>2, <2>3
<1>4. ASSUME NEW j \in 1..n, \A b \in 1..m : blocks[b].line # j PROVE ServersOf(j) = <<>>
  <2> SUFFICES ASSUME j \in Sections, Imports(p, j) PROVE FALSE
    OBVIOUS
  <2>1. Opens(j)
    BY ImportableOpens
  <2> QED BY <1>4, <2>1 DEF BlocksMeetText
<1>5. Parsed(p).hosts = FlattenSeq(some)
  BY <1>1 DEF Parsed
<1> HIDE DEF ServersOf, Taken, X, n, m
<1>6. /\ all \in Seq(Seq(X)) /\ Len(all) = n
      /\ some \in Seq(Seq(X)) /\ Len(some) = m
      /\ at \in [1..m -> 1..n]
  <2>1. \A b \in 1..m : Taken(b) \in Seq(X)
    BY <1>2, <1>3
  <2>2. all \in Seq(Seq(X)) /\ Len(all) = n
    BY <1>1, <1>2
  <2>3. some \in Seq(Seq(X)) /\ Len(some) = m
    BY <1>1, <2>1
  <2>4. at \in [1..m -> 1..n]
    BY <1>3
  <2> QED BY <2>2, <2>3, <2>4
<1>7. Fits(all, some, at)
  <2>1. \A b \in 1..m : some[b] = all[at[b]]
    BY <1>3
  <2>2. \A b, c \in 1..m : b < c => at[b] < at[c]
    BY DEF BlocksMeetText, m
  <2>3. \A j \in 1..n : (\A b \in 1..m : at[b] # j) => all[j] = <<>>
    BY <1>4
  <2> HIDE DEF all, some, at
  <2> QED BY <1>6, <2>1, <2>2, <2>3 DEF Fits
<1>8. FlattenSeq(all) = FlattenSeq(some)
  <2> HIDE DEF all, some, at
  <2> QED BY <1>6, <1>7, FlattenGaps
<1>9. FlattenSeq([i \in DOMAIN text |-> ServersOf(i)]) = FlattenSeq(all)
  BY <1>1
<1> QED BY <1>5, <1>8, <1>9 DEF ServersOf

(* Below no Match line a section has the values the parsers add to it. *)
LEMMA GivesIsFills ==
    ASSUME text \in Seq(Lines), BelowMatch = {}, NEW i \in Sections, NEW f \in Fields
    PROVE  Gives(i, f) = Fills(i, f)
<1> DEFINE n == Len(text)
<1>1. n \in Nat /\ DOMAIN text = 1..n /\ i \in 1..n
  BY DEF Sections
<1>2. ASSUME NEW j \in Gives(i, f) PROVE j \in Fills(i, f)
  <2>1. j \in Section(i) /\ text[j].directive = f /\ text[j].args # <<>>
    BY <1>2 DEF Gives, FieldLines
  <2>2. Sections \subseteq Ends
    BY DEF Sections, Ends
  <2>3. j \in Body(i)
    BY <2>1, <2>2 DEF Section, Body
  <2> QED BY <2>1, <2>3 DEF Fills
<1>3. ASSUME NEW j \in Fills(i, f) PROVE j \in Gives(i, f)
  <2>1. /\ j \in (i + 1)..n /\ Sections \intersect ((i + 1)..j) = {}
        /\ text[j].directive = f /\ text[j].args # <<>>
    BY <1>3 DEF Fills, Body
  <2>2. j \in FieldLines
    BY <1>1, <2>1 DEF FieldLines
  <2>3. ASSUME NEW m \in Ends, m \in (i + 1)..j PROVE FALSE
    <3>1. m \in 1..n /\ m \notin Sections
      BY <1>1, <2>1, <2>3
    <3>2. text[m].directive = "match"
      BY <1>1, <3>1 DEF Ends, Sections
    <3>3. Sections \intersect (m..j) = {}
      BY <1>1, <2>1, <2>3
    <3>4. m \in 1..j
      BY <1>1, <2>1, <2>3
    <3> QED BY <2>2, <3>2, <3>3, <3>4 DEF BelowMatch
  <2>4. j \in Section(i)
    BY <2>1, <2>3 DEF Section
  <2> QED BY <2>1, <2>2, <2>4 DEF Gives
<1> QED BY <1>2, <1>3

LEMMA GivenIsFilled ==
    ASSUME text \in Seq(Lines), BelowMatch = {}, NEW i \in Sections
    PROVE  Given(i) = Filled(i) /\ \A p : Importable(p, i) <=> Imports(p, i)
<1>1. \A f \in Fields : Gives(i, f) = Fills(i, f)
  BY GivesIsFills
<1>2. Given(i) = [f \in {f \in Fields : Gives(i, f) # {}} |-> text[First(Gives(i, f))].args]
  BY DEF Given, First
<1>3. {f \in Fields : Gives(i, f) # {}} = {f \in Fields : Fills(i, f) # {}}
  BY <1>1
<1>4. \A f \in {f \in Fields : Fills(i, f) # {}} :
          text[First(Gives(i, f))].args = text[First(Fills(i, f))].args
  BY <1>1
<1>5. Given(i) = Filled(i)
  BY <1>2, <1>3, <1>4, GivenIs
<1> QED BY <1>5 DEF Importable, Imports

(* For every text without a value below a Match line the servers that either
   parser imports are those of its sections, in their order, each with the first
   values its own section gives (parseSshConfig of the server and of the page). *)
THEOREM HostsMeetTextHolds == ParserSpec => []HostsMeetText
<1>1. ASSUME ParserInv PROVE HostsMeetText
  <2> DEFINE Told(p, i) == IF i \in Sections /\ Importable(p, i)
                           THEN Items(p, Given(i), text[i].args) ELSE <<>>
             Made(p, i) == IF i \in Sections /\ Imports(p, i)
                           THEN Items(p, Filled(i), text[i].args) ELSE <<>>
  <2> SUFFICES ASSUME imported # Nothing, BelowMatch = {}, NEW p \in Parsers
               PROVE  imported[p].hosts = FlattenSeq([i \in DOMAIN text |-> Told(p, i)])
    BY DEF HostsMeetText, Meets
  <2>1. imported[p] = Parsed(p)
    BY <1>1 DEF ParserInv, ImportedIsParsed
  <2>2. text \in Seq(Lines) /\ BlocksMeetText
    BY <1>1 DEF ParserInv
  <2>3. Parsed(p).hosts = FlattenSeq([i \in DOMAIN text |-> Made(p, i)])
    BY <2>2, HostsOfText
  <2>4. \A i \in DOMAIN text : Told(p, i) = Made(p, i)
    BY <2>2, GivenIsFilled
  <2> HIDE DEF Told, Made
  <2>5. [i \in DOMAIN text |-> Told(p, i)] = [i \in DOMAIN text |-> Made(p, i)]
    BY <2>4
  <2> QED BY <2>1, <2>3, <2>5
<1> QED BY <1>1, ParserInvariant, PTL

(* The lines the parser warns about at the end. *)
Refused(p) == {i \in Sections : Opens(i) /\ ~ Imports(p, i)}

(* The warnings are the lines not heeded and those of the sections refused, each
   once. *)
LEMMA WarningsOfText ==
    ASSUME text \in Seq(Lines), BlocksMeetText, Warned, NEW p
    PROVE  Lists(Parsed(p).warnings, Unheeded \union Refused(p))
<1> DEFINE m == Len(blocks)
           T == {b \in 1..m : Accepts(p, blocks[b].values, blocks[b].aliases)}
           at == [b \in 1..m |-> blocks[b].line]
           parts == [b \in 1..m |-> IF b \in T THEN <<>> ELSE <<at[b]>>]
           late == {at[b] : b \in (1..m) \ T}
<1>1. m \in Nat /\ DOMAIN blocks = 1..m
  BY DEF BlocksMeetText
<1>2. Parsed(p).warnings = warnings \o FlattenSeq(parts)
  <2>1. parts = [i \in DOMAIN blocks |-> IF Accepts(p, blocks[i].values, blocks[i].aliases)
                                         THEN <<>> ELSE <<blocks[i].line>>]
    BY <1>1
  <2> HIDE DEF parts
  <2> QED BY <2>1 DEF Parsed
<1>3. \A b \in 1..m : at[b] \in Sections /\ Opens(at[b]) /\ at[b] \in Nat
  BY DEF BlocksMeetText, MeetsText, Opens, Sections
<1>4. \A b, c \in 1..m : at[b] = at[c] => b = c
  <2> TAKE b, c \in 1..m
  <2> HAVE at[b] = at[c]
  <2>1. ~ (b < c) /\ ~ (c < b)
    BY <1>3 DEF BlocksMeetText
  <2> QED BY <1>1, <2>1
<1>5. late = Refused(p)
  <2>1. \A b \in 1..m : b \in T <=> Imports(p, at[b])
    BY TakenIsImportable
  <2>2. late \subseteq Refused(p)
    <3> HIDE DEF T, at
    <3> QED BY <1>3, <2>1 DEF Refused
  <2>3. ASSUME NEW i \in Refused(p) PROVE i \in late
    <3>1. Opens(i) /\ i \in Sections /\ ~ Imports(p, i)
      BY <2>3 DEF Refused
    <3>2. PICK b \in 1..m : at[b] = i
      BY <3>1 DEF BlocksMeetText
    <3> HIDE DEF T, at
    <3> QED BY <2>1, <3>1, <3>2
  <2> HIDE DEF late
  <2> QED BY <2>2, <2>3
<1>6. Lists(FlattenSeq(parts), late)
  <2>1. at \in [1..m -> Nat]
    BY <1>3
  <2> HIDE DEF T, at, m
  <2>2. Lists(FlattenSeq(Singles(m, T, at)), Kept(m, T, at))
    BY <1>1, <1>4, <2>1, FlattenSingles
  <2>3. parts = Singles(m, T, at) /\ late = Kept(m, T, at)
    BY DEF Singles, Kept
  <2> HIDE DEF parts, late
  <2> QED BY <2>2, <2>3
<1>7. Unheeded \intersect Refused(p) = {}
  BY DEF Unheeded, Heeded, Refused
<1> HIDE DEF parts, late
<1>8. Lists(warnings \o FlattenSeq(parts), Unheeded \union Refused(p))
  BY <1>5, <1>6, <1>7, ListsBoth DEF Warned
<1> QED BY <1>2, <1>8

(* The lines without a warning: blank, or of a section that is imported, or
   giving a field of a section with an alias. *)
Silent(p, j) ==
    \/ text[j].directive = Nothing
    \/ j \in Sections /\ Imports(p, j)
    \/ \E i \in Sections : text[i].args # <<>> /\ \E f \in Fields : j \in Fills(i, f)

LEMMA WarningsCounted ==
    ASSUME ParserInv, imported # Nothing, NEW p \in Parsers, NEW j \in DOMAIN text
    PROVE  WarningsAt(p, j) = IF Silent(p, j) THEN 0 ELSE 1
<1>1. imported[p] = Parsed(p)
  BY DEF ParserInv, ImportedIsParsed
<1>2. Lists(Parsed(p).warnings, Unheeded \union Refused(p))
  BY WarningsOfText DEF ParserInv
<1>3. Cardinality({n \in DOMAIN imported[p].warnings : imported[p].warnings[n] = j}) =
          IF j \in Unheeded \union Refused(p) THEN 1 ELSE 0
  <2>1. PICK w, A : w = imported[p].warnings /\ A = Unheeded \union Refused(p)
    OBVIOUS
  <2>2. Lists(w, A)
    BY <1>1, <1>2, <2>1
  <2>3. Cardinality({n \in DOMAIN w : w[n] = j}) = IF j \in A THEN 1 ELSE 0
    BY <2>2, CountInList
  <2> QED BY <2>1, <2>3
<1>4. j \in Unheeded \union Refused(p) <=> ~ Silent(p, j)
  <2>1. j \in Sections <=> text[j].directive = "host"
    BY DEF Sections
  <2>2. \A i \in Sections, f \in Fields : j \in Fills(i, f) => text[j].directive = f
    BY DEF Fills
  <2>3. j \in Unheeded <=>
            /\ text[j].directive # Nothing
            /\ ~ Opens(j)
            /\ ~ \E i \in Sections : text[i].args # <<>> /\ \E f \in Fields : j \in Fills(i, f)
    BY DEF Unheeded, Heeded, Opens
  <2>4. j \in Sections /\ Imports(p, j) => Opens(j)
    BY ImportableOpens
  <2>5. j \in Refused(p) <=> Opens(j) /\ ~ Imports(p, j)
    BY DEF Refused, Opens
  <2>6. Opens(j) => j \in Sections
    BY DEF Opens
  <2>7. j \in Sections => /\ text[j].directive # Nothing
                          /\ \A i \in Sections, f \in Fields : j \notin Fills(i, f)
    BY <2>1, <2>2, NothingIsNoDirective
  <2> QED BY <2>3, <2>4, <2>5, <2>6, <2>7 DEF Silent
<1> QED BY <1>3, <1>4 DEF WarningsAt

(* Below no Match line the silent lines are those that take effect and the three
   kinds the parsers pass over. *)
LEMMA SilentLines ==
    ASSUME text \in Seq(Lines), BelowMatch = {}, NEW p, NEW j \in DOMAIN text
    PROVE  /\ TakesEffect(p, j) => Silent(p, j)
           /\ ~ TakesEffect(p, j) =>
                  (Silent(p, j) <=> text[j].directive = Nothing \/ Repeated(j) \/ InRefused(p, j))
<1>1. \A i \in Sections, f \in Fields : Gives(i, f) = Fills(i, f)
  BY GivesIsFills
<1>2. \A i \in Sections : Importable(p, i) <=> Imports(p, i)
  BY GivenIsFilled
<1>3. \A i \in Sections, f \in Fields : Gives(i, f) \subseteq Nat
  <2> TAKE i \in Sections, f \in Fields
  <2>1. Len(text) \in Nat /\ i \in 1..Len(text)
    BY DEF Sections
  <2> QED BY <1>1, <2>1 DEF Fills, Body
<1>4. TakesEffect(p, j) => Silent(p, j)
  BY <1>1, <1>2 DEF TakesEffect, Silent, Importable
<1>5. Repeated(j) \/ InRefused(p, j) => Silent(p, j)
  BY <1>1 DEF Repeated, InRefused, Silent
<1>6. ASSUME ~ TakesEffect(p, j), Silent(p, j), text[j].directive # Nothing, ~ InRefused(p, j)
      PROVE  Repeated(j)
  <2>1. PICK i \in Sections, f \in Fields : text[i].args # <<>> /\ j \in Gives(i, f)
    BY <1>1, <1>2, <1>6 DEF Silent, TakesEffect
  <2>2. Importable(p, i)
    BY <1>6, <2>1 DEF InRefused
  <2>3. PICK k \in Gives(i, f) : ~ (j <= k)
    BY <1>6, <2>1, <2>2 DEF TakesEffect
  <2>4. k < j
    BY <1>3, <2>1, <2>3
  <2> QED BY <2>1, <2>3, <2>4 DEF Repeated
<1>7. text[j].directive = Nothing => Silent(p, j)
  BY DEF Silent
<1> QED BY <1>4, <1>5, <1>6, <1>7

(* For every text without a value below a Match line no line has two warnings,
   none that takes effect has one, and every other line has one but the blank
   ones, the further values of a field and the values of refused sections
   (unsupportedWarning and the warnings after the last line). *)
THEOREM LinesAccountedForHolds == ParserSpec => []LinesAccountedFor
<1>1. ASSUME ParserInv PROVE LinesAccountedFor
  <2> SUFFICES ASSUME imported # Nothing, BelowMatch = {},
                      NEW p \in Parsers, NEW j \in DOMAIN text
               PROVE  /\ TakesEffect(p, j) => WarningsAt(p, j) = 0
                      /\ ~ TakesEffect(p, j) =>
                             WarningsAt(p, j) =
                                 IF text[j].directive = Nothing \/ Repeated(j) \/ InRefused(p, j)
                                 THEN 0 ELSE 1
    BY DEF LinesAccountedFor
  <2>1. WarningsAt(p, j) = IF Silent(p, j) THEN 0 ELSE 1
    BY <1>1, WarningsCounted
  <2>2. text \in Seq(Lines)
    BY <1>1 DEF ParserInv
  <2> QED BY <2>1, <2>2, SilentLines
<1> QED BY <1>1, ParserInvariant, PTL

-----------------------------------------------------------------------------
(* The session. *)

USE StartsAssumption, OutputAssumption, HomeAssumption

(* The words of a command line up to && and after it are sequences of words. *)
LEMMA EndIsPosition ==
    ASSUME NEW words \in Seq(Words)
    PROVE  End(words) \in 1..(Len(words) + 1)
<1> DEFINE I == {i \in 1..Len(words) : words[i] = "&&"}
<1>1. CASE Contains(words, "&&")
  <2>1. I # {} /\ I \in SUBSET Nat
    BY <1>1 DEF Contains
  <2>2. PICK n \in I : \A m \in I : n <= m
    BY <2>1, LeastNumber
  <2>3. (CHOOSE x \in I : \A y \in I : x =< y) \in I
    BY <2>2
  <2>4. End(words) = CHOOSE x \in I : \A y \in I : x =< y
    BY <1>1, <2>1 DEF End, SelectInSeq, Min
  <2> QED BY <2>3, <2>4
<1>2. CASE ~ Contains(words, "&&")
  BY <1>2 DEF End
<1> QED BY <1>1, <1>2

LEMMA RemainingWords ==
    ASSUME NEW words \in Seq(Words)
    PROVE  Remaining(words) \in Seq(Words)
<1>1. End(words) \in 1..(Len(words) + 1)
  BY EndIsPosition
<1>2. \A i \in (End(words) + 1)..Len(words) : words[i] \in Words
  BY <1>1
<1> QED BY <1>1, <1>2 DEF Remaining

LEMMA CommandLineWords ==
    ASSUME NEW c \in Starts
    PROVE  buildDetachedCommand(c) \in Seq(Words)
<1>1. <<"mkdir", "-p", "$HOME/.cache/ssh-launchpad">> \in Seq(Words)
  BY DEF Words
<1>2. <<"nohup", "sh", "-lc", "command">> \in Seq(Words)
  BY DEF Words
<1>3. cwd(c) \in Seq(Words)
  <2>1. WorkDir[c] \in Words /\ "cd" \in Words /\ "&&" \in Words
    BY DEF Words, Dirs
  <2>2. <<"cd", WorkDir[c], "&&">> \in Seq(Words) /\ <<>> \in Seq(Words)
    BY <2>1
  <2> QED BY <2>2 DEF cwd
<1> QED BY <1>1, <1>2, <1>3 DEF buildDetachedCommand

-----------------------------------------------------------------------------
(* What the properties need besides: the starts whose line a shell has taken are
   those with a job, a command writes only in a shell, and a start that is
   reported as done has received something. *)
JobsSpawned == \A c \in Calls : job[c] # None <=> c \in Starts /\ shell[c] # "none"
Spoken == \A c \in Calls : written[c] > 0 => shell[c] # "none"
PidCame == \A c \in Starts : result[c] = "ok" => received[c] > 0

\* A character that is cut was not complete before, a start has none; and until
\* the limit is reached, what is kept is not shorter than what was received.
TornFirst ==
    \A c \in Calls : /\ torn[c] # 0 => torn[c] <= received[c] + 1
                     /\ half[c] => torn[c] # 0
                     /\ c \in Starts => torn[c] = 0
NothingLeftOut == \A c \in Calls : Len(stdout[c]) < MaxOutput => received[c] <= Len(stdout[c])

-----------------------------------------------------------------------------
(* Type correctness. *)

LEMMA ClientTyped ==
    ASSUME TypeOK,
           link' \in {"up", "lost"}, channel' \in [Calls -> Channels],
           result' \in [Calls -> Results \union {None}],
           UNCHANGED <<output, remote>>
    PROVE  TypeOK'
BY DEF TypeOK, output, remote

(* What the background job does to its list leaves a list and a directory. *)
LEMMA RunKeepsJob ==
    ASSUME TypeOK, NEW c \in Starts, job[c] \in Jobs, RunCommand(c)
    PROVE  \E next \in Jobs : job' = [job EXCEPT ![c] = next]
<1> DEFINE words == FirstCommand(job[c].words)
           fails == Head(words) = "mkdir" /\ Contains(words, "-lc")
           left == IF fails THEN <<>> ELSE Remaining(job[c].words)
           dir == IF Head(words) = "cd" THEN WorkDir[c] ELSE job[c].dir
<1>1. left \in Seq(Words)
  <2>1. <<>> \in Seq(Words)
    OBVIOUS
  <2>2. job[c].words \in Seq(Words)
    BY DEF Jobs
  <2> HIDE DEF fails
  <2> QED BY <2>1, <2>2, RemainingWords
<1>2. dir \in Dirs
  <2> HIDE DEF words
  <2> QED BY DEF Jobs, Dirs
<1>3. job' = [job EXCEPT ![c].words = left, ![c].dir = dir]
  BY DEF RunCommand
<1> HIDE DEF left, dir
<1> DEFINE next == [[job[c] EXCEPT !.words = left] EXCEPT !.dir = dir]
<1>4. next \in Jobs
  BY <1>1, <1>2 DEF Jobs
<1>5. job' = [job EXCEPT ![c] = next]
  BY <1>3 DEF TypeOK
<1> QED BY <1>4, <1>5

(* A list is continued by as much of another as there is room for. *)
Appended(old, units, limit) == old \o Slice(units, limit - Len(old))

Continues(new, S, old, units, limit) ==
    /\ new \in Seq(S)
    /\ Len(new) = IF Len(old) + Len(units) < limit THEN Len(old) + Len(units) ELSE limit
    /\ \A i \in 1..Len(old) : new[i] = old[i]
    /\ \A i \in 1..Len(units) : Len(old) + i <= Len(new) => new[Len(old) + i] = units[i]

LEMMA SliceAppended ==
    ASSUME NEW S, NEW old \in Seq(S), NEW units \in Seq(S),
           NEW limit \in Nat, Len(old) < limit
    PROVE  Continues(Appended(old, units, limit), S, old, units, limit)
<1>0. PICK new : new = Appended(old, units, limit)
  OBVIOUS
<1>1. PICK k, l, m : /\ k = Len(old) /\ l = Len(units)
                     /\ m = IF l < limit - k THEN l ELSE limit - k
  OBVIOUS
<1>2. k \in Nat /\ l \in Nat /\ k < limit
  BY <1>1
<1>3. m \in Nat /\ m <= l /\ k + m = IF k + l < limit THEN k + l ELSE limit
  BY <1>1, <1>2
<1>4. PICK cut : cut = [i \in 1..m |-> units[i]]
  OBVIOUS
<1>5. cut \in Seq(S) /\ Len(cut) = m /\ \A i \in 1..m : cut[i] = units[i]
  BY <1>1, <1>2, <1>3, <1>4
<1>6. Slice(units, limit - Len(old)) = cut
  BY <1>1, <1>4 DEF Slice
<1>7. /\ new \in Seq(S) /\ Len(new) = k + m
      /\ \A i \in 1..k : new[i] = old[i]
      /\ \A i \in 1..m : new[k + i] = cut[i]
  <2>1. new = old \o cut
    BY <1>0, <1>6 DEF Appended
  <2>2. /\ Len(old \o cut) = Len(old) + Len(cut)
        /\ \A i \in 1..Len(old) + Len(cut) :
               (old \o cut)[i] = IF i <= Len(old) THEN old[i] ELSE cut[i - Len(old)]
    BY <1>5, ConcatProperties
  <2>3. new \in Seq(S) /\ Len(new) = k + m
    <3>1. old \o cut \in Seq(S)
      BY <1>5
    <3> QED BY <1>1, <1>5, <2>1, <2>2, <3>1
  <2>4. ASSUME NEW i \in 1..k PROVE new[i] = old[i]
    <3>1. i \in 1..Len(old) + Len(cut) /\ i <= Len(old)
      BY <1>1, <1>2, <1>3, <1>5
    <3> QED BY <2>1, <2>2, <3>1
  <2>5. ASSUME NEW i \in 1..m PROVE new[k + i] = cut[i]
    <3>1. k + i \in 1..Len(old) + Len(cut) /\ ~ (k + i <= Len(old)) /\ (k + i) - Len(old) = i
      BY <1>1, <1>2, <1>3, <1>5
    <3> QED BY <2>1, <2>2, <3>1
  <2> QED BY <2>3, <2>4, <2>5
<1>8. ASSUME NEW i \in 1..l, k + i <= Len(new) PROVE new[k + i] = units[i]
  <2>1. i \in 1..m
    BY <1>2, <1>3, <1>7, <1>8
  <2> QED BY <1>5, <1>7, <2>1
<1> QED BY <1>0, <1>1, <1>3, <1>7, <1>8 DEF Continues

(* A chunk's characters. *)
ChunkLength(n, h) == IF h THEN n + 1 ELSE n

LEMMA ChunkIs ==
    ASSUME TypeOK, NEW c \in Calls, NEW n \in 0..MaxWritten, NEW h \in BOOLEAN, Data(c, n, h)
    PROVE  /\ Chunk(c, n, h) \in Seq(0..MaxWritten)
           /\ Len(Chunk(c, n, h)) = ChunkLength(n, h)
           /\ \A i \in 1..n : ~ half[c] => Chunk(c, n, h)[i] = received[c] + i
<1>1. /\ received[c] \in Nat /\ n \in Nat /\ MaxWritten \in Nat /\ half[c] \in BOOLEAN
      /\ received[c] + n <= MaxWritten
  BY OutputAssumption DEF Data, TypeOK
<1>2. PICK l : l = IF h THEN n + 1 ELSE n
  OBVIOUS
<1>3. l \in Nat /\ n <= l /\ l = ChunkLength(n, h)
  BY <1>1, <1>2 DEF ChunkLength
<1> DEFINE v(i) == IF i = n + 1 \/ (i = 1 /\ half[c]) THEN 0 ELSE received[c] + i
<1>4. \A i \in 1..l : v(i) \in 0..MaxWritten
  BY <1>1, <1>2
<1>5. \A i \in 1..n : ~ half[c] => v(i) = received[c] + i
  BY <1>1
<1>6. Chunk(c, n, h) = [i \in 1..l |-> v(i)]
  BY <1>2 DEF Chunk, Replacement
<1> HIDE DEF v
<1>7. PICK units : units = [i \in 1..l |-> v(i)]
  OBVIOUS
<1>8. units \in Seq(0..MaxWritten) /\ Len(units) = l /\ \A i \in 1..n : units[i] = v(i)
  BY <1>1, <1>3, <1>4, <1>7
<1> QED BY <1>3, <1>5, <1>6, <1>7, <1>8

(* What arrives is appended, as much of it as there is room for. *)
LEMMA DataKeeps ==
    ASSUME TypeOK, NEW c \in Calls, NEW n \in 0..MaxWritten, NEW h \in BOOLEAN, Data(c, n, h)
    PROVE  /\ stdout' \in [Calls -> Seq(0..MaxWritten)]
           /\ \A d \in Calls \ {c} : stdout'[d] = stdout[d]
           /\ Len(stdout[c]) >= MaxOutput => stdout'[c] = stdout[c]
           /\ Len(stdout[c]) < MaxOutput =>
                /\ Len(stdout'[c]) = IF Len(stdout[c]) + ChunkLength(n, h) < MaxOutput
                                     THEN Len(stdout[c]) + ChunkLength(n, h) ELSE MaxOutput
                /\ \A i \in 1..Len(stdout[c]) : stdout'[c][i] = stdout[c][i]
                /\ \A i \in 1..n : ~ half[c] /\ Len(stdout[c]) + i <= Len(stdout'[c])
                       => stdout'[c][Len(stdout[c]) + i] = received[c] + i
<1>0. PICK l : l = ChunkLength(n, h)
  OBVIOUS
<1>1. /\ stdout \in [Calls -> Seq(0..MaxWritten)] /\ Len(stdout[c]) \in Nat
      /\ MaxOutput \in Nat /\ n \in Nat /\ l \in Nat /\ n <= l
  BY <1>0, OutputAssumption DEF TypeOK, ChunkLength
<1>2. Keep(c, Chunk(c, n, h))
  BY DEF Data
<1>3. CASE ~ (Len(stdout[c]) < MaxOutput)
  <2>1. stdout' = stdout
    BY <1>2, <1>3 DEF Keep
  <2> QED BY <1>1, <1>3, <2>1
<1>4. CASE Len(stdout[c]) < MaxOutput
  <2>1. PICK units : units = Chunk(c, n, h)
    OBVIOUS
  <2>2. /\ units \in Seq(0..MaxWritten) /\ Len(units) = l
        /\ \A i \in 1..n : ~ half[c] => units[i] = received[c] + i
    BY <1>0, <2>1, ChunkIs
  <2>3. PICK new : new = stdout[c] \o Slice(units, MaxOutput - Len(stdout[c]))
    OBVIOUS
  <2>4. stdout' = [stdout EXCEPT ![c] = new]
    BY <1>2, <1>4, <2>1, <2>3 DEF Keep
  <2>5. /\ new \in Seq(0..MaxWritten)
        /\ Len(new) = IF Len(stdout[c]) + l < MaxOutput THEN Len(stdout[c]) + l ELSE MaxOutput
        /\ \A i \in 1..Len(stdout[c]) : new[i] = stdout[c][i]
        /\ \A i \in 1..l : Len(stdout[c]) + i <= Len(new)
               => new[Len(stdout[c]) + i] = units[i]
    <3>1. Continues(Appended(stdout[c], units, MaxOutput), 0..MaxWritten,
                    stdout[c], units, MaxOutput)
      <4>1. stdout[c] \in Seq(0..MaxWritten) /\ MaxOutput \in Nat
        BY <1>1
      <4> QED BY <1>4, <2>2, <4>1, SliceAppended
    <3>2. new = Appended(stdout[c], units, MaxOutput)
      BY <2>3 DEF Appended
    <3> QED BY <2>2, <3>1, <3>2 DEF Continues
  <2>6. stdout'[c] = new /\ \A d \in Calls \ {c} : stdout'[d] = stdout[d]
    BY <1>1, <2>4
  <2>7. stdout' \in [Calls -> Seq(0..MaxWritten)]
    BY <1>1, <2>4, <2>5
  <2>8. ASSUME NEW i \in 1..n, ~ half[c], Len(stdout[c]) + i <= Len(new)
        PROVE  new[Len(stdout[c]) + i] = received[c] + i
    <3>1. i \in 1..l
      BY <1>1
    <3> QED BY <2>2, <2>5, <2>8, <3>1
  <2> QED BY <1>0, <1>1, <1>4, <2>5, <2>6, <2>7, <2>8
<1> QED BY <1>3, <1>4

(* Each step keeps the type.  That of the background job needs to know that jobs
   belong to starts. *)
LEMMA TypeStep ==
    ASSUME TypeOK, JobsSpawned, [Next]_vars
    PROVE  TypeOK'
<1>1. ASSUME Lose PROVE TypeOK'
  BY <1>1, ClientTyped DEF Lose, TypeOK
<1>2. ASSUME NEW c \in Calls, Exec(c) PROVE TypeOK'
  BY <1>2, ClientTyped DEF Exec, Settle, TypeOK, Channels, Results
<1>3. ASSUME NEW c \in Calls, Opened(c) PROVE TypeOK'
  BY <1>3, ClientTyped DEF Opened, TypeOK, Channels
<1>4. ASSUME NEW c \in Calls, OpenFailed(c) PROVE TypeOK'
  BY <1>4, ClientTyped DEF OpenFailed, Settle, TypeOK, Channels, Results
<1>5. ASSUME NEW c \in Calls, Close(c) PROVE TypeOK'
  BY <1>5, ClientTyped DEF Close, Settle, Outcome, TypeOK, Channels, Results
<1>6. ASSUME NEW c \in Calls, ChannelError(c) PROVE TypeOK'
  BY <1>6, ClientTyped DEF ChannelError, Settle, TypeOK, Channels, Results
<1>7. ASSUME NEW c \in Calls, TimeOut(c) PROVE TypeOK'
  BY <1>7, ClientTyped DEF TimeOut, Settle, TypeOK, Channels, Results
<1>8. ASSUME NEW c \in Calls, Spawn(c) PROVE TypeOK'
  <2>1. shell' \in [Calls -> {"none", "running", "exited"}]
    BY <1>8 DEF Spawn, TypeOK
  <2>2. job' \in [Calls -> Jobs \union {None}]
    <3>1. c \in Starts => [words |-> buildDetachedCommand(c), dir |-> Home] \in Jobs
      BY CommandLineWords DEF Jobs, Dirs
    <3> QED BY <1>8, <3>1 DEF Spawn, TypeOK
  <2>3. \A d \in Calls : ran'[d] # None => d \in Starts /\ shell'[d] # "none"
    BY <1>8 DEF Spawn, TypeOK
  <2> QED BY <1>8, <2>1, <2>2, <2>3 DEF Spawn, TypeOK, client, output
<1>9. ASSUME NEW c \in Calls, Exit(c) PROVE TypeOK'
  BY <1>9 DEF Exit, TypeOK, client, output
<1>10. ASSUME NEW c \in Calls, RunCommand(c) PROVE TypeOK'
  <2>1. c \in Starts /\ shell[c] # "none" /\ job[c] \in Jobs
    BY <1>10 DEF RunCommand, JobsSpawned, TypeOK
  <2>2. job' \in [Calls -> Jobs \union {None}]
    BY <1>10, <2>1, RunKeepsJob DEF TypeOK
  <2>3. ran' \in [Calls -> Dirs \union {None}]
    BY <1>10, <2>1 DEF RunCommand, TypeOK, Jobs
  <2>4. \A d \in Calls : ran'[d] # None => d \in Starts /\ shell'[d] # "none"
    BY <1>10, <2>1 DEF RunCommand, TypeOK
  <2> QED BY <1>10, <2>2, <2>3, <2>4 DEF RunCommand, TypeOK, client, output
<1>11. ASSUME NEW c \in Calls, NEW n \in 1..MaxWritten, Write(c, n) PROVE TypeOK'
  <2>1. written' \in [Calls -> 0..MaxWritten] /\ \A d \in Calls : written[d] <= written'[d]
    BY <1>11 DEF Write, TypeOK
  <2>2. \A d \in Calls : received[d] \in Nat /\ written[d] \in Nat /\ written'[d] \in Nat
    BY <2>1 DEF TypeOK
  <2>3. \A d \in Calls : received[d] <= written'[d] /\ (half[d] => received[d] < written'[d])
    BY <2>1, <2>2 DEF TypeOK
  <2> QED BY <1>11, <2>1, <2>3 DEF Write, TypeOK, client, remote
<1>12. ASSUME NEW c \in Calls, NEW n \in 0..MaxWritten, NEW h \in BOOLEAN, Data(c, n, h)
       PROVE  TypeOK'
  <2>1. /\ received[c] \in Nat /\ written[c] \in 0..MaxWritten
        /\ received[c] + n <= written[c] /\ MaxWritten \in Nat
        /\ h => received[c] + n < written[c]
    BY <1>12, OutputAssumption DEF Data, TypeOK
  <2>2. /\ received' = [received EXCEPT ![c] = received[c] + n]
        /\ half' = [half EXCEPT ![c] = h] /\ written' = written
        /\ torn' = torn \/ (torn' = [torn EXCEPT ![c] = received[c] + n + 1] /\ h)
    BY <1>12 DEF Data
  <2>3. stdout' \in [Calls -> Seq(0..MaxWritten)]
    BY <1>12, DataKeeps
  <2>4. received' \in [Calls -> 0..MaxWritten] /\ half' \in [Calls -> BOOLEAN]
    BY <2>1, <2>2 DEF TypeOK
  <2>5. torn' \in [Calls -> 0..MaxWritten]
    <3>1. h => received[c] + n + 1 \in 0..MaxWritten
      BY <2>1
    <3> QED BY <2>2, <3>1 DEF TypeOK
  <2>6. \A d \in Calls : received'[d] <= written'[d] /\ (half'[d] => received'[d] < written'[d])
    BY <2>1, <2>2 DEF TypeOK
  <2> QED BY <1>12, <2>2, <2>3, <2>4, <2>5, <2>6 DEF Data, TypeOK, client, remote
<1>13. CASE UNCHANGED vars
  BY <1>13 DEF vars, TypeOK, client, output, remote
<1> QED
  BY <1>1, <1>2, <1>3, <1>4, <1>5, <1>6, <1>7, <1>8, <1>9, <1>10, <1>11, <1>12, <1>13 DEF Next

(* A step that is none of the remote side's leaves its shells and jobs alone. *)
LEMMA RemoteStep ==
    ASSUME [Next]_vars
    PROVE  \/ shell' = shell /\ job' = job
           \/ \E c \in Calls : Spawn(c) \/ Exit(c) \/ RunCommand(c)
<1>1. ASSUME NEW c \in Calls, NEW n, NEW h, Data(c, n, h) PROVE shell' = shell /\ job' = job
  BY <1>1 DEF Data, remote
<1> QED
  BY <1>1 DEF Next, vars, remote, client, output, Lose, Exec, Opened, OpenFailed, Close,
              ChannelError, TimeOut, Write

LEMMA JobsSpawnedStep ==
    ASSUME TypeOK, JobsSpawned, [Next]_vars
    PROVE  JobsSpawned'
<1> USE DEF JobsSpawned
<1>1. ASSUME NEW c \in Calls, Spawn(c) PROVE JobsSpawned'
  <2>1. CASE c \in Starts
    <3> DEFINE line == [words |-> buildDetachedCommand(c), dir |-> Home]
    <3>1. line # None
      <4>1. line \in Jobs
        BY <2>1, CommandLineWords DEF Jobs, Dirs
      <4> QED BY <4>1, NoneAssumption
    <3>2. job' = [job EXCEPT ![c] = line] /\ shell' = [shell EXCEPT ![c] = "running"]
      BY <1>1, <2>1 DEF Spawn
    <3> HIDE DEF line
    <3> QED BY <2>1, <3>1, <3>2 DEF TypeOK
  <2>2. CASE c \notin Starts
    BY <1>1, <2>2 DEF Spawn, TypeOK
  <2> QED BY <2>1, <2>2
<1>2. ASSUME NEW c \in Calls, Exit(c) PROVE JobsSpawned'
  BY <1>2 DEF Exit, TypeOK
<1>3. ASSUME NEW c \in Calls, RunCommand(c) PROVE JobsSpawned'
  <2>1. c \in Starts /\ shell[c] # "none" /\ job[c] \in Jobs
    BY <1>3 DEF RunCommand, TypeOK
  <2>2. PICK next \in Jobs : job' = [job EXCEPT ![c] = next]
    BY <1>3, <2>1, RunKeepsJob
  <2>3. job'[c] # None
    BY <2>2, NoneAssumption DEF TypeOK
  <2>4. shell' = shell
    BY <1>3 DEF RunCommand
  <2>5. \A d \in Calls \ {c} : job'[d] = job[d]
    BY <2>2 DEF TypeOK
  <2> QED BY <2>1, <2>3, <2>4, <2>5
<1> QED
  BY <1>1, <1>2, <1>3, RemoteStep

-----------------------------------------------------------------------------
(* Output. *)

LEMMA OutputStep ==
    ASSUME TypeOK, OutputIsPrefix, TornFirst, NothingLeftOut, [Next]_vars
    PROVE  OutputIsPrefix' /\ TornFirst' /\ NothingLeftOut'
<1> DEFINE outputs == <<received, half, torn, stdout>>
<1>1. ASSUME NEW c \in Calls, NEW n \in 0..MaxWritten, NEW h \in BOOLEAN, Data(c, n, h)
      PROVE  OutputIsPrefix' /\ TornFirst' /\ NothingLeftOut'
  <2>1. /\ received[c] \in Nat /\ torn[c] \in Nat /\ half[c] \in BOOLEAN
        /\ Len(stdout[c]) \in Nat /\ MaxOutput \in Nat /\ n \in Nat
    BY <1>1, OutputAssumption DEF TypeOK
  <2>2. /\ received'[c] = received[c] + n /\ half'[c] = h
        /\ torn'[c] = IF h /\ torn[c] = 0 THEN received[c] + n + 1 ELSE torn[c]
        /\ h => c \notin Starts
    BY <1>1 DEF Data, TypeOK
  <2>3. \A d \in Calls \ {c} : received'[d] = received[d] /\ half'[d] = half[d] /\ torn'[d] = torn[d]
    BY <1>1 DEF Data, TypeOK
  <2>4. \A d \in Calls \ {c} : stdout'[d] = stdout[d]
    BY <1>1, DataKeeps
  <2>5. TornFirst'
    BY <2>1, <2>2, <2>3 DEF TornFirst
  <2>0. PICK l : l = ChunkLength(n, h)
    OBVIOUS
  <2>8. l \in Nat /\ n <= l /\ (~ h => l = n)
    BY <2>0, <2>1 DEF ChunkLength
  <2>6. CASE Len(stdout[c]) >= MaxOutput
    <3>0. stdout'[c] = stdout[c]
      BY <1>1, <2>6, DataKeeps
    <3>1. stdout'[c] = stdout[c] /\ Len(stdout[c]) = MaxOutput
      BY <2>1, <2>6, <3>0 DEF OutputIsPrefix
    <3>2. ASSUME NEW i \in 1..MaxOutput, i <= Intact(c)' PROVE stdout[c][i] = i
      BY <2>1, <2>2, <3>1, <3>2 DEF Intact, OutputIsPrefix
    <3>3. torn'[c] = 0 => MaxOutput <= received'[c]
      BY <2>1, <2>2, <3>1 DEF OutputIsPrefix
    <3> QED BY <2>1, <2>3, <2>4, <2>5, <3>1, <3>2, <3>3 DEF OutputIsPrefix, NothingLeftOut, Intact
  <2>7. CASE Len(stdout[c]) < MaxOutput
    <3>1. /\ Len(stdout'[c]) = IF Len(stdout[c]) + l < MaxOutput THEN Len(stdout[c]) + l
                                ELSE MaxOutput
          /\ \A i \in 1..Len(stdout[c]) : stdout'[c][i] = stdout[c][i]
      BY <1>1, <2>7, <2>0, DataKeeps
    <3>2. received[c] <= Len(stdout[c])
      BY <2>7 DEF NothingLeftOut
    <3>3. CASE torn[c] = 0
      <4>1. Len(stdout[c]) = received[c] /\ ~ half[c]
        BY <2>1, <3>2, <3>3 DEF OutputIsPrefix, TornFirst
      <4>2. Intact(c)' = received[c] + n
        BY <2>1, <2>2, <3>3 DEF Intact
      <4>3. ASSUME NEW i \in 1..MaxOutput, i <= received[c] + n
            PROVE  i <= Len(stdout'[c]) /\ stdout'[c][i] = i
        <5>1. i <= Len(stdout'[c])
          BY <2>1, <2>8, <3>1, <4>1, <4>3
        <5>2. CASE i <= received[c]
          <6>1. stdout[c][i] = i
            BY <3>3, <4>3, <5>2 DEF OutputIsPrefix, Intact
          <6>2. i \in 1..Len(stdout[c])
            BY <2>1, <4>1, <4>3, <5>2
          <6> QED BY <3>1, <5>1, <6>1, <6>2
        <5>3. CASE i > received[c]
          <6>1. i - received[c] \in 1..n /\ received[c] + (i - received[c]) = i
            BY <2>1, <4>3, <5>3
          <6>2. \A k \in 1..n : received[c] + k <= Len(stdout'[c])
                                    => stdout'[c][received[c] + k] = received[c] + k
            BY <1>1, <2>7, <4>1, <2>0, DataKeeps
          <6> QED BY <5>1, <6>1, <6>2
        <5> QED BY <2>1, <5>1, <5>2, <5>3
      <4>4. /\ Len(stdout'[c]) <= MaxOutput
            /\ torn'[c] = 0 => Len(stdout'[c]) <= received'[c]
            /\ Len(stdout'[c]) < MaxOutput => received'[c] <= Len(stdout'[c])
        BY <2>1, <2>2, <2>8, <3>1, <4>1
      <4> QED BY <2>3, <2>4, <2>5, <4>2, <4>3, <4>4 DEF OutputIsPrefix, NothingLeftOut, Intact
    <3>4. CASE torn[c] # 0
      <4>1. torn'[c] = torn[c] /\ Intact(c)' = Intact(c) /\ Intact(c) <= Len(stdout[c])
        BY <2>1, <2>2, <3>2, <3>4 DEF Intact, TornFirst
      <4>2. ASSUME NEW i \in 1..MaxOutput, i <= Intact(c)'
            PROVE  i <= Len(stdout'[c]) /\ stdout'[c][i] = i
        <5>1. i <= Len(stdout[c]) /\ stdout[c][i] = i
          BY <4>1, <4>2 DEF OutputIsPrefix
        <5>2. i \in 1..Len(stdout[c])
          BY <2>1, <4>2, <5>1
        <5>3. Len(stdout[c]) <= Len(stdout'[c])
          BY <2>1, <2>7, <2>8, <3>1
        <5> QED BY <2>1, <2>8, <3>1, <5>1, <5>2, <5>3
      <4>3. /\ Len(stdout'[c]) <= MaxOutput
            /\ Len(stdout'[c]) < MaxOutput => received'[c] <= Len(stdout'[c])
        BY <2>1, <2>2, <2>8, <3>1, <3>2
      <4> QED BY <2>3, <2>4, <2>5, <3>4, <4>1, <4>2, <4>3 DEF OutputIsPrefix, NothingLeftOut, Intact
    <3> QED BY <3>3, <3>4
  <2> QED BY <2>1, <2>6, <2>7
<1>2. CASE UNCHANGED outputs
  BY <1>2 DEF OutputIsPrefix, TornFirst, NothingLeftOut, Intact
<1>3. \/ \E c \in Calls, n \in 0..MaxWritten, h \in BOOLEAN : Data(c, n, h)
      \/ UNCHANGED outputs
  BY DEF Next, vars, output, remote, Lose, Exec, Opened, OpenFailed, Close, ChannelError, TimeOut,
         Spawn, Exit, RunCommand, Write
<1> QED BY <1>1, <1>2, <1>3

-----------------------------------------------------------------------------
(* Starts. *)

LEMMA SpokenStep ==
    ASSUME TypeOK, Spoken, [Next]_vars
    PROVE  Spoken'
<1> USE DEF Spoken
<1>1. ASSUME NEW c \in Calls, Spawn(c) PROVE Spoken'
  BY <1>1 DEF Spawn, TypeOK, output
<1>2. ASSUME NEW c \in Calls, Exit(c) PROVE Spoken'
  BY <1>2 DEF Exit, TypeOK, output
<1>3. ASSUME NEW c \in Calls, NEW n \in 1..MaxWritten, Write(c, n) PROVE Spoken'
  BY <1>3 DEF Write, TypeOK, remote
<1>4. CASE UNCHANGED <<written, shell>>
  BY <1>4
<1>5. \/ \E c \in Calls : Spawn(c) \/ Exit(c)
      \/ \E c \in Calls, n \in 1..MaxWritten : Write(c, n)
      \/ UNCHANGED <<written, shell>>
  <2>1. ASSUME NEW c \in Calls, NEW n, NEW h, Data(c, n, h) PROVE UNCHANGED <<written, shell>>
    BY <2>1 DEF Data, remote
  <2> QED
    BY <2>1 DEF Next, vars, output, remote, Lose, Exec, Opened, OpenFailed, Close, ChannelError,
                TimeOut, RunCommand
<1> QED BY <1>1, <1>2, <1>3, <1>4, <1>5

(* A start is settled as done only with something on its stdout. *)
LEMMA PidCameStep ==
    ASSUME TypeOK, OutputIsPrefix, TornFirst, PidCame, [Next]_vars
    PROVE  PidCame'
<1> USE DEF PidCame
<1>1. ASSUME NEW c \in Calls, Close(c) PROVE PidCame'
  <2>1. c \in Starts /\ Outcome(c) = "ok" => received[c] > 0
    <3> SUFFICES ASSUME c \in Starts, Outcome(c) = "ok" PROVE received[c] > 0
      OBVIOUS
    <3>1. stdout[c] # <<>> /\ stdout[c] \in Seq(0..MaxWritten) /\ received[c] \in Nat
      BY DEF Outcome, TypeOK
    <3>2. Len(stdout[c]) > 0
      BY <3>1
    <3> QED BY <3>1, <3>2 DEF OutputIsPrefix, TornFirst
  <2>2. received' = received /\ (result' = result \/ result' = [result EXCEPT ![c] = Outcome(c)])
    BY <1>1 DEF Close, Settle, output
  <2> QED BY <2>1, <2>2 DEF TypeOK
<1>2. ASSUME NEW c \in Calls, NEW n \in 0..MaxWritten, NEW h \in BOOLEAN, Data(c, n, h)
      PROVE  PidCame'
  BY <1>2 DEF Data, TypeOK, client
<1>3. ASSUME NEW c \in Calls, NEW r \in {"failed", "timed out"},
             received' = received, result' = result \/ Settle(c, r)
      PROVE  PidCame'
  BY <1>3 DEF Settle, TypeOK
<1>4. CASE UNCHANGED <<received, result>>
  BY <1>4
<1>5. \/ \E c \in Calls : Close(c)
      \/ \E c \in Calls, n \in 0..MaxWritten, h \in BOOLEAN : Data(c, n, h)
      \/ \E c \in Calls, r \in {"failed", "timed out"} :
             received' = received /\ (result' = result \/ Settle(c, r))
      \/ UNCHANGED <<received, result>>
  BY DEF Next, vars, client, output, remote, Lose, Exec, Opened, OpenFailed, ChannelError, TimeOut,
         Spawn, Exit, RunCommand, Write
<1> QED BY <1>1, <1>2, <1>3, <1>4, <1>5

-----------------------------------------------------------------------------

(* The inductive invariant. *)
SessionInv ==
    TypeOK /\ JobsSpawned /\ OutputIsPrefix /\ TornFirst /\ NothingLeftOut /\ Spoken /\ PidCame

(* Each part of the invariant is kept by each step. *)
LEMMA SessionInvariant == Spec => []SessionInv
<1>1. ASSUME Init PROVE SessionInv
  <2>1. TypeOK
    BY <1>1, OutputAssumption DEF Init, TypeOK, Channels
  <2>2. JobsSpawned /\ Spoken
    BY <1>1 DEF Init, JobsSpawned, Spoken
  <2>4. OutputIsPrefix /\ TornFirst /\ NothingLeftOut
    BY <1>1, OutputAssumption DEF Init, OutputIsPrefix, TornFirst, NothingLeftOut, Intact
  <2>3. PidCame
    BY <1>1, NoneAssumption DEF Init, PidCame, Results
  <2> QED BY <2>1, <2>2, <2>3, <2>4 DEF SessionInv
<1>2. SessionInv /\ [Next]_vars => SessionInv'
  BY TypeStep, JobsSpawnedStep, OutputStep, SpokenStep, PidCameStep DEF SessionInv
<1> QED BY <1>1, <1>2, PTL DEF Spec

(* A session's state has its type, for every number of calls and every limit: no
   call receives more than was written, and only a start that was spawned runs a
   command (exec, execDetached). *)
THEOREM SessionTypeCorrect == Spec => []TypeOK
<1>1. SessionInv => TypeOK
  BY DEF SessionInv
<1> QED BY <1>1, SessionInvariant, PTL

(* What exec returns begins with what the command wrote, up to the limit or to
   the first character that was cut, for every way to cut the output into chunks;
   it is never longer than the limit, and without a cut character there is nothing
   else in it (the data listener of exec). *)
THEOREM OutputIsPrefixHolds == Spec => []OutputIsPrefix
<1>1. SessionInv => OutputIsPrefix
  BY DEF SessionInv
<1> QED BY <1>1, SessionInvariant, PTL

(* A start that is reported as done was put into the background of the remote
   machine, and its PID came back, however the channel's events, its timer and
   the loss of the connection raced (execDetached). *)
THEOREM StartedMeansSpawnedHolds == Spec => []StartedMeansSpawned
<1>1. ASSUME SessionInv PROVE StartedMeansSpawned
  <2> SUFFICES ASSUME NEW c \in Starts, result[c] = "ok"
               PROVE  job[c] # None /\ received[c] > 0
    BY DEF StartedMeansSpawned
  <2>1. received[c] > 0
    BY <1>1 DEF SessionInv, PidCame
  <2>2. written[c] > 0
    BY <1>1, <2>1 DEF SessionInv, TypeOK
  <2>3. shell[c] # "none"
    BY <1>1, <2>2 DEF SessionInv, Spoken
  <2> QED BY <1>1, <2>1, <2>3 DEF SessionInv, JobsSpawned
<1> QED BY <1>1, SessionInvariant, PTL
===============================================================================
