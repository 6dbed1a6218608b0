--------------------------- MODULE SequenceFacts ----------------------------
(***************************************************************************)
(* Facts about numbers and sequences the proofs rest on: induction, as a   *)
(* statement about sets of numbers; what Keep keeps; that tuples and       *)
(* concatenations are sequences; and what FlattenSeq of the community      *)
(* modules returns.                                                        *)
(***************************************************************************)
EXTENDS Texts, WellFoundedInduction, TLAPS

(* A set of numbers has a smallest one.                                    *)
LEMMA Smallest ==
  ASSUME NEW T \in SUBSET Nat, T # {}
  PROVE  \E n \in T : \A m \in T : n <= m
  <1>1. PICK n \in T : \A m \in T : <<m, n>> \notin OpToRel(<, Nat)
    BY NatLessThanWellFounded, WFMin, Zenon
  <1>2. ASSUME NEW m \in T PROVE ~(m < n)
    BY <1>1, <1>2, Zenon DEF OpToRel
  <1>3. n \in Nat /\ \A m \in T : m \in Nat
    BY <1>1
  <1> QED
    BY <1>2, <1>3

(* Induction: a set that holds 0 and, with a number, the next one, holds   *)
(* them all.                                                               *)
LEMMA Induction ==
  ASSUME NEW S, 0 \in S, \A n \in Nat : n \in S => n + 1 \in S
  PROVE  Nat \subseteq S
  <1> SUFFICES ASSUME Nat \ S # {} PROVE FALSE
    OBVIOUS
  <1>1. PICK n \in Nat \ S : \A m \in Nat \ S : n <= m
    BY Smallest
  <1>2. n # 0 /\ n - 1 \in Nat
    BY <1>1
  <1>3. n - 1 \in S
    BY <1>1, <1>2
  <1>4. n - 1 + 1 \in S
    BY <1>2, <1>3
  <1> QED
    BY <1>1, <1>4

(* A recursive function on 0..N: from a base, one step per number.         *)
Steps(step, N, X) == step \in [1..N -> [X -> X]]

Unfolds(f, N, X, base, step) ==
  /\ f \in [0..N -> X]
  /\ f[0] = base
  /\ \A n \in 1..N : f[n] = step[n][f[n - 1]]

(* There is such a function, whatever the base and the steps.              *)
LEMMA Recursion ==
  ASSUME NEW N \in Nat, NEW X, NEW base \in X, NEW step, Steps(step, N, X)
  PROVE  \E f : Unfolds(f, N, X, base, step)
  <1> DEFINE Solves(f, k) == f[0] = base /\ \A n \in 1..k : f[n] = step[n][f[n - 1]]
             Good == {k \in Nat : k <= N => \E f \in [0..k -> X] : Solves(f, k)}
  <1> step \in [1..N -> [X -> X]]
    BY DEF Steps
  <1>1. 0 \in Good
    <2>1. [i \in 0..0 |-> base] \in [0..0 -> X] /\ Solves([i \in 0..0 |-> base], 0)
      OBVIOUS
    <2> QED
      BY <2>1
  <1>2. ASSUME NEW k \in Nat, k \in Good PROVE k + 1 \in Good
    <2> SUFFICES ASSUME k + 1 <= N
                 PROVE  \E f \in [0..(k + 1) -> X] : Solves(f, k + 1)
      OBVIOUS
    <2>1. PICK f \in [0..k -> X] : Solves(f, k)
      BY <1>2
    <2> DEFINE g == [i \in 0..(k + 1) |-> IF i <= k THEN f[i] ELSE step[k + 1][f[k]]]
    <2>2. k + 1 \in 1..N /\ f[k] \in X
      OBVIOUS
    <2>3. step[k + 1] \in [X -> X]
      BY <2>2
    <2>4. step[k + 1][f[k]] \in X
      BY <2>2, <2>3
    <2>5. g \in [0..(k + 1) -> X]
      BY <2>4
    <2>6. Solves(g, k + 1)
      BY <2>1, <2>4
    <2> QED
      BY <2>5, <2>6
  <1> HIDE DEF Good
  <1>3. N \in Good
    BY <1>1, <1>2, Induction
  <1>4. PICK f \in [0..N -> X] : Solves(f, N)
    BY <1>3 DEF Good
  <1>5. Unfolds(f, N, X, base, step)
    BY <1>4 DEF Unfolds
  <1> QED
    BY <1>5

-----------------------------------------------------------------------------
(* Two functions that agree on 0, and agree on a number when they agree on *)
(* the one before, agree.                                                  *)
Alongside(f, g, N) ==
  f[0] = g[0] /\ \A n \in 1..N : f[n - 1] = g[n - 1] => f[n] = g[n]

LEMMA Agreement ==
  ASSUME NEW N \in Nat, NEW f, NEW g, Alongside(f, g, N)
  PROVE  \A n \in 0..N : f[n] = g[n]
  <1> DEFINE Good == {k \in Nat : k <= N => f[k] = g[k]}
  <1>1. 0 \in Good
    BY DEF Alongside
  <1>2. ASSUME NEW k \in Nat, k \in Good PROVE k + 1 \in Good
    <2> SUFFICES ASSUME k + 1 <= N PROVE f[k + 1] = g[k + 1]
      OBVIOUS
    <2>1. k + 1 \in 1..N /\ (k + 1) - 1 = k /\ k <= N
      OBVIOUS
    <2> QED
      BY <2>1, <1>2 DEF Alongside
  <1> HIDE DEF Good
  <1>3. Nat \subseteq Good
    BY <1>1, <1>2, Induction
  <1>4. ASSUME NEW n \in 0..N PROVE f[n] = g[n]
    <2>1. n \in Nat /\ n <= N
      OBVIOUS
    <2> QED
      BY <1>3, <2>1, Zenon DEF Good
  <1> QED
    BY <1>4, Zenon

(* The function Keep is defined by: f[n] is what is kept of the first n    *)
(* members.                                                                *)
KeepFunction(f, seq, S) ==
  f = [n \in 0..Len(seq) |->
        IF n = 0 THEN <<>>
        ELSE IF seq[n] \in S THEN Append(f[n - 1], seq[n]) ELSE f[n - 1]]

Keeps(f, seq, S) ==
  /\ f[0] = <<>>
  /\ \A n \in 1..Len(seq) :
       f[n] = IF seq[n] \in S THEN Append(f[n - 1], seq[n]) ELSE f[n - 1]

(* That function at a number, and the two equations it obeys.              *)
LEMMA KeepFunctionAt ==
  ASSUME NEW f, NEW seq, NEW S, KeepFunction(f, seq, S)
  PROVE  \A n \in 0..Len(seq) :
           f[n] = IF n = 0 THEN <<>>
                  ELSE IF seq[n] \in S THEN Append(f[n - 1], seq[n]) ELSE f[n - 1]
  BY Zenon DEF KeepFunction

LEMMA KeepFunctionKeeps ==
  ASSUME NEW X, NEW seq \in Seq(X), NEW S, NEW f, KeepFunction(f, seq, S)
  PROVE  Keeps(f, seq, S)
  <1>1. 0 \in 0..Len(seq) /\ \A n \in 1..Len(seq) : n \in 0..Len(seq) /\ n # 0
    OBVIOUS
  <1>2. \A n \in 0..Len(seq) :
          f[n] = IF n = 0 THEN <<>>
                 ELSE IF seq[n] \in S THEN Append(f[n - 1], seq[n]) ELSE f[n - 1]
    BY KeepFunctionAt, Zenon
  <1>3. f[0] = <<>>
    BY <1>1, <1>2, Zenon
  <1>4. ASSUME NEW n \in 1..Len(seq)
        PROVE  f[n] = IF seq[n] \in S THEN Append(f[n - 1], seq[n]) ELSE f[n - 1]
    BY <1>1, <1>2, Zenon
  <1> QED
    BY <1>3, <1>4, Zenon DEF Keeps

(* Keep returns the last value of a function that obeys them.              *)
LEMMA KeepIs ==
  ASSUME NEW X, NEW seq \in Seq(X), NEW S
  PROVE  \E f \in [0..Len(seq) -> Seq(X)] : Keeps(f, seq, S) /\ Keep(seq, S) = f[Len(seq)]
  <1> DEFINE N == Len(seq)
             Y == Seq(X)
             step == [n \in 1..N |-> [x \in Y |-> IF seq[n] \in S THEN Append(x, seq[n]) ELSE x]]
             base == <<>>
             kept == CHOOSE h : KeepFunction(h, seq, S)
  <1>0. N \in Nat
    OBVIOUS
  <1>00. base \in Y
    OBVIOUS
  <1>1. \A n \in 1..N : seq[n] \in X /\ n - 1 \in 0..N
    OBVIOUS
  <1>2. Steps(step, N, Y)
    BY <1>1 DEF Steps
  <1>3. PICK f : Unfolds(f, N, Y, base, step)
    <2> HIDE DEF step, N, Y, base
    <2> QED
      BY <1>0, <1>00, <1>2, Recursion, Zenon
  <1>30. /\ f \in [0..N -> Y]
         /\ f[0] = base
         /\ \A n \in 1..N : f[n] = step[n][f[n - 1]]
    BY <1>3 DEF Unfolds
  <1>4. \A n \in 1..N : f[n - 1] \in Y
    BY <1>1, <1>30
  <1>5. \A n \in 1..N : f[n] = IF seq[n] \in S THEN Append(f[n - 1], seq[n]) ELSE f[n - 1]
    BY <1>30, <1>4
  <1>6. KeepFunction(f, seq, S)
    <2>1. \A n \in 0..N : f[n] = IF n = 0 THEN <<>>
            ELSE IF seq[n] \in S THEN Append(f[n - 1], seq[n]) ELSE f[n - 1]
      <3> TAKE n \in 0..N
      <3>1. CASE n = 0
        BY <1>30, <3>1, Zenon
      <3>2. CASE n # 0
        <4>1. n \in 1..N
          BY <3>2
        <4> QED
          BY <1>5, <3>2, <4>1, Zenon
      <3> QED
        BY <3>1, <3>2
    <2> QED
      BY <1>30, <2>1, Zenon DEF KeepFunction
  <1>7. KeepFunction(kept, seq, S)
    BY <1>6
  <1>8. Keep(seq, S) = kept[N]
    BY Zenon DEF Keep, KeepFunction
  <1> HIDE DEF kept
  <1>9. Keeps(kept, seq, S) /\ Keeps(f, seq, S)
    BY <1>6, <1>7, KeepFunctionKeeps, Zenon
  <1>10. \A n \in 0..N : kept[n] = f[n]
    <2>1. Alongside(kept, f, N)
      BY <1>9, Zenon DEF Keeps, Alongside
    <2> QED
      BY <1>0, <2>1, Agreement, Zenon
  <1> QED
    BY <1>0, <1>8, <1>9, <1>10, <1>30

(* What is kept of a sequence is a sequence of members of the same set.    *)
LEMMA KeepType ==
  ASSUME NEW X, NEW seq \in Seq(X), NEW S
  PROVE  Keep(seq, S) \in Seq(X)
  <1>1. PICK f \in [0..Len(seq) -> Seq(X)] : Keep(seq, S) = f[Len(seq)]
    BY KeepIs
  <1> QED
    BY <1>1

(* Nothing is kept of nothing.                                             *)
LEMMA KeepEmpty ==
  ASSUME NEW S
  PROVE  Keep(<<>>, S) = <<>>
  <1>1. PICK f : Keeps(f, <<>>, S) /\ Keep(<<>>, S) = f[Len(<<>>)]
    <2>1. <<>> \in Seq({})
      OBVIOUS
    <2> QED
      BY <2>1, KeepIs
  <1> QED
    BY <1>1 DEF Keeps

(* What is kept of one sequence is what is kept of another of the same     *)
(* length, if the members kept are the same.                               *)
LEMMA KeepsAlike ==
  ASSUME NEW N \in Nat, NEW seq, NEW other, NEW S, NEW T, NEW f, NEW g,
         Len(seq) >= N, Len(other) >= N, Len(seq) \in Nat, Len(other) \in Nat,
         Keeps(f, seq, S), Keeps(g, other, T),
         \A n \in 1..N : seq[n] = other[n] /\ (seq[n] \in S <=> other[n] \in T)
  PROVE  f[N] = g[N]
  <1>0. 1..N \subseteq 1..Len(seq) /\ 1..N \subseteq 1..Len(other) /\ N \in 0..N
    OBVIOUS
  <1>1. Alongside(f, g, N)
    BY <1>0, Zenon DEF Keeps, Alongside
  <1>2. \A n \in 0..N : f[n] = g[n]
    BY <1>1, Agreement
  <1> QED
    BY <1>0, <1>2, Zenon

(* A member appended is kept after what is kept already, if it is wanted.  *)
LEMMA KeepAppend ==
  ASSUME NEW X, NEW seq \in Seq(X), NEW x \in X, NEW S
  PROVE  Keep(Append(seq, x), S) = IF x \in S THEN Append(Keep(seq, S), x) ELSE Keep(seq, S)
  <1> DEFINE more == Append(seq, x)
             N == Len(seq)
             M == N + 1
  <1>0. /\ N \in Nat /\ Len(more) \in Nat /\ N >= N /\ Len(more) >= N /\ Len(more) = M
        /\ M \in 1..M /\ M - 1 = N /\ more[M] = x
        /\ \A n \in 1..N : seq[n] = more[n]
    OBVIOUS
  <1>1. \E f : Keeps(f, seq, S) /\ Keep(seq, S) = f[N]
    BY KeepIs
  <1>2. \E g : Keeps(g, more, S) /\ Keep(more, S) = g[Len(more)]
    <2>1. more \in Seq(X)
      OBVIOUS
    <2> HIDE DEF more
    <2> QED
      BY <2>1, KeepIs
  <1> HIDE DEF more, M
  <1>3. PICK f : Keeps(f, seq, S) /\ Keep(seq, S) = f[N]
    BY <1>1
  <1>4. PICK g : Keeps(g, more, S) /\ Keep(more, S) = g[Len(more)]
    BY <1>2
  <1>5. f[N] = g[N]
    BY <1>0, <1>3, <1>4, KeepsAlike
  <1>6. g[M] = IF more[M] \in S THEN Append(g[M - 1], more[M]) ELSE g[M - 1]
    BY <1>0, <1>4, Zenon DEF Keeps
  <1> QED
    BY <1>0, <1>3, <1>4, <1>5, <1>6 DEF more

-----------------------------------------------------------------------------
(* Tuples and concatenations are sequences.                                *)
LEMMA TupleType ==
  ASSUME NEW S
  PROVE  /\ <<>> \in Seq(S)
         /\ \A a \in S : <<a>> \in Seq(S)
         /\ \A a, b \in S : <<a, b>> \in Seq(S)
         /\ \A a, b, c \in S : <<a, b, c>> \in Seq(S)
         /\ \A a, b, c, d \in S : <<a, b, c, d>> \in Seq(S)
         /\ \A a, b, c, d, e \in S : <<a, b, c, d, e>> \in Seq(S)
         /\ \A a, b, c, d, e, f \in S : <<a, b, c, d, e, f>> \in Seq(S)
         /\ \A a, b, c, d, e, f, g \in S : <<a, b, c, d, e, f, g>> \in Seq(S)
         /\ \A a, b, c, d, e, f, g, h \in S : <<a, b, c, d, e, f, g, h>> \in Seq(S)
         /\ \A a, b, c, d, e, f, g, h, i \in S : <<a, b, c, d, e, f, g, h, i>> \in Seq(S)
  OBVIOUS

(* Sequences are the same when their members are.                          *)
LEMMA SameSequence ==
  ASSUME NEW A, NEW s \in Seq(A), NEW t \in Seq(A), Len(s) = Len(t),
         \A n \in 1..Len(s) : s[n] = t[n]
  PROVE  s = t
OBVIOUS

(* Tuples put together from shorter ones.                                  *)
LEMMA TupleAppend ==
  ASSUME NEW S
  PROVE  /\ \A a, b \in S : Append(<<a>>, b) = <<a, b>>
         /\ \A a, b, c \in S : Append(<<a, b>>, c) = <<a, b, c>>
         /\ \A a, b, c, d, e \in S : Append(<<a, b>>, c) \o <<d, e>> = <<a, b, c, d, e>>
<1>1. ASSUME NEW a \in S, NEW b \in S PROVE Append(<<a>>, b) = <<a, b>>
  <2>1. <<a>> \in Seq(S) /\ <<a, b>> \in Seq(S)
    OBVIOUS
  <2>2. Append(<<a>>, b) \in Seq(S) /\ Len(Append(<<a>>, b)) = 2
    BY <2>1
  <2>3. \A n \in 1..2 : Append(<<a>>, b)[n] = <<a, b>>[n]
    BY <2>1
  <2> QED
    BY <2>1, <2>2, <2>3, SameSequence
<1>2. ASSUME NEW a \in S, NEW b \in S, NEW c \in S PROVE Append(<<a, b>>, c) = <<a, b, c>>
  <2>1. <<a, b>> \in Seq(S) /\ <<a, b, c>> \in Seq(S)
    OBVIOUS
  <2>2. Append(<<a, b>>, c) \in Seq(S) /\ Len(Append(<<a, b>>, c)) = 3
    BY <2>1
  <2>3. \A n \in 1..3 : Append(<<a, b>>, c)[n] = <<a, b, c>>[n]
    BY <2>1
  <2> QED
    BY <2>1, <2>2, <2>3, SameSequence
<1>3. ASSUME NEW a \in S, NEW b \in S, NEW c \in S, NEW d \in S, NEW e \in S
      PROVE  Append(<<a, b>>, c) \o <<d, e>> = <<a, b, c, d, e>>
  <2>1. <<a, b, c>> \in Seq(S) /\ <<d, e>> \in Seq(S) /\ <<a, b, c, d, e>> \in Seq(S)
    OBVIOUS
  <2>2. <<a, b, c>> \o <<d, e>> \in Seq(S) /\ Len(<<a, b, c>> \o <<d, e>>) = 5
    BY <2>1
  <2>3. \A n \in 1..5 : (<<a, b, c>> \o <<d, e>>)[n] = <<a, b, c, d, e>>[n]
    BY <2>1
  <2>4. <<a, b, c>> \o <<d, e>> = <<a, b, c, d, e>>
    BY <2>1, <2>2, <2>3, SameSequence
  <2>5. Append(<<a, b>>, c) = <<a, b, c>>
    BY <1>2
  <2> QED
    BY <2>4, <2>5, Zenon
<1> QED
  BY <1>1, <1>2, <1>3, Zenon

(* The last member is one of the members; the others make a sequence, and  *)
(* so do two sequences one after the other.                                *)
LEMMA LastIsMember ==
  ASSUME NEW S, NEW s \in Seq(S), s # <<>>
  PROVE  Len(s) \in Nat \ {0} /\ Len(s) \in DOMAIN s /\ s[Len(s)] \in S
  OBVIOUS

LEMMA TailType ==
  ASSUME NEW S, NEW s \in Seq(S), s # <<>>
  PROVE  Tail(s) \in Seq(S)
  OBVIOUS

LEMMA ConcatType ==
  ASSUME NEW S, NEW s \in Seq(S), NEW t \in Seq(S)
  PROVE  s \o t \in Seq(S) /\ Len(s \o t) = Len(s) + Len(t)
  OBVIOUS

LEMMA ConcatNotEmpty ==
  ASSUME NEW S, NEW s \in Seq(S), NEW t \in Seq(S), s # <<>> \/ t # <<>>
  PROVE  s \o t # <<>>
  OBVIOUS

(* A sequence that is not empty is another one with a member appended.     *)
LEMMA FrontAndLast ==
  ASSUME NEW S, NEW s \in Seq(S), s # <<>>
  PROVE  \E q \in Seq(S) : \E x \in S : s = Append(q, x)
  <1> DEFINE k == Len(s) - 1
             q == [i \in 1..k |-> s[i]]
  <1>0. k \in Nat /\ Len(s) = k + 1
    OBVIOUS
  <1>1. q \in Seq(S) /\ Len(q) = k /\ \A i \in 1..k : q[i] = s[i]
    <2>1. \A i \in 1..k : s[i] \in S
      OBVIOUS
    <2> HIDE DEF k
    <2>2. q \in [1..k -> S]
      BY <2>1
    <2> QED
      BY <1>0, <2>2
  <1>2. s[k + 1] \in S
    BY <1>0
  <1> HIDE DEF q, k
  <1>3. Append(q, s[k + 1]) \in Seq(S) /\ Len(Append(q, s[k + 1])) = k + 1
    BY <1>1, <1>2
  <1>4. \A i \in 1..(k + 1) : Append(q, s[k + 1])[i] = s[i]
    BY <1>0, <1>1, <1>2
  <1>5. s = Append(q, s[k + 1])
    BY <1>0, <1>3, <1>4
  <1> QED
    BY <1>1, <1>2, <1>5

(* Induction over sequences: a set that holds the empty one and, with a    *)
(* sequence, the one with a member more, holds them all.                   *)
LEMMA SequenceInduction ==
  ASSUME NEW S, NEW P, <<>> \in P,
         \A s \in Seq(S) : \A x \in S : s \in P => Append(s, x) \in P
  PROVE  Seq(S) \subseteq P
  <1> DEFINE Good == {k \in Nat : \A s \in Seq(S) : Len(s) = k => s \in P}
  <1>1. 0 \in Good
    <2>1. \A s \in Seq(S) : Len(s) = 0 => s = <<>>
      OBVIOUS
    <2> QED
      BY <2>1
  <1>2. ASSUME NEW k \in Nat, k \in Good PROVE k + 1 \in Good
    <2> SUFFICES ASSUME NEW s \in Seq(S), Len(s) = k + 1 PROVE s \in P
      OBVIOUS
    <2>0. s # <<>>
      OBVIOUS
    <2>1. PICK q \in Seq(S) : \E x \in S : s = Append(q, x)
      BY <2>0, FrontAndLast, Zenon
    <2>2. PICK x \in S : s = Append(q, x)
      BY <2>1
    <2>3. Len(q) = k
      BY <2>2
    <2>4. q \in P
      BY <1>2, <2>3
    <2> QED
      BY <2>2, <2>4
  <1> HIDE DEF Good
  <1>3. Nat \subseteq Good
    BY <1>1, <1>2, Induction
  <1>4. ASSUME NEW s \in Seq(S) PROVE s \in P
    <2>1. Len(s) \in Nat
      OBVIOUS
    <2> QED
      BY <1>3, <2>1 DEF Good
  <1> QED
    BY <1>4

(* Appending and concatenating.                                            *)
LEMMA AppendType ==
  ASSUME NEW S, NEW s \in Seq(S), NEW x \in S
  PROVE  /\ Append(s, x) \in Seq(S) /\ Append(s, x) # <<>>
         /\ Len(Append(s, x)) = Len(s) + 1 /\ Append(s, x)[Len(s) + 1] = x
         /\ \A n \in DOMAIN s : Append(s, x)[n] = s[n]
         /\ Append(s, x) = s \o <<x>>
  OBVIOUS

LEMMA ConcatFacts ==
  ASSUME NEW S, NEW s \in Seq(S), NEW t \in Seq(S)
  PROVE  /\ s \o <<>> = s /\ <<>> \o s = s
         /\ \A u \in Seq(S) : s \o (t \o u) = (s \o t) \o u
         /\ \A x \in S : s \o Append(t, x) = Append(s \o t, x)
         /\ \A x \in S : (s \o <<x>>) \o t = s \o (<<x>> \o t)
  BY SMTT(30)

LEMMA ConcatMembers ==
  ASSUME NEW S, NEW s \in Seq(S), NEW t \in Seq(S)
  PROVE  /\ \A n \in 1..Len(s) : (s \o t)[n] = s[n]
         /\ \A n \in (Len(s) + 1)..(Len(s) + Len(t)) : (s \o t)[n] = t[n - Len(s)]
  OBVIOUS

-----------------------------------------------------------------------------
(* The function FlattenSeq is defined by: f[i] is the concatenation of the *)
(* first i sequences.                                                      *)
Flattens(f, seqs, n) ==
  f = [i \in 1..n |-> IF i = 1 THEN seqs[i] ELSE f[i - 1] \o seqs[i]]

(* That function at a number.                                              *)
LEMMA FlattensAt ==
  ASSUME NEW f, NEW seqs, NEW n, Flattens(f, seqs, n)
  PROVE  \A i \in 1..n : f[i] = IF i = 1 THEN seqs[i] ELSE f[i - 1] \o seqs[i]
  BY Zenon DEF Flattens

(* There is such a function, for as many of the sequences as one likes.    *)
LEMMA FlattensDefined ==
  ASSUME NEW S, NEW seqs \in Seq(Seq(S)), NEW n \in Nat, n <= Len(seqs)
  PROVE  \E f \in [1..n -> Seq(S)] : Flattens(f, seqs, n)
  <1> DEFINE Good == {k \in Nat : k <= Len(seqs) =>
                        \E f \in [1..k -> Seq(S)] : Flattens(f, seqs, k)}
  <1>1. 0 \in Good
    <2>1. [i \in 1..0 |-> <<>>] \in [1..0 -> Seq(S)]
      OBVIOUS
    <2>2. Flattens([i \in 1..0 |-> <<>>], seqs, 0)
      BY DEF Flattens
    <2> QED
      BY <2>1, <2>2
  <1>2. ASSUME NEW k \in Nat, k \in Good PROVE k + 1 \in Good
    <2> SUFFICES ASSUME k + 1 <= Len(seqs)
                 PROVE  \E f \in [1..(k + 1) -> Seq(S)] : Flattens(f, seqs, k + 1)
      OBVIOUS
    <2>1. PICK f \in [1..k -> Seq(S)] : Flattens(f, seqs, k)
      BY <1>2
    <2> DEFINE last == IF k = 0 THEN seqs[1] ELSE f[k] \o seqs[k + 1]
               g == [i \in 1..(k + 1) |-> IF i <= k THEN f[i] ELSE last]
    <2>2. seqs[k + 1] \in Seq(S)
      OBVIOUS
    <2>3. last \in Seq(S)
      BY <2>2
    <2>4. \A i \in 1..k : g[i] = f[i]
      OBVIOUS
    <2>5. g[k + 1] = last
      OBVIOUS
    <2>6. g \in [1..(k + 1) -> Seq(S)]
      BY <2>3
    <2>7. \A i \in 1..k : f[i] = IF i = 1 THEN seqs[i] ELSE f[i - 1] \o seqs[i]
      BY <2>1 DEF Flattens
    <2>8. \A i \in 1..(k + 1) : g[i] = IF i = 1 THEN seqs[i] ELSE g[i - 1] \o seqs[i]
      <3> HIDE DEF g, last
      <3> TAKE i \in 1..(k + 1)
      <3>1. CASE i <= k
        <4>1. i \in 1..k /\ (i # 1 => i - 1 \in 1..k)
          BY <3>1
        <4> QED
          BY <4>1, <2>4, <2>7
      <3>2. CASE i = k + 1
        <4>1. k # 0 => k \in 1..k
          OBVIOUS
        <4> QED
          BY <3>2, <4>1, <2>4, <2>5 DEF last
      <3> QED
        BY <3>1, <3>2
    <2>9. Flattens(g, seqs, k + 1)
      <3> HIDE DEF g
      <3> QED
        BY <2>6, <2>8 DEF Flattens
    <2> QED
      BY <2>6, <2>9
  <1> HIDE DEF Good
  <1>3. n \in Good
    BY <1>1, <1>2, Induction
  <1> QED
    BY <1>3 DEF Good

(* Two such functions agree.                                               *)
LEMMA FlattensAgree ==
  ASSUME NEW seqs, NEW m \in Nat, NEW n \in Nat, m <= n,
         NEW f, Flattens(f, seqs, m), NEW g, Flattens(g, seqs, n)
  PROVE  \A i \in 1..m : f[i] = g[i]
  <1> DEFINE Good == {k \in Nat : k \in 1..m => f[k] = g[k]}
  <1>1. 0 \in Good
    OBVIOUS
  <1>2. ASSUME NEW k \in Nat, k \in Good PROVE k + 1 \in Good
    <2> SUFFICES ASSUME k + 1 \in 1..m PROVE f[k + 1] = g[k + 1]
      OBVIOUS
    <2>0. k + 1 \in 1..n /\ (k + 1) - 1 = k
      OBVIOUS
    <2>1. f[k + 1] = IF k + 1 = 1 THEN seqs[k + 1] ELSE f[(k + 1) - 1] \o seqs[k + 1]
      BY FlattensAt
    <2>2. g[k + 1] = IF k + 1 = 1 THEN seqs[k + 1] ELSE g[(k + 1) - 1] \o seqs[k + 1]
      BY <2>0, FlattensAt
    <2>3. k # 0 => k \in 1..m
      OBVIOUS
    <2> QED
      BY <1>2, <2>0, <2>1, <2>2, <2>3
  <1> HIDE DEF Good
  <1>3. Nat \subseteq Good
    BY <1>1, <1>2, Induction
  <1> QED
    BY <1>3 DEF Good

(* What FlattenSeq returns, and what it does with one sequence more.       *)
LEMMA FlattenIs ==
  ASSUME NEW S, NEW seqs \in Seq(Seq(S)), NEW f, Flattens(f, seqs, Len(seqs))
  PROVE  FlattenSeq(seqs) = IF Len(seqs) = 0 THEN <<>> ELSE f[Len(seqs)]
  <1> DEFINE h == CHOOSE g : Flattens(g, seqs, Len(seqs))
  <1>1. Flattens(h, seqs, Len(seqs))
    OBVIOUS
  <1>2. Len(seqs) = 0 => FlattenSeq(seqs) = <<>>
    BY DEF FlattenSeq
  <1>3. Len(seqs) # 0 => FlattenSeq(seqs) = h[Len(seqs)]
    BY DEF FlattenSeq, Flattens
  <1> HIDE DEF h
  <1>4. Len(seqs) # 0 => h[Len(seqs)] = f[Len(seqs)]
    BY <1>1, FlattensAgree
  <1> QED
    BY <1>2, <1>3, <1>4

(* The concatenation of sequences over a set is one over that set.         *)
LEMMA FlattenType ==
  ASSUME NEW S, NEW seqs \in Seq(Seq(S))
  PROVE  FlattenSeq(seqs) \in Seq(S)
  <1>1. PICK f \in [1..Len(seqs) -> Seq(S)] : Flattens(f, seqs, Len(seqs))
    BY FlattensDefined
  <1>2. FlattenSeq(seqs) = IF Len(seqs) = 0 THEN <<>> ELSE f[Len(seqs)]
    BY <1>1, FlattenIs
  <1>3. Len(seqs) \in Nat /\ <<>> \in Seq(S)
    OBVIOUS
  <1>4. Len(seqs) # 0 => Len(seqs) \in 1..Len(seqs)
    BY <1>3
  <1>5. Len(seqs) # 0 => f[Len(seqs)] \in Seq(S)
    BY <1>4
  <1> QED
    BY <1>2, <1>3, <1>5, Zenon

(* It is not empty when the last of them is not.                           *)
LEMMA FlattenNotEmpty ==
  ASSUME NEW S, NEW seqs \in Seq(Seq(S)), seqs # <<>>, seqs[Len(seqs)] # <<>>
  PROVE  FlattenSeq(seqs) # <<>>
  <1> DEFINE n == Len(seqs)
  <1>0. n \in Nat \ {0} /\ seqs[n] \in Seq(S)
    BY LastIsMember
  <1>7. seqs[n] # <<>>
    OBVIOUS
  <1>1. n \in 1..n /\ n # 0 /\ (n # 1 => n - 1 \in 1..n)
    <2> HIDE DEF n
    <2> QED
      BY <1>0
  <1>2. PICK f \in [1..n -> Seq(S)] : Flattens(f, seqs, n)
    BY FlattensDefined
  <1>3. FlattenSeq(seqs) = f[n]
    BY <1>1, <1>2, FlattenIs
  <1>4. \A i \in 1..n : f[i] = IF i = 1 THEN seqs[i] ELSE f[i - 1] \o seqs[i]
    BY <1>2 DEF Flattens
  <1>5. f[n] = IF n = 1 THEN seqs[n] ELSE f[n - 1] \o seqs[n]
    BY <1>1, <1>4
  <1>6. n # 1 => f[n - 1] \in Seq(S)
    BY <1>1
  <1> HIDE DEF n
  <1> QED
    BY <1>0, <1>1, <1>3, <1>5, <1>6, <1>7

(* One more sequence goes to its end.                                      *)
LEMMA FlattenOneMore ==
  ASSUME NEW S, NEW seqs \in Seq(Seq(S)), NEW more \in Seq(Seq(S)),
         NEW n \in Nat, NEW m \in Nat, m = n + 1, Len(seqs) = n, Len(more) = m,
         \A i \in 1..n : more[i] = seqs[i]
  PROVE  FlattenSeq(more) = FlattenSeq(seqs) \o more[m]
  <1>1. m \in 1..m /\ m - 1 = n /\ 1..n \subseteq 1..m /\ n <= m /\ n <= n /\ m <= m
    OBVIOUS
  <1>2. more[m] \in Seq(S)
    OBVIOUS
  <1>0. \A g, f : Flattens(f, more, n) /\ Flattens(g, more, m) => \A i \in 1..n : f[i] = g[i]
    BY <1>1, FlattensAgree
  <1>3. PICK g \in [1..m -> Seq(S)] : Flattens(g, more, m)
    BY <1>1, FlattensDefined
  <1>4. PICK f \in [1..n -> Seq(S)] : Flattens(f, seqs, n)
    BY <1>1, FlattensDefined
  <1>5. Flattens(f, more, n)
    BY <1>4 DEF Flattens
  <1>6. \A i \in 1..n : f[i] = g[i]
    BY <1>0, <1>3, <1>5, Zenon
  <1>7. FlattenSeq(more) = g[m]
    BY <1>1, <1>3, FlattenIs
  <1>8. FlattenSeq(seqs) = IF n = 0 THEN <<>> ELSE f[n]
    BY <1>4, FlattenIs
  <1>9. \A i \in 1..m : g[i] = IF i = 1 THEN more[i] ELSE g[i - 1] \o more[i]
    BY <1>3 DEF Flattens
  <1>10. CASE n = 0
    BY <1>1, <1>2, <1>7, <1>8, <1>9, <1>10
  <1>11. CASE n # 0
    <2>1. n \in 1..n /\ m # 1
      BY <1>11
    <2> QED
      BY <1>1, <1>6, <1>7, <1>8, <1>9, <1>11, <2>1
  <1> QED
    BY <1>10, <1>11

(* Two of them appended are concatenated like one.                         *)
LEMMA FlattenAppend ==
  ASSUME NEW S, NEW seqs \in Seq(Seq(S)), NEW last \in Seq(S)
  PROVE  FlattenSeq(Append(seqs, last)) = FlattenSeq(seqs) \o last
  <1> DEFINE more == Append(seqs, last)
             n == Len(seqs)
             m == Len(seqs) + 1
  <1>1. /\ more \in Seq(Seq(S)) /\ n \in Nat /\ m \in Nat /\ m = n + 1
        /\ Len(seqs) = n /\ Len(more) = m
        /\ more[m] = last
        /\ \A i \in 1..n : more[i] = seqs[i]
    OBVIOUS
  <1> HIDE DEF more, n, m
  <1>2. FlattenSeq(more) = FlattenSeq(seqs) \o more[m]
    BY <1>1, FlattenOneMore, Zenon
  <1> QED
    BY <1>1, <1>2 DEF more

-----------------------------------------------------------------------------
(***************************************************************************)
(* Texts cut to pieces.                                                    *)
(***************************************************************************)
(* One step of cutting, and the function Pieces is defined by.             *)
Cut(parts, n, token, cuts, gaps) ==
  IF n \in cuts THEN Append(parts, <<>>)
  ELSE IF n \in gaps THEN parts
  ELSE AddTo(parts, token)

PiecesFunction(f, text, cuts, gaps) ==
  f = [n \in 0..Len(text) |->
        IF n # 0 /\ n \notin cuts /\ n \notin gaps THEN AddTo(f[n - 1], text[n])
        ELSE IF n = 0 THEN <<<<>>>>
        ELSE IF n \in cuts THEN Append(f[n - 1], <<>>)
        ELSE f[n - 1]]

CutsUp(f, text, cuts, gaps) ==
  /\ f[0] = <<<<>>>>
  /\ \A n \in 1..Len(text) : f[n] = Cut(f[n - 1], n, text[n], cuts, gaps)

(* That function at a number, and the two equations it obeys.              *)
LEMMA PiecesFunctionAt ==
  ASSUME NEW f, NEW text, NEW cuts, NEW gaps, PiecesFunction(f, text, cuts, gaps)
  PROVE  \A n \in 0..Len(text) :
           f[n] = IF n = 0 THEN <<<<>>>> ELSE Cut(f[n - 1], n, text[n], cuts, gaps)
BY Zenon DEF PiecesFunction, Cut

LEMMA PiecesFunctionCuts ==
  ASSUME NEW T, NEW text \in Seq(T), NEW cuts, NEW gaps, NEW f,
         PiecesFunction(f, text, cuts, gaps)
  PROVE  CutsUp(f, text, cuts, gaps)
<1>1. 0 \in 0..Len(text) /\ \A n \in 1..Len(text) : n \in 0..Len(text) /\ n # 0
  OBVIOUS
<1>2. \A n \in 0..Len(text) :
        f[n] = IF n = 0 THEN <<<<>>>> ELSE Cut(f[n - 1], n, text[n], cuts, gaps)
  BY PiecesFunctionAt
<1>3. f[0] = <<<<>>>>
  BY <1>1, <1>2, Zenon
<1>4. ASSUME NEW n \in 1..Len(text)
      PROVE  f[n] = Cut(f[n - 1], n, text[n], cuts, gaps)
  BY <1>1, <1>2, Zenon
<1> QED
  BY <1>3, <1>4, Zenon DEF CutsUp

(* Pieces: lists of texts that are not empty.                              *)
Lists(T) == Seq(Seq(T)) \ {<<>>}

LEMMA AddToLast ==
  ASSUME NEW A, NEW parts \in Seq(A), parts # <<>>, NEW p \in A
  PROVE  LET longer == [parts EXCEPT ![Len(parts)] = p]
         IN  longer \in Seq(A) /\ longer # <<>> /\ Len(longer) = Len(parts)
OBVIOUS

LEMMA CutType ==
  ASSUME NEW T, NEW parts \in Lists(T), NEW n, NEW token \in T, NEW cuts, NEW gaps
  PROVE  Cut(parts, n, token, cuts, gaps) \in Lists(T)
<1>1. parts \in Seq(Seq(T)) /\ parts # <<>>
  BY DEF Lists
<1>2. parts[Len(parts)] \in Seq(T) /\ <<>> \in Seq(T)
  BY <1>1, LastIsMember, TupleType, Zenon
<1>3. Append(parts[Len(parts)], token) \in Seq(T)
  BY <1>2
<1>4. AddTo(parts, token) \in Lists(T)
  BY <1>1, <1>3, AddToLast, Zenon DEF AddTo, Lists
<1>5. Append(parts, <<>>) \in Lists(T)
  <2> DEFINE A == Seq(T)
             none == <<>>
  <2>1. parts \in Seq(A) /\ none \in A
    BY <1>1, <1>2
  <2> HIDE DEF A, none
  <2>2. Append(parts, none) \in Seq(A) /\ Append(parts, none) # <<>>
    BY <2>1, AppendType, ZenonT(60)
  <2> QED
    BY <2>2, Zenon DEF A, none, Lists
<1> QED
  BY <1>4, <1>5, Zenon DEF Cut

(* Pieces returns the last value of a function that cuts up.               *)
LEMMA PiecesIs ==
  ASSUME NEW T, NEW text \in Seq(T), NEW cuts, NEW gaps
  PROVE  \E f \in [0..Len(text) -> Lists(T)] :
            CutsUp(f, text, cuts, gaps) /\ Pieces(text, cuts, gaps) = f[Len(text)]
<1> DEFINE N == Len(text)
           Y == Lists(T)
           step == [n \in 1..N |-> [x \in Y |-> Cut(x, n, text[n], cuts, gaps)]]
           base == <<<<>>>>
           pieces == CHOOSE h : PiecesFunction(h, text, cuts, gaps)
<1>0. N \in Nat
  OBVIOUS
<1>00. base \in Y
  <2>1. <<>> \in Seq(T)
    OBVIOUS
  <2>2. base \in Seq(Seq(T)) /\ base # <<>>
    BY <2>1, TupleType
  <2> QED
    BY <2>2, Zenon DEF Lists
<1>1. \A n \in 1..N : text[n] \in T /\ n - 1 \in 0..N
  OBVIOUS
<1>2. Steps(step, N, Y)
  <2>1. \A n \in 1..N : \A x \in Y : Cut(x, n, text[n], cuts, gaps) \in Y
    BY <1>1, CutType, Zenon
  <2> HIDE DEF Y, N
  <2> QED
    BY <2>1, Zenon DEF Steps
<1>3. PICK f : Unfolds(f, N, Y, base, step)
  <2> HIDE DEF step, N, Y, base
  <2> QED
    BY <1>0, <1>00, <1>2, Recursion, Zenon
<1>30. /\ f \in [0..N -> Y]
       /\ f[0] = base
       /\ \A n \in 1..N : f[n] = step[n][f[n - 1]]
  BY <1>3, Zenon DEF Unfolds
<1>4. \A n \in 1..N : f[n - 1] \in Y
  <2> HIDE DEF Y, N
  <2> QED
    BY <1>1, <1>30
<1>5. \A n \in 1..N : f[n] = Cut(f[n - 1], n, text[n], cuts, gaps)
  <2> HIDE DEF Y, N
  <2> QED
    BY <1>30, <1>4, Zenon
<1>6. PiecesFunction(f, text, cuts, gaps)
  <2>1. \A n \in 0..N : f[n] = IF n = 0 THEN <<<<>>>> ELSE Cut(f[n - 1], n, text[n], cuts, gaps)
    <3> TAKE n \in 0..N
    <3>1. CASE n = 0
      BY <1>30, <3>1, Zenon
    <3>2. CASE n # 0
      <4>1. n \in 1..N
        BY <3>2
      <4> QED
        BY <1>5, <3>2, <4>1, Zenon
    <3> QED
      BY <3>1, <3>2
  <2> QED
    BY <1>30, <2>1, Zenon DEF PiecesFunction, Cut
<1>7. PiecesFunction(pieces, text, cuts, gaps)
  BY <1>6
<1>8. Pieces(text, cuts, gaps) = pieces[N]
  BY Zenon DEF Pieces, PiecesFunction
<1> HIDE DEF pieces
<1>9. CutsUp(pieces, text, cuts, gaps) /\ CutsUp(f, text, cuts, gaps)
  BY <1>6, <1>7, PiecesFunctionCuts, Zenon
<1>10. \A n \in 0..N : pieces[n] = f[n]
  <2>1. Alongside(pieces, f, N)
    BY <1>9, Zenon DEF CutsUp, Alongside
  <2> QED
    BY <1>0, <2>1, Agreement, Zenon
<1>11. pieces[N] = f[N] /\ f \in [0..N -> Y]
  <2>1. N \in 0..N
    BY <1>0
  <2> QED
    BY <1>10, <1>30, <2>1, Zenon
<1> QED
  BY <1>8, <1>9, <1>11, Zenon

(* Nothing is one piece; a token more is a step more.                      *)
LEMMA PiecesOfNothing ==
  ASSUME NEW cuts, NEW gaps
  PROVE  Pieces(<<>>, cuts, gaps) = <<<<>>>>
<1> DEFINE none == <<>>
           empty == {}
<1>0. none \in Seq(empty)
  OBVIOUS
<1>1. Len(none) = 0
  OBVIOUS
<1> HIDE DEF none, empty
<1>2. PICK f \in [0..Len(none) -> Lists(empty)] :
        CutsUp(f, none, cuts, gaps) /\ Pieces(none, cuts, gaps) = f[Len(none)]
  BY <1>0, PiecesIs
<1>3. Pieces(none, cuts, gaps) = <<<<>>>>
  BY <1>1, <1>2, Zenon DEF CutsUp
<1> QED
  BY <1>3 DEF none

LEMMA PiecesAppend ==
  ASSUME NEW T, NEW text \in Seq(T), NEW t \in T, NEW cuts, NEW gaps, NEW cuts2, NEW gaps2,
         \A n \in DOMAIN text : (n \in cuts <=> n \in cuts2) /\ (n \in gaps <=> n \in gaps2)
  PROVE  Pieces(Append(text, t), cuts2, gaps2)
           = Cut(Pieces(text, cuts, gaps), Len(text) + 1, t, cuts2, gaps2)
<1> DEFINE more == Append(text, t)
           N == Len(text)
           M == N + 1
<1>0. /\ N \in Nat /\ more \in Seq(T) /\ Len(more) = M
      /\ M \in 1..M /\ M - 1 = N /\ more[M] = t /\ N \in 0..N /\ DOMAIN text = 1..N
      /\ \A n \in 1..N : text[n] = more[n] /\ n \in 1..M
  OBVIOUS
<1> HIDE DEF more, M
<1>1. PICK f \in [0..N -> Lists(T)] :
        CutsUp(f, text, cuts, gaps) /\ Pieces(text, cuts, gaps) = f[N]
  BY PiecesIs
<1>2. PICK g \in [0..Len(more) -> Lists(T)] :
        CutsUp(g, more, cuts2, gaps2) /\ Pieces(more, cuts2, gaps2) = g[Len(more)]
  BY <1>0, PiecesIs
<1>3. \A n \in 1..M : g[n] = Cut(g[n - 1], n, more[n], cuts2, gaps2)
  BY <1>0, <1>2, Zenon DEF CutsUp
<1>4. \A n \in 1..N : f[n] = Cut(f[n - 1], n, more[n], cuts2, gaps2)
  BY <1>0, <1>1, Zenon DEF CutsUp, Cut
<1>5. f[0] = g[0]
  BY <1>1, <1>2, Zenon DEF CutsUp
<1>6. Alongside(f, g, N)
  BY <1>0, <1>3, <1>4, <1>5, Zenon DEF Alongside
<1>7. f[N] = g[N]
  <2>1. \A n \in 0..N : f[n] = g[n]
    <3>1. N \in Nat
      BY <1>0
    <3> QED
      BY <1>6, <3>1, Agreement, ZenonT(40)
  <2> QED
    BY <1>0, <2>1
<1>8. g[M] = Cut(g[N], M, t, cuts2, gaps2)
  BY <1>0, <1>3, Zenon
<1> QED
  BY <1>0, <1>1, <1>2, <1>7, <1>8, Zenon DEF more, M

-----------------------------------------------------------------------------
(* Splitting at a delimiter.                                               *)
LEMMA SplitType ==
  ASSUME NEW T, NEW text \in Seq(T), NEW d
  PROVE  Split(text, d) \in Lists(T)
<1> DEFINE cuts == {n \in DOMAIN text : text[n] = d}
           none == {}
<1>1. PICK f \in [0..Len(text) -> Lists(T)] :
        CutsUp(f, text, cuts, none) /\ Pieces(text, cuts, none) = f[Len(text)]
  <2> HIDE DEF cuts, none
  <2> QED
    BY PiecesIs
<1>2. Len(text) \in 0..Len(text)
  OBVIOUS
<1>3. f[Len(text)] \in Lists(T)
  BY <1>2
<1> QED
  BY <1>1, <1>3, Zenon DEF Split

LEMMA SplitNothing == ASSUME NEW d PROVE Split(<<>>, d) = <<<<>>>>
BY PiecesOfNothing DEF Split

LEMMA SplitAppend ==
  ASSUME NEW T, NEW text \in Seq(T), NEW t \in T, NEW d
  PROVE  Split(Append(text, t), d) = IF t = d THEN Append(Split(text, d), <<>>)
                                     ELSE AddTo(Split(text, d), t)
<1> DEFINE more == Append(text, t)
           cuts == {n \in DOMAIN text : text[n] = d}
           cuts2 == {n \in DOMAIN more : more[n] = d}
           none == {}
           M == Len(text) + 1
<1>1. \A n \in DOMAIN text : n \in DOMAIN more /\ more[n] = text[n]
  OBVIOUS
<1>2. M \in DOMAIN more /\ more[M] = t
  OBVIOUS
<1>3. \A n \in DOMAIN text : (n \in cuts <=> n \in cuts2) /\ (n \in none <=> n \in none)
  BY <1>1
<1>4. M \in cuts2 <=> t = d
  BY <1>2
<1> HIDE DEF cuts, cuts2, none
<1>5. Pieces(more, cuts2, none) = Cut(Pieces(text, cuts, none), M, t, cuts2, none)
  BY <1>3, PiecesAppend
<1>6. M \notin none
  BY DEF none
<1>7. Pieces(more, cuts2, none) = IF t = d THEN Append(Pieces(text, cuts, none), <<>>)
                                  ELSE AddTo(Pieces(text, cuts, none), t)
  BY <1>4, <1>5, <1>6, Zenon DEF Cut
<1>8. Split(more, d) = Pieces(more, cuts2, none) /\ Split(text, d) = Pieces(text, cuts, none)
  BY Zenon DEF Split, cuts, cuts2, none
<1> QED
  BY <1>7, <1>8, Zenon

(* What holds no delimiter extends the last part.                          *)
AddAll(parts, text) == [parts EXCEPT ![Len(parts)] = @ \o text]

LEMMA ReplaceLast ==
  ASSUME NEW A, NEW list \in Seq(A), NEW x \in A, NEW y \in A
  PROVE  [Append(list, x) EXCEPT ![Len(list) + 1] = y] = Append(list, y)
<1> DEFINE m == Len(list) + 1
           p == Append(list, x)
           q == Append(list, y)
<1>0. \A z \in A : Append(list, z) \in Seq(A) /\ Len(Append(list, z)) = m
                   /\ Append(list, z)[m] = z
  OBVIOUS
<1>1. m \in 1..m /\ p \in [1..m -> A] /\ q \in [1..m -> A] /\ q[m] = y
  <2>1. m \in 1..m
    OBVIOUS
  <2>2. \A s \in Seq(A) : Len(s) = m => s \in [1..m -> A]
    OBVIOUS
  <2> QED
    BY <1>0, <2>1, <2>2
<1>2. \A n \in 1..m : n # m => p[n] = q[n]
  OBVIOUS
<1> HIDE DEF m, p, q
<1>3. [p EXCEPT ![m] = y] \in [1..m -> A]
  BY <1>1
<1>4. \A n \in 1..m : [p EXCEPT ![m] = y][n] = q[n]
  BY <1>1, <1>2
<1>5. [p EXCEPT ![m] = y] = q
  BY <1>1, <1>3, <1>4
<1> QED
  BY <1>5 DEF m, p, q

LEMMA AddAllFacts ==
  ASSUME NEW T, NEW parts \in Lists(T), NEW text \in Seq(T)
  PROVE  /\ AddAll(parts, text) \in Lists(T)
         /\ AddAll(parts, <<>>) = parts
         /\ \A t \in T : AddTo(AddAll(parts, text), t) = AddAll(parts, Append(text, t))
         /\ AddAll(<<<<>>>>, text) = <<text>>
         /\ \A list \in Seq(Seq(T)) : AddAll(Append(list, <<>>), text) = Append(list, text)
<1> DEFINE A == Seq(T)
           none == <<>>
           L == Len(parts)
           last == parts[L]
<1>1. parts \in Seq(A) /\ parts # <<>> /\ none \in A
  BY DEF Lists
<1>2. text \in A /\ none \o text = text
  OBVIOUS
<1>3. L \in Nat \ {0} /\ L \in DOMAIN parts /\ last \in A
  <2> HIDE DEF A
  <2> QED
    BY <1>1, LastIsMember, Zenon
<1>4. last \o text \in A /\ last \o none = last
  BY <1>3
<1>5. \A t \in T : Append(last \o text, t) = last \o Append(text, t)
  BY <1>3, SMTT(30)
<1> HIDE DEF A, L, last
<1>6. AddAll(parts, text) \in Lists(T)
  <2>1. /\ [parts EXCEPT ![Len(parts)] = last \o text] \in Seq(A)
        /\ [parts EXCEPT ![Len(parts)] = last \o text] # <<>>
    BY <1>1, <1>4, AddToLast, Zenon
  <2> QED
    BY <2>1, Zenon DEF AddAll, A, L, last, Lists
<1>7. AddAll(parts, none) = parts
  BY <1>1, <1>3, <1>4 DEF AddAll, L, last
<1>8. ASSUME NEW t \in T PROVE AddTo(AddAll(parts, text), t) = AddAll(parts, Append(text, t))
  <2> DEFINE longer == [parts EXCEPT ![L] = last \o text]
  <2>1. Len(longer) = L /\ longer[L] = last \o text
    BY <1>1, <1>3 DEF L
  <2>2. [longer EXCEPT ![L] = last \o Append(text, t)]
          = [parts EXCEPT ![L] = last \o Append(text, t)]
    BY <1>1, <1>3
  <2>3. AddAll(parts, text) = longer
    BY Zenon DEF AddAll, L, last
  <2>4. AddTo(longer, t) = [longer EXCEPT ![L] = last \o Append(text, t)]
    <3>1. AddTo(longer, t) = [longer EXCEPT ![L] = Append(longer[L], t)]
      BY <2>1, Zenon DEF AddTo
    <3> QED
      BY <1>5, <2>1, <3>1, Zenon
  <2>5. AddAll(parts, Append(text, t)) = [parts EXCEPT ![L] = last \o Append(text, t)]
    BY Zenon DEF AddAll, L, last
  <2> QED
    BY <2>2, <2>3, <2>4, <2>5, Zenon
<1>9. AddAll(<<none>>, text) = <<text>>
  <2>1. [<<none>> EXCEPT ![1] = text] = <<text>>
    OBVIOUS
  <2> QED
    BY <1>2, <2>1 DEF AddAll
<1>10. ASSUME NEW list \in Seq(A) PROVE AddAll(Append(list, none), text) = Append(list, text)
  <2>1. Append(list, none) \in Seq(A) /\ Len(Append(list, none)) = Len(list) + 1
    BY <1>1
  <2>2. [Append(list, none) EXCEPT ![Len(list) + 1] = text] = Append(list, text)
    BY <1>1, <1>2, ReplaceLast
  <2>3. Append(list, none)[Len(list) + 1] = none
    BY <1>1
  <2> QED
    BY <1>2, <2>1, <2>2, <2>3 DEF AddAll
<1> QED
  BY <1>6, <1>7, <1>8, <1>9, <1>10, Zenon DEF A, none

(* Among the tokens T, those in W leave the delimiter alone.               *)
Spares(W, T, d) == W \subseteq T /\ d \notin W

LEMMA SplitClean ==
  ASSUME NEW T, NEW W, NEW d, Spares(W, T, d), NEW text \in Seq(T)
  PROVE  \A p \in Seq(W) : Split(text \o p, d) = AddAll(Split(text, d), p)
<1> DEFINE P == {p \in Seq(W) : Split(text \o p, d) = AddAll(Split(text, d), p)}
           parts == Split(text, d)
<1> W \subseteq T /\ d \notin W
  BY DEF Spares
<1>0. parts \in Lists(T)
  BY SplitType
<1>1. <<>> \in P
  <2>1. text \o <<>> = text /\ <<>> \in Seq(W) /\ <<>> \in Seq(T)
    OBVIOUS
  <2>2. AddAll(parts, <<>>) = parts
    BY <1>0, <2>1, AddAllFacts
  <2> QED
    BY <2>1, <2>2
<1>2. ASSUME NEW p \in Seq(W), NEW t \in W, p \in P PROVE Append(p, t) \in P
  <2>1. t \in T /\ t # d /\ p \in Seq(T) /\ text \o p \in Seq(T)
        /\ Append(p, t) \in Seq(W)
    OBVIOUS
  <2>2. text \o Append(p, t) = Append(text \o p, t)
    BY <2>1
  <2>3. Split(Append(text \o p, t), d) = AddTo(Split(text \o p, d), t)
    BY <2>1, SplitAppend
  <2>4. Split(text \o p, d) = AddAll(parts, p)
    BY <1>2
  <2>5. AddTo(AddAll(parts, p), t) = AddAll(parts, Append(p, t))
    <3> HIDE DEF parts
    <3> QED
      BY <1>0, <2>1, AddAllFacts
  <2> QED
    BY <2>1, <2>2, <2>3, <2>4, <2>5, Zenon
<1> HIDE DEF P
<1>3. Seq(W) \subseteq P
  BY <1>1, <1>2, SequenceInduction
<1> QED
  BY <1>3, Zenon DEF P

-----------------------------------------------------------------------------
(* Parts with the delimiter put before each are parts again.               *)
LEMMA MarkType ==
  ASSUME NEW S, NEW parts \in Seq(Seq(S)), parts # <<>>, NEW delimiter \in S
  PROVE  LET marked == [n \in DOMAIN parts |-> <<delimiter>> \o parts[n]]
         IN  marked \in Seq(Seq(S)) /\ marked # <<>> /\ marked[Len(marked)] # <<>>
<1> DEFINE marked == [n \in DOMAIN parts |-> <<delimiter>> \o parts[n]]
           size == Len(parts)
<1>1. size \in Nat \ {0} /\ DOMAIN parts = 1..size /\ \A n \in 1..size : parts[n] \in Seq(S)
  BY LastIsMember
<1>2. ASSUME NEW n \in 1..size
      PROVE  <<delimiter>> \o parts[n] \in Seq(S) /\ <<delimiter>> \o parts[n] # <<>>
  <2>1. <<delimiter>> \in Seq(S) /\ <<delimiter>> # <<>>
    OBVIOUS
  <2> QED
    BY <1>1, <2>1, ConcatType, ConcatNotEmpty
<1> HIDE DEF size
<1>3. marked \in [1..size -> Seq(S)]
  BY <1>1, <1>2
<1> HIDE DEF marked
<1>4. marked \in Seq(Seq(S)) /\ Len(marked) = size
  <2>1. \A X : \A s \in [1..size -> X] : s \in Seq(X) /\ Len(s) = size
    BY <1>1
  <2> QED
    BY <1>3, <2>1
<1>5. marked # <<>>
  BY <1>1, <1>4
<1>6. marked[size] # <<>>
  <2>1. size \in 1..size
    BY <1>1
  <2> QED
    BY <1>1, <1>2, <2>1, Zenon DEF marked
<1> QED
  BY <1>4, <1>5, <1>6 DEF marked

(* Join makes a text of them.                                              *)
LEMMA JoinType ==
  ASSUME NEW S, NEW parts \in Seq(Seq(S)), parts # <<>>, NEW delimiter \in S
  PROVE  Join(parts, delimiter) \in Seq(S)
<1> DEFINE marked == [n \in DOMAIN parts |-> <<delimiter>> \o parts[n]]
<1>1. marked \in Seq(Seq(S)) /\ marked # <<>> /\ marked[Len(marked)] # <<>>
  BY MarkType
<1> HIDE DEF marked
<1>2. FlattenSeq(marked) \in Seq(S) /\ FlattenSeq(marked) # <<>>
  BY <1>1, FlattenType, FlattenNotEmpty
<1>3. Tail(FlattenSeq(marked)) \in Seq(S)
  BY <1>2, TailType
<1> QED
  BY <1>3 DEF Join, marked

(* Join of one part, and of one part more.                                 *)
LEMMA JoinOne ==
  ASSUME NEW T, NEW p \in Seq(T), NEW d \in T
  PROVE  Join(<<p>>, d) = p
<1> DEFINE A == Seq(T)
           none == <<>>
           first == <<d>> \o p
           marked == [n \in DOMAIN <<p>> |-> <<d>> \o <<p>>[n]]
<1>1. none \in Seq(A) /\ FlattenSeq(none) = <<>>
  <2>1. none \in Seq(A)
    OBVIOUS
  <2>2. FlattenSeq(none) = <<>>
    BY DEF FlattenSeq
  <2> QED
    BY <2>1, <2>2
<1>2. first \in A /\ <<>> \o first = first /\ Tail(first) = p
  OBVIOUS
<1>3. marked = Append(none, first)
  <2>1. DOMAIN <<p>> = 1..1 /\ \A n \in 1..1 : <<p>>[n] = p
    OBVIOUS
  <2>2. marked = [n \in 1..1 |-> first]
    BY <2>1
  <2> HIDE DEF marked, first
  <2>3. [n \in 1..1 |-> first] = <<first>>
    OBVIOUS
  <2> QED
    BY <2>2, <2>3
<1> HIDE DEF first, none, marked
<1>4. FlattenSeq(Append(none, first)) = FlattenSeq(none) \o first
  BY <1>1, <1>2, FlattenAppend
<1> QED
  BY <1>1, <1>2, <1>3, <1>4 DEF Join, marked

LEMMA JoinMore ==
  ASSUME NEW T, NEW parts \in Lists(T), NEW p \in Seq(T), NEW d \in T
  PROVE  Join(Append(parts, p), d) = Append(Join(parts, d), d) \o p
<1> DEFINE A == Seq(T)
           next == Append(parts, p)
           marked == [n \in DOMAIN parts |-> <<d>> \o parts[n]]
           marked2 == [n \in DOMAIN next |-> <<d>> \o next[n]]
           size == Len(parts)
           m == size + 1
           last == <<d>> \o p
<1>1. parts \in Seq(A) /\ parts # <<>> /\ p \in A
  BY DEF Lists
<1>2. /\ next \in Seq(A) /\ next # <<>> /\ size \in Nat /\ m \in Nat
      /\ DOMAIN parts = 1..size /\ DOMAIN next = 1..m
      /\ m \in 1..m /\ next[m] = p /\ m = size + 1
      /\ \A n \in 1..size : n \in 1..m /\ next[n] = parts[n]
  <2> HIDE DEF A
  <2> QED
    BY <1>1
<1>3. /\ marked \in Seq(A) /\ marked # <<>> /\ marked[Len(marked)] # <<>>
      /\ marked2 \in Seq(A)
  <2> HIDE DEF marked, marked2, next
  <2>1. \A q \in Seq(A) : q # <<>> => LET marks == [n \in DOMAIN q |-> <<d>> \o q[n]]
                                     IN marks \in Seq(A) /\ marks # <<>> /\ marks[Len(marks)] # <<>>
    BY MarkType
  <2> QED
    BY <1>1, <1>2, <2>1, Zenon DEF marked, marked2
<1>4. Len(marked) = size /\ Len(marked2) = m
  <2>1. DOMAIN marked = 1..size /\ DOMAIN marked2 = 1..m
    BY <1>2
  <2>2. \A q \in Seq(A) : \A k \in Nat : DOMAIN q = 1..k => Len(q) = k
    OBVIOUS
  <2> HIDE DEF marked, marked2, size, m, A
  <2> QED
    BY <1>2, <1>3, <2>1, <2>2, Zenon
<1>5. \A n \in 1..size : marked2[n] = marked[n]
  BY <1>2, Zenon
<1>6. marked2[m] = last
  BY <1>2, Zenon
<1> HIDE DEF marked, marked2, size, m, next, last, A
<1>7. FlattenSeq(marked2) = FlattenSeq(marked) \o marked2[m]
  <2>1. marked \in Seq(Seq(T)) /\ marked2 \in Seq(Seq(T))
    BY <1>3, Zenon DEF A
  <2> QED
    BY <1>2, <1>4, <1>5, <2>1, FlattenOneMore, ZenonT(40)
<1>8. FlattenSeq(marked) \in Seq(T) /\ FlattenSeq(marked) # <<>>
  BY <1>3, FlattenType, FlattenNotEmpty DEF A
<1>9. ASSUME NEW w \in Seq(T), w # <<>>
      PROVE  Tail(w \o (<<d>> \o p)) = Append(Tail(w), d) \o p
  <2>1. \A u \in Seq(T) : Tail(w \o u) = Tail(w) \o u
    BY <1>9
  <2>2. Tail(w) \in Seq(T) /\ <<d>> \o p \in Seq(T)
    BY <1>9
  <2>3. Tail(w) \o (<<d>> \o p) = Append(Tail(w), d) \o p
    BY <2>2
  <2> QED
    BY <2>1, <2>2, <2>3
<1>10. Tail(FlattenSeq(marked) \o last) = Append(Tail(FlattenSeq(marked)), d) \o p
  BY <1>8, <1>9, Zenon DEF last
<1>11. Join(parts, d) = Tail(FlattenSeq(marked)) /\ Join(next, d) = Tail(FlattenSeq(marked2))
  BY Zenon DEF Join, marked, marked2
<1>12. Join(next, d) = Append(Join(parts, d), d) \o p
  BY <1>6, <1>7, <1>10, <1>11, Zenon
<1> QED
  BY <1>12 DEF next

(* A part that is split off, and another after a delimiter.                *)
LEMMA SplitWhole ==
  ASSUME NEW T, NEW W, NEW d, Spares(W, T, d), NEW p \in Seq(W)
  PROVE  Split(p, d) = <<p>>
<1> DEFINE none == <<>>
           A == Seq(T)
<1>0. ASSUME NEW t \in Seq(T), NEW u \in Seq(W) PROVE Split(t \o u, d) = AddAll(Split(t, d), u)
  BY SplitClean
<1>1. none \in A /\ p \in A /\ Split(none, d) = <<none>>
  BY SplitNothing DEF Spares
<1>2. Split(none \o p, d) = AddAll(Split(none, d), p)
  BY <1>0, <1>1, Zenon
<1>3. none \o p = p
  BY <1>1
<1>4. AddAll(<<none>>, p) = <<p>>
  <2>1. <<none>> \in Lists(T)
    BY <1>1 DEF Lists
  <2> QED
    BY <1>1, <2>1, AddAllFacts
<1> QED
  BY <1>1, <1>2, <1>3, <1>4, Zenon

LEMMA SplitOn ==
  ASSUME NEW T, NEW W, NEW d \in T, Spares(W, T, d), NEW text \in Seq(T)
  PROVE  \A p \in Seq(W) : Split(Append(text, d) \o p, d) = Append(Split(text, d), p)
<1> TAKE p \in Seq(W)
<1> DEFINE next == Append(text, d)
           parts == Split(text, d)
           none == <<>>
<1>0. ASSUME NEW t \in Seq(T), NEW u \in Seq(W) PROVE Split(t \o u, d) = AddAll(Split(t, d), u)
  BY SplitClean
<1>1. next \in Seq(T) /\ p \in Seq(T)
  BY DEF Spares
<1>2. Split(next, d) = Append(parts, none)
  BY SplitAppend
<1>3. parts \in Seq(Seq(T)) /\ parts \in Lists(T)
  BY SplitType DEF Lists
<1>4. Split(next \o p, d) = AddAll(Split(next, d), p)
  BY <1>0, <1>1, Zenon
<1>5. AddAll(Append(parts, none), p) = Append(parts, p)
  BY <1>1, <1>3, AddAllFacts
<1> QED
  BY <1>2, <1>4, <1>5, Zenon

LEMMA SplitTwo ==
  ASSUME NEW T, NEW W, NEW d \in T, Spares(W, T, d), NEW p \in Seq(W), NEW q \in Seq(W)
  PROVE  /\ Append(p, d) \o q \in Seq(T)
         /\ Split(Append(p, d) \o q, d) = <<p, q>>
         /\ \A r \in Seq(W) :
              Split(Append(Append(p, d) \o q, d) \o r, d) = <<p, q, r>>
<1> DEFINE pair == Append(p, d) \o q
<1>0. ASSUME NEW t \in Seq(T), NEW u \in Seq(W)
      PROVE  Split(Append(t, d) \o u, d) = Append(Split(t, d), u)
  BY SplitOn
<1>1. p \in Seq(T) /\ q \in Seq(T) /\ pair \in Seq(T)
  BY DEF Spares
<1>2. Split(p, d) = <<p>>
  BY SplitWhole, Zenon
<1>3. Split(pair, d) = Append(<<p>>, q)
  BY <1>0, <1>1, <1>2, Zenon
<1>4. Append(<<p>>, q) = <<p, q>> /\ \A r \in Seq(W) : Append(<<p, q>>, r) = <<p, q, r>>
  BY TupleAppend, Zenon
<1>5. \A r \in Seq(W) : Split(Append(pair, d) \o r, d) = Append(Split(pair, d), r)
  BY <1>0, <1>1, Zenon
<1> QED
  BY <1>1, <1>3, <1>4, <1>5, Zenon

(* Parts joined are the parts when split, if none holds the delimiter.     *)
LEMMA SplitJoin ==
  ASSUME NEW T, NEW W, NEW d \in T, Spares(W, T, d)
  PROVE  \A parts \in Lists(W) : Split(Join(parts, d), d) = parts
<1> DEFINE A == Seq(W)
           Good(parts) == Join(parts, d) \in Seq(T) /\ Split(Join(parts, d), d) = parts
           P == {parts \in Seq(A) : parts # <<>> => Good(parts)}
           none == <<>>
<1> W \subseteq T /\ d \notin W
  BY DEF Spares
<1>0. A \subseteq Seq(T) /\ Seq(A) \subseteq Seq(Seq(T))
  OBVIOUS
<1>00. ASSUME NEW text \in Seq(T), NEW p \in Seq(W)
       PROVE  Split(text \o p, d) = AddAll(Split(text, d), p)
  BY SplitClean
<1>1. none \in P
  OBVIOUS
<1>2. ASSUME NEW parts \in Seq(A), NEW p \in A, parts \in P PROVE Append(parts, p) \in P
  <2>0. Append(parts, p) \in Seq(A)
    BY AppendType, Zenon
  <2>1. CASE parts = <<>>
    <3>1. Append(parts, p) = <<p>> /\ p \in Seq(T) /\ <<>> \o p = p /\ <<>> \in Seq(T)
      BY <2>1
    <3>2. Join(<<p>>, d) = p
      BY <3>1, JoinOne
    <3>3. Split(<<>> \o p, d) = AddAll(Split(<<>>, d), p)
      BY <1>00, <3>1
    <3>4. AddAll(<<<<>>>>, p) = <<p>>
      <4>1. <<<<>>>> \in Lists(T)
        <5>1. Split(<<>>, d) \in Lists(T)
          BY <3>1, SplitType
        <5> QED
          BY <5>1, SplitNothing
      <4> QED
        BY <3>1, <4>1, AddAllFacts
    <3>5. Good(<<p>>)
      BY <3>1, <3>2, <3>3, <3>4, SplitNothing, Zenon
    <3> QED
      BY <2>0, <3>1, <3>5, Zenon
  <2>2. CASE parts # <<>>
    <3> DEFINE w == Join(parts, d)
               next == Append(parts, p)
    <3>1. w \in Seq(T) /\ Split(w, d) = parts
      BY <1>2, <2>2
    <3>2. Join(next, d) = Append(w, d) \o p
      <4>1. parts \in Lists(T) /\ p \in Seq(T)
        BY <1>0, <2>2 DEF Lists
      <4> QED
        BY <4>1, JoinMore
    <3> HIDE DEF w
    <3>3. Append(w, d) \in Seq(T) /\ Append(w, d) \o p \in Seq(T)
      BY <1>0, <3>1
    <3>4. Split(Append(w, d), d) = Append(parts, <<>>)
      BY <3>1, SplitAppend
    <3>5. Split(Append(w, d) \o p, d) = AddAll(Append(parts, <<>>), p)
      <4>1. Split(Append(w, d) \o p, d) = AddAll(Split(Append(w, d), d), p)
        BY <1>00, <3>3
      <4> QED
        BY <3>4, <4>1, Zenon
    <3>6. AddAll(Append(parts, <<>>), p) = next
      <4>1. parts \in Lists(T) /\ p \in Seq(T) /\ parts \in Seq(Seq(T))
        BY <1>0, <2>2 DEF Lists
      <4> QED
        BY <4>1, AddAllFacts
    <3>7. Good(next)
      BY <3>2, <3>3, <3>5, <3>6, Zenon
    <3> HIDE DEF Good
    <3> QED
      BY <2>0, <3>7, Zenon
  <2> QED
    BY <2>1, <2>2
<1> HIDE DEF A, P
<1>3. Seq(A) \subseteq P
  <2>1. \A s \in Seq(A) : \A x \in A : s \in P => Append(s, x) \in P
    BY <1>2
  <2>2. <<>> \in P
    BY <1>1
  <2> QED
    BY <2>1, <2>2, SequenceInduction, Zenon
<1>4. ASSUME NEW parts \in Lists(W) PROVE Split(Join(parts, d), d) = parts
  <2>1. parts \in Seq(A) /\ parts # <<>>
    BY DEF Lists, A
  <2>2. parts \in P
    BY <1>3, <2>1
  <2> QED
    BY <2>1, <2>2, Zenon DEF P
<1> QED
  BY <1>4

(* A function on 1..n is a sequence; sequences that agree are the same.    *)
LEMMA TableType ==
  ASSUME NEW A, NEW n \in Nat, NEW f \in [1..n -> A]
  PROVE  f \in Seq(A) /\ Len(f) = n
OBVIOUS

LEMMA LenIsNat ==
  ASSUME NEW A, NEW s \in Seq(A)
  PROVE  Len(s) \in Nat /\ DOMAIN s = 1..Len(s) /\ \A n \in 1..Len(s) : s[n] \in A
OBVIOUS

(* The segments of a list, joined.                                         *)
Bodies(segments, delimiter) == [n \in DOMAIN segments |-> Join(segments[n], delimiter)]

LEMMA BodiesType ==
  ASSUME NEW W, NEW d \in W, NEW segments \in Seq(Lists(W))
  PROVE  /\ Bodies(segments, d) \in Seq(Seq(W))
         /\ Len(Bodies(segments, d)) = Len(segments)
<1> DEFINE L == Lists(W)
           A == Seq(W)
           size == Len(segments)
<1>1. \A s \in L : Join(s, d) \in A
  BY JoinType DEF Lists
<1> HIDE DEF L, A
<1>2. size \in Nat /\ DOMAIN segments = 1..size /\ \A n \in 1..size : segments[n] \in L
  BY LenIsNat DEF L
<1> HIDE DEF size
<1>3. [n \in 1..size |-> Join(segments[n], d)] \in [1..size -> A]
  BY <1>1, <1>2
<1> QED
  BY <1>2, <1>3, TableType DEF Bodies, A, size

LEMMA BodiesMore ==
  ASSUME NEW W, NEW d \in W, NEW segments \in Seq(Lists(W)), NEW s \in Lists(W)
  PROVE  Bodies(Append(segments, s), d) = Append(Bodies(segments, d), Join(s, d))
<1> DEFINE L == Lists(W)
           A == Seq(W)
           more == Append(segments, s)
           size == Len(segments)
           b == Bodies(segments, d)
           b2 == Bodies(more, d)
           x == Join(s, d)
<1>1. segments \in Seq(L) /\ s \in L
  OBVIOUS
<1>2. x \in A
  BY JoinType DEF Lists
<1> HIDE DEF L
<1>3. /\ more \in Seq(L) /\ Len(more) = size + 1 /\ more[size + 1] = s
      /\ DOMAIN segments = 1..size /\ DOMAIN more = 1..(size + 1) /\ size \in Nat
      /\ \A n \in 1..size : more[n] = segments[n] /\ n \in 1..(size + 1)
      /\ size + 1 \in 1..(size + 1)
  BY <1>1
<1> HIDE DEF more, size
<1>4. b \in Seq(A) /\ Len(b) = size /\ b2 \in Seq(A) /\ Len(b2) = size + 1
  BY <1>3, BodiesType DEF L, size
<1>5. \A n \in 1..size : b[n] = Join(segments[n], d)
  BY <1>3 DEF Bodies
<1>6. \A n \in 1..(size + 1) : b2[n] = Join(more[n], d)
  BY <1>3 DEF Bodies
<1>60. b2[size + 1] = x /\ \A n \in 1..size : b2[n] = b[n]
  BY <1>3, <1>5, <1>6
<1> HIDE DEF b, b2, x, A
<1>7. b2 = Append(b, x)
  <2>1. Append(b, x) \in Seq(A) /\ Len(Append(b, x)) = size + 1
    BY <1>2, <1>3, <1>4
  <2>2. \A n \in 1..(size + 1) : b2[n] = Append(b, x)[n]
    BY <1>2, <1>3, <1>4, <1>60
  <2> QED
    BY <1>4, <2>1, <2>2, SameSequence
<1> QED
  BY <1>7 DEF b, b2, x, more

LEMMA WrittenNothing == ASSUME NEW d, NEW z PROVE Written(<<>>, d, z) = <<>>
<1>1. [n \in DOMAIN <<>> |-> Join(<<>>[n], d) \o <<z>>] = <<>>
  OBVIOUS
<1>2. FlattenSeq(<<>>) = <<>>
  BY DEF FlattenSeq
<1> QED
  BY <1>1, <1>2 DEF Written

LEMMA WrittenMore ==
  ASSUME NEW T, NEW d \in T, NEW z \in T, NEW segments \in Seq(Lists(T)), NEW s \in Lists(T)
  PROVE  /\ Written(segments, d, z) \in Seq(T)
         /\ Written(Append(segments, s), d, z)
              = Append(Written(segments, d, z) \o Join(s, d), z)
<1> DEFINE L == Lists(T)
           A == Seq(T)
           more == Append(segments, s)
           size == Len(segments)
           f == [n \in DOMAIN segments |-> Join(segments[n], d) \o <<z>>]
           g == [n \in DOMAIN more |-> Join(more[n], d) \o <<z>>]
           x == Join(s, d) \o <<z>>
<1>1. segments \in Seq(L) /\ s \in L
  OBVIOUS
<1>2. \A q \in L : Join(q, d) \in A /\ Join(q, d) \o <<z>> \in A
  BY JoinType DEF Lists
<1> HIDE DEF L
<1>3. /\ more \in Seq(L) /\ Len(more) = size + 1 /\ more[size + 1] = s
      /\ DOMAIN segments = 1..size /\ DOMAIN more = 1..(size + 1) /\ size \in Nat
      /\ size + 1 \in Nat
      /\ \A n \in 1..size : more[n] = segments[n] /\ n \in 1..(size + 1) /\ segments[n] \in L
      /\ \A n \in 1..(size + 1) : more[n] \in L
      /\ size + 1 \in 1..(size + 1)
  BY <1>1
<1> HIDE DEF more, size, A
<1>4. f \in [1..size -> A] /\ g \in [1..(size + 1) -> A]
  BY <1>2, <1>3
<1>5. \A n \in 1..size : g[n] = f[n]
  BY <1>3
<1>6. g[size + 1] = x
  BY <1>3
<1> HIDE DEF f, g, x
<1>7. /\ f \in Seq(A) /\ Len(f) = size /\ g \in Seq(A) /\ Len(g) = size + 1
  BY <1>3, <1>4, TableType
<1>8. FlattenSeq(g) = FlattenSeq(f) \o g[size + 1]
  BY <1>3, <1>5, <1>7, FlattenOneMore, ZenonT(40) DEF A
<1>9. FlattenSeq(f) \in A
  BY <1>7, FlattenType DEF A
<1>10. Join(s, d) \in A
  BY <1>1, <1>2
<1>11. FlattenSeq(f) \o x = Append(FlattenSeq(f) \o Join(s, d), z)
  <2>1. \A u \in Seq(T) : \A v \in Seq(T) : u \o (v \o <<z>>) = Append(u \o v, z)
    OBVIOUS
  <2> QED
    BY <1>9, <1>10, <2>1 DEF A, x
<1>12. Written(segments, d, z) = FlattenSeq(f) /\ Written(more, d, z) = FlattenSeq(g)
  BY Zenon DEF Written, f, g
<1>13. Written(more, d, z) = Append(Written(segments, d, z) \o Join(s, d), z)
  BY <1>6, <1>8, <1>11, <1>12, Zenon
<1> QED
  BY <1>9, <1>12, <1>13 DEF more, A

(* What is written is split where it was put together.                     *)
LEMMA SplitWritten ==
  ASSUME NEW T, NEW W, NEW z \in T, Spares(W, T, z), NEW d \in W
  PROVE  \A segments \in Seq(Lists(W)) :
           /\ Written(segments, d, z) \in Seq(T)
           /\ Split(Written(segments, d, z), z) = Append(Bodies(segments, d), <<>>)
<1> W \subseteq T /\ z \notin W
  BY DEF Spares
<1> DEFINE L == Lists(W)
           Good(segments) ==
             /\ Written(segments, d, z) \in Seq(T)
             /\ Split(Written(segments, d, z), z) = Append(Bodies(segments, d), <<>>)
           P == {segments \in Seq(L) : Good(segments)}
<1>0. L \subseteq Lists(T) /\ Seq(L) \subseteq Seq(Lists(T)) /\ d \in T
  BY DEF Lists
<1>00. ASSUME NEW text \in Seq(T), NEW p \in Seq(W)
       PROVE  Split(text \o p, z) = AddAll(Split(text, z), p)
  BY SplitClean
<1>01. ASSUME NEW text \in Seq(T)
       PROVE  Split(Append(text, z), z) = Append(Split(text, z), <<>>)
  BY SplitAppend
<1>1. <<>> \in P
  <2>1. Written(<<>>, d, z) = <<>> /\ Split(<<>>, z) = <<<<>>>>
    BY WrittenNothing, SplitNothing
  <2>2. Bodies(<<>>, d) = <<>>
    BY DEF Bodies
  <2>3. <<>> \in Seq(T) /\ <<>> \in Seq(L) /\ Append(<<>>, <<>>) = <<<<>>>>
    OBVIOUS
  <2> QED
    BY <2>1, <2>2, <2>3
<1>2. ASSUME NEW segments \in Seq(L), NEW s \in L, segments \in P
      PROVE  Append(segments, s) \in P
  <2> DEFINE more == Append(segments, s)
             w == Written(segments, d, z)
             b == Bodies(segments, d)
             x == Join(s, d)
  <2>1. more \in Seq(L)
    BY AppendType, Zenon
  <2>2. w \in Seq(T) /\ Split(w, z) = Append(b, <<>>)
    BY <1>2
  <2>3. Written(more, d, z) = Append(w \o x, z)
    BY <1>0, WrittenMore
  <2>4. x \in Seq(W)
    BY JoinType DEF Lists
  <2>5. Bodies(more, d) = Append(b, x)
    BY BodiesMore
  <2>6. b \in Seq(Seq(T)) /\ x \in Seq(T) /\ <<>> \in Seq(T)
    <3>1. b \in Seq(Seq(W))
      BY BodiesType
    <3> QED
      BY <2>4, <3>1
  <2> HIDE DEF w, b, x, more
  <2>7. w \o x \in Seq(T) /\ Append(w \o x, z) \in Seq(T)
    BY <2>2, <2>6
  <2>8. Split(w \o x, z) = Append(b, x)
    <3>1. Split(w \o x, z) = AddAll(Split(w, z), x)
      BY <1>00, <2>2, <2>4
    <3>2. AddAll(Append(b, <<>>), x) = Append(b, x)
      <4>1. Append(b, x) \in Lists(T)
        <5> DEFINE A == Seq(T)
        <5>1. b \in Seq(A) /\ x \in A
          BY <2>6
        <5> HIDE DEF A
        <5>2. Append(b, x) \in Seq(A) /\ Append(b, x) # <<>>
          BY <5>1
        <5> QED
          BY <5>2 DEF A, Lists
      <4> QED
        BY <2>6, <4>1, AddAllFacts
    <3> QED
      BY <2>2, <3>1, <3>2
  <2>9. Split(Append(w \o x, z), z) = Append(Append(b, x), <<>>)
    BY <1>01, <2>7, <2>8
  <2>10. Good(more)
    BY <2>3, <2>5, <2>7, <2>9, Zenon
  <2> HIDE DEF Good
  <2> QED
    BY <2>1, <2>10, Zenon DEF more
<1> HIDE DEF L, P
<1>3. Seq(L) \subseteq P
  <2>1. \A s \in Seq(L) : \A x \in L : s \in P => Append(s, x) \in P
    BY <1>2
  <2> QED
    BY <1>1, <2>1, SequenceInduction, Zenon
<1> QED
  BY <1>3, Zenon DEF P, L

(* What is all wanted is all kept.                                         *)
LEMMA KeepAll ==
  ASSUME NEW X, NEW S
  PROVE  \A s \in Seq(X) : (\A n \in DOMAIN s : s[n] \in S) => Keep(s, S) = s
<1> DEFINE P == {s \in Seq(X) : (\A n \in DOMAIN s : s[n] \in S) => Keep(s, S) = s}
<1>1. <<>> \in P
  BY KeepEmpty
<1>2. ASSUME NEW s \in Seq(X), NEW x \in X, s \in P PROVE Append(s, x) \in P
  <2>1. /\ Append(s, x) \in Seq(X)
        /\ \A n \in DOMAIN s : n \in DOMAIN Append(s, x) /\ Append(s, x)[n] = s[n]
        /\ Len(s) + 1 \in DOMAIN Append(s, x) /\ Append(s, x)[Len(s) + 1] = x
    OBVIOUS
  <2>2. Keep(Append(s, x), S) = IF x \in S THEN Append(Keep(s, S), x) ELSE Keep(s, S)
    BY KeepAppend
  <2> QED
    BY <1>2, <2>1, <2>2
<1> HIDE DEF P
<1>3. Seq(X) \subseteq P
  BY <1>1, <1>2, SequenceInduction
<1> QED
  BY <1>3, Zenon DEF P

LEMMA NotBlankIs ==
  ASSUME NEW A, <<>> \in A, NEW texts \in Seq(A \ {<<>>})
  PROVE  NotBlank(Append(texts, <<>>)) = texts
<1> DEFINE none == <<>>
           more == Append(texts, none)
           S == Range(more) \ {none}
<1>1. texts \in Seq(A) /\ none \in A
  OBVIOUS
<1>2. \A n \in DOMAIN texts : n \in DOMAIN more /\ more[n] = texts[n] /\ texts[n] # none
  <2> HIDE DEF none
  <2>1. \A n \in DOMAIN texts : n \in DOMAIN more /\ more[n] = texts[n]
    BY <1>1
  <2>2. \A n \in DOMAIN texts : texts[n] # none
    BY DEF none
  <2> QED
    BY <2>1, <2>2
<1> HIDE DEF none, more
<1>3. \A n \in DOMAIN texts : texts[n] \in S
  BY <1>2, Zenon DEF Range
<1>4. none \notin S
  OBVIOUS
<1> HIDE DEF S
<1>5. Keep(texts, S) = texts
  BY <1>1, <1>3, KeepAll
<1>6. Keep(Append(texts, none), S)
        = IF none \in S THEN Append(Keep(texts, S), none) ELSE Keep(texts, S)
  BY <1>1, KeepAppend
<1>7. NotBlank(more) = Keep(more, S)
  BY Zenon DEF NotBlank, S, none
<1> QED
  BY <1>4, <1>5, <1>6, <1>7, Zenon DEF more, none

(* A list of segments that begin with something is read back as written.   *)
LEMMA SegmentsBack ==
  ASSUME NEW T, NEW W, NEW V, NEW z \in T, Spares(W, T, z), NEW d \in W, Spares(V, W, d),
         NEW segments \in Seq(Lists(V)), \A n \in DOMAIN segments : segments[n][1] # <<>>
  PROVE  /\ NotBlank(Split(Written(segments, d, z), z)) = Bodies(segments, d)
         /\ [n \in DOMAIN Bodies(segments, d) |-> Split(Bodies(segments, d)[n], d)] = segments
<1> DEFINE L == Lists(V)
           size == Len(segments)
           b == Bodies(segments, d)
           back == [n \in DOMAIN b |-> Split(b[n], d)]
<1>0. V \subseteq W /\ L \subseteq Lists(W) /\ Seq(L) \subseteq Seq(Lists(W))
  BY DEF Spares, Lists
<1>1. size \in Nat /\ DOMAIN segments = 1..size /\ \A n \in 1..size : segments[n] \in L
  <2> HIDE DEF L
  <2> QED
    BY LenIsNat DEF L
<1>2. b \in Seq(Seq(W)) /\ Len(b) = size
  BY <1>0, BodiesType
<1>3. DOMAIN b = 1..size /\ \A n \in 1..size : b[n] = Join(segments[n], d)
  BY <1>1 DEF Bodies
<1>4. \A s \in L : Split(Join(s, d), d) = s
  BY SplitJoin
<1> HIDE DEF L, size, b
<1>5. back = segments
  <2>1. back \in [1..size -> L]
    BY <1>1, <1>3, <1>4
  <2>2. \A n \in 1..size : back[n] = segments[n]
    BY <1>1, <1>3, <1>4
  <2> HIDE DEF back
  <2>3. back \in Seq(L) /\ Len(back) = size
    BY <1>1, <2>1, TableType
  <2>4. segments \in Seq(L) /\ Len(segments) = size
    BY DEF L, size
  <2> QED
    BY <2>2, <2>3, <2>4, SameSequence
<1>6. \A n \in 1..size : b[n] # <<>>
  <2>1. Split(<<>>, d) = <<<<>>>>
    BY SplitNothing
  <2>2. <<<<>>>>[1] = <<>>
    OBVIOUS
  <2> QED
    BY <1>1, <1>3, <1>4, <2>1, <2>2
<1>7. b \in Seq(Seq(W) \ {<<>>})
  <2>1. \A n \in 1..size : b[n] \in Seq(W) \ {<<>>}
    <3> DEFINE A == Seq(W)
    <3>1. b \in Seq(A) /\ Len(b) = size
      BY <1>2
    <3> HIDE DEF A
    <3>2. \A n \in 1..size : b[n] \in A
      BY <3>1
    <3> QED
      BY <1>6, <3>2 DEF A
  <2> DEFINE B == Seq(W) \ {<<>>}
  <2>2. b \in [1..size -> B]
    <3> HIDE DEF B
    <3>1. b = [n \in 1..size |-> b[n]]
      BY <1>3 DEF b, Bodies
    <3> QED
      BY <2>1, <3>1 DEF B
  <2> HIDE DEF B
  <2>3. b \in Seq(B)
    BY <1>1, <2>2, TableType
  <2> QED
    BY <2>3 DEF B
<1>8. NotBlank(Append(b, <<>>)) = b
  <2>1. <<>> \in Seq(W)
    OBVIOUS
  <2> QED
    BY <1>7, <2>1, NotBlankIs
<1>9. Split(Written(segments, d, z), z) = Append(b, <<>>)
  <2>1. segments \in Seq(Lists(W))
    BY <1>0 DEF L
  <2> QED
    BY <2>1, SplitWritten DEF b
<1> QED
  BY <1>5, <1>8, <1>9 DEF back, b

(* Only cuts and gaps within the text matter.                              *)
LEMMA PiecesSame ==
  ASSUME NEW T, NEW text \in Seq(T), NEW cuts, NEW gaps, NEW cuts2, NEW gaps2,
         \A n \in DOMAIN text : (n \in cuts <=> n \in cuts2) /\ (n \in gaps <=> n \in gaps2)
  PROVE  Pieces(text, cuts, gaps) = Pieces(text, cuts2, gaps2)
<1>1. CASE text = <<>>
  BY <1>1, PiecesOfNothing
<1>2. CASE text # <<>>
  <2>1. PICK q \in Seq(T) : \E x \in T : text = Append(q, x)
    BY <1>2, FrontAndLast, Zenon
  <2>2. PICK x \in T : text = Append(q, x)
    BY <2>1, Zenon
  <2> DEFINE m == Len(q) + 1
  <2>3. /\ m \in DOMAIN text
        /\ \A n \in DOMAIN q : n \in DOMAIN text
    BY <2>2
  <2>4. Pieces(Append(q, x), cuts, gaps) = Cut(Pieces(q, cuts, gaps), m, x, cuts, gaps)
    BY PiecesAppend
  <2>5. Pieces(Append(q, x), cuts2, gaps2) = Cut(Pieces(q, cuts, gaps), m, x, cuts2, gaps2)
    BY <2>3, PiecesAppend
  <2> HIDE DEF m
  <2>6. Cut(Pieces(q, cuts, gaps), m, x, cuts, gaps)
          = Cut(Pieces(q, cuts, gaps), m, x, cuts2, gaps2)
    BY <2>3, Zenon DEF Cut
  <2> QED
    BY <2>2, <2>4, <2>5, <2>6, Zenon
<1> QED
  BY <1>1, <1>2

CutAt(text, delimiter, gaps) ==
  Pieces(text, {n \in DOMAIN text : text[n] = delimiter}, gaps)

(* A token that is dropped at the gap might as well not have been there.   *)
Uncut(T, head, q, s, z) ==
  /\ head \in Seq(T) /\ q \in T /\ s \in T /\ z \in T /\ q # z /\ s # z
  /\ \A n \in DOMAIN head : head[n] # z

Gapless(T, head, q, s, z) ==
  LET long == Append(Append(Append(head, q), s), z)
      short == Append(Append(head, s), z)
  IN  \A v \in Seq(T) : CutAt(long \o v, z, {Len(head) + 1}) = Split(short \o v, z)

LEMMA GapCut ==
  ASSUME NEW T, NEW head, NEW q, NEW s, NEW z, Uncut(T, head, q, s, z)
  PROVE  Gapless(T, head, q, s, z)
<1> DEFINE one == Append(head, q)
           two == Append(one, s)
           long == Append(two, z)
           less == Append(head, s)
           short == Append(less, z)
           size == Len(head)
           gap == {size + 1}
           Cuts(text) == {n \in DOMAIN text : text[n] = z}
           Good(v) == Pieces(long \o v, Cuts(long \o v), gap) = Split(short \o v, z)
           P == {v \in Seq(T) : Good(v)}
           none == <<>>
<1>0. /\ head \in Seq(T) /\ q \in T /\ s \in T /\ z \in T /\ q # z /\ s # z
      /\ \A n \in DOMAIN head : head[n] # z
  BY DEF Uncut
<1> USE <1>0
<1>1. /\ size \in Nat /\ DOMAIN head = 1..size
      /\ one \in Seq(T) /\ Len(one) = size + 1 /\ DOMAIN one = 1..(size + 1)
      /\ two \in Seq(T) /\ Len(two) = size + 2 /\ DOMAIN two = 1..(size + 2)
      /\ long \in Seq(T) /\ Len(long) = size + 3 /\ DOMAIN long = 1..(size + 3)
      /\ less \in Seq(T) /\ short \in Seq(T)
  OBVIOUS
<1>2. /\ \A n \in 1..size : one[n] = head[n] /\ two[n] = head[n] /\ long[n] = head[n]
      /\ one[size + 1] = q /\ two[size + 1] = q /\ long[size + 1] = q
      /\ two[size + 2] = s /\ long[size + 2] = s /\ long[size + 3] = z
  OBVIOUS
<1> HIDE DEF one, two, long, less, short, size
<1>3. Cuts(long) = {size + 3}
  <2>1. \A n \in 1..(size + 3) : n \in 1..size \/ n = size + 1 \/ n = size + 2 \/ n = size + 3
    BY <1>1
  <2>2. ASSUME NEW n \in 1..(size + 3) PROVE long[n] = z <=> n = size + 3
    <3>1. n \in 1..size => long[n] # z /\ n # size + 3
      BY <1>1, <1>2
    <3>2. size + 1 # size + 3 /\ size + 2 # size + 3
      BY <1>1
    <3> QED
      BY <1>2, <2>1, <3>1, <3>2
  <2>3. size + 3 \in 1..(size + 3) /\ DOMAIN long = 1..(size + 3)
    BY <1>1
  <2> QED
    BY <2>2, <2>3
<1> DEFINE base == Pieces(head, {size + 3}, gap)
           empty == {}
<1>4. base = Split(head, z)
  <2>1. Pieces(head, {size + 3}, gap) = Pieces(head, empty, empty)
    <3>1. \A n \in DOMAIN head : n \notin {size + 3} /\ n \notin gap
      BY <1>1
    <3> HIDE DEF gap
    <3> QED
      BY <3>1, PiecesSame
  <2>2. Cuts(head) = empty
    OBVIOUS
  <2> QED
    BY <2>1, <2>2, Zenon DEF Split
<1>5. Pieces(one, {size + 3}, gap) = base
  <2>1. Pieces(Append(head, q), {size + 3}, gap) = Cut(base, Len(head) + 1, q, {size + 3}, gap)
    BY PiecesAppend
  <2>2. Len(head) + 1 \in gap /\ Len(head) + 1 \notin {size + 3}
    BY <1>1 DEF size
  <2> HIDE DEF base, gap
  <2> QED
    BY <2>1, <2>2 DEF Cut, one
<1>6. Pieces(two, {size + 3}, gap) = AddTo(base, s)
  <2>1. Pieces(Append(one, s), {size + 3}, gap)
          = Cut(Pieces(one, {size + 3}, gap), Len(one) + 1, s, {size + 3}, gap)
    BY <1>1, PiecesAppend
  <2>2. Len(one) + 1 \notin gap /\ Len(one) + 1 \notin {size + 3}
    BY <1>1
  <2> HIDE DEF base, gap
  <2> QED
    BY <1>5, <2>1, <2>2 DEF Cut, two
<1>7. Pieces(long, {size + 3}, gap) = Append(AddTo(base, s), <<>>)
  <2>1. Pieces(Append(two, z), {size + 3}, gap)
          = Cut(Pieces(two, {size + 3}, gap), Len(two) + 1, z, {size + 3}, gap)
    BY <1>1, PiecesAppend
  <2>2. Len(two) + 1 \in {size + 3}
    BY <1>1
  <2> HIDE DEF base, gap
  <2> QED
    BY <1>6, <2>1, <2>2 DEF Cut, long
<1>8. Split(short, z) = Append(AddTo(base, s), <<>>)
  <2>1. Split(Append(head, s), z) = AddTo(Split(head, z), s)
    BY SplitAppend
  <2>2. Split(Append(less, z), z) = Append(Split(less, z), <<>>)
    BY <1>1, SplitAppend
  <2> HIDE DEF base
  <2> QED
    BY <1>4, <2>1, <2>2 DEF less, short
<1> HIDE DEF base
<1>9. none \in P
  <2>1. long \o none = long /\ short \o none = short /\ none \in Seq(T)
    BY <1>1
  <2> HIDE DEF none
  <2>2. Pieces(long, Cuts(long), gap) = Split(short, z)
    BY <1>3, <1>7, <1>8
  <2> HIDE DEF gap, Cuts
  <2> QED
    BY <2>1, <2>2
<1>10. ASSUME NEW v \in Seq(T), NEW t \in T, v \in P PROVE Append(v, t) \in P
  <2> DEFINE text == long \o v
             more == Append(text, t)
             other == short \o v
             m == Len(text) + 1
  <2>1. /\ text \in Seq(T) /\ other \in Seq(T)
        /\ long \o Append(v, t) = more /\ short \o Append(v, t) = Append(other, t)
    <3>1. \A u \in Seq(T) : u \o v \in Seq(T) /\ u \o Append(v, t) = Append(u \o v, t)
      BY ConcatFacts, ConcatType
    <3> QED
      BY <1>1, <3>1
  <2>2. Len(text) = size + 3 + Len(v)
    BY <1>1, ConcatType
  <2>3. Pieces(text, Cuts(text), gap) = Split(other, z)
    BY <1>10
  <2> HIDE DEF text, other
  <2>4. /\ m \in DOMAIN more /\ more[m] = t /\ m \notin gap
        /\ \A n \in DOMAIN text : n \in DOMAIN more /\ more[n] = text[n]
    <3>1. Len(text) \in Nat /\ Len(text) # size /\ Len(text) + 1 # size + 1
      BY <1>1, <2>2
    <3>2. /\ m \in DOMAIN more /\ more[m] = t
          /\ \A n \in DOMAIN text : n \in DOMAIN more /\ more[n] = text[n]
      BY <2>1
    <3> QED
      BY <3>1, <3>2
  <2> HIDE DEF more, m
  <2>5. /\ m \in Cuts(more) <=> t = z
        /\ \A n \in DOMAIN text : n \in Cuts(text) <=> n \in Cuts(more)
    BY <2>4
  <2> HIDE DEF gap, Cuts
  <2>6. Pieces(Append(text, t), Cuts(more), gap)
          = Cut(Pieces(text, Cuts(text), gap), Len(text) + 1, t, Cuts(more), gap)
    BY <2>1, <2>5, PiecesAppend
  <2>7. Split(Append(other, t), z) = IF t = z THEN Append(Split(other, z), <<>>)
                                     ELSE AddTo(Split(other, z), t)
    BY <2>1, SplitAppend
  <2>8. Pieces(more, Cuts(more), gap) = Split(Append(other, t), z)
    BY <2>3, <2>4, <2>5, <2>6, <2>7, Zenon DEF Cut, more, m
  <2>9. Append(v, t) \in Seq(T)
    OBVIOUS
  <2> QED
    BY <2>1, <2>8, <2>9
<1> HIDE DEF P
<1>11. Seq(T) \subseteq P
  BY <1>9, <1>10, SequenceInduction DEF none
<1> QED
  BY <1>11, Zenon DEF Gapless, CutAt, P, Cuts, gap, size, long, two, one, short, less

(* A segment more at the beginning.                                        *)
LeadsOff(T, first, d, z) ==
  \A segments \in Seq(Lists(T)) :
    Written(<<first>> \o segments, d, z)
      = Append(Join(first, d), z) \o Written(segments, d, z)

LEMMA WrittenFirst ==
  ASSUME NEW T, NEW d \in T, NEW z \in T, NEW first \in Lists(T)
  PROVE  LeadsOff(T, first, d, z)
<1> DEFINE L == Lists(T)
           A == Seq(T)
           x == Append(Join(first, d), z)
           W(segments) == Written(segments, d, z)
           J(s) == Join(s, d)
           P == {segments \in Seq(L) : W(<<first>> \o segments) = x \o W(segments)}
           none == <<>>
<1>1. /\ W(none) = none
      /\ \A segments \in Seq(L) : \A s \in L :
           /\ W(segments) \in A
           /\ W(Append(segments, s)) = Append(W(segments) \o J(s), z)
  BY WrittenNothing, WrittenMore
<1>2. \A s \in L : J(s) \in A
  BY JoinType DEF Lists
<1>3. /\ none \in Seq(L) /\ <<first>> = Append(none, first) /\ <<first>> \o none = <<first>>
      /\ \A segments \in Seq(L) : <<first>> \o segments \in Seq(L)
      /\ \A segments \in Seq(L) : \A s \in L : Append(segments, s) \in Seq(L)
      /\ \A segments \in Seq(L) : \A s \in L :
           <<first>> \o Append(segments, s) = Append(<<first>> \o segments, s)
  <2>1. first \in L
    OBVIOUS
  <2> HIDE DEF L
  <2> QED
    BY <2>1
<1>4. /\ none \o J(first) = J(first) /\ x \o none = x /\ x \in A
  BY <1>2
<1>5. none \in P
  <2> HIDE DEF W, J, L, none, x
  <2>1. W(<<first>>) = Append(none \o J(first), z)
    BY <1>1, <1>3 DEF L
  <2>2. W(<<first>>) = x
    BY <1>4, <2>1 DEF x, J
  <2> QED
    BY <1>1, <1>3, <1>4, <2>2
<1>6. ASSUME NEW segments \in Seq(L), NEW s \in L, segments \in P
      PROVE  Append(segments, s) \in P
  <2> DEFINE f == <<first>> \o segments
             w == W(segments)
             j == J(s)
  <2> HIDE DEF W, J, L, A
  <2>1. W(f) = x \o w
    BY <1>6
  <2>2. f \in Seq(L) /\ <<first>> \o Append(segments, s) = Append(f, s)
    BY <1>3
  <2>3. W(Append(f, s)) = Append(W(f) \o j, z)
    BY <1>1, <2>2
  <2>4. W(Append(segments, s)) = Append(w \o j, z)
    BY <1>1
  <2>5. w \in A /\ j \in A
    BY <1>1, <1>2
  <2> HIDE DEF x, w, j, f
  <2>6. Append((x \o w) \o j, z) = x \o Append(w \o j, z)
    <3>1. (x \o w) \o j = x \o (w \o j) /\ w \o j \in A
      BY <1>4, <2>5 DEF A
    <3>2. \A u \in A : x \o Append(u, z) = Append(x \o u, z)
      BY <1>4, ConcatFacts DEF A
    <3> QED
      BY <3>1, <3>2
  <2> QED
    BY <1>3, <2>1, <2>2, <2>3, <2>4, <2>6
<1> HIDE DEF P
<1>7. Seq(L) \subseteq P
  BY <1>5, <1>6, SequenceInduction DEF none
<1> QED
  BY <1>7, Zenon DEF LeadsOff, P, L, W, x

(* A list of parts begins with its first part, if that is not empty.       *)
LEMMA JoinFirst ==
  ASSUME NEW T, NEW d \in T, NEW parts \in Lists(T), parts[1] # <<>>
  PROVE  Join(parts, d) # <<>> /\ Join(parts, d)[1] = parts[1][1]
<1> DEFINE A == Seq(T)
           Begins(p) == p # <<>> /\ p[1] # <<>> => Join(p, d) # <<>> /\ Join(p, d)[1] = p[1][1]
           P == {p \in Seq(A) : Begins(p)}
           none == <<>>
<1>1. none \in P
  <2>1. none \in Seq(A)
    OBVIOUS
  <2> QED
    BY <2>1
<1>2. ASSUME NEW p \in Seq(A), NEW x \in A, p \in P PROVE Append(p, x) \in P
  <2> DEFINE q == Append(p, x)
  <2>1. q \in Seq(A)
    OBVIOUS
  <2>2. SUFFICES ASSUME q # <<>>, q[1] # <<>> PROVE Join(q, d) # <<>> /\ Join(q, d)[1] = q[1][1]
    BY <2>1
  <2>3. CASE p = <<>>
    <3>1. q = <<x>> /\ q[1] = x
      BY <2>3
    <3> QED
      BY <2>2, <3>1, JoinOne, Zenon
  <2>4. CASE p # <<>>
    <3>1. p \in Lists(T) /\ q[1] = p[1]
      <4> HIDE DEF A
      <4>1. q[1] = p[1]
        BY <2>4
      <4> QED
        BY <2>4, <4>1 DEF Lists, A
    <3>2. Join(p, d) # <<>> /\ Join(p, d)[1] = p[1][1]
      BY <1>2, <2>2, <2>4, <3>1
    <3>3. Join(q, d) = Append(Join(p, d), d) \o x
      BY <3>1, JoinMore, Zenon
    <3>4. Join(p, d) \in A
      BY <2>4, JoinType
    <3> DEFINE j == Join(p, d)
    <3>50. j \in Seq(T) /\ j # <<>>
      BY <3>2, <3>4
    <3> HIDE DEF j
    <3>5. Append(j, d) \o x # <<>> /\ (Append(j, d) \o x)[1] = j[1]
      BY <3>50
    <3> QED
      BY <3>1, <3>2, <3>3, <3>5 DEF j
  <2> QED
    BY <2>3, <2>4
<1> HIDE DEF P
<1>3. Seq(A) \subseteq P
  BY <1>1, <1>2, SequenceInduction DEF none
<1>4. parts \in P /\ parts # <<>>
  BY <1>3 DEF Lists
<1> QED
  BY <1>4 DEF P

(* A written text holds the tag of each of its segments, and begins with   *)
(* the first one.                                                          *)
TagsIn(w, segments) ==
  /\ \A n \in DOMAIN segments : \E k \in DOMAIN w : w[k] = segments[n][1][1]
  /\ segments # <<>> => w # <<>> /\ w[1] = segments[1][1][1]

LEMMA WrittenTags ==
  ASSUME NEW T, NEW d \in T, NEW z \in T,
         NEW segments \in Seq({s \in Lists(T) : s[1] # <<>>})
  PROVE  TagsIn(Written(segments, d, z), segments)
<1> DEFINE L == Lists(T)
           S == {s \in L : s[1] # <<>>}
           A == Seq(T)
           W(x) == Written(x, d, z)
           J(s) == Join(s, d)
           P == {x \in Seq(S) : TagsIn(W(x), x)}
           none == <<>>
<1>1. \A s \in S : J(s) \in A /\ J(s) # <<>> /\ J(s)[1] = s[1][1]
  BY JoinFirst, JoinType DEF Lists
<1>2. \A x \in Seq(L) : \A s \in L : W(x) \in A /\ W(Append(x, s)) = Append(W(x) \o J(s), z)
  BY WrittenMore
<1>3. S \subseteq L
  OBVIOUS
<1>4. none \in P
  <2>1. none \in Seq(S) /\ DOMAIN none = {}
    OBVIOUS
  <2> QED
    BY <2>1 DEF TagsIn
<1>5. ASSUME NEW x \in Seq(S), NEW s \in S, x \in P PROVE Append(x, s) \in P
  <2> DEFINE y == Append(x, s)
             w == W(x)
             j == J(s)
             v == W(y)
             size == Len(x)
  <2>1. TagsIn(w, x)
    BY <1>5
  <2> HIDE DEF L, S, W, J
  <2>2. x \in Seq(L) /\ s \in L
    BY <1>3
  <2>3. w \in A /\ v = Append(w \o j, z)
    BY <1>2, <2>2
  <2>4. j \in A /\ j # <<>> /\ j[1] = s[1][1]
    BY <1>1
  <2>5. /\ y \in Seq(S) /\ size \in Nat /\ DOMAIN x = 1..size /\ DOMAIN y = 1..(size + 1)
        /\ y[size + 1] = s /\ \A n \in 1..size : y[n] = x[n]
    OBVIOUS
  <2> HIDE DEF w, j, v, y
  <2>6. /\ v # <<>> /\ \A k \in DOMAIN w : k \in DOMAIN v /\ v[k] = w[k]
        /\ Len(w) + 1 \in DOMAIN v /\ v[Len(w) + 1] = j[1]
        /\ w # <<>> => v[1] = w[1]
    BY <2>3, <2>4
  <2>7. ASSUME NEW n \in DOMAIN y PROVE \E k \in DOMAIN v : v[k] = y[n][1][1]
    <3>1. CASE n = size + 1
      BY <2>4, <2>5, <2>6, <3>1
    <3>2. CASE n # size + 1
      <4>1. n \in DOMAIN x /\ y[n] = x[n]
        BY <2>5, <3>2
      <4>2. PICK k \in DOMAIN w : w[k] = x[n][1][1]
        BY <2>1, <4>1, Zenon DEF TagsIn
      <4> QED
        BY <2>6, <4>1, <4>2
    <3> QED
      BY <3>1, <3>2
  <2>8. v[1] = y[1][1][1]
    <3>1. CASE x = <<>>
      <4>1. w = <<>>
        BY <3>1, WrittenNothing DEF w, W
      <4>2. y[1] = s /\ Len(w) + 1 = 1
        BY <2>5, <3>1, <4>1
      <4> QED
        BY <2>4, <2>6, <4>2
    <3>2. CASE x # <<>>
      <4>1. w # <<>> /\ w[1] = x[1][1][1]
        BY <2>1, <3>2, Zenon DEF TagsIn
      <4>2. y[1] = x[1]
        BY <2>5, <3>2
      <4> QED
        BY <2>6, <4>1, <4>2
    <3> QED
      BY <3>1, <3>2
  <2>9. TagsIn(v, y)
    BY <2>6, <2>7, <2>8, Zenon DEF TagsIn
  <2> QED
    BY <2>5, <2>9 DEF v, y, W
<1> HIDE DEF P
<1>6. Seq(S) \subseteq P
  BY <1>4, <1>5, SequenceInduction DEF none
<1>7. segments \in P
  BY <1>6
<1> QED
  BY <1>7 DEF P
=============================================================================
