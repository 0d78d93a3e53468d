---------------------------- MODULE SnifferProofs ----------------------------
(***************************************************************************)
(* Proofs about Sniffer, for any frames, options and interfaces: under the   *)
(* conditions of OwnHeaders a frame shows the nest of its own headers that    *)
(* were asked for, and addresses of its own bytes, whatever was in the buffer. *)
(***************************************************************************)
EXTENDS Sniffer, FiniteSetTheorems, TLAPS

Names ==
  Sections \cup {"SHA", "SPA", "THA", "TPA", "CIADDR", "YIADDR", "SIADDR", "GIADDR",
                 "Src IP", "Dst IP", "Src MAC", "Dst MAC"}
Lines == [kind : {"open", "close", "address"}, what : Names, first : Nat, size : Nat]

-----------------------------------------------------------------------------
(* Sequences of lines. *)

LEMMA FrameworksFinite ==
  ASSUME NEW s, NEW n \in Nat
  PROVE  /\ Frameworks(s, n) \subseteq 1 .. n
         /\ IsFiniteSet(Frameworks(s, n)) /\ Cardinality(Frameworks(s, n)) \in Nat
<1>1. IsFiniteSet(1 .. n)
  BY FS_Interval
<1>2. Frameworks(s, n) \subseteq 1 .. n
  BY DEF Frameworks
<1> QED BY <1>1, <1>2, FS_Subset, FS_CardinalityType

\* A set of numbers keeps its size when it is moved.
LEMMA MovedSize ==
  ASSUME NEW F, IsFiniteSet(F), F \subseteq Nat, NEW a \in Nat
  PROVE  /\ IsFiniteSet({a + m : m \in F})
         /\ Cardinality({a + m : m \in F}) = Cardinality(F)
<1> DEFINE g == [m \in F |-> a + m]
           T == {a + m : m \in F}
<1>1. g \in [F -> T] /\ \A m \in F : g[m] = a + m
  OBVIOUS
<1>2. \A m \in F : \A k \in F : g[m] = g[k] => m = k
  BY <1>1
<1>3. \A x \in T : \E m \in F : g[m] = x
  BY <1>1
<1>4. g \in Bijection(F, T)
  BY <1>1, <1>2, <1>3 DEF Bijection, Injection, Surjection, IsInjective
<1> QED BY <1>4, FS_Bijection DEF ExistsBijection

LEMMA DisjointSize ==
  ASSUME NEW S, NEW T, IsFiniteSet(S), IsFiniteSet(T), S \cap T = {}
  PROVE  Cardinality(S \cup T) = Cardinality(S) + Cardinality(T)
<1>1. Cardinality(S \cap T) = 0
  BY FS_EmptySet
<1>2. Cardinality(S) \in Nat /\ Cardinality(T) \in Nat
  BY FS_CardinalityType
<1>3. Cardinality(S \cup T) = Cardinality(S) + Cardinality(T) - Cardinality(S \cap T)
  BY FS_Union
<1> QED BY <1>1, <1>2, <1>3

\* The framework of two sequences is that of the first and that of the second.
LEMMA FrameworksConcat ==
  ASSUME NEW S, NEW s \in Seq(S), NEW t \in Seq(S)
  PROVE  /\ \A n \in 0 .. Len(s) : Frameworks(s \o t, n) = Frameworks(s, n)
         /\ \A n \in 0 .. Len(t) :
              Cardinality(Frameworks(s \o t, Len(s) + n)) =
                Cardinality(Frameworks(s, Len(s))) + Cardinality(Frameworks(t, n))
<1> DEFINE L == Len(s)
<1>1. L \in Nat /\ Len(t) \in Nat
  OBVIOUS
<1>2. \A m \in 1 .. L : (s \o t)[m] = s[m]
  OBVIOUS
<1>3. \A m \in 1 .. Len(t) : (s \o t)[L + m] = t[m]
  OBVIOUS
<1>4. \A n \in 0 .. L : Frameworks(s \o t, n) = Frameworks(s, n)
  BY <1>1, <1>2 DEF Frameworks
<1>5. ASSUME NEW n \in 0 .. Len(t)
      PROVE  Cardinality(Frameworks(s \o t, L + n)) =
               Cardinality(Frameworks(s, L)) + Cardinality(Frameworks(t, n))
  <2> DEFINE F == Frameworks(s, L)
             G == Frameworks(t, n)
             M == {L + m : m \in G}
  <2>1. IsFiniteSet(F) /\ F \subseteq 1 .. L /\ IsFiniteSet(G) /\ G \subseteq 1 .. n
    BY <1>1, FrameworksFinite
  <2>2. IsFiniteSet(M) /\ Cardinality(M) = Cardinality(G)
    <3>1. G \subseteq Nat
      BY <2>1
    <3> HIDE DEF G
    <3> QED BY <1>1, <2>1, <3>1, MovedSize
  <2>3. F \cap M = {}
    BY <1>1, <2>1
  <2>4. Frameworks(s \o t, L + n) = F \cup M
    <3>1. \A m \in 1 .. L : m \in Frameworks(s \o t, L + n) <=> m \in F
      BY <1>1, <1>2 DEF Frameworks
    <3>2. \A m \in 1 .. n : L + m \in Frameworks(s \o t, L + n) <=> m \in G
      BY <1>1, <1>3 DEF Frameworks
    <3>3. Frameworks(s \o t, L + n) \subseteq 1 .. L + n
      BY <1>1, FrameworksFinite
    <3>4. ASSUME NEW x \in 1 .. L + n, x \notin 1 .. L
          PROVE  x \in Frameworks(s \o t, L + n) <=> x \in M
      <4>1. x - L \in 1 .. n /\ L + (x - L) = x
        BY <1>1, <3>4
      <4>2. x - L \in G <=> x \in M
        BY <1>1, <2>1, <4>1
      <4> QED BY <3>2, <4>1, <4>2
    <3>5. \A x \in M : x \in 1 .. L + n /\ x \notin 1 .. L
      BY <1>1, <2>1
    <3>6. 1 .. L \subseteq 1 .. L + n
      BY <1>1
    <3> HIDE DEF F, M, G
    <3> QED BY <2>1, <3>1, <3>3, <3>4, <3>5, <3>6
  <2> HIDE DEF F, G, M
  <2> QED BY <2>1, <2>2, <2>3, <2>4, DisjointSize DEF F, G
<1> QED BY <1>4, <1>5

LEMMA ReadsConcat ==
  ASSUME NEW S, NEW s \in Seq(S), NEW t \in Seq(S), NEW u \in Seq(S), NEW v \in Seq(S),
         Reads(s, u), Reads(t, v)
  PROVE  Reads(s \o t, u \o v)
<1> DEFINE r == s \o t
           L == Len(s)
<1>1. L \in Nat /\ Len(t) \in Nat /\ Len(u) \in Nat /\ Len(v) \in Nat /\ r \in Seq(S)
      /\ Len(r) = L + Len(t) /\ Len(u \o v) = Len(u) + Len(v)
  OBVIOUS
<1>2. Cardinality(Frameworks(s, L)) = Len(u) /\ Cardinality(Frameworks(t, Len(t))) = Len(v)
  BY DEF Reads
<1>3. Cardinality(Frameworks(r, Len(r))) = Len(u \o v)
  <2>1. Len(t) \in 0 .. Len(t)
    BY <1>1
  <2>2. Cardinality(Frameworks(r, L + Len(t))) = Len(u) + Len(v)
    <3>1. \A n \in 0 .. Len(t) :
            Cardinality(Frameworks(r, L + n)) =
              Cardinality(Frameworks(s, L)) + Cardinality(Frameworks(t, n))
      BY FrameworksConcat
    <3> HIDE DEF r, L
    <3> QED BY <1>2, <2>1, <3>1
  <2> QED BY <1>1, <2>2
<1>4. ASSUME NEW q \in Seq(S), NEW w \in Seq(S), Reads(q, w), NEW m \in Frameworks(q, Len(q))
      PROVE  /\ m \in 1 .. Len(q) /\ q[m] = w[Cardinality(Frameworks(q, m))]
             /\ Cardinality(Frameworks(q, m)) \in 1 .. Len(w)
  <2>1. m \in 1 .. Len(q) /\ Len(q) \in Nat /\ m \in Nat
    BY <1>4 DEF Frameworks
  <2>2. Frameworks(q, m) \subseteq Frameworks(q, Len(q)) /\ m \in Frameworks(q, m)
    BY <1>4, <2>1 DEF Frameworks
  <2>3. /\ IsFiniteSet(Frameworks(q, m)) /\ IsFiniteSet(Frameworks(q, Len(q)))
        /\ Cardinality(Frameworks(q, m)) \in Nat /\ Cardinality(Frameworks(q, Len(q))) \in Nat
    BY <2>1, FrameworksFinite
  <2>4. Cardinality(Frameworks(q, m)) <= Cardinality(Frameworks(q, Len(q)))
    BY <2>2, <2>3, FS_Subset
  <2>5. Cardinality(Frameworks(q, m)) # 0
    BY <2>2, <2>3, FS_EmptySet
  <2> QED BY <1>4, <2>1, <2>3, <2>4, <2>5 DEF Reads
<1>5. ASSUME NEW m \in Frameworks(r, Len(r))
      PROVE  r[m] = (u \o v)[Cardinality(Frameworks(r, m))]
  <2>1. m \in 1 .. L + Len(t) /\ r[m].kind # "address"
    BY <1>1 DEF Frameworks
  <2>2. CASE m <= L
    <3>1. m \in 1 .. L /\ r[m] = s[m] /\ Frameworks(r, m) = Frameworks(s, m)
      BY <1>1, <2>1, <2>2, FrameworksConcat
    <3>2. m \in Frameworks(s, L)
      BY <2>1, <3>1 DEF Frameworks
    <3>3. s[m] = u[Cardinality(Frameworks(s, m))] /\ Cardinality(Frameworks(s, m)) \in 1 .. Len(u)
      BY <1>4, <3>2
    <3> QED BY <3>1, <3>3
  <2>3. CASE m > L
    <3>1. PICK n \in 1 .. Len(t) : m = L + n
      <4>1. m - L \in 1 .. Len(t) /\ m = L + (m - L)
        BY <1>1, <2>1, <2>3
      <4> QED BY <4>1
    <3>2. r[m] = t[n]
      BY <1>1, <3>1
    <3>3. n \in Frameworks(t, Len(t))
      BY <2>1, <3>2 DEF Frameworks
    <3>4. t[n] = v[Cardinality(Frameworks(t, n))] /\ Cardinality(Frameworks(t, n)) \in 1 .. Len(v)
      BY <1>4, <3>3
    <3>5. Cardinality(Frameworks(r, m)) = Len(u) + Cardinality(Frameworks(t, n))
      BY <1>1, <1>2, <3>1, FrameworksConcat
    <3>6. \A k \in 1 .. Len(v) : (u \o v)[Len(u) + k] = v[k]
      BY <1>1
    <3> QED BY <3>2, <3>4, <3>5, <3>6
  <2>4. m <= L \/ m > L
    BY <1>1, <2>1
  <2> QED BY <2>2, <2>3, <2>4
<1> QED BY <1>3, <1>5 DEF Reads

\* A line of the framework reads as itself, and addresses as nothing.
LEMMA ReadsOne ==
  ASSUME NEW x, x.kind # "address"
  PROVE  Reads(<<x>>, <<x>>)
<1>1. Len(<<x>>) = 1 /\ <<x>>[1] = x
  OBVIOUS
<1>2. Frameworks(<<x>>, 1) = {1}
  BY <1>1 DEF Frameworks
<1>3. Cardinality({1}) = 1
  BY FS_Singleton
<1> QED BY <1>1, <1>2, <1>3 DEF Reads

LEMMA ReadsAddresses ==
  ASSUME NEW s, Len(s) \in Nat, \A m \in 1 .. Len(s) : s[m].kind = "address"
  PROVE  Reads(s, <<>>)
<1>1. Frameworks(s, Len(s)) = {}
  BY DEF Frameworks
<1>2. Cardinality({}) = 0
  BY FS_EmptySet
<1> QED BY <1>1, <1>2 DEF Reads

LEMMA SameSequence ==
  ASSUME NEW S, NEW s \in Seq(S), NEW t \in Seq(S), Len(s) = Len(t),
         \A m \in 1 .. Len(s) : s[m] = t[m]
  PROVE  s = t
OBVIOUS

LEMMA Regroup ==
  ASSUME NEW S, NEW q \in Seq(S), NEW s \in Seq(S), NEW t \in Seq(S), NEW u \in Seq(S)
  PROVE  (q \o s) \o (t \o u) = (q \o (s \o t)) \o u
<1> DEFINE J(a, b) == a \o b
<1>1. \A a, b \in Seq(S) : J(a, b) \in Seq(S)
  OBVIOUS
<1>2. ASSUME NEW a \in Seq(S), NEW b \in Seq(S), NEW c \in Seq(S)
      PROVE  J(J(a, b), c) = J(a, J(b, c))
  <2> DEFINE x == (a \o b) \o c
             y == a \o (b \o c)
             k == Len(a)
             l == Len(b)
             n == Len(c)
  <2>1. a \o b \in Seq(S) /\ b \o c \in Seq(S) /\ k \in Nat /\ l \in Nat /\ n \in Nat
        /\ Len(a \o b) = k + l /\ Len(b \o c) = l + n
    OBVIOUS
  <2>2. x \in Seq(S) /\ y \in Seq(S) /\ Len(x) = k + l + n /\ Len(y) = k + l + n
    BY <2>1
  <2>3. \A m \in 1 .. k : x[m] = a[m] /\ y[m] = a[m]
    BY <2>1
  <2>4. \A m \in k + 1 .. k + l : x[m] = b[m - k] /\ y[m] = b[m - k]
    BY <2>1
  <2>5. \A m \in k + l + 1 .. k + l + n : x[m] = c[m - (k + l)] /\ y[m] = c[m - (k + l)]
    BY <2>1
  <2> HIDE DEF x, y, k, l, n, J
  <2>6. \A m \in 1 .. k + l + n : m \in 1 .. k \/ m \in k + 1 .. k + l \/ m \in k + l + 1 .. k + l + n
    BY <2>1
  <2>7. \A m \in 1 .. k + l + n : x[m] = y[m]
    BY <2>3, <2>4, <2>5, <2>6
  <2>8. x = y
    BY <2>2, <2>7, SameSequence
  <2> QED BY <2>8 DEF x, y, J
<1>3. (q \o s) \o (t \o u) = J(J(q, s), J(t, u)) /\ (q \o (s \o t)) \o u = J(J(q, J(s, t)), u)
  OBVIOUS
<1> HIDE DEF J
<1>4. J(J(q, s), J(t, u)) = J(q, J(s, J(t, u)))
  BY <1>1, <1>2
<1>5. J(J(q, J(s, t)), u) = J(q, J(J(s, t), u))
  BY <1>1, <1>2
<1>6. J(J(s, t), u) = J(s, J(t, u))
  BY <1>2
<1> QED BY <1>3, <1>4, <1>5, <1>6

\* A nest with one more header around it.
LEMMA NestAround ==
  ASSUME NEW x \in Lines, NEW w \in Seq(Lines)
  PROVE  /\ Nest(w) \in Seq(Lines) /\ End(x.what) \in Lines
         /\ Nest(<<x>> \o w) = <<x>> \o Nest(w) \o <<End(x.what)>>
<1> DEFINE n == Len(w)
           C == [m \in 1 .. n |-> End(w[n + 1 - m].what)]
           W == <<x>> \o w
           D == [m \in 1 .. n + 1 |-> End(W[n + 2 - m].what)]
<1>1. n \in Nat /\ \A m \in 1 .. n : w[m] \in Lines
  OBVIOUS
<1>2. \A y \in Lines : End(y.what) \in Lines
  BY DEF End, Line, Lines
<1>3. C \in Seq(Lines) /\ Len(C) = n
  <2>1. \A m \in 1 .. n : n + 1 - m \in 1 .. n
    BY <1>1
  <2>2. C \in [1 .. n -> Lines]
    BY <1>1, <1>2, <2>1
  <2> QED BY <1>1, <2>2
<1>4. W \in Seq(Lines) /\ Len(W) = n + 1 /\ W[1] = x /\ \A m \in 1 .. n : W[m + 1] = w[m]
  BY <1>1
<1>5. D \in Seq(Lines) /\ Len(D) = n + 1
  <2>1. \A m \in 1 .. n + 1 : n + 2 - m \in 1 .. n + 1
    BY <1>1
  <2>2. D \in [1 .. n + 1 -> Lines]
    BY <1>2, <1>4, <2>1
  <2>3. n + 1 \in Nat
    BY <1>1
  <2> HIDE DEF D
  <2> QED BY <2>2, <2>3
<1>6. Nest(w) = w \o C
  BY DEF Nest
<1>7. Nest(W) = W \o D
  <2>1. (n + 1) + 1 = n + 2
    BY <1>1
  <2> QED BY <1>1, <1>4, <2>1 DEF Nest
<1>8. D = C \o <<End(x.what)>>
  <2> DEFINE E == C \o <<End(x.what)>>
  <2>1. E \in Seq(Lines) /\ Len(E) = n + 1
    BY <1>1, <1>2, <1>3
  <2>2. ASSUME NEW m \in 1 .. n + 1
        PROVE  D[m] = E[m]
    <3>1. CASE m \in 1 .. n
      <4>1. n + 1 - m \in 1 .. n /\ n + 2 - m = (n + 1 - m) + 1
        BY <1>1, <3>1
      <4>2. W[n + 2 - m] = w[n + 1 - m]
        BY <1>4, <4>1
      <4>3. D[m] = End(w[n + 1 - m].what) /\ C[m] = End(w[n + 1 - m].what)
        BY <2>2, <3>1, <4>2
      <4>4. E[m] = C[m]
        BY <1>3, <3>1
      <4> QED BY <4>3, <4>4
    <3>2. CASE m = n + 1
      <4>1. n + 2 - m = 1
        BY <1>1, <3>2
      <4>2. D[m] = End(x.what)
        BY <1>4, <2>2, <4>1
      <4>3. E[n + 1] = End(x.what)
        BY <1>1, <1>3
      <4> QED BY <3>2, <4>2, <4>3
    <3> QED BY <1>1, <3>1, <3>2
  <2> HIDE DEF D, E
  <2>3. Len(D) = Len(E) /\ \A m \in 1 .. Len(D) : D[m] = E[m]
    BY <1>5, <2>1, <2>2
  <2>4. D = E
    BY <1>5, <2>1, <2>3, SameSequence
  <2> QED BY <2>4 DEF E
<1> HIDE DEF C, D
<1>9. W \o (C \o <<End(x.what)>>) = <<x>> \o (w \o C) \o <<End(x.what)>>
  <2>1. <<End(x.what)>> \in Seq(Lines) /\ <<x>> \in Seq(Lines)
    BY <1>2
  <2> QED BY <1>3, <2>1, Regroup
<1>10. w \o C \in Seq(Lines)
  BY <1>3
<1> QED BY <1>2, <1>6, <1>7, <1>8, <1>9, <1>10

LEMMA NestNothing == Nest(<<>>) = <<>>
<1> DEFINE C == [m \in 1 .. 0 |-> End((<<>>)[1 - m].what)]
<1>1. Len(<<>>) = 0 /\ 0 + 1 = 1
  OBVIOUS
<1>2. Nest(<<>>) = <<>> \o [m \in 1 .. 0 |-> End((<<>>)[0 + 1 - m].what)]
  BY <1>1 DEF Nest
<1>3. [m \in 1 .. 0 |-> End((<<>>)[0 + 1 - m].what)] = <<>>
  OBVIOUS
<1> QED BY <1>2, <1>3

-----------------------------------------------------------------------------
(* The packets.  What a section prints is a nest around what it carries. *)

\* The names whose headers are shown with these flags.
Given == flags \cup {"DHCP"}

LEMMA SectionReads ==
  ASSUME NEW what \in Sections \ {"DHCP"}, NEW first \in Nat, NEW size \in Nat,
         NEW addresses \in Seq(Lines), NEW carried \in Seq(Lines), NEW w \in Seq(Lines),
         Reads(addresses, <<>>), Reads(carried, Nest(w))
  PROVE  /\ Layer(Given, what, first, size) \in Seq(Lines)
         /\ Layer(Given, what, first, size) \o w \in Seq(Lines)
         /\ Section(what, first, size, addresses, carried) \in Seq(Lines)
         /\ Reads(Section(what, first, size, addresses, carried),
                  Nest(Layer(Given, what, first, size) \o w))
<1> DEFINE x == Open(what, first, size)
           e == End(what)
<1>1. x \in Lines /\ x.kind = "open" /\ x.what = what
  BY DEF Open, Line, Lines, Names
<1>2. e \in Lines /\ e.kind = "close"
  BY DEF End, Line, Lines, Names
<1> HIDE DEF x, e
<1>3. CASE what \in flags
  <2>1. Layer(Given, what, first, size) = <<x>>
    BY <1>3 DEF Layer, Given, x
  <2>2. Section(what, first, size, addresses, carried) = <<x>> \o addresses \o carried \o <<e>>
    BY <1>3 DEF Section, x, e
  <2> DEFINE X == <<x>>
             E == <<e>>
             A == X \o addresses
             B == A \o carried
             N == Nest(w)
  <2>3. N \in Seq(Lines) /\ Nest(X \o w) = X \o N \o E
    BY <1>1, NestAround DEF e
  <2>4. Reads(X, X) /\ Reads(E, E)
    BY <1>1, <1>2, ReadsOne
  <2>5. X \in Seq(Lines) /\ E \in Seq(Lines) /\ <<>> \in Seq(Lines)
    BY <1>1, <1>2
  <2> HIDE DEF X, E, N
  <2>6. A \in Seq(Lines) /\ B \in Seq(Lines) /\ X \o N \in Seq(Lines) /\ X \o w \in Seq(Lines)
        /\ B \o E \in Seq(Lines)
    BY <2>3, <2>5
  <2>7. Reads(A, X)
    <3>1. X \o <<>> = X
      BY <2>5
    <3>2. Reads(A, X \o <<>>)
      BY <2>4, <2>5, ReadsConcat
    <3> QED BY <3>1, <3>2
  <2> HIDE DEF A
  <2>8. Reads(B, X \o N)
    BY <2>3, <2>5, <2>6, <2>7, ReadsConcat DEF N
  <2> HIDE DEF B
  <2>9. Reads(B \o E, X \o N \o E)
    BY <2>4, <2>5, <2>6, <2>8, ReadsConcat
  <2> QED BY <2>1, <2>2, <2>3, <2>5, <2>6, <2>9 DEF A, B, X, E
<1>4. CASE what \notin flags
  <2>1. Layer(Given, what, first, size) = <<>>
    BY <1>4 DEF Layer, Given
  <2>2. Section(what, first, size, addresses, carried) = carried
    BY <1>4 DEF Section
  <2> QED BY <2>1, <2>2
<1> QED BY <1>3, <1>4

\* A section that carries nothing.
LEMMA InnermostReads ==
  ASSUME NEW what \in Sections \ {"DHCP"}, NEW first \in Nat, NEW size \in Nat,
         NEW addresses \in Seq(Lines), Reads(addresses, <<>>)
  PROVE  /\ Section(what, first, size, addresses, <<>>) \in Seq(Lines)
         /\ Layer(Given, what, first, size) \in Seq(Lines)
         /\ Reads(Section(what, first, size, addresses, <<>>),
                  Nest(Layer(Given, what, first, size)))
<1>1. <<>> \in Seq(Lines) /\ Reads(<<>>, Nest(<<>>))
  <2>1. Len(<<>>) = 0
    OBVIOUS
  <2> QED BY <2>1, ReadsAddresses, NestNothing
<1>2. Layer(Given, what, first, size) \in Seq(Lines)
      /\ Section(what, first, size, addresses, <<>>) \in Seq(Lines)
      /\ Reads(Section(what, first, size, addresses, <<>>),
               Nest(Layer(Given, what, first, size) \o <<>>))
  BY <1>1, SectionReads
<1>3. \A s \in Seq(Lines) : s \o <<>> = s
  OBVIOUS
<1> QED BY <1>2, <1>3

LEMMA AddressLine ==
  ASSUME NEW what \in Names, NEW first \in Nat, NEW size \in Nat
  PROVE  Address(what, first, size) \in Lines /\ Address(what, first, size).kind = "address"
BY DEF Address, Line, Lines

\* Lists of addresses are lines, and read as nothing.
LEMMA AddressList ==
  ASSUME NEW s \in Seq(Lines), \A m \in 1 .. Len(s) : s[m].kind = "address"
  PROVE  Reads(s, <<>>)
BY ReadsAddresses

LEMMA Two ==
  ASSUME NEW x \in Lines, NEW y \in Lines, x.kind = "address", y.kind = "address"
  PROVE  <<x, y>> \in Seq(Lines) /\ Reads(<<x, y>>, <<>>) /\ ToSet(<<x, y>>) = {x, y}
<1>1. <<x, y>> \in Seq(Lines) /\ Len(<<x, y>>) = 2
  OBVIOUS
<1>2. \A m \in 1 .. 2 : <<x, y>>[m] \in {x, y}
  OBVIOUS
<1>3. ToSet(<<x, y>>) = {x, y}
  BY DEF ToSet
<1> QED BY <1>1, <1>2, <1>3, AddressList

LEMMA Four ==
  ASSUME NEW x \in Lines, NEW y \in Lines, NEW z \in Lines, NEW u \in Lines,
         x.kind = "address", y.kind = "address", z.kind = "address", u.kind = "address"
  PROVE  <<x, y, z, u>> \in Seq(Lines) /\ Reads(<<x, y, z, u>>, <<>>)
         /\ ToSet(<<x, y, z, u>>) = {x, y, z, u}
<1>1. <<x, y, z, u>> \in Seq(Lines) /\ Len(<<x, y, z, u>>) = 4
  OBVIOUS
<1>2. \A m \in 1 .. 4 : <<x, y, z, u>>[m] \in {x, y, z, u}
  OBVIOUS
<1>3. ToSet(<<x, y, z, u>>) = {x, y, z, u}
  BY DEF ToSet
<1> QED BY <1>1, <1>2, <1>3, AddressList

-----------------------------------------------------------------------------
(* The addresses among the lines. *)
AddressesOf(s) == {x \in ToSet(s) : x.kind = "address"}

LEMMA ToSetConcat ==
  ASSUME NEW S, NEW s \in Seq(S), NEW t \in Seq(S)
  PROVE  ToSet(s \o t) = ToSet(s) \cup ToSet(t)
<1> DEFINE r == s \o t
<1>1. r \in Seq(S) /\ Len(r) = Len(s) + Len(t) /\ Len(s) \in Nat /\ Len(t) \in Nat
  OBVIOUS
<1>2. ToSet(r) = {r[m] : m \in 1 .. Len(r)} /\ ToSet(s) = {s[m] : m \in 1 .. Len(s)}
      /\ ToSet(t) = {t[m] : m \in 1 .. Len(t)}
  BY <1>1 DEF ToSet
<1>3. \A m \in 1 .. Len(s) : m \in 1 .. Len(r) /\ r[m] = s[m]
  BY <1>1
<1>4. \A m \in 1 .. Len(t) : Len(s) + m \in 1 .. Len(r) /\ r[Len(s) + m] = t[m]
  BY <1>1
<1>5. \A m \in 1 .. Len(r) : m \in 1 .. Len(s) \/ (m - Len(s) \in 1 .. Len(t) /\ r[m] = t[m - Len(s)])
  <2> SUFFICES ASSUME NEW m \in 1 .. Len(r), m \notin 1 .. Len(s)
               PROVE  m - Len(s) \in 1 .. Len(t) /\ r[m] = t[m - Len(s)]
    OBVIOUS
  <2>1. m - Len(s) \in 1 .. Len(t) /\ Len(s) + (m - Len(s)) = m
    BY <1>1
  <2> QED BY <1>4, <2>1
<1> HIDE DEF r
<1>6. ToSet(r) \subseteq ToSet(s) \cup ToSet(t)
  BY <1>2, <1>3, <1>5
<1>7. ToSet(s) \subseteq ToSet(r)
  BY <1>2, <1>3
<1>8. ToSet(t) \subseteq ToSet(r)
  BY <1>2, <1>4
<1> QED BY <1>6, <1>7, <1>8 DEF r

LEMMA ToSetWrapped ==
  ASSUME NEW S, NEW q \in Seq(S), NEW s \in Seq(S), NEW t \in Seq(S), NEW u \in Seq(S)
  PROVE  /\ ToSet(q \o s \o u) = (ToSet(q) \cup ToSet(s)) \cup ToSet(u)
         /\ ToSet(q \o s \o t \o u) = ((ToSet(q) \cup ToSet(s)) \cup ToSet(t)) \cup ToSet(u)
<1> DEFINE P == q \o s
           R == P \o t
<1>1. P \in Seq(S) /\ R \in Seq(S)
  OBVIOUS
<1>2. ToSet(P) = ToSet(q) \cup ToSet(s)
  BY ToSetConcat
<1> HIDE DEF P
<1>3. ToSet(R) = ToSet(P) \cup ToSet(t) /\ ToSet(P \o u) = ToSet(P) \cup ToSet(u)
  BY <1>1, ToSetConcat
<1> HIDE DEF R
<1>4. ToSet(R \o u) = ToSet(R) \cup ToSet(u)
  BY <1>1, ToSetConcat
<1> QED BY <1>2, <1>3, <1>4 DEF P, R

LEMMA ToSetOne ==
  ASSUME NEW x
  PROVE  ToSet(<<x>>) = {x}
BY DEF ToSet

LEMMA ToSetNothing == ToSet(<<>>) = {}
BY DEF ToSet

LEMMA SectionAddresses ==
  ASSUME NEW what \in Sections, NEW first \in Nat, NEW size \in Nat,
         NEW addresses \in Seq(Lines), NEW carried \in Seq(Lines)
  PROVE  AddressesOf(Section(what, first, size, addresses, carried))
           \subseteq AddressesOf(addresses) \cup AddressesOf(carried)
<1> DEFINE x == Open(what, first, size)
           e == End(what)
<1>1. x \in Lines /\ x.kind = "open" /\ e \in Lines /\ e.kind = "close"
  BY DEF Open, End, Line, Lines, Names
<1> HIDE DEF x, e
<1>2. CASE what \in flags
  <2>1. Section(what, first, size, addresses, carried) = <<x>> \o addresses \o carried \o <<e>>
    BY <1>2 DEF Section, x, e
  <2>2. <<x>> \in Seq(Lines) /\ <<e>> \in Seq(Lines) /\ <<x>> \o addresses \in Seq(Lines)
        /\ <<x>> \o addresses \o carried \in Seq(Lines)
    BY <1>1
  <2>3. ToSet(<<x>> \o addresses \o carried \o <<e>>) =
          ((ToSet(<<x>>) \cup ToSet(addresses)) \cup ToSet(carried)) \cup ToSet(<<e>>)
    <3> DEFINE X == <<x>>
               E == <<e>>
    <3>1. X \in Seq(Lines) /\ E \in Seq(Lines)
      BY <2>2
    <3> HIDE DEF X, E
    <3>2. ToSet(X \o addresses \o carried \o E) =
            ((ToSet(X) \cup ToSet(addresses)) \cup ToSet(carried)) \cup ToSet(E)
      BY <3>1, ToSetWrapped
    <3> QED BY <3>2 DEF X, E
  <2>4. ToSet(<<x>>) = {x} /\ ToSet(<<e>>) = {e}
    BY ToSetOne
  <2> QED BY <1>1, <2>1, <2>3, <2>4 DEF AddressesOf
<1>3. CASE what \notin flags
  BY <1>3 DEF Section, AddressesOf
<1> QED BY <1>2, <1>3

-----------------------------------------------------------------------------
(* The packets one by one: lines, their nest, their addresses. *)

Prints(s, w, A) ==
  s \in Seq(Lines) /\ w \in Seq(Lines) /\ Reads(s, Nest(w)) /\ AddressesOf(s) \subseteq A

LEMMA NothingPrints ==
  ASSUME NEW A
  PROVE  Prints(<<>>, <<>>, A)
<1>1. <<>> \in Seq(Lines) /\ Len(<<>>) = 0
  OBVIOUS
<1> QED BY <1>1, ReadsAddresses, NestNothing, ToSetNothing DEF Prints, AddressesOf

LEMMA SectionPrints ==
  ASSUME NEW what \in Sections \ {"DHCP"}, NEW first \in Nat, NEW size \in Nat,
         NEW addresses \in Seq(Lines), Reads(addresses, <<>>),
         NEW carried, NEW w, NEW A, Prints(carried, w, A)
  PROVE  Prints(Section(what, first, size, addresses, carried),
                Layer(Given, what, first, size) \o w, ToSet(addresses) \cup A)
<1>1. AddressesOf(Section(what, first, size, addresses, carried))
        \subseteq AddressesOf(addresses) \cup AddressesOf(carried)
  BY SectionAddresses DEF Prints
<1>2. AddressesOf(addresses) \subseteq ToSet(addresses)
  BY DEF AddressesOf
<1> QED BY <1>1, <1>2, SectionReads DEF Prints

LEMMA InnermostPrints ==
  ASSUME NEW what \in Sections \ {"DHCP"}, NEW first \in Nat, NEW size \in Nat,
         NEW addresses \in Seq(Lines), Reads(addresses, <<>>)
  PROVE  Prints(Section(what, first, size, addresses, <<>>),
                Layer(Given, what, first, size), ToSet(addresses))
<1>1. Prints(Section(what, first, size, addresses, <<>>),
             Layer(Given, what, first, size) \o <<>>, ToSet(addresses) \cup {})
  <2>1. Prints(<<>>, <<>>, {})
    BY NothingPrints
  <2> QED BY <2>1, SectionPrints
<1>2. Layer(Given, what, first, size) \in Seq(Lines)
  BY InnermostReads
<1>3. \A s \in Seq(Lines) : s \o <<>> = s
  OBVIOUS
<1> QED BY <1>1, <1>2, <1>3

LEMMA SixLines ==
  ASSUME NEW S, NEW x \in S, NEW e \in S, NEW y \in S, NEW z \in S, NEW u \in S, NEW v \in S
  PROVE  <<x>> \o <<y, z, u, v>> \o <<e>> = <<x, y, z, u, v, e>>
<1> DEFINE q == <<x>> \o <<y, z, u, v>> \o <<e>>
           w == <<x, y, z, u, v, e>>
<1>1. q \in Seq(S) /\ Len(q) = 6
  OBVIOUS
<1>2. w \in Seq(S) /\ Len(w) = 6
  OBVIOUS
<1>3. q[1] = w[1]
  OBVIOUS
<1>4. q[2] = w[2] /\ q[3] = w[3]
  OBVIOUS
<1>5. q[4] = w[4] /\ q[5] = w[5]
  OBVIOUS
<1>6. q[6] = w[6]
  OBVIOUS
<1>7. \A m \in 1 .. 6 : q[m] = w[m]
  BY <1>3, <1>4, <1>5, <1>6
<1> HIDE DEF q, w
<1>8. q = w
  BY <1>1, <1>2, <1>7, SameSequence
<1> QED BY <1>8 DEF q, w

ArpAddresses(a, hln, pln) ==
  {Address("SHA", a + 8, hln), Address("SPA", a + 8 + hln, pln),
   Address("THA", a + 8 + hln + pln, hln), Address("TPA", a + 8 + hln + pln + hln, pln)}
DhcpAddresses(a) ==
  {Address("CIADDR", a + 12, 4), Address("YIADDR", a + 16, 4),
   Address("SIADDR", a + 20, 4), Address("GIADDR", a + 24, 4)}
Ip4Addresses(a) == {Address("Src IP", a + 12, 4), Address("Dst IP", a + 16, 4)}
Ip6Addresses(a) == {Address("Src IP", a + 8, 16), Address("Dst IP", a + 8, 16)}
EthAddresses(a) == {Address("Src MAC", a + 6, 6), Address("Dst MAC", a, 6)}

LEMMA ArpPrints ==
  ASSUME NEW b \in [Cells -> Nat], NEW a \in Nat
  PROVE  Prints(PacketARP(b, a), Layer(Given, "ARP", a, 8), ArpAddresses(a, b[18], b[19]))
<1> DEFINE hln == b[18]
           pln == b[19]
           sha == a + 8
           s == << Address("SHA", sha, hln), Address("SPA", sha + hln, pln),
                   Address("THA", sha + hln + pln, hln),
                   Address("TPA", sha + hln + pln + hln, pln) >>
<1>1. hln \in Nat /\ pln \in Nat
  BY DEF Cells
<1>2. sha \in Nat /\ sha + hln \in Nat /\ sha + hln + pln \in Nat /\ sha + hln + pln + hln \in Nat
  BY <1>1
<1>3. s \in Seq(Lines) /\ Reads(s, <<>>) /\ ToSet(s) = ArpAddresses(a, hln, pln)
  <2>1. "SHA" \in Names /\ "SPA" \in Names /\ "THA" \in Names /\ "TPA" \in Names
    BY DEF Names
  <2> HIDE DEF hln, pln, sha
  <2>2. /\ Address("SHA", sha, hln) \in Lines /\ Address("SHA", sha, hln).kind = "address"
        /\ Address("SPA", sha + hln, pln) \in Lines /\ Address("SPA", sha + hln, pln).kind = "address"
        /\ Address("THA", sha + hln + pln, hln) \in Lines
        /\ Address("THA", sha + hln + pln, hln).kind = "address"
        /\ Address("TPA", sha + hln + pln + hln, pln) \in Lines
        /\ Address("TPA", sha + hln + pln + hln, pln).kind = "address"
    BY <1>1, <1>2, <2>1, AddressLine
  <2>3. s \in Seq(Lines) /\ Reads(s, <<>>) /\ ToSet(s) =
          {Address("SHA", sha, hln), Address("SPA", sha + hln, pln),
           Address("THA", sha + hln + pln, hln), Address("TPA", sha + hln + pln + hln, pln)}
    BY <2>2, Four
  <2> QED BY <2>3 DEF ArpAddresses, sha
<1>4. PacketARP(b, a) = Section("ARP", a, 8, s, <<>>)
  BY DEF PacketARP
<1> HIDE DEF s
<1>5. "ARP" \in Sections \ {"DHCP"} /\ 8 \in Nat
  BY DEF Sections
<1> QED BY <1>3, <1>4, <1>5, InnermostPrints

LEMMA DhcpPrints ==
  ASSUME NEW b, NEW a \in Nat
  PROVE  Prints(PacketDHCP(b, a), Layer(Given, "DHCP", a, 28), DhcpAddresses(a))
<1> DEFINE x == Open("DHCP", a, 28)
           e == End("DHCP")
           ci == Address("CIADDR", a + 12, 4)
           yi == Address("YIADDR", a + 16, 4)
           si == Address("SIADDR", a + 20, 4)
           gi == Address("GIADDR", a + 24, 4)
           s == <<ci, yi, si, gi>>
<1>1. x \in Lines /\ x.kind = "open" /\ x.what = "DHCP" /\ e \in Lines /\ e.kind = "close"
  BY DEF Open, End, Line, Lines, Names, Sections
<1>2. /\ ci \in Lines /\ yi \in Lines /\ si \in Lines /\ gi \in Lines
      /\ ci.kind = "address" /\ yi.kind = "address" /\ si.kind = "address" /\ gi.kind = "address"
  <2>1. "CIADDR" \in Names /\ "YIADDR" \in Names /\ "SIADDR" \in Names /\ "GIADDR" \in Names
    BY DEF Names
  <2>2. a + 12 \in Nat /\ a + 16 \in Nat /\ a + 20 \in Nat /\ a + 24 \in Nat /\ 4 \in Nat
    OBVIOUS
  <2> QED BY <2>1, <2>2, AddressLine
<1>3. PacketDHCP(b, a) = <<x, ci, yi, si, gi, e>> /\ DhcpAddresses(a) = {ci, yi, si, gi}
  BY DEF PacketDHCP, DhcpAddresses
<1>4. Layer(Given, "DHCP", a, 28) = <<x>>
  BY DEF Layer, Given
<1> HIDE DEF x, e, ci, yi, si, gi
<1>5. s \in Seq(Lines) /\ Reads(s, <<>>) /\ ToSet(s) = {ci, yi, si, gi}
  BY <1>2, Four
<1>6. PacketDHCP(b, a) = <<x>> \o s \o <<e>>
  <2>1. <<x>> \o <<ci, yi, si, gi>> \o <<e>> = <<x, ci, yi, si, gi, e>>
    BY <1>1, <1>2, SixLines
  <2> QED BY <1>3, <2>1
<1> HIDE DEF s
<1>7. <<x>> \in Seq(Lines) /\ <<e>> \in Seq(Lines) /\ <<>> \in Seq(Lines)
      /\ <<x>> \o s \in Seq(Lines) /\ <<x>> \o s \o <<e>> \in Seq(Lines)
  BY <1>1, <1>5
<1>8. Nest(<<x>>) = <<x>> \o <<e>>
  <2>1. Nest(<<x>> \o <<>>) = <<x>> \o Nest(<<>>) \o <<End(x.what)>>
    BY <1>1, <1>7, NestAround
  <2>2. <<x>> \o <<>> = <<x>>
    OBVIOUS
  <2> QED BY <1>1, <2>1, <2>2, NestNothing DEF e
<1>9. Reads(<<x>> \o s, <<x>>)
  <2>1. Reads(<<x>> \o s, <<x>> \o <<>>)
    BY <1>1, <1>5, <1>7, ReadsOne, ReadsConcat
  <2> QED BY <2>1
<1>10. Reads(<<x>> \o s \o <<e>>, <<x>> \o <<e>>)
  <2>1. Reads(<<e>>, <<e>>)
    BY <1>1, ReadsOne
  <2> QED BY <1>7, <1>9, <2>1, ReadsConcat
<1>11. AddressesOf(<<x>> \o s \o <<e>>) \subseteq ToSet(s)
  <2>1. ToSet(<<x>> \o s \o <<e>>) = (ToSet(<<x>>) \cup ToSet(s)) \cup ToSet(<<e>>)
    <3> DEFINE X == <<x>>
               E == <<e>>
    <3>1. X \in Seq(Lines) /\ E \in Seq(Lines)
      BY <1>7
    <3> HIDE DEF X, E
    <3>2. ToSet(X \o s \o E) = (ToSet(X) \cup ToSet(s)) \cup ToSet(E)
      BY <1>5, <3>1, ToSetWrapped
    <3> QED BY <3>2 DEF X, E
  <2>2. ToSet(<<x>>) = {x} /\ ToSet(<<e>>) = {e}
    BY ToSetOne
  <2> QED BY <1>1, <2>1, <2>2 DEF AddressesOf
<1> QED BY <1>3, <1>5, <1>6, <1>4, <1>7, <1>8, <1>10, <1>11 DEF Prints

LEMMA PrintsMore ==
  ASSUME NEW s, NEW w, NEW A, NEW B, A \subseteq B, Prints(s, w, A)
  PROVE  Prints(s, w, B)
BY DEF Prints

\* A section without addresses of its own.
LEMMA BareSection ==
  ASSUME NEW what \in Sections \ {"DHCP"}, NEW first \in Nat, NEW size \in Nat,
         NEW carried, NEW w, NEW A, Prints(carried, w, A)
  PROVE  Prints(Section(what, first, size, <<>>, carried), Layer(Given, what, first, size) \o w, A)
<1>1. <<>> \in Seq(Lines) /\ Reads(<<>>, <<>>)
  <2>1. Len(<<>>) = 0
    OBVIOUS
  <2> QED BY <2>1, ReadsAddresses
<1>2. Prints(Section(what, first, size, <<>>, carried),
             Layer(Given, what, first, size) \o w, ToSet(<<>>) \cup A)
  BY <1>1, SectionPrints
<1> QED BY <1>2, ToSetNothing

LEMMA BareInnermost ==
  ASSUME NEW what \in Sections \ {"DHCP"}, NEW first \in Nat, NEW size \in Nat, NEW A
  PROVE  Prints(Section(what, first, size, <<>>, <<>>), Layer(Given, what, first, size), A)
<1>1. <<>> \in Seq(Lines) /\ Reads(<<>>, <<>>)
  <2>1. Len(<<>>) = 0
    OBVIOUS
  <2> QED BY <2>1, ReadsAddresses
<1>2. Prints(Section(what, first, size, <<>>, <<>>), Layer(Given, what, first, size), ToSet(<<>>))
  BY <1>1, InnermostPrints
<1> QED BY <1>2, ToSetNothing, PrintsMore

\* The ports decide whether a datagram carries DHCP.
DhcpPorts(b, a) == {b[a], b[a + 2]} \subseteq {67, 68}
DatagramOf(b, a) ==
  Layer(Given, "UDP", a, 8) \o
    IF DhcpPorts(b, a) THEN Layer(Given, "DHCP", a + 8, 28) ELSE <<>>

LEMMA UdpPrints ==
  ASSUME NEW b, NEW a \in Nat
  PROVE  Prints(PacketUPD(b, a), DatagramOf(b, a),
                IF DhcpPorts(b, a) THEN DhcpAddresses(a + 8) ELSE {})
<1>1. "UDP" \in Sections \ {"DHCP"} /\ 8 \in Nat /\ a + 8 \in Nat
  BY DEF Sections
<1>2. CASE DhcpPorts(b, a)
  <2>1. PacketUPD(b, a) = Section("UDP", a, 8, <<>>, PacketDHCP(b, a + 8))
    BY <1>2 DEF PacketUPD, DhcpPorts
  <2>2. DatagramOf(b, a) = Layer(Given, "UDP", a, 8) \o Layer(Given, "DHCP", a + 8, 28)
    BY <1>2 DEF DatagramOf
  <2>3. Prints(PacketDHCP(b, a + 8), Layer(Given, "DHCP", a + 8, 28), DhcpAddresses(a + 8))
    BY <1>1, DhcpPrints
  <2>4. Prints(Section("UDP", a, 8, <<>>, PacketDHCP(b, a + 8)),
               Layer(Given, "UDP", a, 8) \o Layer(Given, "DHCP", a + 8, 28), DhcpAddresses(a + 8))
    BY <1>1, <2>3, BareSection
  <2> QED BY <1>2, <2>1, <2>2, <2>4
<1>3. CASE ~DhcpPorts(b, a)
  <2>1. PacketUPD(b, a) = Section("UDP", a, 8, <<>>, <<>>)
    BY <1>3 DEF PacketUPD, DhcpPorts
  <2>2. DatagramOf(b, a) = Layer(Given, "UDP", a, 8) \o <<>>
    BY <1>3 DEF DatagramOf
  <2>3. Prints(<<>>, <<>>, {})
    BY NothingPrints
  <2>4. Prints(Section("UDP", a, 8, <<>>, <<>>), Layer(Given, "UDP", a, 8) \o <<>>, {})
    BY <1>1, <2>3, BareSection
  <2> QED BY <1>3, <2>1, <2>2, <2>4
<1> QED BY <1>2, <1>3

\* The frame whose cells are those of the buffer.
Cast(b) == [bytes |-> b]
Plain(b) == b[14] = 5 /\ b[20] = 0
CarriesDhcp(b) == b[23] = 17 /\ DhcpPorts(b, 34)

LEMMA TransportPrints ==
  ASSUME NEW b, Plain(b)
  PROVE  Prints(CASE b[23] = 6 -> PacketTCP(b, 34)
                  [] b[23] = 17 -> PacketUPD(b, 34)
                  [] b[23] = 1 -> PacketICMP(b, 34)
                  [] OTHER -> <<>>,
                Transport(Cast(b), Given),
                IF CarriesDhcp(b) THEN DhcpAddresses(42) ELSE {})
<1> DEFINE c == CASE b[23] = 6 -> PacketTCP(b, 34)
                  [] b[23] = 17 -> PacketUPD(b, 34)
                  [] b[23] = 1 -> PacketICMP(b, 34)
                  [] OTHER -> <<>>
<1>1. /\ "TCP" \in Sections \ {"DHCP"} /\ "ICMP" \in Sections \ {"DHCP"}
      /\ 8 \in Nat /\ 20 \in Nat /\ 34 \in Nat
  BY DEF Sections
<1>2. Cast(b).bytes = b /\ 14 + 4 * b[14] = 34 /\ b[20] = 0
  BY DEF Cast, Plain
<1>3. Transport(Cast(b), Given) =
        CASE b[23] = 6 -> Layer(Given, "TCP", 34, 20)
          [] b[23] = 1 -> Layer(Given, "ICMP", 34, 8)
          [] b[23] = 17 -> DatagramOf(b, 34)
          [] OTHER -> <<>>
  BY <1>2 DEF Transport, DatagramOf, DhcpPorts
<1>4. CASE b[23] = 6
  <2>1. c = Section("TCP", 34, 20, <<>>, <<>>)
    BY <1>4 DEF PacketTCP
  <2>2. Transport(Cast(b), Given) = Layer(Given, "TCP", 34, 20)
    BY <1>4, <1>3
  <2>3. ~CarriesDhcp(b)
    BY <1>4 DEF CarriesDhcp
  <2>4. Prints(Section("TCP", 34, 20, <<>>, <<>>), Layer(Given, "TCP", 34, 20), {})
    BY <1>1, BareInnermost
  <2> QED BY <2>1, <2>2, <2>3, <2>4
<1>5. CASE b[23] = 1
  <2>1. c = Section("ICMP", 34, 8, <<>>, <<>>)
    BY <1>5 DEF PacketICMP
  <2>2. Transport(Cast(b), Given) = Layer(Given, "ICMP", 34, 8)
    BY <1>5, <1>3
  <2>3. ~CarriesDhcp(b)
    BY <1>5 DEF CarriesDhcp
  <2>4. Prints(Section("ICMP", 34, 8, <<>>, <<>>), Layer(Given, "ICMP", 34, 8), {})
    BY <1>1, BareInnermost
  <2> QED BY <2>1, <2>2, <2>3, <2>4
<1>6. CASE b[23] = 17
  <2>1. c = PacketUPD(b, 34)
    BY <1>6
  <2>2. Transport(Cast(b), Given) = DatagramOf(b, 34)
    BY <1>6, <1>3
  <2>3. CarriesDhcp(b) <=> DhcpPorts(b, 34)
    BY <1>6 DEF CarriesDhcp
  <2>4. 34 + 8 = 42
    OBVIOUS
  <2> QED BY <1>1, <2>1, <2>2, <2>3, <2>4, UdpPrints
<1>7. CASE b[23] \notin {1, 6, 17}
  <2>1. c = <<>>
    BY <1>7
  <2>2. Transport(Cast(b), Given) = <<>>
    BY <1>7, <1>3
  <2>3. ~CarriesDhcp(b)
    BY <1>7 DEF CarriesDhcp
  <2> QED BY <2>1, <2>2, <2>3, NothingPrints
<1> QED BY <1>4, <1>5, <1>6, <1>7

LEMMA Ip4Prints ==
  ASSUME NEW b, Plain(b)
  PROVE  Prints(PacketIP4(b, 14), Layer(Given, "IP4", 14, 20) \o Transport(Cast(b), Given),
                Ip4Addresses(14) \cup (IF CarriesDhcp(b) THEN DhcpAddresses(42) ELSE {}))
<1> DEFINE c == CASE b[23] = 6 -> PacketTCP(b, 34)
                  [] b[23] = 17 -> PacketUPD(b, 34)
                  [] b[23] = 1 -> PacketICMP(b, 34)
                  [] OTHER -> <<>>
           s == << Address("Src IP", 26, 4), Address("Dst IP", 30, 4) >>
           T == Transport(Cast(b), Given)
           D == IF CarriesDhcp(b) THEN DhcpAddresses(42) ELSE {}
<1>1. "IP4" \in Sections \ {"DHCP"} /\ 14 \in Nat /\ 20 \in Nat
      /\ "Src IP" \in Names /\ "Dst IP" \in Names
  BY DEF Sections, Names
<1>2. 14 + 12 = 26 /\ 14 + 16 = 30 /\ 14 + 20 = 34
  OBVIOUS
<1>3. Prints(c, T, D)
  BY TransportPrints
<1>4. PacketIP4(b, 14) = Section("IP4", 14, 20, s, c)
  BY <1>2 DEF PacketIP4
<1>5. s \in Seq(Lines) /\ Reads(s, <<>>) /\ ToSet(s) = Ip4Addresses(14)
  <2> DEFINE x == Address("Src IP", 26, 4)
             y == Address("Dst IP", 30, 4)
  <2>1. x \in Lines /\ y \in Lines /\ x.kind = "address" /\ y.kind = "address"
    <3>1. x \in Lines /\ x.kind = "address"
      BY <1>1, AddressLine
    <3>2. y \in Lines /\ y.kind = "address"
      BY <1>1, AddressLine
    <3> QED BY <3>1, <3>2
  <2>2. Ip4Addresses(14) = {x, y} /\ s = <<x, y>>
    BY <1>2 DEF Ip4Addresses
  <2> HIDE DEF s, x, y
  <2> QED BY <2>1, <2>2, Two
<1> HIDE DEF c, s, T, D
<1>6. Prints(Section("IP4", 14, 20, s, c), Layer(Given, "IP4", 14, 20) \o T, ToSet(s) \cup D)
  BY <1>1, <1>3, <1>5, SectionPrints
<1> QED BY <1>4, <1>5, <1>6 DEF T, D

LEMMA Ip6Prints ==
  ASSUME NEW b
  PROVE  Prints(PacketIP6(b, 14),
                Layer(Given, "IP6", 14, 40) \o
                  IF b[20] = 58 THEN Layer(Given, "ICMP6", 54, 8) ELSE <<>>,
                Ip6Addresses(14))
<1> DEFINE c == IF b[20] = 58 THEN PacketICMP6(b, 54) ELSE <<>>
           s == << Address("Src IP", 22, 16), Address("Dst IP", 22, 16) >>
           T == IF b[20] = 58 THEN Layer(Given, "ICMP6", 54, 8) ELSE <<>>
<1>1. "IP6" \in Sections \ {"DHCP"} /\ "ICMP6" \in Sections \ {"DHCP"}
      /\ 14 \in Nat /\ 40 \in Nat /\ 54 \in Nat /\ 8 \in Nat /\ 22 \in Nat /\ 16 \in Nat
      /\ "Src IP" \in Names /\ "Dst IP" \in Names
  BY DEF Sections, Names
<1>2. 14 + 8 = 22 /\ 14 + 40 = 54
  OBVIOUS
<1>3. Prints(c, T, {})
  <2>1. CASE b[20] = 58
    <3>1. PacketICMP6(b, 54) = Section("ICMP6", 54, 8, <<>>, <<>>)
      BY DEF PacketICMP6
    <3>2. Prints(Section("ICMP6", 54, 8, <<>>, <<>>), Layer(Given, "ICMP6", 54, 8), {})
      BY <1>1, BareInnermost
    <3> QED BY <2>1, <3>1, <3>2
  <2>2. CASE b[20] # 58
    BY <2>2, NothingPrints
  <2> QED BY <2>1, <2>2
<1>4. PacketIP6(b, 14) = Section("IP6", 14, 40, s, c)
  BY <1>2 DEF PacketIP6
<1>5. s \in Seq(Lines) /\ Reads(s, <<>>) /\ ToSet(s) = Ip6Addresses(14)
  <2> DEFINE x == Address("Src IP", 22, 16)
             y == Address("Dst IP", 22, 16)
  <2>1. x \in Lines /\ y \in Lines /\ x.kind = "address" /\ y.kind = "address"
    <3>1. x \in Lines /\ x.kind = "address"
      BY <1>1, AddressLine
    <3>2. y \in Lines /\ y.kind = "address"
      BY <1>1, AddressLine
    <3> QED BY <3>1, <3>2
  <2>2. Ip6Addresses(14) = {x, y} /\ s = <<x, y>>
    BY <1>2 DEF Ip6Addresses
  <2> HIDE DEF s, x, y
  <2> QED BY <2>1, <2>2, Two
<1> HIDE DEF c, s, T
<1>6. Prints(Section("IP6", 14, 40, s, c), Layer(Given, "IP6", 14, 40) \o T, ToSet(s) \cup {})
  BY <1>1, <1>3, <1>5, SectionPrints
<1> QED BY <1>4, <1>5, <1>6 DEF T

\* The addresses printed of a frame with these cells.
AddressesIn(b) ==
  EthAddresses(0) \cup
    CASE b[12] = ETH_P_ARP -> ArpAddresses(14, b[18], b[19])
      [] b[12] = ETH_P_IP -> Ip4Addresses(14) \cup (IF CarriesDhcp(b) THEN DhcpAddresses(42) ELSE {})
      [] b[12] = ETH_P_IPV6 -> Ip6Addresses(14)
      [] OTHER -> {}

LEMMA EthPrints ==
  ASSUME NEW b \in [Cells -> Nat], Simple(Cast(b))
  PROVE  Prints(PacketETH(b, 0), Layers(Cast(b), Given), AddressesIn(b))
<1> DEFINE c == CASE b[12] = ETH_P_ARP -> PacketARP(b, 14)
                  [] b[12] = ETH_P_IP -> PacketIP4(b, 14)
                  [] b[12] = ETH_P_IPV6 -> PacketIP6(b, 14)
                  [] OTHER -> <<>>
           T == CASE b[12] = ETH_P_ARP -> Layer(Given, "ARP", 14, 8)
                  [] b[12] = ETH_P_IP -> Layer(Given, "IP4", 14, 20) \o Transport(Cast(b), Given)
                  [] b[12] = ETH_P_IPV6 ->
                       Layer(Given, "IP6", 14, 40) \o
                         IF b[20] = 58 THEN Layer(Given, "ICMP6", 54, 8) ELSE <<>>
                  [] OTHER -> <<>>
           D == CASE b[12] = ETH_P_ARP -> ArpAddresses(14, b[18], b[19])
                  [] b[12] = ETH_P_IP ->
                       Ip4Addresses(14) \cup (IF CarriesDhcp(b) THEN DhcpAddresses(42) ELSE {})
                  [] b[12] = ETH_P_IPV6 -> Ip6Addresses(14)
                  [] OTHER -> {}
           s == << Address("Src MAC", 6, 6), Address("Dst MAC", 0, 6) >>
<1>1. "ETH" \in Sections \ {"DHCP"} /\ 0 \in Nat /\ 6 \in Nat /\ 14 \in Nat
      /\ "Src MAC" \in Names /\ "Dst MAC" \in Names
  BY DEF Sections, Names
<1>2. 0 + 14 = 14 /\ 0 + 6 = 6
  OBVIOUS
<1>3. ETH_P_ARP # ETH_P_IP /\ ETH_P_ARP # ETH_P_IPV6 /\ ETH_P_IP # ETH_P_IPV6
  BY DEF ETH_P_ARP, ETH_P_IP, ETH_P_IPV6
<1>4. Prints(c, T, D)
  <2>1. CASE b[12] = ETH_P_ARP
    BY <1>1, <1>3, <2>1, ArpPrints
  <2>2. CASE b[12] = ETH_P_IP
    <3>1. Plain(b)
      BY <2>2 DEF Simple, Cast, Plain
    <3> QED BY <1>3, <2>2, <3>1, Ip4Prints
  <2>3. CASE b[12] = ETH_P_IPV6
    BY <1>3, <2>3, Ip6Prints
  <2>4. CASE b[12] \notin {ETH_P_ARP, ETH_P_IP, ETH_P_IPV6}
    BY <2>4, NothingPrints
  <2> QED BY <2>1, <2>2, <2>3, <2>4
<1>5. PacketETH(b, 0) = Section("ETH", 0, 14, s, c)
  BY <1>2 DEF PacketETH
<1>6. Layers(Cast(b), Given) = Layer(Given, "ETH", 0, 14) \o T
  BY DEF Layers, Cast
<1>7. AddressesIn(b) = EthAddresses(0) \cup D
  BY DEF AddressesIn
<1>8. s \in Seq(Lines) /\ Reads(s, <<>>) /\ ToSet(s) = EthAddresses(0)
  <2> DEFINE x == Address("Src MAC", 6, 6)
             y == Address("Dst MAC", 0, 6)
  <2>1. x \in Lines /\ y \in Lines /\ x.kind = "address" /\ y.kind = "address"
    <3>1. x \in Lines /\ x.kind = "address"
      BY <1>1, AddressLine
    <3>2. y \in Lines /\ y.kind = "address"
      BY <1>1, AddressLine
    <3> QED BY <3>1, <3>2
  <2>2. EthAddresses(0) = {x, y} /\ s = <<x, y>>
    BY <1>2 DEF EthAddresses
  <2> HIDE DEF s, x, y
  <2> QED BY <2>1, <2>2, Two
<1> HIDE DEF c, s, T, D
<1>9. Prints(Section("ETH", 0, 14, s, c), Layer(Given, "ETH", 0, 14) \o T, ToSet(s) \cup D)
  BY <1>1, <1>4, <1>8, SectionPrints
<1> QED BY <1>5, <1>6, <1>7, <1>8, <1>9

-----------------------------------------------------------------------------
(* A complete frame overwrites all the cells that its headers are read from. *)

LEMMA OneLayer ==
  ASSUME NEW given, NEW what \in Sections, NEW first \in Nat, NEW size \in Nat
  PROVE  /\ Open(what, first, size) \in Lines
         /\ Open(what, first, size).first = first /\ Open(what, first, size).size = size
         /\ Layer(given, what, first, size) \in Seq(Lines)
         /\ Layer(Sections, what, first, size) = <<Open(what, first, size)>>
<1>1. Open(what, first, size) \in Lines
      /\ Open(what, first, size).first = first /\ Open(what, first, size).size = size
  BY DEF Open, Line, Lines, Names
<1>2. <<Open(what, first, size)>> \in Seq(Lines) /\ <<>> \in Seq(Lines)
  BY <1>1
<1> QED BY <1>1, <1>2 DEF Layer

\* A layer, and whatever follows, lies inside n bytes.
Inside(s, n) == \A x \in ToSet(s) : x.first + x.size <= n

LEMMA InsideOne ==
  ASSUME NEW what \in Sections, NEW first \in Nat, NEW size \in Nat, NEW n,
         Inside(Layer(Sections, what, first, size), n)
  PROVE  first + size <= n
BY OneLayer, ToSetOne DEF Inside

LEMMA InsideBoth ==
  ASSUME NEW what \in Sections, NEW first \in Nat, NEW size \in Nat, NEW n,
         NEW s \in Seq(Lines), Inside(Layer(Sections, what, first, size) \o s, n)
  PROVE  first + size <= n /\ Inside(s, n)
<1> DEFINE L == Layer(Sections, what, first, size)
<1>1. L \in Seq(Lines)
  BY OneLayer
<1> HIDE DEF L
<1>2. ToSet(L \o s) = ToSet(L) \cup ToSet(s)
  BY <1>1, ToSetConcat
<1>3. Inside(L, n) /\ Inside(s, n)
  BY <1>2 DEF Inside, L
<1> QED BY <1>3, InsideOne DEF L

\* The transport layer of a frame without IPv4 options, as in Transport.
PlainTransport(c, given) ==
  CASE c[23] = 6 -> Layer(given, "TCP", 34, 20)
    [] c[23] = 1 -> Layer(given, "ICMP", 34, 8)
    [] c[23] = 17 -> Layer(given, "UDP", 34, 8) \o
                       IF DhcpPorts(c, 34) THEN Layer(given, "DHCP", 42, 28) ELSE <<>>
    [] OTHER -> <<>>

LEMMA TransportPlain ==
  ASSUME NEW c, NEW given, Plain(c)
  PROVE  /\ Transport(Cast(c), given) = PlainTransport(c, given)
         /\ PlainTransport(c, given) \in Seq(Lines)
<1>1. Cast(c).bytes = c /\ 14 + 4 * c[14] = 34 /\ c[20] = 0
  BY DEF Cast, Plain
<1>2. Transport(Cast(c), given) = PlainTransport(c, given)
  BY <1>1 DEF Transport, PlainTransport, DhcpPorts
<1>3. /\ Layer(given, "TCP", 34, 20) \in Seq(Lines) /\ Layer(given, "ICMP", 34, 8) \in Seq(Lines)
      /\ Layer(given, "UDP", 34, 8) \in Seq(Lines) /\ Layer(given, "DHCP", 42, 28) \in Seq(Lines)
      /\ <<>> \in Seq(Lines)
  <2>1. "TCP" \in Sections /\ "ICMP" \in Sections /\ "UDP" \in Sections /\ "DHCP" \in Sections
    BY DEF Sections
  <2>2. 34 \in Nat /\ 42 \in Nat /\ 20 \in Nat /\ 8 \in Nat /\ 28 \in Nat
    OBVIOUS
  <2>3. \A what \in Sections : \A first, size \in Nat : Layer(given, what, first, size) \in Seq(Lines)
    BY OneLayer
  <2>4. Layer(given, "TCP", 34, 20) \in Seq(Lines) /\ Layer(given, "ICMP", 34, 8) \in Seq(Lines)
    BY <2>1, <2>2, <2>3
  <2>5. Layer(given, "UDP", 34, 8) \in Seq(Lines) /\ Layer(given, "DHCP", 42, 28) \in Seq(Lines)
    BY <2>1, <2>2, <2>3
  <2> QED BY <2>4, <2>5
<1>4. \A s \in Seq(Lines) : Layer(given, "UDP", 34, 8) \o s \in Seq(Lines)
  BY <1>3
<1> QED BY <1>2, <1>3, <1>4 DEF PlainTransport

\* How far the headers of a complete frame reach.
LEMMA Reach ==
  ASSUME NEW c, NEW n \in Nat, Simple(Cast(c)), Inside(Layers(Cast(c), Sections), n)
  PROVE  /\ 14 <= n
         /\ c[12] = ETH_P_ARP => 22 <= n
         /\ c[12] = ETH_P_IP => Plain(c) /\ 34 <= n /\ (c[23] = 17 => 42 <= n)
                                /\ (CarriesDhcp(c) => 70 <= n)
         /\ c[12] = ETH_P_IPV6 => 54 <= n
<1> DEFINE E == Layer(Sections, "ETH", 0, 14)
<1>1. ETH_P_ARP # ETH_P_IP /\ ETH_P_ARP # ETH_P_IPV6 /\ ETH_P_IP # ETH_P_IPV6
  BY DEF ETH_P_ARP, ETH_P_IP, ETH_P_IPV6
<1>2. "ETH" \in Sections /\ "ARP" \in Sections /\ "IP4" \in Sections /\ "IP6" \in Sections
      /\ "UDP" \in Sections /\ "DHCP" \in Sections /\ "ICMP6" \in Sections
  BY DEF Sections
<1>3. Cast(c).bytes = c
  BY DEF Cast
<1>4. \A s \in Seq(Lines) : Layers(Cast(c), Sections) = E \o s => 14 <= n /\ Inside(s, n)
  BY <1>2, InsideBoth
<1>5. ASSUME c[12] = ETH_P_ARP
      PROVE  14 <= n /\ 22 <= n
  <2>1. Layers(Cast(c), Sections) = E \o Layer(Sections, "ARP", 14, 8)
    BY <1>1, <1>3, <1>5 DEF Layers
  <2>2. 14 <= n /\ Inside(Layer(Sections, "ARP", 14, 8), n)
    BY <1>2, <1>4, <2>1, OneLayer
  <2>3. 14 + 8 <= n
    BY <1>2, <2>2, InsideOne
  <2> QED BY <2>2, <2>3
<1>6. ASSUME c[12] = ETH_P_IP
      PROVE  Plain(c) /\ 14 <= n /\ 34 <= n /\ (c[23] = 17 => 42 <= n) /\ (CarriesDhcp(c) => 70 <= n)
  <2> DEFINE T == PlainTransport(c, Sections)
             L == Layer(Sections, "IP4", 14, 20)
  <2>1. Plain(c)
    BY <1>3, <1>6 DEF Simple, Plain
  <2>2. Transport(Cast(c), Sections) = T /\ T \in Seq(Lines)
    BY <2>1, TransportPlain
  <2>3. Layers(Cast(c), Sections) = E \o (L \o Transport(Cast(c), Sections))
    BY <1>1, <1>3, <1>6 DEF Layers
  <2>4. L \o T \in Seq(Lines)
    BY <1>2, <2>2, OneLayer
  <2>5. 14 <= n /\ Inside(L \o T, n)
    BY <1>4, <2>2, <2>3, <2>4
  <2>6. 14 + 20 <= n /\ Inside(T, n)
    BY <1>2, <2>2, <2>5, InsideBoth
  <2>7. ASSUME c[23] = 17
        PROVE  42 <= n /\ (CarriesDhcp(c) => 70 <= n)
    <3> DEFINE D == IF DhcpPorts(c, 34) THEN Layer(Sections, "DHCP", 42, 28) ELSE <<>>
    <3>1. T = Layer(Sections, "UDP", 34, 8) \o D
      <4>1. c[23] # 6 /\ c[23] # 1
        BY <2>7
      <4> QED BY <2>7, <4>1 DEF PlainTransport
    <3>2. D \in Seq(Lines)
      BY <1>2, OneLayer
    <3> HIDE DEF D
    <3>3. 34 + 8 <= n /\ Inside(D, n)
      BY <1>2, <2>6, <3>1, <3>2, InsideBoth
    <3>4. ASSUME CarriesDhcp(c)
          PROVE  42 + 28 <= n
      <4>1. D = Layer(Sections, "DHCP", 42, 28)
        BY <3>4 DEF CarriesDhcp, D
      <4>2. Inside(Layer(Sections, "DHCP", 42, 28), n)
        BY <3>3, <4>1
      <4> QED BY <1>2, <4>2, InsideOne
    <3> QED BY <3>3, <3>4
  <2> QED BY <2>1, <2>5, <2>6, <2>7 DEF CarriesDhcp
<1>7. ASSUME c[12] = ETH_P_IPV6
      PROVE  14 <= n /\ 54 <= n
  <2> DEFINE I == IF c[20] = 58 THEN Layer(Sections, "ICMP6", 54, 8) ELSE <<>>
             L == Layer(Sections, "IP6", 14, 40)
  <2>1. Layers(Cast(c), Sections) = E \o (L \o I)
    <3>1. c[12] # ETH_P_ARP /\ c[12] # ETH_P_IP
      BY <1>1, <1>7
    <3>2. Layers(Cast(c), Sections)
            = E \o (L \o IF Cast(c).bytes[20] = 58 THEN Layer(Sections, "ICMP6", 54, 8) ELSE <<>>)
      BY <1>3, <1>7, <3>1 DEF Layers
    <3> QED BY <1>3, <3>2
  <2>2. I \in Seq(Lines)
    BY <1>2, OneLayer
  <2>3. L \o I \in Seq(Lines)
    BY <1>2, <2>2, OneLayer
  <2>4. 14 <= n /\ Inside(L \o I, n)
    BY <1>4, <2>1, <2>3
  <2> HIDE DEF I
  <2>5. 14 + 40 <= n
    BY <1>2, <2>2, <2>4, InsideBoth
  <2> QED BY <2>4, <2>5
<1>8. ASSUME c[12] \notin {ETH_P_ARP, ETH_P_IP, ETH_P_IPV6}
      PROVE  14 <= n
  <2>1. Layers(Cast(c), Sections) = E \o <<>>
    BY <1>3, <1>8 DEF Layers
  <2>2. <<>> \in Seq(Lines)
    OBVIOUS
  <2> QED BY <1>4, <2>1, <2>2
<1> QED BY <1>1, <1>5, <1>6, <1>7, <1>8

\* The buffer after a frame: its own bytes, and behind them older ones.
LEMMA SameHeaders ==
  ASSUME NEW f \in Frames, NEW b \in [Cells -> Nat], Complete(f), Simple(f),
         \A c \in Cells : c < f.n => b[c] = f.bytes[c]
  PROVE  /\ b[12] = f.bytes[12] /\ Simple(Cast(b))
         /\ \A given : Layers(Cast(b), given) = Layers(f, given)
         /\ Inside(Layers(Cast(b), Sections), f.n)
         /\ f.n \in Nat /\ f.bytes \in [Cells -> Nat]
         /\ b[12] = ETH_P_ARP => b[18] = f.bytes[18] /\ b[19] = f.bytes[19]
<1> DEFINE c == f.bytes
           n == f.n
<1>1. n \in Nat /\ c \in [Cells -> Nat]
  BY FramesAssumption
<1>2. Cast(c).bytes = c /\ Cast(b).bytes = b
  BY DEF Cast
<1>3. Simple(Cast(c)) /\ \A given : Layers(Cast(c), given) = Layers(f, given)
  BY <1>2 DEF Simple, Layers, Transport
<1>4. Inside(Layers(Cast(c), Sections), n)
  BY <1>3 DEF Complete, Within, Inside
<1> HIDE DEF c, n
<1>5. /\ 14 <= n
      /\ c[12] = ETH_P_ARP => 22 <= n
      /\ c[12] = ETH_P_IP => Plain(c) /\ 34 <= n /\ (c[23] = 17 => 42 <= n)
      /\ c[12] = ETH_P_IPV6 => 54 <= n
  BY <1>1, <1>3, <1>4, Reach
<1>6. \A k \in {12, 14, 18, 19, 20, 23, 34, 36} : k < n => b[k] = c[k]
  BY DEF Cells, c, n
<1>7. b[12] = c[12]
  BY <1>1, <1>5, <1>6
<1>8. c[12] = ETH_P_ARP => b[18] = c[18] /\ b[19] = c[19]
  BY <1>1, <1>5, <1>6
<1>9. c[12] = ETH_P_IPV6 => b[20] = c[20]
  BY <1>1, <1>5, <1>6
<1>10. c[12] = ETH_P_IP => Plain(c) /\ Plain(b) /\ b[23] = c[23]
                           /\ (c[23] = 17 => b[34] = c[34] /\ b[36] = c[36])
  <2>1. 12 < 34 /\ 14 < 34 /\ 20 < 34 /\ 23 < 34 /\ 34 < 42 /\ 36 < 42
    OBVIOUS
  <2> QED BY <1>1, <1>5, <1>6, <2>1 DEF Plain
<1>11. Simple(Cast(b))
  BY <1>2, <1>7, <1>10 DEF Simple, Plain
<1>12. ASSUME NEW given
       PROVE  Layers(Cast(b), given) = Layers(Cast(c), given)
  <2>1. c[12] = ETH_P_IP => Transport(Cast(b), given) = Transport(Cast(c), given)
    <3>1. SUFFICES ASSUME c[12] = ETH_P_IP
                   PROVE  Transport(Cast(b), given) = Transport(Cast(c), given)
      OBVIOUS
    <3>2. c[23] = 17 => (DhcpPorts(b, 34) <=> DhcpPorts(c, 34))
      <4>1. 34 + 2 = 36
        OBVIOUS
      <4> QED BY <1>10, <3>1, <4>1 DEF DhcpPorts
    <3>3. PlainTransport(b, given) = PlainTransport(c, given)
      BY <1>10, <3>1, <3>2 DEF PlainTransport
    <3> QED BY <1>10, <3>1, <3>3, TransportPlain
  <2> QED BY <1>2, <1>7, <1>9, <2>1 DEF Layers
<1> QED BY <1>1, <1>3, <1>4, <1>7, <1>8, <1>11, <1>12 DEF c, n

\* The addresses of such a frame are inside it, and those of ARP apart.
LEMMA AddressesInside ==
  ASSUME NEW b \in [Cells -> Nat], NEW n \in Nat, Simple(Cast(b)),
         Inside(Layers(Cast(b), Sections), n),
         b[12] = ETH_P_ARP => 22 + 2 * (b[18] + b[19]) <= n
  PROVE  \A x \in AddressesIn(b) : x.first + x.size <= n
<1> DEFINE Fits(A) == \A x \in A : x.first + x.size <= n
<1>1. /\ 14 <= n
      /\ b[12] = ETH_P_IP => 34 <= n /\ (CarriesDhcp(b) => 70 <= n)
      /\ b[12] = ETH_P_IPV6 => 54 <= n
  BY Reach
<1>2. Fits(EthAddresses(0))
  <2> DEFINE x == Address("Src MAC", 6, 6)
             y == Address("Dst MAC", 0, 6)
  <2>1. 0 + 6 = 6
    OBVIOUS
  <2>2. EthAddresses(0) = {x, y}
    BY <2>1 DEF EthAddresses
  <2>3. x.first = 6 /\ x.size = 6 /\ y.first = 0 /\ y.size = 6
    BY DEF Address, Line
  <2> HIDE DEF x, y
  <2> QED BY <1>1, <2>2, <2>3
<1>3. b[12] = ETH_P_IP => Fits(Ip4Addresses(14))
  <2> DEFINE x == Address("Src IP", 26, 4)
             y == Address("Dst IP", 30, 4)
  <2>1. 14 + 12 = 26 /\ 14 + 16 = 30
    OBVIOUS
  <2>2. Ip4Addresses(14) = {x, y}
    BY <2>1 DEF Ip4Addresses
  <2>3. x.first = 26 /\ x.size = 4 /\ y.first = 30 /\ y.size = 4
    BY DEF Address, Line
  <2> HIDE DEF x, y
  <2> QED BY <1>1, <2>2, <2>3
<1>4. b[12] = ETH_P_IP /\ CarriesDhcp(b) => Fits(DhcpAddresses(42))
  BY <1>1 DEF DhcpAddresses, Address, Line
<1>5. b[12] = ETH_P_IPV6 => Fits(Ip6Addresses(14))
  <2> DEFINE x == Address("Src IP", 22, 16)
             y == Address("Dst IP", 22, 16)
  <2>1. 14 + 8 = 22
    OBVIOUS
  <2>2. Ip6Addresses(14) = {x, y}
    BY <2>1 DEF Ip6Addresses
  <2>3. x.first = 22 /\ x.size = 16 /\ y.first = 22 /\ y.size = 16
    BY DEF Address, Line
  <2> HIDE DEF x, y
  <2> QED BY <1>1, <2>2, <2>3
<1>6. b[12] = ETH_P_ARP => Fits(ArpAddresses(14, b[18], b[19]))
  <2>1. b[18] \in Nat /\ b[19] \in Nat
    BY DEF Cells
  <2> QED BY <2>1 DEF ArpAddresses, Address, Line
<1>7. ETH_P_ARP # ETH_P_IP /\ ETH_P_ARP # ETH_P_IPV6 /\ ETH_P_IP # ETH_P_IPV6
  BY DEF ETH_P_ARP, ETH_P_IP, ETH_P_IPV6
<1> HIDE DEF Fits
<1>8. \A A, B : Fits(A) /\ Fits(B) => Fits(A \cup B)
  BY DEF Fits
<1>9. Fits({})
  BY DEF Fits
<1>10. Fits(AddressesIn(b))
  <2>1. CASE b[12] = ETH_P_ARP
    BY <1>2, <1>6, <1>7, <1>8, <2>1 DEF AddressesIn
  <2>2. CASE b[12] = ETH_P_IP /\ CarriesDhcp(b)
    BY <1>2, <1>3, <1>4, <1>7, <1>8, <2>2 DEF AddressesIn
  <2>3. CASE b[12] = ETH_P_IP /\ ~CarriesDhcp(b)
    BY <1>2, <1>3, <1>7, <1>8, <1>9, <2>3 DEF AddressesIn
  <2>4. CASE b[12] = ETH_P_IPV6
    BY <1>2, <1>5, <1>7, <1>8, <2>4 DEF AddressesIn
  <2>5. CASE b[12] \notin {ETH_P_ARP, ETH_P_IP, ETH_P_IPV6}
    BY <1>2, <1>8, <1>9, <2>5 DEF AddressesIn
  <2> QED BY <2>1, <2>2, <2>3, <2>4, <2>5
<1> QED BY <1>10 DEF Fits

LEMMA ArpApart ==
  ASSUME NEW hln \in Nat, NEW pln \in Nat,
         NEW x \in ArpAddresses(14, hln, pln), NEW y \in ArpAddresses(14, hln, pln), x # y
  PROVE  x.first + x.size <= y.first \/ y.first + y.size <= x.first
<1> DEFINE u == Address("SHA", 22, hln)
           v == Address("SPA", 22 + hln, pln)
           w == Address("THA", 22 + hln + pln, hln)
           z == Address("TPA", 22 + hln + pln + hln, pln)
<1>1. ArpAddresses(14, hln, pln) = {u, v, w, z}
  <2>1. 14 + 8 = 22
    OBVIOUS
  <2> QED BY <2>1 DEF ArpAddresses
<1>2. /\ u.first = 22 /\ u.size = hln
      /\ v.first = 22 + hln /\ v.size = pln
      /\ w.first = 22 + hln + pln /\ w.size = hln
      /\ z.first = 22 + hln + pln + hln /\ z.size = pln
  BY DEF Address, Line
<1> HIDE DEF u, v, w, z
<1> QED BY <1>1, <1>2

-----------------------------------------------------------------------------
(* The program. *)

\* TypeOK, with all of a line's fields.
Types ==
  /\ pc \in {"args", "run", "exited", "crashed"}
  /\ asked \subseteq Sections /\ flags \subseteq Sections
  /\ name \in Interfaces \cup {None} /\ (pc = "run" => name # None)
  /\ buffer \in [Cells -> Bytes]
  /\ frame \in Frames \cup {None}
  /\ shown \in Seq(Lines)

LEMMA BytesAreNumbers ==
  /\ Bytes \subseteq Nat /\ 0 \in Bytes
  /\ \A f \in Frames : \A c \in Cells : f.bytes[c] \in Bytes
<1>1. \A f \in Frames : f.bytes \in [Cells -> Nat]
  BY FramesAssumption
<1> QED BY <1>1 DEF Bytes

\* Whatever is in the buffer, lines are printed.
LEMMA SectionLines ==
  ASSUME NEW what \in Sections, NEW first \in Nat, NEW size \in Nat,
         NEW addresses \in Seq(Lines), NEW carried \in Seq(Lines)
  PROVE  Section(what, first, size, addresses, carried) \in Seq(Lines)
<1> DEFINE x == Open(what, first, size)
           e == End(what)
<1>1. x \in Lines /\ e \in Lines
  BY DEF Open, End, Line, Lines, Names
<1>2. Section(what, first, size, addresses, carried) =
        IF what \in flags THEN <<x>> \o addresses \o carried \o <<e>> ELSE carried
  BY DEF Section
<1> HIDE DEF x, e
<1>3. <<x>> \in Seq(Lines) /\ <<e>> \in Seq(Lines)
  BY <1>1
<1>4. <<x>> \o addresses \o carried \o <<e>> \in Seq(Lines)
  BY <1>3
<1> QED BY <1>2, <1>4

LEMMA PacketLines ==
  ASSUME NEW b \in [Cells -> Nat]
  PROVE  PacketETH(b, 0) \in Seq(Lines)
<1>1. Sections \subseteq Names /\ 0 \in Nat /\ 6 \in Nat /\ 8 \in Nat /\ 14 \in Nat /\ 20 \in Nat
      /\ 34 \in Nat /\ 40 \in Nat /\ 42 \in Nat /\ 54 \in Nat
      /\ 0 + 14 = 14 /\ 14 + 20 = 34 /\ 14 + 40 = 54 /\ 34 + 8 = 42
  <2>1. Sections \subseteq Names
    BY DEF Names
  <2> QED BY <2>1
<1>2. <<>> \in Seq(Lines)
  OBVIOUS
<1>3. PacketARP(b, 14) \in Seq(Lines)
  BY <1>1, ArpPrints DEF Prints
<1>4. PacketDHCP(b, 42) \in Seq(Lines)
  BY <1>1, DhcpPrints DEF Prints
<1>5. PacketUPD(b, 34) \in Seq(Lines)
  BY <1>1, UdpPrints DEF Prints
<1>6. PacketTCP(b, 34) \in Seq(Lines) /\ PacketICMP(b, 34) \in Seq(Lines)
      /\ PacketICMP6(b, 54) \in Seq(Lines)
  <2>1. "TCP" \in Sections /\ "ICMP" \in Sections /\ "ICMP6" \in Sections
    BY DEF Sections
  <2>2. \A w \in Sections : \A k \in Nat : \A m \in Nat : Section(w, k, m, <<>>, <<>>) \in Seq(Lines)
    BY <1>2, SectionLines
  <2> QED BY <1>1, <2>1, <2>2 DEF PacketTCP, PacketICMP, PacketICMP6
<1>7. ASSUME NEW k \in Nat, NEW m \in Nat, NEW size \in Nat,
             NEW s \in Names, NEW t \in Names
      PROVE  << Address(s, k, size), Address(t, m, size) >> \in Seq(Lines)
  <2> DEFINE x == Address(s, k, size)
             y == Address(t, m, size)
  <2>1. x \in Lines /\ y \in Lines /\ x.kind = "address" /\ y.kind = "address"
    BY AddressLine
  <2> HIDE DEF x, y
  <2>2. <<x, y>> \in Seq(Lines)
    BY <2>1, Two
  <2> QED BY <2>2 DEF x, y
<1>8. PacketIP4(b, 14) \in Seq(Lines)
  <2> DEFINE c == CASE b[23] = 6 -> PacketTCP(b, 34)
                    [] b[23] = 17 -> PacketUPD(b, 34)
                    [] b[23] = 1 -> PacketICMP(b, 34)
                    [] OTHER -> <<>>
             s == << Address("Src IP", 14 + 12, 4), Address("Dst IP", 14 + 16, 4) >>
  <2>1. c \in Seq(Lines)
    BY <1>2, <1>5, <1>6
  <2>2. s \in Seq(Lines)
    <3>1. "Src IP" \in Names /\ "Dst IP" \in Names /\ 14 + 12 \in Nat /\ 14 + 16 \in Nat /\ 4 \in Nat
      BY DEF Names
    <3> QED BY <1>7, <3>1
  <2>3. PacketIP4(b, 14) = Section("IP4", 14, 20, s, c) /\ "IP4" \in Sections
    BY <1>1 DEF PacketIP4, Sections
  <2> HIDE DEF c, s
  <2> QED BY <1>1, <2>1, <2>2, <2>3, SectionLines
<1>9. PacketIP6(b, 14) \in Seq(Lines)
  BY Ip6Prints DEF Prints
<1>10. PacketETH(b, 0) \in Seq(Lines)
  <2> DEFINE c == CASE b[12] = ETH_P_ARP -> PacketARP(b, 14)
                    [] b[12] = ETH_P_IP -> PacketIP4(b, 14)
                    [] b[12] = ETH_P_IPV6 -> PacketIP6(b, 14)
                    [] OTHER -> <<>>
             s == << Address("Src MAC", 0 + 6, 6), Address("Dst MAC", 0, 6) >>
  <2>1. c \in Seq(Lines)
    BY <1>2, <1>3, <1>8, <1>9
  <2>2. s \in Seq(Lines)
    <3>1. "Src MAC" \in Names /\ "Dst MAC" \in Names
      BY DEF Names
    <3>2. 0 + 6 \in Nat /\ 6 \in Nat /\ 0 \in Nat
      OBVIOUS
    <3> QED BY <1>7, <3>1, <3>2
  <2>3. PacketETH(b, 0) = Section("ETH", 0, 14, s, c) /\ "ETH" \in Sections
    BY <1>1 DEF PacketETH, Sections
  <2> HIDE DEF c, s
  <2> QED BY <1>1, <2>1, <2>2, <2>3, SectionLines
<1> QED BY <1>10

\* What the flags select is what was asked for, unless they select nothing.
Chosen == flags # {} => flags = asked

\* The last frame: its bytes are in the buffer as far as it is long, and its
\* output was made from the buffer with the flags that still hold.
Latest ==
  /\ pc = "args" => frame = None
  /\ frame # None => /\ frame \in Frames
                     /\ \A c \in Cells : c < frame.n => buffer[c] = frame.bytes[c]
                     /\ shown = PacketETH(buffer, 0)

Inv == Types /\ Chosen /\ Latest

LEMMA InitInv == Init => Inv
<1> SUFFICES ASSUME Init
             PROVE  Inv
  OBVIOUS
<1>1. buffer \in [Cells -> Bytes]
  BY BytesAreNumbers DEF Init
<1>2. shown \in Seq(Lines)
  BY DEF Init
<1> QED BY <1>1, <1>2 DEF Init, Inv, Types, Chosen, Latest

LEMMA SectionsFinite == IsFiniteSet(Sections)
<1> DEFINE s == <<"ARP", "DHCP", "ETH", "ICMP", "ICMP6", "IP4", "IP6", "TCP", "UDP">>
           f == [n \in 1 .. 9 |-> s[n]]
<1>1. /\ f[1] = "ARP" /\ f[2] = "DHCP" /\ f[3] = "ETH" /\ f[4] = "ICMP" /\ f[5] = "ICMP6"
      /\ f[6] = "IP4" /\ f[7] = "IP6" /\ f[8] = "TCP" /\ f[9] = "UDP"
  OBVIOUS
<1>2. \A n \in 1 .. 9 : f[n] \in Sections
  BY <1>1 DEF Sections
<1>3. \A x \in Sections : \E n \in 1 .. 9 : f[n] = x
  BY <1>1 DEF Sections
<1>4. f \in Surjection(1 .. 9, Sections)
  <2>1. f \in [1 .. 9 -> Sections]
    BY <1>2
  <2> HIDE DEF f
  <2> QED BY <1>3, <2>1 DEF Surjection
<1>5. IsFiniteSet(1 .. 9)
  <2>1. \A n \in Nat : IsFiniteSet(1 .. n)
    BY FS_Interval
  <2> QED BY <2>1
<1> QED BY <1>4, <1>5, FS_Surjection

\* The program is started with the options in k words.
LEMMA StartInv ==
  ASSUME Inv, NEW options \in OptionSets, NEW k \in 0 .. Cardinality(options),
         k = 0 <=> options = {},
         StartCrashes(options, k)
           \/ \E words \in BoundedSeq(Interfaces \cup {None}, 2) : Start(options, k, words)
  PROVE  Inv'
<1>1. options \subseteq Sections /\ k \in Nat
  <2>1. options \subseteq Sections
    BY SnifferAssumption
  <2>2. Cardinality(options) \in Nat
    BY <2>1, SectionsFinite, FS_Subset, FS_CardinalityType
  <2> QED BY <2>1, <2>2
<1>2. Asked(options) \subseteq Sections /\ \A argc : ParseArgs(argc, options) \subseteq Sections
  BY <1>1 DEF Asked, ParseArgs
<1>3. CASE StartCrashes(options, k)
  <2>1. ParseArgs(1 + k, options) = options /\ Asked(options) = options
    BY <1>1, <1>3 DEF StartCrashes, ParseArgs, Asked
  <2>2. Latest'
    BY <1>3 DEF Inv, StartCrashes, Latest
  <2> QED BY <1>1, <1>3, <2>1, <2>2 DEF Inv, StartCrashes, Types, Chosen
<1>4. CASE \E words \in BoundedSeq(Interfaces \cup {None}, 2) : Start(options, k, words)
  <2>1. PICK words \in BoundedSeq(Interfaces \cup {None}, 2) : Start(options, k, words)
    BY <1>4
  <2>2. PICK m \in 0 .. 2 : words \in [1 .. m -> Interfaces \cup {None}]
    BY DEF BoundedSeq, SeqOf
  <2>3. Len(words) = m /\ m # 0
    BY <2>1, <2>2 DEF Start
  <2>4. ParseArgs(1 + k + Len(words), options) # {} =>
          ParseArgs(1 + k + Len(words), options) = Asked(options)
    BY <1>1, <2>3 DEF ParseArgs, Asked
  <2>5. /\ pc = "args" /\ pc' = "run" /\ words[1] \in Interfaces /\ name' = words[1]
        /\ asked' = Asked(options) /\ flags' = ParseArgs(1 + k + Len(words), options)
        /\ UNCHANGED <<buffer, frame, shown>>
    BY <2>1 DEF Start
  <2>6. Types'
    BY <1>2, <2>5, SnifferAssumption DEF Inv, Types
  <2>7. Chosen'
    BY <2>4, <2>5 DEF Chosen
  <2>8. Latest'
    BY <2>5 DEF Inv, Latest
  <2> QED BY <2>6, <2>7, <2>8 DEF Inv
<1> QED BY <1>3, <1>4

\* The same flags make the same output of a buffer.
LEMMA SameOutput ==
  ASSUME flags' = flags
  PROVE  PacketETH(buffer, 0)' = PacketETH(buffer', 0)
BY DEF PacketETH, Section, PacketARP, PacketDHCP, PacketIP4, PacketIP6, PacketTCP, PacketUPD,
   PacketICMP, PacketICMP6, Address, Open, End, Line

LEMMA RecvInv ==
  ASSUME Inv, NEW f \in Frames, Recv(f)
  PROVE  Inv'
<1>1. /\ buffer' = Received(f) /\ shown' = PacketETH(buffer', 0) /\ frame' = f
      /\ pc = "run" /\ UNCHANGED <<pc, asked, flags, name>>
  BY DEF Recv
<1>2. f.n \in Nat /\ \A c \in Cells : f.bytes[c] \in Bytes
  BY FramesAssumption, BytesAreNumbers
<1>3. buffer' \in [Cells -> Bytes] /\ \A c \in Cells : c < f.n => buffer'[c] = f.bytes[c]
  BY <1>1, <1>2 DEF Received, Inv, Types
<1>4. PacketETH(buffer, 0)' = PacketETH(buffer', 0)
  BY <1>1, SameOutput
<1>5. shown' = PacketETH(buffer, 0)'
  BY <1>1, <1>4
<1>6. shown' \in Seq(Lines)
  <2>1. buffer' \in [Cells -> Nat]
    BY <1>3, BytesAreNumbers
  <2> HIDE DEF Inv
  <2> QED BY <1>1, <2>1, PacketLines
<1> QED BY <1>1, <1>3, <1>5, <1>6 DEF Inv, Types, Chosen, Latest

LEMMA NextInv ==
  ASSUME Inv, [Next]_vars
  PROVE  Inv'
<1>1. CASE UNCHANGED vars
  BY <1>1, SameOutput DEF vars, Inv, Types, Chosen, Latest
<1>2. CASE StartFails \/ RecvFails
  <2>1. UNCHANGED <<asked, flags, name, buffer, frame, shown>> /\ pc' = "exited"
    BY <1>2 DEF StartFails, RecvFails
  <2> QED BY <2>1, SameOutput DEF Inv, Types, Chosen, Latest
<1>3. CASE \E f \in Frames : Recv(f)
  BY <1>3, RecvInv
<1>4. CASE \E options \in OptionSets : \E k \in 0 .. Cardinality(options) :
             /\ k = 0 <=> options = {}
             /\ \/ StartCrashes(options, k)
                \/ \E words \in BoundedSeq(Interfaces \cup {None}, 2) : Start(options, k, words)
  BY <1>4, StartInv
<1> QED BY <1>1, <1>2, <1>3, <1>4 DEF Next

-----------------------------------------------------------------------------
\* What the program prints of a complete and simple frame.
LEMMA FramePrints ==
  ASSUME Inv, frame # None, Complete(frame), Simple(frame)
  PROVE  /\ Prints(shown, Layers(frame, Given), AddressesIn(buffer))
         /\ buffer \in [Cells -> Nat] /\ frame.n \in Nat /\ Simple(Cast(buffer))
         /\ Inside(Layers(Cast(buffer), Sections), frame.n)
         /\ buffer[12] = frame.bytes[12]
         /\ buffer[12] = ETH_P_ARP => buffer[18] = frame.bytes[18] /\ buffer[19] = frame.bytes[19]
<1>1. /\ frame \in Frames /\ buffer \in [Cells -> Nat] /\ shown = PacketETH(buffer, 0)
      /\ \A c \in Cells : c < frame.n => buffer[c] = frame.bytes[c]
  BY BytesAreNumbers DEF Inv, Types, Latest
<1>2. /\ buffer[12] = frame.bytes[12] /\ Simple(Cast(buffer)) /\ frame.n \in Nat
      /\ \A given : Layers(Cast(buffer), given) = Layers(frame, given)
      /\ Inside(Layers(Cast(buffer), Sections), frame.n)
      /\ buffer[12] = ETH_P_ARP => buffer[18] = frame.bytes[18] /\ buffer[19] = frame.bytes[19]
  BY <1>1, SameHeaders
<1>3. Prints(shown, Layers(Cast(buffer), Given), AddressesIn(buffer))
  BY <1>1, <1>2, EthPrints
<1> QED BY <1>1, <1>2, <1>3

\* PacketDHCP() does not test g_dhcp; that shows only for a header of DHCP that
\* was not asked for.
LEMMA HeardLayers ==
  ASSUME NEW f, Heard(f)
  PROVE  Layers(f, asked \cup {"DHCP"}) = Layers(f, asked)
<1>1. CASE "DHCP" \in asked
  <2>1. asked \cup {"DHCP"} = asked
    BY <1>1
  <2> QED BY <2>1
<1>2. CASE Layers(f, {"DHCP"}) = <<>>
  <2> DEFINE c == f.bytes
             a == 14 + 4 * c[14]
             message == {c[a], c[a + 2]} \subseteq {67, 68}
             all == asked \cup {"DHCP"}
             x == Open("DHCP", a + 8, 28)
             other(given) == IF c[20] = 0 /\ c[23] = 6 THEN Layer(given, "TCP", a, 20)
                             ELSE IF c[20] = 0 /\ c[23] = 1 THEN Layer(given, "ICMP", a, 8)
                             ELSE <<>>
             tail(given) == IF c[12] = ETH_P_ARP THEN Layer(given, "ARP", 14, 8)
                            ELSE IF c[12] = ETH_P_IPV6
                            THEN Layer(given, "IP6", 14, 40) \o
                                   IF c[20] = 58 THEN Layer(given, "ICMP6", 54, 8) ELSE <<>>
                            ELSE <<>>
  <2>1. /\ Layer(all, "ETH", 0, 14) = Layer(asked, "ETH", 0, 14)
        /\ Layer(all, "IP4", 14, 20) = Layer(asked, "IP4", 14, 20)
        /\ Layer(all, "UDP", a, 8) = Layer(asked, "UDP", a, 8)
        /\ other(all) = other(asked) /\ tail(all) = tail(asked)
    BY DEF Layer
  <2>2. /\ Layer({"DHCP"}, "ETH", 0, 14) = <<>> /\ Layer({"DHCP"}, "IP4", 14, 20) = <<>>
        /\ Layer({"DHCP"}, "UDP", a, 8) = <<>> /\ Layer({"DHCP"}, "DHCP", a + 8, 28) = <<x>>
    BY DEF Layer
  <2>3. \A y : <<>> \o (<<>> \o (<<>> \o <<y>>)) # <<>>
    OBVIOUS
  <2>4. /\ ETH_P_IP # ETH_P_ARP /\ ETH_P_IP # ETH_P_IPV6 /\ ETH_P_ARP # ETH_P_IPV6
    BY DEF ETH_P_IP, ETH_P_ARP, ETH_P_IPV6
  <2>7. ASSUME NEW given
        PROVE  Transport(f, given) =
                 IF c[20] = 0 /\ c[23] = 17
                 THEN Layer(given, "UDP", a, 8) \o
                        IF message THEN Layer(given, "DHCP", a + 8, 28) ELSE <<>>
                 ELSE other(given)
    <3>1. CASE c[20] # 0
      BY <3>1 DEF Transport
    <3>2. CASE c[20] = 0 /\ c[23] = 17
      <4>1. c[23] # 6 /\ c[23] # 1
        BY <3>2
      <4>2. CASE message
        BY <3>2, <4>1, <4>2 DEF Transport
      <4>3. CASE ~message
        BY <3>2, <4>1, <4>3 DEF Transport
      <4> QED BY <4>2, <4>3
    <3>3. CASE c[20] = 0 /\ c[23] # 17
      BY <3>3 DEF Transport
    <3> QED BY <3>1, <3>2, <3>3
  <2>8. ASSUME NEW given
        PROVE  Layers(f, given) =
                 Layer(given, "ETH", 0, 14) \o
                   IF c[12] = ETH_P_IP THEN Layer(given, "IP4", 14, 20) \o Transport(f, given)
                   ELSE tail(given)
    <3>1. CASE c[12] = ETH_P_IP
      BY <2>4, <3>1 DEF Layers
    <3>2. CASE c[12] # ETH_P_IP
      BY <2>4, <3>2 DEF Layers
    <3> QED BY <3>1, <3>2
  <2> HIDE DEF c, a, message, all, x, other, tail
  <2>5. ~(c[12] = ETH_P_IP /\ c[20] = 0 /\ c[23] = 17 /\ message)
    <3> SUFFICES ASSUME c[12] = ETH_P_IP, c[20] = 0, c[23] = 17, message PROVE FALSE
      OBVIOUS
    <3>1. Transport(f, {"DHCP"}) = <<>> \o <<x>>
      BY <2>2, <2>7
    <3>2. Layers(f, {"DHCP"}) = <<>> \o (<<>> \o (<<>> \o <<x>>))
      BY <2>2, <2>8, <3>1
    <3> QED BY <1>2, <2>3, <3>2
  <2>6. c[12] = ETH_P_IP => Transport(f, all) = Transport(f, asked)
    BY <2>1, <2>5, <2>7
  <2>9. Layers(f, all) = Layers(f, asked)
    BY <2>1, <2>6, <2>8
  <2> QED BY <2>9 DEF all
<1> QED BY <1>1, <1>2 DEF Heard

LEMMA HeadersAreOwn == Inv => OwnHeaders
<1> SUFFICES ASSUME Inv, frame # None, flags # {}, Complete(frame), Simple(frame), Heard(frame)
             PROVE  Reads(shown, Nest(Layers(frame, asked)))
  BY DEF OwnHeaders
<1>1. Given = asked \cup {"DHCP"}
  BY DEF Given, Inv, Chosen
<1>2. Reads(shown, Nest(Layers(frame, Given)))
  BY FramePrints DEF Prints
<1> QED BY <1>1, <1>2, HeardLayers

LEMMA AddressesAreOwn == Inv => OwnAddresses
<1> SUFFICES ASSUME Inv, frame # None, Complete(frame), Simple(frame)
             PROVE  /\ Addressed(frame) => \A x \in Addresses : Within(x, frame)
                    /\ frame.bytes[12] = ETH_P_ARP =>
                         \A x, y \in {z \in Addresses : z.what \in {"SHA", "SPA", "THA", "TPA"}} :
                           x # y => x.first + x.size <= y.first \/ y.first + y.size <= x.first
  BY DEF OwnAddresses
<1>1. /\ Addresses \subseteq AddressesIn(buffer)
      /\ buffer \in [Cells -> Nat] /\ frame.n \in Nat /\ Simple(Cast(buffer))
      /\ Inside(Layers(Cast(buffer), Sections), frame.n)
      /\ buffer[12] = frame.bytes[12]
      /\ buffer[12] = ETH_P_ARP => buffer[18] = frame.bytes[18] /\ buffer[19] = frame.bytes[19]
  BY FramePrints DEF Prints, AddressesOf, Addresses
<1>2. ASSUME Addressed(frame)
      PROVE  \A x \in Addresses : Within(x, frame)
  <2>1. buffer[12] = ETH_P_ARP => 22 + 2 * (buffer[18] + buffer[19]) <= frame.n
    BY <1>1, <1>2 DEF Addressed
  <2>2. \A x \in AddressesIn(buffer) : x.first + x.size <= frame.n
    BY <1>1, <2>1, AddressesInside
  <2> QED BY <1>1, <2>2 DEF Within
<1>3. ASSUME frame.bytes[12] = ETH_P_ARP,
             NEW x \in Addresses, NEW y \in Addresses, x # y,
             x.what \in {"SHA", "SPA", "THA", "TPA"}, y.what \in {"SHA", "SPA", "THA", "TPA"}
      PROVE  x.first + x.size <= y.first \/ y.first + y.size <= x.first
  <2>1. AddressesIn(buffer) = EthAddresses(0) \cup ArpAddresses(14, buffer[18], buffer[19])
    <3>1. ETH_P_ARP # ETH_P_IP /\ ETH_P_ARP # ETH_P_IPV6
      BY DEF ETH_P_ARP, ETH_P_IP, ETH_P_IPV6
    <3> QED BY <1>1, <1>3, <3>1 DEF AddressesIn
  <2>2. \A z \in EthAddresses(0) : z.what \notin {"SHA", "SPA", "THA", "TPA"}
    <3>1. \A k, size : Address("Src MAC", k, size).what = "Src MAC"
                        /\ Address("Dst MAC", k, size).what = "Dst MAC"
      BY DEF Address, Line
    <3> QED BY <3>1 DEF EthAddresses
  <2>3. x \in ArpAddresses(14, buffer[18], buffer[19]) /\ y \in ArpAddresses(14, buffer[18], buffer[19])
    BY <1>1, <1>3, <2>1, <2>2
  <2>4. buffer[18] \in Nat /\ buffer[19] \in Nat
    BY <1>1 DEF Cells
  <2> QED BY <1>3, <2>3, <2>4, ArpApart
<1> QED BY <1>2, <1>3

\* Types, for any frames and options.
THEOREM TypeCorrect == Spec => []TypeOK
<1>1. Inv => TypeOK
  <2>1. \A x \in Lines : x.first \in Nat /\ x.size \in Nat
    BY DEF Lines
  <2>2. shown \in Seq(Lines) => ToSet(shown) \subseteq Lines
    BY DEF ToSet
  <2> QED BY <2>1, <2>2 DEF Inv, Types, TypeOK
<1> QED BY <1>1, InitInv, NextInv, PTL DEF Spec

\* A frame that is complete, without options of IPv4 and without a header of DHCP
\* that was not asked for shows the nest of its own headers that were asked for,
\* whatever frames were in the buffer before it, if the arguments enable anything.
THEOREM HeadersShown == Spec => []OwnHeaders
BY InitInv, NextInv, HeadersAreOwn, PTL DEF Spec

\* The addresses shown of a complete and simple frame are of its own bytes, and
\* those of an ARP message lie apart, whatever lengths it gives.
THEOREM AddressesShown == Spec => []OwnAddresses
BY InitInv, NextInv, AddressesAreOwn, PTL DEF Spec
=============================================================================
