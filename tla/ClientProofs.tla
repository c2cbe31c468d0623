---------------------------- MODULE ClientProofs ----------------------------
(***************************************************************************)
(* Where requests and tokens go, for every set of clients, hosts, registry *)
(* URLs, tokens, names and answers, and however clients are changed.  What *)
(* a route means rests on what the operators of UrlText compute of texts   *)
(* of any length, which comes first.                                       *)
(***************************************************************************)
EXTENDS ClientPolicy, SequenceTheorems, WellFoundedInduction, TLAPS

-----------------------------------------------------------------------------
(* Induction.                                                               *)

\* Induction, without a predicate: a set of numbers that holds 0 and with each
\* number the next holds every number.
LEMMA Induct ==
    ASSUME NEW S \in SUBSET Nat, 0 \in S, \A n \in S : n + 1 \in S
    PROVE  S = Nat
<1> DEFINE R == OpToRel(<, Nat)
           T == Nat \ S
<1>1. IsWellFoundedOn(R, Nat)
  BY NatLessThanWellFounded
<1>2. \A m, n \in Nat : <<m, n>> \in R <=> m < n
  BY DEF OpToRel
<1> HIDE DEF R
<1> SUFFICES ASSUME T # {} PROVE FALSE
  OBVIOUS
<1>3. T \subseteq Nat /\ \A n \in Nat : n \notin T => n \in S
  OBVIOUS
<1>4. 0 \notin T /\ \A n \in S : n + 1 \notin T
  OBVIOUS
<1> HIDE DEF T
<1>5. PICK x \in T : \A y \in T : <<y, x>> \notin R
  BY <1>1, <1>3, WFMin
<1>6. x \in Nat /\ x # 0
  BY <1>3, <1>4
<1>7. x - 1 \in Nat /\ x - 1 < x /\ (x - 1) + 1 = x
  BY <1>6
<1>8. x - 1 \in S
  BY <1>2, <1>3, <1>5, <1>6, <1>7
<1> QED BY <1>4, <1>5, <1>7, <1>8

\* The same for the sequences over a set, which grow at their end.
LEMMA InductSeq ==
    ASSUME NEW C, NEW P \in SUBSET Seq(C), <<>> \in P,
           \A s \in P, c \in C : Append(s, c) \in P
    PROVE  P = Seq(C)
<1> DEFINE S == {n \in Nat : \A s \in Seq(C) : Len(s) = n => s \in P}
<1>1. 0 \in S
  BY EmptySeq
<1>2. \A n \in S : n + 1 \in S
  <2>1. ASSUME NEW n \in S, NEW s \in Seq(C), Len(s) = n + 1 PROVE s \in P
    <3>1. s # <<>> /\ n \in Nat
      BY <2>1, EmptySeq
    <3>2. PICK t \in Seq(C), c \in C : s = Append(t, c)
      BY <3>1, SequenceEmptyOrAppend
    <3>3. Len(t) = n
      BY <2>1, <3>1, <3>2, AppendProperties, LenProperties
    <3> QED BY <3>2, <3>3
  <2>2. \A n \in S : n + 1 \in Nat
    OBVIOUS
  <2>3. \A n \in S : \A s \in Seq(C) : Len(s) = n + 1 => s \in P
    BY <2>1
  <2> QED BY <2>2, <2>3
<1>3. S = Nat
  <2> HIDE DEF S
  <2>1. S \in SUBSET Nat
    BY DEF S
  <2> QED BY <1>1, <1>2, <2>1, Induct
<1> QED BY <1>3, LenProperties
-----------------------------------------------------------------------------
(* Joining sequences end to end.                                            *)

\* f[i] is the first i of the sequences joined.
Accumulates(f, seqs) ==
    \A i \in 1..Len(seqs) : f[i] = IF i = 1 THEN seqs[i] ELSE f[i - 1] \o seqs[i]

\* The function by which FlattenSeq is defined.
Flattening(seqs) ==
    CHOOSE f : f = [i \in 1..Len(seqs) |-> IF i = 1 THEN seqs[i] ELSE f[i - 1] \o seqs[i]]

LEMMA FlattenIs ==
    ASSUME NEW seqs, Len(seqs) # 0
    PROVE  FlattenSeq(seqs) = Flattening(seqs)[Len(seqs)]
BY DEF FlattenSeq, Flattening

LEMMA AccumulatesExists ==
    ASSUME NEW seqs, Len(seqs) \in Nat
    PROVE  \E f : DOMAIN f = 1..Len(seqs) /\ f = [i \in 1..Len(seqs) |-> f[i]] /\ Accumulates(f, seqs)
<1> DEFINE S == {n \in Nat : n <= Len(seqs) =>
                    \E f : /\ DOMAIN f = 1..n /\ f = [i \in 1..n |-> f[i]]
                           /\ \A i \in 1..n : f[i] = IF i = 1 THEN seqs[i] ELSE f[i - 1] \o seqs[i]}
<1>1. 0 \in S
  <2> DEFINE f == [i \in 1..0 |-> 0]
  <2>1. DOMAIN f = 1..0 /\ f = [i \in 1..0 |-> f[i]] /\ 1..0 = {}
    OBVIOUS
  <2> HIDE DEF f
  <2>2. \E h : /\ DOMAIN h = 1..0 /\ h = [i \in 1..0 |-> h[i]]
               /\ \A i \in 1..0 : h[i] = IF i = 1 THEN seqs[i] ELSE h[i - 1] \o seqs[i]
    BY <2>1
  <2> QED BY <2>2
<1>2. ASSUME NEW n \in S, n + 1 <= Len(seqs)
      PROVE  \E g : /\ DOMAIN g = 1..(n + 1) /\ g = [i \in 1..(n + 1) |-> g[i]]
                    /\ \A i \in 1..(n + 1) : g[i] = IF i = 1 THEN seqs[i] ELSE g[i - 1] \o seqs[i]
  <2>1. n \in Nat /\ n <= Len(seqs)
    BY <1>2
  <2>2. PICK f : /\ DOMAIN f = 1..n /\ f = [i \in 1..n |-> f[i]]
                 /\ \A i \in 1..n : f[i] = IF i = 1 THEN seqs[i] ELSE f[i - 1] \o seqs[i]
    BY <1>2, <2>1
  <2> DEFINE g == [i \in 1..(n + 1) |->
                    IF i <= n THEN f[i] ELSE IF i = 1 THEN seqs[i] ELSE f[i - 1] \o seqs[i]]
  <2>3. /\ DOMAIN g = 1..(n + 1)
        /\ \A i \in 1..(n + 1) : g[i] = IF i <= n THEN f[i]
                                        ELSE IF i = 1 THEN seqs[i] ELSE f[i - 1] \o seqs[i]
    OBVIOUS
  <2>4. g = [i \in 1..(n + 1) |-> g[i]]
    BY <2>3
  <2> HIDE DEF g
  <2>5. ASSUME NEW i \in 1..(n + 1)
        PROVE  g[i] = IF i = 1 THEN seqs[i] ELSE g[i - 1] \o seqs[i]
    <3>1. i - 1 <= n /\ (i # 1 => i - 1 \in 1..(n + 1))
      BY <2>1
    <3>2. i # 1 => g[i - 1] = f[i - 1]
      BY <2>3, <3>1
    <3>3. CASE i <= n
      <4>0. i \in 1..n
        BY <2>1, <3>3
      <4>1. i \in 1..n /\ g[i] = f[i]
        BY <2>3, <3>3, <4>0
      <4>2. f[i] = IF i = 1 THEN seqs[i] ELSE f[i - 1] \o seqs[i]
        BY <2>2, <4>1
      <4> QED BY <3>2, <4>1, <4>2
    <3>4. CASE ~ (i <= n)
      <4>1. g[i] = IF i = 1 THEN seqs[i] ELSE f[i - 1] \o seqs[i]
        BY <2>3, <3>4
      <4> QED BY <3>2, <4>1
    <3> QED BY <3>3, <3>4
  <2> QED BY <2>3, <2>4, <2>5
<1>3. \A n \in S : n + 1 \in S
  BY <1>2
<1>4. Len(seqs) \in S
  <2>1. S \in SUBSET Nat
    OBVIOUS
  <2> HIDE DEF S
  <2> QED BY <1>1, <1>3, <2>1, Induct
<1> QED BY <1>4 DEF Accumulates

LEMMA FlatteningAccumulates ==
    ASSUME NEW seqs, Len(seqs) \in Nat
    PROVE  Accumulates(Flattening(seqs), seqs)
<1>1. PICK f : DOMAIN f = 1..Len(seqs) /\ f = [i \in 1..Len(seqs) |-> f[i]] /\ Accumulates(f, seqs)
  BY AccumulatesExists
<1>2. f = [i \in 1..Len(seqs) |-> IF i = 1 THEN seqs[i] ELSE f[i - 1] \o seqs[i]]
  BY <1>1 DEF Accumulates
<1> DEFINE J == Flattening(seqs)
<1>3. J = [i \in 1..Len(seqs) |-> IF i = 1 THEN seqs[i] ELSE J[i - 1] \o seqs[i]]
  BY <1>2 DEF Flattening
<1> HIDE DEF J
<1>4. Accumulates(J, seqs)
  BY <1>3 DEF Accumulates
<1> QED BY <1>4 DEF J

LEMMA AccumulatesType ==
    ASSUME NEW C, NEW seqs \in Seq(Seq(C)), NEW f, Accumulates(f, seqs)
    PROVE  \A i \in 1..Len(seqs) : f[i] \in Seq(C)
<1> DEFINE S == {n \in Nat : n \in 1..Len(seqs) => f[n] \in Seq(C)}
<1>1. 0 \in S
  OBVIOUS
<1>2. ASSUME NEW n \in S, n + 1 \in 1..Len(seqs) PROVE f[n + 1] \in Seq(C)
  <2>1. seqs[n + 1] \in Seq(C)
    BY <1>2, ElementOfSeq
  <2>2. f[n + 1] = IF n + 1 = 1 THEN seqs[n + 1] ELSE f[n + 1 - 1] \o seqs[n + 1]
    BY <1>2 DEF Accumulates
  <2>3. CASE n = 0
    BY <2>1, <2>2, <2>3
  <2>4. CASE n # 0
    <3>1. n \in 1..Len(seqs) /\ n + 1 - 1 = n /\ n + 1 # 1
      BY <1>2, <2>4, LenProperties
    <3>2. f[n] \in Seq(C)
      BY <3>1
    <3> QED BY <2>1, <2>2, <3>1, <3>2, ConcatProperties
  <2> QED BY <2>3, <2>4
<1>3. \A n \in S : n + 1 \in S
  <2>1. \A n \in S : n + 1 \in 1..Len(seqs) => f[n + 1] \in Seq(C)
    BY <1>2
  <2>2. \A n \in S : n + 1 \in Nat
    OBVIOUS
  <2> QED BY <2>1, <2>2
<1>4. S = Nat
  <2>1. S \in SUBSET Nat
    OBVIOUS
  <2> HIDE DEF S
  <2> QED BY <1>1, <1>3, <2>1, Induct
<1> QED
  <2>1. 1..Len(seqs) \subseteq Nat
    BY LenProperties
  <2> QED BY <1>4, <2>1

LEMMA AccumulatesAgree ==
    ASSUME NEW s, NEW t, NEW m \in Nat, Len(s) \in Nat, Len(t) \in Nat, m <= Len(s), m <= Len(t),
           \A i \in 1..m : s[i] = t[i],
           NEW f, NEW g, Accumulates(f, s), Accumulates(g, t)
    PROVE  \A i \in 1..m : f[i] = g[i]
<1> DEFINE S == {n \in Nat : n \in 1..m => f[n] = g[n]}
<1>1. 0 \in S
  OBVIOUS
<1>2. ASSUME NEW n \in S, n + 1 \in 1..m PROVE f[n + 1] = g[n + 1]
  <2>1. /\ n + 1 \in 1..Len(s) /\ n + 1 \in 1..Len(t) /\ n + 1 - 1 = n
        /\ n # 0 => n \in 1..m
    BY <1>2
  <2>2. /\ f[n + 1] = IF n + 1 = 1 THEN s[n + 1] ELSE f[n] \o s[n + 1]
        /\ g[n + 1] = IF n + 1 = 1 THEN t[n + 1] ELSE g[n] \o t[n + 1]
    BY <2>1 DEF Accumulates
  <2>3. s[n + 1] = t[n + 1]
    BY <1>2
  <2>4. n # 0 => f[n] = g[n]
    BY <2>1
  <2>5. n = 0 => n + 1 = 1
    OBVIOUS
  <2>6. n # 0 => n + 1 # 1
    OBVIOUS
  <2> QED BY <2>2, <2>3, <2>4, <2>5, <2>6
<1>3. \A n \in S : n + 1 \in S
  BY <1>2
<1>4. S = Nat
  <2>1. S \in SUBSET Nat
    OBVIOUS
  <2> HIDE DEF S
  <2> QED BY <1>1, <1>3, <2>1, Induct
<1> QED BY <1>4

\* What FlattenSeq does with one more sequence.
LEMMA FlattenAppend ==
    ASSUME NEW C, NEW seqs \in Seq(Seq(C)), NEW x \in Seq(C)
    PROVE  /\ FlattenSeq(seqs) \in Seq(C)
           /\ FlattenSeq(Append(seqs, x)) = FlattenSeq(seqs) \o x
<1> DEFINE more == Append(seqs, x)
           n == Len(seqs)
<1>1. /\ more \in Seq(Seq(C)) /\ Len(more) = n + 1 /\ n \in Nat
      /\ \A i \in 1..n : more[i] = seqs[i]
      /\ more[n + 1] = x
  BY AppendProperties, LenProperties
<1>2. Accumulates(Flattening(more), more) /\ Accumulates(Flattening(seqs), seqs)
  BY <1>1, FlatteningAccumulates
<1>3. FlattenSeq(more) = Flattening(more)[n + 1]
  <2>1. Len(more) # 0
    BY <1>1
  <2> HIDE DEF more
  <2> QED BY <1>1, <2>1, FlattenIs
<1> HIDE DEF more
<1>4. Flattening(more)[n + 1] = IF n + 1 = 1 THEN x ELSE Flattening(more)[n] \o x
  BY <1>1, <1>2 DEF Accumulates
<1>5. CASE n = 0
  <2>1. seqs = <<>> /\ FlattenSeq(seqs) = <<>>
    BY <1>5, EmptySeq DEF FlattenSeq
  <2>2. FlattenSeq(more) = x
    BY <1>3, <1>4, <1>5
  <2> QED BY <2>1, <2>2, EmptySeq, ConcatEmptySeq DEF more
<1>6. CASE n # 0
  <2>1. n + 1 # 1 /\ n \in 1..n
    BY <1>1, <1>6
  <2>2. FlattenSeq(seqs) = Flattening(seqs)[n]
    BY <1>6, FlattenIs
  <2>3. \A i \in 1..n : Flattening(more)[i] = Flattening(seqs)[i]
    <3>1. n <= Len(more) /\ n <= Len(seqs) /\ Len(more) \in Nat /\ Len(seqs) \in Nat
          /\ n \in Nat /\ \A i \in 1..n : more[i] = seqs[i]
      BY <1>1
    <3> HIDE DEF n
    <3> QED BY <1>2, <3>1, AccumulatesAgree
  <2>4. Flattening(seqs)[n] \in Seq(C)
    BY <1>2, <2>1, AccumulatesType
  <2>5. FlattenSeq(more) = FlattenSeq(seqs) \o x
    BY <1>3, <1>4, <2>1, <2>2, <2>3
  <2> QED BY <2>2, <2>4, <2>5 DEF more
<1> QED BY <1>5, <1>6

LEMMA FlattenEmpty == FlattenSeq(<<>>) = <<>>
BY DEF FlattenSeq

\* Mapping one element more.
LEMMA MapAppend ==
    ASSUME NEW C, NEW T, NEW t \in Seq(C), NEW c \in C, NEW m, NEW more, NEW last \in T,
           DOMAIN m = DOMAIN t, m \in Seq(T),
           DOMAIN more = DOMAIN Append(t, c), more = [i \in DOMAIN more |-> more[i]],
           \A i \in DOMAIN t : more[i] = m[i],
           more[Len(t) + 1] = last
    PROVE  more = Append(m, last)
<1>1. /\ Len(t) \in Nat /\ DOMAIN t = 1..Len(t) /\ DOMAIN Append(t, c) = 1..(Len(t) + 1)
  BY AppendProperties, LenProperties
<1>2. Len(m) = Len(t)
  BY <1>1, LenProperties
<1>3. /\ Append(m, last) \in Seq(T) /\ Len(Append(m, last)) = Len(t) + 1
      /\ \A i \in 1..Len(t) : Append(m, last)[i] = m[i]
      /\ Append(m, last)[Len(t) + 1] = last
  BY <1>2, AppendProperties
<1>4. DOMAIN Append(m, last) = 1..(Len(t) + 1)
  BY <1>3, LenProperties
<1>5. \A i \in 1..(Len(t) + 1) : i \in 1..Len(t) \/ i = Len(t) + 1
  BY <1>1
<1>6. \A i \in 1..(Len(t) + 1) : Append(m, last)[i] = more[i]
  BY <1>1, <1>3, <1>5
<1>7. Append(m, last) = [i \in 1..(Len(t) + 1) |-> Append(m, last)[i]]
  BY <1>3, <1>4, LenProperties
<1> QED BY <1>1, <1>6, <1>7

-----------------------------------------------------------------------------
(* Quoting, and reading what is quoted.                                     *)

Shown(c) == IF c \in Escaped THEN <<"%", Code[c]>> ELSE <<c>>

\* Characters in which every text can be quoted.
Alphabet(C) == "/" \in C /\ DOMAIN Code \subseteq C /\ Range(Code) \subseteq C

LEMMA CodeFacts ==
    /\ DOMAIN Code = {"/", "\\", "%", ".", " ", "control", "long"}
    /\ Escaped \subseteq DOMAIN Code /\ "%" \in Escaped /\ "/" \in Escaped
    /\ \A c \in DOMAIN Code : Code[c] \in Range(Code)
    /\ \A c, d \in DOMAIN Code : Code[c] = Code[d] => c = d
    /\ "%" \notin Range(Code) /\ "/" \notin Range(Code)
<1>1. \A c \in DOMAIN Code : Code[c] \in Range(Code)
  BY DEF Range
<1>2. /\ DOMAIN Code = {"/", "\\", "%", ".", " ", "control", "long"}
      /\ Code["/"] = "2F" /\ Code["\\"] = "5C" /\ Code["%"] = "25" /\ Code["."] = "2E"
      /\ Code[" "] = "20" /\ Code["control"] = "0A" /\ Code["long"] = "E2"
  BY DEF Code
<1>3. Range(Code) = {"2F", "5C", "25", "2E", "20", "0A", "E2"}
  BY <1>2 DEF Range
<1>4. \A c, d \in DOMAIN Code : Code[c] = Code[d] => c = d
  BY <1>2
<1> QED BY <1>1, <1>2, <1>3, <1>4 DEF Escaped

LEMMA CodedCode == ASSUME NEW c \in DOMAIN Code PROVE Coded(Code[c]) = c
BY CodeFacts DEF Coded

LEMMA ShownType == ASSUME NEW C, Alphabet(C), NEW c \in C PROVE Shown(c) \in Seq(C)
<1>1. CASE c \in Escaped
  <2>1. "%" \in C /\ Code[c] \in C
    BY <1>1, CodeFacts DEF Alphabet
  <2>2. \A x, y \in C : <<x, y>> \in Seq(C)
    OBVIOUS
  <2> QED BY <1>1, <2>1, <2>2 DEF Shown
<1>2. CASE c \notin Escaped
  BY <1>2 DEF Shown
<1> QED BY <1>1, <1>2

LEMMA QuoteAppend ==
    ASSUME NEW C, Alphabet(C), NEW t \in Seq(C)
    PROVE  /\ Quote(t) \in Seq(C)
           /\ \A c \in C : Quote(Append(t, c)) = Quote(t) \o Shown(c)
<1> DEFINE M(s) == [i \in DOMAIN s |-> Shown(s[i])]
<1>1. \A s : Quote(s) = FlattenSeq(M(s))
  BY DEF Quote, Shown
<1>2. \A s \in Seq(C) : M(s) \in Seq(Seq(C))
  <2> TAKE s \in Seq(C)
  <2>1. Len(s) \in Nat /\ DOMAIN s = 1..Len(s) /\ \A i \in 1..Len(s) : Shown(s[i]) \in Seq(C)
    BY LenProperties, ElementOfSeq, ShownType
  <2> HIDE DEF Alphabet
  <2> QED BY <2>1, SeqDef
<1>3. \A c \in C : M(Append(t, c)) = Append(M(t), Shown(c))
  <2> TAKE c \in C
  <2>1. /\ Len(t) \in Nat /\ DOMAIN t = 1..Len(t) /\ DOMAIN Append(t, c) = 1..(Len(t) + 1)
        /\ \A i \in 1..Len(t) : Append(t, c)[i] = t[i]
        /\ Append(t, c)[Len(t) + 1] = c
    BY AppendProperties, LenProperties
  <2>2. /\ DOMAIN M(t) = DOMAIN t /\ DOMAIN M(Append(t, c)) = DOMAIN Append(t, c)
        /\ M(Append(t, c)) = [i \in DOMAIN M(Append(t, c)) |-> M(Append(t, c))[i]]
    OBVIOUS
  <2>3. /\ \A i \in DOMAIN t : M(Append(t, c))[i] = M(t)[i]
        /\ M(Append(t, c))[Len(t) + 1] = Shown(c)
    BY <2>1
  <2>4. M(t) \in Seq(Seq(C)) /\ Shown(c) \in Seq(C)
    BY <1>2, ShownType
  <2> HIDE DEF M
  <2> QED BY <2>2, <2>3, <2>4, MapAppend
<1>4. M(t) \in Seq(Seq(C))
  BY <1>2
<1> HIDE DEF M
<1>5. FlattenSeq(M(t)) \in Seq(C) /\ \A x \in Seq(C) : FlattenSeq(Append(M(t), x)) = FlattenSeq(M(t)) \o x
  <2>1. <<>> \in Seq(C)
    BY EmptySeq
  <2> QED BY <1>4, <2>1, FlattenAppend
<1> QED BY <1>1, <1>3, <1>5, ShownType

LEMMA QuoteEmpty == Quote(<<>>) = <<>>
<1>1. [i \in DOMAIN <<>> |-> Shown(<<>>[i])] = <<>>
  OBVIOUS
<1>2. Quote(<<>>) = FlattenSeq([i \in DOMAIN <<>> |-> Shown(<<>>[i])])
  BY DEF Quote, Shown
<1> QED BY <1>1, <1>2, FlattenEmpty

LEMMA JointAppend ==
    ASSUME NEW C, "/" \in C, NEW p \in Seq(Seq(C))
    PROVE  /\ Joint(p) \in Seq(C)
           /\ \A x \in Seq(C) : Joint(Append(p, x)) = Joint(p) \o (<<"/">> \o x)
<1> DEFINE M(s) == [i \in DOMAIN s |-> <<"/">> \o s[i]]
<1>1. \A s : Joint(s) = FlattenSeq(M(s))
  BY DEF Joint
<1>2. \A x \in Seq(C) : <<"/">> \o x \in Seq(C)
  BY ConcatProperties
<1>3. M(p) \in Seq(Seq(C))
  <2>1. Len(p) \in Nat /\ DOMAIN p = 1..Len(p) /\ \A i \in 1..Len(p) : <<"/">> \o p[i] \in Seq(C)
    BY <1>2, LenProperties, ElementOfSeq
  <2> QED BY <2>1, SeqDef
<1>4. \A x \in Seq(C) : M(Append(p, x)) = Append(M(p), <<"/">> \o x)
  <2> TAKE x \in Seq(C)
  <2>1. /\ Len(p) \in Nat /\ DOMAIN p = 1..Len(p) /\ DOMAIN Append(p, x) = 1..(Len(p) + 1)
        /\ \A i \in 1..Len(p) : Append(p, x)[i] = p[i]
        /\ Append(p, x)[Len(p) + 1] = x
    BY AppendProperties, LenProperties
  <2>2. /\ DOMAIN M(p) = DOMAIN p /\ DOMAIN M(Append(p, x)) = DOMAIN Append(p, x)
        /\ M(Append(p, x)) = [i \in DOMAIN M(Append(p, x)) |-> M(Append(p, x))[i]]
    OBVIOUS
  <2>3. /\ \A i \in DOMAIN p : M(Append(p, x))[i] = M(p)[i]
        /\ M(Append(p, x))[Len(p) + 1] = <<"/">> \o x
    BY <2>1
  <2>4. M(p) \in Seq(Seq(C)) /\ <<"/">> \o x \in Seq(C)
    BY <1>2, <1>3
  <2> HIDE DEF M
  <2> QED BY <2>2, <2>3, <2>4, MapAppend
<1> HIDE DEF M
<1>5. FlattenSeq(M(p)) \in Seq(C)
      /\ \A x \in Seq(C) : FlattenSeq(Append(M(p), x)) = FlattenSeq(M(p)) \o x
  <2>1. <<>> \in Seq(C)
    BY EmptySeq
  <2> QED BY <1>3, <2>1, FlattenAppend
<1> QED BY <1>1, <1>2, <1>4, <1>5

LEMMA JointEmpty == Joint(<<>>) = <<>>
<1>1. [i \in DOMAIN <<>> |-> <<"/">> \o <<>>[i]] = <<>>
  OBVIOUS
<1> QED BY <1>1, FlattenEmpty DEF Joint
-----------------------------------------------------------------------------
(* Splitting what was joined.                                               *)

More(segments, c) ==
    IF c = "/" THEN Append(segments, <<>>)
    ELSE [segments EXCEPT ![Len(segments)] = Append(@, c)]

\* f[n] is what the first n characters are split into.
Reads(f, text) ==
    /\ f[0] = <<<<>>>>
    /\ \A i \in 1..Len(text) : f[i] = More(f[i - 1], text[i])

Splitting(text) ==
    CHOOSE f : f = [n \in 0..Len(text) |->
                    IF n = 0 THEN <<<<>>>> ELSE More(f[n - 1], text[n])]

LEMMA SplitIs == ASSUME NEW text PROVE Split(text) = Splitting(text)[Len(text)]
BY DEF Split, Splitting, More

LEMMA ReadsExists ==
    ASSUME NEW text, Len(text) \in Nat
    PROVE  \E f : /\ f = [n \in 0..Len(text) |-> f[n]]
                  /\ Reads(f, text)
<1> DEFINE S == {n \in Nat : n <= Len(text) =>
                    \E f : /\ f = [i \in 0..n |-> f[i]] /\ f[0] = <<<<>>>>
                           /\ \A i \in 1..n : f[i] = More(f[i - 1], text[i])}
<1>1. 0 \in S
  <2> DEFINE f == [i \in 0..0 |-> <<<<>>>>]
  <2>1. f = [i \in 0..0 |-> f[i]] /\ f[0] = <<<<>>>> /\ 1..0 = {}
    OBVIOUS
  <2> HIDE DEF f
  <2>2. \E h : /\ h = [i \in 0..0 |-> h[i]] /\ h[0] = <<<<>>>>
               /\ \A i \in 1..0 : h[i] = More(h[i - 1], text[i])
    BY <2>1
  <2> QED BY <2>2
<1>2. ASSUME NEW n \in S, n + 1 <= Len(text)
      PROVE  \E g : /\ g = [i \in 0..(n + 1) |-> g[i]] /\ g[0] = <<<<>>>>
                    /\ \A i \in 1..(n + 1) : g[i] = More(g[i - 1], text[i])
  <2>1. n \in Nat /\ n <= Len(text)
    BY <1>2
  <2>2. PICK f : /\ f = [i \in 0..n |-> f[i]] /\ f[0] = <<<<>>>>
                 /\ \A i \in 1..n : f[i] = More(f[i - 1], text[i])
    BY <1>2, <2>1
  <2> DEFINE g == [i \in 0..(n + 1) |-> IF i <= n THEN f[i] ELSE More(f[i - 1], text[i])]
  <2>3. \A i \in 0..(n + 1) : g[i] = IF i <= n THEN f[i] ELSE More(f[i - 1], text[i])
    OBVIOUS
  <2>4. g = [i \in 0..(n + 1) |-> g[i]]
    BY <2>3
  <2> HIDE DEF g
  <2>5. g[0] = <<<<>>>>
    <3>1. 0 \in 0..(n + 1) /\ 0 <= n
      BY <2>1
    <3>2. g[0] = f[0]
      BY <2>3, <3>1
    <3> QED BY <2>2, <3>2
  <2>6. ASSUME NEW i \in 1..(n + 1) PROVE g[i] = More(g[i - 1], text[i])
    <3>1. i \in 0..(n + 1) /\ i - 1 \in 0..(n + 1) /\ i - 1 <= n /\ (i <= n => i \in 1..n)
      BY <2>1
    <3>2. g[i - 1] = f[i - 1]
      BY <2>3, <3>1
    <3>3. CASE i <= n
      <4>1. g[i] = f[i]
        BY <2>3, <3>1, <3>3
      <4>2. f[i] = More(f[i - 1], text[i])
        BY <2>2, <3>1, <3>3
      <4> QED BY <3>2, <4>1, <4>2
    <3>4. CASE ~ (i <= n)
      BY <2>3, <3>1, <3>2, <3>4
    <3> QED BY <3>3, <3>4
  <2> QED BY <2>4, <2>5, <2>6
<1>3. \A n \in S : n + 1 \in S
  <2>1. \A n \in S : n + 1 \in Nat
    OBVIOUS
  <2> QED BY <1>2, <2>1
<1>4. Len(text) \in S
  <2>1. S \in SUBSET Nat
    OBVIOUS
  <2> HIDE DEF S
  <2> QED BY <1>1, <1>3, <2>1, Induct
<1> QED BY <1>4 DEF Reads

LEMMA SplittingReads ==
    ASSUME NEW text, Len(text) \in Nat
    PROVE  Reads(Splitting(text), text)
<1>1. PICK f : f = [n \in 0..Len(text) |-> f[n]] /\ Reads(f, text)
  BY ReadsExists
<1>2. f = [n \in 0..Len(text) |-> IF n = 0 THEN <<<<>>>> ELSE More(f[n - 1], text[n])]
  BY <1>1 DEF Reads
<1> DEFINE J == Splitting(text)
<1>3. J = [n \in 0..Len(text) |-> IF n = 0 THEN <<<<>>>> ELSE More(J[n - 1], text[n])]
  BY <1>2 DEF Splitting
<1> HIDE DEF J
<1>4. Reads(J, text)
  BY <1>3 DEF Reads
<1> QED BY <1>4 DEF J

LEMMA ReadsAgree ==
    ASSUME NEW s, NEW t, NEW m \in Nat, Len(s) \in Nat, Len(t) \in Nat, m <= Len(s), m <= Len(t),
           \A i \in 1..m : s[i] = t[i],
           NEW f, NEW g, Reads(f, s), Reads(g, t)
    PROVE  f[m] = g[m]
<1> DEFINE S == {n \in Nat : n <= m => f[n] = g[n]}
<1>1. 0 \in S
  BY DEF Reads
<1>2. ASSUME NEW n \in S, n + 1 <= m PROVE f[n + 1] = g[n + 1]
  <2>1. /\ n + 1 \in 1..Len(s) /\ n + 1 \in 1..Len(t) /\ n + 1 - 1 = n /\ n + 1 \in 1..m
        /\ f[n] = g[n]
    BY <1>2
  <2>2. f[n + 1] = More(f[n], s[n + 1]) /\ g[n + 1] = More(g[n], t[n + 1])
    BY <2>1 DEF Reads
  <2> QED BY <2>1, <2>2
<1>3. \A n \in S : n + 1 \in S
  <2>1. \A n \in S : n + 1 \in Nat
    OBVIOUS
  <2> QED BY <1>2, <2>1
<1>4. m \in S
  <2>1. S \in SUBSET Nat
    OBVIOUS
  <2> HIDE DEF S
  <2> QED BY <1>1, <1>3, <2>1, Induct
<1> QED BY <1>4

\* What Split does with one more character.
LEMMA SplitAppend ==
    ASSUME NEW C, NEW t \in Seq(C), NEW c \in C
    PROVE  Split(Append(t, c)) = More(Split(t), c)
<1> DEFINE more == Append(t, c)
           n == Len(t)
<1>1. /\ Len(more) = n + 1 /\ n \in Nat /\ Len(t) = n
      /\ \A i \in 1..n : more[i] = t[i]
      /\ more[n + 1] = c
  BY AppendProperties, LenProperties
<1> HIDE DEF more, n
<1>2. Reads(Splitting(more), more) /\ Reads(Splitting(t), t)
  BY <1>1, SplittingReads
<1>3. Split(more) = Splitting(more)[n + 1] /\ Split(t) = Splitting(t)[n]
  BY <1>1, SplitIs
<1>4. Splitting(more)[n + 1] = More(Splitting(more)[n], c)
  BY <1>1, <1>2 DEF Reads
<1>5. Splitting(more)[n] = Splitting(t)[n]
  <2>1. n <= Len(more) /\ n <= Len(t) /\ Len(more) \in Nat /\ Len(t) \in Nat
    BY <1>1
  <2>2. \A i \in 1..n : more[i] = t[i]
    BY <1>1
  <2>3. n \in Nat
    BY <1>1
  <2>4. \A f, g : Reads(f, more) /\ Reads(g, t) => f[n] = g[n]
    BY <2>1, <2>2, <2>3, ReadsAgree
  <2> QED BY <1>2, <2>4
<1> QED BY <1>3, <1>4, <1>5 DEF more

LEMMA SplitEmpty == Split(<<>>) = <<<<>>>>
<1>1. Len(<<>>) = 0
  OBVIOUS
<1>2. Reads(Splitting(<<>>), <<>>)
  BY <1>1, SplittingReads
<1> QED BY <1>1, <1>2, SplitIs DEF Reads

LEMMA ConcatAppend ==
    ASSUME NEW C, NEW s \in Seq(C), NEW t \in Seq(C), NEW c \in C
    PROVE  s \o Append(t, c) = Append(s \o t, c)
<1>1. /\ Append(t, c) = t \o <<c>> /\ s \o t \in Seq(C) /\ <<c>> \in Seq(C)
      /\ Append(s \o t, c) = (s \o t) \o <<c>>
  BY ConcatProperties, AppendIsConcat
<1> QED BY <1>1, ConcatAssociative

\* A character that is no separator extends the last segment.
LEMMA MoreLetter ==
    ASSUME NEW C, NEW q \in Seq(Seq(C)), NEW r \in Seq(C), NEW c \in C, c # "/"
    PROVE  More(Append(q, r), c) = Append(q, Append(r, c))
<1> DEFINE a == Append(q, r)
           b == Append(q, Append(r, c))
<1>1. /\ Append(r, c) \in Seq(C) /\ Len(q) \in Nat
      /\ a \in Seq(Seq(C)) /\ b \in Seq(Seq(C)) /\ Len(a) = Len(q) + 1 /\ Len(b) = Len(q) + 1
      /\ \A i \in 1..Len(q) : a[i] = q[i] /\ b[i] = q[i]
      /\ a[Len(q) + 1] = r /\ b[Len(q) + 1] = Append(r, c)
  BY AppendProperties, LenProperties
<1> HIDE DEF a, b
<1> DEFINE e == [a EXCEPT ![Len(q) + 1] = Append(r, c)]
<1>2. Len(q) + 1 \in 1..Len(a)
  BY <1>1
<1>3. /\ e \in Seq(Seq(C)) /\ Len(e) = Len(a)
      /\ \A j \in 1..Len(a) : e[j] = IF j = Len(q) + 1 THEN Append(r, c) ELSE a[j]
  BY <1>1, <1>2, ExceptSeq
<1>4. More(a, c) = e
  BY <1>1 DEF More
<1> HIDE DEF e
<1>5. \A j \in 1..Len(e) : e[j] = b[j]
  <2>1. \A j \in 1..Len(e) : j = Len(q) + 1 \/ j \in 1..Len(q)
    BY <1>1, <1>3
  <2> QED BY <1>1, <1>3, <2>1
<1>6. e = b
  <2>1. e \in Seq(Seq(C)) /\ b \in Seq(Seq(C)) /\ Len(e) = Len(b)
    BY <1>1, <1>3
  <2>2. \A u, v \in Seq(Seq(C)) :
            Len(u) = Len(v) /\ (\A j \in 1..Len(u) : u[j] = v[j]) => u = v
    BY SeqEqual
  <2> QED BY <1>5, <2>1, <2>2
<1> QED BY <1>4, <1>6 DEF a, b

LEMMA SplitConcat ==
    ASSUME NEW C, NEW q \in Seq(Seq(C)), NEW r \in Seq(C), NEW t \in Seq(C),
           Split(t) = Append(q, r), NEW s \in Seq(C \ {"/"})
    PROVE  Split(t \o s) = Append(q, r \o s)
<1> DEFINE D == C \ {"/"}
           P == {x \in Seq(D) : Split(t \o x) = Append(q, r \o x)}
<1>1. <<>> \in P
  <2>1. <<>> \in Seq(D) /\ t \o <<>> = t /\ r \o <<>> = r
    BY EmptySeq, ConcatEmptySeq
  <2> QED BY <2>1
<1>2. ASSUME NEW x \in P, NEW c \in D PROVE Append(x, c) \in P
  <2>1. x \in Seq(D) /\ x \in Seq(C) /\ c \in C /\ c # "/" /\ Split(t \o x) = Append(q, r \o x)
    BY SeqMonotonic
  <2>2. Append(x, c) \in Seq(D)
    BY <2>1, AppendProperties
  <2>3. /\ t \o Append(x, c) = Append(t \o x, c)
        /\ r \o Append(x, c) = Append(r \o x, c)
        /\ t \o x \in Seq(C) /\ r \o x \in Seq(C)
    <3> HIDE DEF P, D
    <3>1. \A y \in Seq(C) : y \o Append(x, c) = Append(y \o x, c)
      BY <2>1, ConcatAppend
    <3>2. t \o x \in Seq(C) /\ r \o x \in Seq(C)
      BY <2>1, ConcatProperties
    <3> QED BY <3>1, <3>2
  <2>4. Split(t \o Append(x, c)) = More(Append(q, r \o x), c)
    BY <2>1, <2>3, SplitAppend
  <2>5. More(Append(q, r \o x), c) = Append(q, r \o Append(x, c))
    <3> HIDE DEF P, D
    <3>1. \A y \in Seq(C) : More(Append(q, y), c) = Append(q, Append(y, c))
      BY <2>1, MoreLetter
    <3> QED BY <2>3, <3>1
  <2> QED BY <2>2, <2>4, <2>5
<1>3. P = Seq(D)
  <2>1. P \in SUBSET Seq(D)
    OBVIOUS
  <2> HIDE DEF P, D
  <2> QED BY <1>1, <1>2, <2>1, InductSeq
<1> QED BY <1>3

\* The segments of a path are read as they were joined.
LEMMA SplitJoint ==
    ASSUME NEW C, "/" \in C, NEW p \in Seq(Seq(C \ {"/"}))
    PROVE  Tail(Split(Joint(p))) = p
<1> DEFINE D == C \ {"/"}
           U == Seq(D)
           P == {x \in Seq(U) : Split(Joint(x)) = <<<<>>>> \o x}
<1>0. U \subseteq Seq(C)
  BY SeqMonotonic
<1>1. <<>> \in P
  <2>1. <<>> \in Seq(U) /\ <<<<>>>> \o <<>> = <<<<>>>>
    BY EmptySeq
  <2> QED BY <2>1, JointEmpty, SplitEmpty
<1>2. ASSUME NEW x \in P, NEW s \in U PROVE Append(x, s) \in P
  <2>1. x \in Seq(U) /\ x \in Seq(Seq(C)) /\ s \in Seq(C) /\ Split(Joint(x)) = <<<<>>>> \o x
    BY <1>0, SeqMonotonic
  <2>2. Append(x, s) \in Seq(U)
    BY <2>1, AppendProperties
  <2>3. /\ Joint(x) \in Seq(C) /\ <<"/">> \in Seq(C)
        /\ Joint(Append(x, s)) = Joint(x) \o (<<"/">> \o s)
    BY <2>1, JointAppend
  <2>4. /\ Joint(Append(x, s)) = Append(Joint(x), "/") \o s
        /\ Append(Joint(x), "/") \in Seq(C)
    BY <2>1, <2>3, ConcatAssociative, AppendIsConcat, AppendProperties
  <2> DEFINE q == <<<<>>>> \o x
  <2>5. <<<<>>>> \in Seq(Seq(C)) /\ <<>> \in Seq(C) /\ q \in Seq(Seq(C))
    BY <2>1, EmptySeq, ConcatProperties
  <2>6. Split(Append(Joint(x), "/")) = Append(q, <<>>)
    BY <2>1, <2>3, SplitAppend DEF More
  <2> HIDE DEF q
  <2>7. Split(Append(Joint(x), "/") \o s) = Append(q, <<>> \o s)
    BY <2>4, <2>5, <2>6, SplitConcat
  <2>8. <<>> \o s = s
    BY <2>1, ConcatEmptySeq
  <2>9. Append(q, s) = <<<<>>>> \o Append(x, s)
    BY <2>1, <2>5, ConcatAppend DEF q
  <2> QED BY <2>2, <2>4, <2>7, <2>8, <2>9
<1>3. P = Seq(U)
  <2>1. P \in SUBSET Seq(U)
    OBVIOUS
  <2> HIDE DEF P, U
  <2> QED BY <1>1, <1>2, <2>1, InductSeq
<1>4. Split(Joint(p)) = <<<<>>>> \o p
  BY <1>3
<1>5. p \in Seq(Seq(C))
  BY <1>0, SeqMonotonic
<1> QED BY <1>4, <1>5
-----------------------------------------------------------------------------
(* Reading what was quoted.                                                 *)

Escape(s, i) == s[i] = "%" /\ s[i + 1] \in Range(Code)

\* What the last n characters are read as, given what fewer are.
Rest(f, s, n) ==
    IF n = 0 THEN <<>>
    ELSE IF n > 1 /\ Escape(s, Len(s) - n + 1)
    THEN <<Coded(s[Len(s) - n + 1 + 1])>> \o f[n - 2]
    ELSE <<s[Len(s) - n + 1]>> \o f[n - 1]

Decoding(s) == CHOOSE f : f = [n \in 0..Len(s) |-> Rest(f, s, n)]

LEMMA UnquoteIs == ASSUME NEW s PROVE Unquote(s) = Decoding(s)[Len(s)]
BY DEF Unquote, Decoding, Rest, Escape

LEMMA RestSame ==
    ASSUME NEW s, NEW n \in Nat, NEW f, NEW g, \A k \in 0..n : k < n => f[k] = g[k]
    PROVE  Rest(f, s, n) = Rest(g, s, n)
<1>1. n # 0 => n - 1 \in 0..n /\ n - 1 < n
  OBVIOUS
<1>2. n > 1 => n - 2 \in 0..n /\ n - 2 < n
  OBVIOUS
<1>3. (n # 0 => f[n - 1] = g[n - 1]) /\ (n > 1 => f[n - 2] = g[n - 2])
  BY <1>1, <1>2
<1> QED BY <1>3 DEF Rest

LEMMA DecodingIs ==
    ASSUME NEW s, Len(s) \in Nat
    PROVE  \A n \in 0..Len(s) : Decoding(s)[n] = Rest(Decoding(s), s, n)
<1> DEFINE S == {n \in Nat : n <= Len(s) =>
                    \E f : f = [i \in 0..n |-> f[i]] /\ \A i \in 0..n : f[i] = Rest(f, s, i)}
<1>1. 0 \in S
  <2> DEFINE f == [i \in 0..0 |-> <<>>]
  <2>1. f = [i \in 0..0 |-> f[i]] /\ f[0] = <<>>
    OBVIOUS
  <2> HIDE DEF f
  <2>2. \A i \in 0..0 : f[i] = Rest(f, s, i)
    BY <2>1 DEF Rest
  <2> QED BY <2>1, <2>2
<1>2. ASSUME NEW n \in S, n + 1 <= Len(s)
      PROVE  \E g : g = [i \in 0..(n + 1) |-> g[i]] /\ \A i \in 0..(n + 1) : g[i] = Rest(g, s, i)
  <2>1. n \in Nat /\ n <= Len(s)
    BY <1>2
  <2>2. PICK f : f = [i \in 0..n |-> f[i]] /\ \A i \in 0..n : f[i] = Rest(f, s, i)
    BY <1>2, <2>1
  <2> DEFINE g == [i \in 0..(n + 1) |-> IF i <= n THEN f[i] ELSE Rest(f, s, i)]
  <2>3. \A i \in 0..(n + 1) : g[i] = IF i <= n THEN f[i] ELSE Rest(f, s, i)
    OBVIOUS
  <2>4. g = [i \in 0..(n + 1) |-> g[i]]
    BY <2>3
  <2> HIDE DEF g
  <2>5. ASSUME NEW i \in 0..(n + 1) PROVE g[i] = Rest(g, s, i)
    <3>1. i \in Nat /\ i <= n + 1 /\ (i <= n => i \in 0..n)
      BY <2>1
    <3>2. \A k \in 0..i : k < i => k \in 0..(n + 1) /\ k <= n
      BY <2>1, <3>1
    <3>3. \A k \in 0..i : k < i => g[k] = f[k]
      BY <2>3, <3>2
    <3>4. Rest(g, s, i) = Rest(f, s, i)
      BY <3>1, <3>3, RestSame
    <3>5. g[i] = Rest(f, s, i)
      BY <2>2, <2>3, <3>1
    <3> QED BY <3>4, <3>5
  <2> QED BY <2>4, <2>5
<1>3. \A n \in S : n + 1 \in S
  <2>1. \A n \in S : n + 1 \in Nat
    OBVIOUS
  <2> QED BY <1>2, <2>1
<1>4. Len(s) \in S
  <2>1. S \in SUBSET Nat
    OBVIOUS
  <2> HIDE DEF S
  <2> QED BY <1>1, <1>3, <2>1, Induct
<1>5. PICK f : f = [i \in 0..Len(s) |-> f[i]] /\ \A i \in 0..Len(s) : f[i] = Rest(f, s, i)
  BY <1>4
<1>6. f = [i \in 0..Len(s) |-> Rest(f, s, i)]
  BY <1>5
<1> DEFINE J == Decoding(s)
<1>7. J = [i \in 0..Len(s) |-> Rest(J, s, i)]
  BY <1>6 DEF Decoding
<1> HIDE DEF J
<1>8. \A i \in 0..Len(s) : J[i] = Rest(J, s, i)
  BY <1>7
<1> QED BY <1>8 DEF J

\* Texts that end alike are read alike.
LEMMA DecodingsAgree ==
    ASSUME NEW s, NEW t, Len(s) \in Nat, Len(t) \in Nat, NEW m \in Nat, m <= Len(s), m <= Len(t),
           \A j \in 1..m : s[Len(s) - j + 1] = t[Len(t) - j + 1]
    PROVE  Decoding(s)[m] = Decoding(t)[m]
<1> DEFINE f == Decoding(s)
           g == Decoding(t)
           S == {n \in Nat : n <= m => \A k \in 0..n : f[k] = g[k]}
<1>a. /\ \A n \in 0..Len(s) : f[n] = Rest(f, s, n)
      /\ \A n \in 0..Len(t) : g[n] = Rest(g, t, n)
  BY DecodingIs
<1> HIDE DEF f, g
<1>b. \A n \in 1..m : Rest(f, s, n) = Rest(f, t, n)
  <2> TAKE n \in 1..m
  <2>1. s[Len(s) - n + 1] = t[Len(t) - n + 1]
    OBVIOUS
  <2>2. n > 1 => s[Len(s) - n + 1 + 1] = t[Len(t) - n + 1 + 1]
    <3>1. n > 1 => n - 1 \in 1..m
      OBVIOUS
    <3>2. Len(s) - (n - 1) + 1 = Len(s) - n + 1 + 1 /\ Len(t) - (n - 1) + 1 = Len(t) - n + 1 + 1
      OBVIOUS
    <3>3. n > 1 => s[Len(s) - (n - 1) + 1] = t[Len(t) - (n - 1) + 1]
      BY <3>1
    <3> QED BY <3>2, <3>3
  <2> QED BY <2>1, <2>2 DEF Rest, Escape
<1>1. 0 \in S
  <2>1. f[0] = <<>> /\ g[0] = <<>>
    <3>1. 0 \in 0..Len(s) /\ 0 \in 0..Len(t)
      OBVIOUS
    <3> QED BY <1>a, <3>1 DEF Rest
  <2> QED BY <2>1
<1>2. ASSUME NEW n \in S, n + 1 <= m PROVE \A k \in 0..(n + 1) : f[k] = g[k]
  <2>1. /\ n \in Nat /\ n + 1 \in 0..Len(s) /\ n + 1 \in 0..Len(t) /\ n + 1 \in 1..m
        /\ \A k \in 0..n : f[k] = g[k]
    BY <1>2
  <2>2. \A k \in 0..(n + 1) : k < n + 1 => k \in 0..n
    BY <2>1
  <2>3. Rest(f, t, n + 1) = Rest(g, t, n + 1)
    BY <2>1, <2>2, RestSame
  <2>4. f[n + 1] = g[n + 1]
    BY <1>a, <1>b, <2>1, <2>3
  <2>5. \A k \in 0..(n + 1) : k = n + 1 \/ k \in 0..n
    BY <2>1
  <2> QED BY <2>1, <2>4, <2>5
<1>3. \A n \in S : n + 1 \in S
  <2>1. \A n \in S : n + 1 \in Nat
    OBVIOUS
  <2> QED BY <1>2, <2>1
<1>4. m \in S
  <2>1. S \in SUBSET Nat
    OBVIOUS
  <2> HIDE DEF S
  <2> QED BY <1>1, <1>3, <2>1, Induct
<1>5. f[m] = g[m]
  BY <1>4
<1> QED BY <1>5 DEF f, g

LEMMA UnquoteEmpty == Unquote(<<>>) = <<>>
<1>1. Len(<<>>) = 0
  OBVIOUS
<1>2. Decoding(<<>>)[0] = Rest(Decoding(<<>>), <<>>, 0)
  BY <1>1, DecodingIs
<1> QED BY <1>1, <1>2, UnquoteIs DEF Rest

\* How the first character is read.
LEMMA UnquoteHead ==
    ASSUME NEW C, NEW s \in Seq(C), NEW c \in C
    PROVE  Unquote(<<c>> \o s) =
             IF s # <<>> /\ c = "%" /\ s[1] \in Range(Code)
             THEN <<Coded(s[1])>> \o Unquote(Tail(s)) ELSE <<c>> \o Unquote(s)
<1> DEFINE t == <<c>> \o s
           n == Len(s)
<1>1. /\ n \in Nat /\ Len(t) = n + 1 /\ Len(t) \in Nat /\ t[1] = c
      /\ \A i \in 1..n : t[i + 1] = s[i]
      /\ s # <<>> <=> n # 0
  BY LenProperties, EmptySeq
<1> HIDE DEF t
<1>2. Unquote(t) = Rest(Decoding(t), t, n + 1)
  <2>1. n + 1 \in 0..Len(t)
    BY <1>1
  <2> QED BY <1>1, <2>1, UnquoteIs, DecodingIs
<1>3. Decoding(t)[n] = Unquote(s)
  <2>1. \A j \in 1..n : t[Len(t) - j + 1] = s[Len(s) - j + 1]
    <3> TAKE j \in 1..n
    <3>1. n - j + 1 \in 1..n /\ Len(t) - j + 1 = (n - j + 1) + 1
      BY <1>1
    <3> QED BY <1>1, <3>1
  <2>2. n <= Len(t) /\ n <= Len(s) /\ Len(s) \in Nat
    BY <1>1
  <2>3. Decoding(t)[n] = Decoding(s)[n]
    BY <1>1, <2>1, <2>2, DecodingsAgree
  <2> QED BY <2>3, UnquoteIs
<1>4. ASSUME n # 0 PROVE Decoding(t)[n - 1] = Unquote(Tail(s))
  <2> DEFINE u == Tail(s)
             m == n - 1
  <2>1. s # <<>>
    BY <1>1, <1>4
  <2>2. Len(u) = m /\ m \in Nat /\ \A i \in 1..m : u[i] = s[i + 1]
    BY <1>1, <1>4, <2>1, HeadTailProperties
  <2> HIDE DEF u
  <2>3. \A j \in 1..m : t[Len(t) - j + 1] = u[Len(u) - j + 1]
    <3> TAKE j \in 1..m
    <3>1. m - j + 1 \in 1..m /\ (m - j + 1) + 1 \in 1..n /\ Len(t) - j + 1 = ((m - j + 1) + 1) + 1
      BY <1>1, <2>2
    <3>2. t[Len(t) - j + 1] = s[(m - j + 1) + 1]
      BY <1>1, <3>1
    <3>3. u[Len(u) - j + 1] = s[(m - j + 1) + 1]
      BY <2>2, <3>1
    <3> QED BY <3>2, <3>3
  <2>4. m <= Len(t) /\ m <= Len(u) /\ Len(u) \in Nat
    BY <1>1, <2>2
  <2>5. Decoding(t)[m] = Decoding(u)[m]
    BY <1>1, <2>2, <2>3, <2>4, DecodingsAgree
  <2> QED BY <2>2, <2>5, UnquoteIs DEF u
<1>5. Len(t) - (n + 1) + 1 = 1 /\ n + 1 # 0 /\ n + 1 - 1 = n /\ n + 1 - 2 = n - 1 /\ (n + 1 > 1 <=> n # 0)
  BY <1>1
<1>6. Rest(Decoding(t), t, n + 1) =
        IF n # 0 /\ t[1] = "%" /\ t[1 + 1] \in Range(Code)
        THEN <<Coded(t[1 + 1])>> \o Decoding(t)[n - 1] ELSE <<t[1]>> \o Decoding(t)[n]
  BY <1>5 DEF Rest, Escape
<1>7. n # 0 => t[1 + 1] = s[1]
  <2>1. n # 0 => 1 \in 1..n
    BY <1>1
  <2> QED BY <1>1, <2>1
<1>8. CASE n # 0
  <2>1. Unquote(t) = IF c = "%" /\ s[1] \in Range(Code)
                     THEN <<Coded(s[1])>> \o Unquote(Tail(s)) ELSE <<c>> \o Unquote(s)
    BY <1>1, <1>2, <1>3, <1>4, <1>6, <1>7, <1>8
  <2> QED BY <1>1, <1>8, <2>1 DEF t
<1>9. CASE n = 0
  <2>1. Unquote(t) = <<c>> \o Unquote(s)
    BY <1>1, <1>2, <1>3, <1>6, <1>9
  <2> QED BY <1>1, <1>9, <2>1 DEF t
<1> QED BY <1>8, <1>9

\* What is shown of a character is read as that character.
LEMMA UnquoteShown ==
    ASSUME NEW C, Alphabet(C), NEW c \in C, NEW s \in Seq(C)
    PROVE  Unquote(Shown(c) \o s) = <<c>> \o Unquote(s)
<1>1. CASE c \in Escaped
  <2> DEFINE r == <<Code[c]>> \o s
  <2>1. "%" \in C /\ Code[c] \in C /\ Code[c] \in Range(Code) /\ c \in DOMAIN Code
    BY <1>1, CodeFacts DEF Alphabet
  <2>2. <<Code[c]>> \in Seq(C) /\ <<"%">> \in Seq(C)
    BY <2>1
  <2>3. r \in Seq(C) /\ r # <<>> /\ r[1] = Code[c] /\ Tail(r) = s
    <3>1. /\ r \in Seq(C) /\ Len(r) = 1 + Len(s)
          /\ \A i \in 1..(1 + Len(s)) : r[i] = IF i <= 1 THEN <<Code[c]>>[i] ELSE s[i - 1]
      BY <2>2, ConcatProperties
    <3>2. Len(s) \in Nat
      BY LenProperties
    <3> HIDE DEF r
    <3>3. r # <<>> /\ r[1] = Code[c]
      BY <3>1, <3>2
    <3>4. Tail(r) \in Seq(C) /\ Len(Tail(r)) = Len(s) /\ \A i \in 1..Len(s) : Tail(r)[i] = r[i + 1]
      BY <3>1, <3>2, <3>3, HeadTailProperties
    <3>5. \A i \in 1..Len(s) : Tail(r)[i] = s[i]
      <4> TAKE i \in 1..Len(s)
      <4>1. i + 1 \in 1..(1 + Len(s)) /\ ~ (i + 1 <= 1) /\ i + 1 - 1 = i
        BY <3>2
      <4> QED BY <3>1, <3>4, <4>1
    <3>6. \A u, v \in Seq(C) : Len(u) = Len(v) /\ (\A j \in 1..Len(u) : u[j] = v[j]) => u = v
      BY SeqEqual
    <3>7. Tail(r) = s
      BY <3>4, <3>5, <3>6
    <3> QED BY <3>1, <3>3, <3>7
  <2>4. Shown(c) \o s = <<"%">> \o r
    <3>1. Shown(c) = <<"%">> \o <<Code[c]>>
      BY <1>1 DEF Shown
    <3>2. (<<"%">> \o <<Code[c]>>) \o s = <<"%">> \o (<<Code[c]>> \o s)
      BY <2>2, ConcatAssociative
    <3> QED BY <3>1, <3>2
  <2> HIDE DEF r
  <2>5. Unquote(<<"%">> \o r) = <<Coded(r[1])>> \o Unquote(Tail(r))
    BY <2>1, <2>3, UnquoteHead
  <2> QED BY <2>1, <2>3, <2>4, <2>5, CodedCode
<1>2. CASE c \notin Escaped
  <2>1. Shown(c) = <<c>> /\ c # "%"
    BY <1>2, CodeFacts DEF Shown
  <2> QED BY <2>1, UnquoteHead
<1> QED BY <1>1, <1>2

\* Induction on the length of a sequence.
LEMMA InductLen ==
    ASSUME NEW C, NEW P,
           \A s \in Seq(C) : (\A u \in Seq(C) : Len(u) < Len(s) => u \in P) => s \in P
    PROVE  \A s \in Seq(C) : s \in P
<1> DEFINE S == {n \in Nat : \A u \in Seq(C) : Len(u) < n => u \in P}
<1>1. 0 \in S
  BY LenProperties
<1>2. ASSUME NEW n \in S, NEW s \in Seq(C), Len(s) < n + 1 PROVE s \in P
  <2>1. \A u \in Seq(C) : Len(u) < Len(s) => Len(u) < n
    BY <1>2, LenProperties
  <2> QED BY <1>2, <2>1
<1>3. \A n \in S : n + 1 \in S
  <2>1. \A n \in S : n + 1 \in Nat
    OBVIOUS
  <2> QED BY <1>2, <2>1
<1>4. S = Nat
  <2>1. S \in SUBSET Nat
    OBVIOUS
  <2> HIDE DEF S
  <2> QED BY <1>1, <1>3, <2>1, Induct
<1> TAKE s \in Seq(C)
<1>5. Len(s) \in Nat /\ Len(s) + 1 \in Nat /\ Len(s) < Len(s) + 1
  BY LenProperties
<1>6. Len(s) + 1 \in S
  BY <1>4, <1>5
<1> QED BY <1>5, <1>6

LEMMA Associative ==
    \A C : \A u, v, w \in Seq(C) : (u \o v) \o w = u \o (v \o w)
BY ConcatAssociative

LEMMA Prefixed ==
    ASSUME NEW C, NEW c \in C, NEW s \in Seq(C)
    PROVE  <<c>> \o s \in Seq(C) /\ Range(<<c>> \o s) = {c} \union Range(s)
<1>1. <<c>> \in Seq(C) /\ Range(<<c>>) = {c}
  BY DEF Range
<1>2. Range(<<c>> \o s) = Range(<<c>>) \union Range(s)
  <2>1. \A u \in Seq(C) : Range(u \o s) = Range(u) \union Range(s)
    BY RangeConcatenation
  <2> QED BY <1>1, <2>1
<1> QED BY <1>1, <1>2, ConcatProperties

LEMMA HeadAndTail ==
    ASSUME NEW C, NEW s \in Seq(C), s # <<>>
    PROVE  /\ s[1] \in C /\ Tail(s) \in Seq(C) /\ Len(Tail(s)) = Len(s) - 1 /\ Len(s) \in Nat \ {0}
           /\ s = <<s[1]>> \o Tail(s)
<1>1. Len(s) \in Nat \ {0} /\ 1 \in 1..Len(s) /\ Len(s) \in 1..Len(s) /\ 1 + 1 = 2
  BY EmptySeq, LenProperties
<1>2. SubSeq(s, 1, Len(s)) = <<s[1]>> \o SubSeq(s, 2, Len(s))
  BY <1>1, SubSeqRecursiveFirst
<1>3. SubSeq(s, 1, Len(s)) = s /\ Tail(s) = SubSeq(s, 2, Len(s))
  BY SubSeqFull, TailIsSubSeq
<1>4. s[1] \in C
  BY <1>1, ElementOfSeq
<1> QED BY <1>1, <1>2, <1>3, <1>4, HeadTailProperties

\* Nothing is read as a separator's place: a separator in what is read stays one.
LEMMA UnquoteKeeps ==
    ASSUME NEW C, Alphabet(C), NEW text \in Seq(C)
    PROVE  /\ Unquote(text) \in Seq(C)
           /\ "/" \in Range(text) => "/" \in Range(Unquote(text))
<1> DEFINE Survives(s) == /\ Unquote(s) \in Seq(C)
                          /\ "/" \in Range(s) => "/" \in Range(Unquote(s))
           P == {s \in Seq(C) : Survives(s)}
<1>1. ASSUME NEW s \in Seq(C), \A u \in Seq(C) : Len(u) < Len(s) => u \in P
      PROVE  Survives(s)
  <2>1. CASE s = <<>>
    BY <2>1, UnquoteEmpty, EmptySeq
  <2>2. CASE s # <<>>
    <3> DEFINE c == s[1]
               r == Tail(s)
    <3>1. /\ c \in C /\ r \in Seq(C) /\ Len(r) < Len(s) /\ Len(s) \in Nat /\ Len(r) \in Nat
          /\ s = <<c>> \o r
      BY <2>2, HeadAndTail, LenProperties
    <3> HIDE DEF c, r
    <3>2. Survives(r)
      BY <1>1, <3>1
    <3>3. Range(s) = {c} \union Range(r)
      BY <3>1, Prefixed
    <3>4. CASE r # <<>> /\ c = "%" /\ r[1] \in Range(Code)
      <4> DEFINE d == Coded(r[1])
                 v == Tail(r)
      <4>1. Unquote(s) = <<d>> \o Unquote(v)
        BY <3>1, <3>4, UnquoteHead
      <4>2. /\ v \in Seq(C) /\ Len(v) < Len(r) /\ Len(v) \in Nat /\ r[1] \in C
            /\ r = <<r[1]>> \o v
        BY <3>1, <3>4, HeadAndTail, LenProperties
      <4> HIDE DEF v
      <4>3. Survives(v)
        <5>1. Len(v) < Len(s)
          BY <3>1, <4>2
        <5> QED BY <1>1, <4>2, <5>1
      <4>4. d \in C /\ <<d>> \in Seq(C)
        <5>1. PICK e \in DOMAIN Code : r[1] = Code[e]
          BY <3>4 DEF Range
        <5> QED BY <5>1, CodedCode DEF Alphabet
      <4> HIDE DEF d, v
      <4>5. Unquote(s) \in Seq(C) /\ Range(Unquote(v)) \subseteq Range(Unquote(s))
        BY <4>1, <4>3, <4>4, Prefixed
      <4>6. Range(r) = {r[1]} \union Range(v)
        <5>1. Range(<<r[1]>> \o v) = {r[1]} \union Range(v)
          BY <4>2, Prefixed
        <5> QED BY <4>2, <5>1
      <4>7. "/" \in Range(s) => "/" \in Range(v)
        BY <3>3, <3>4, <4>6, CodeFacts
      <4> QED BY <4>3, <4>5, <4>7
    <3>5. CASE ~ (r # <<>> /\ c = "%" /\ r[1] \in Range(Code))
      <4>1. Unquote(s) = <<c>> \o Unquote(r)
        BY <3>1, <3>5, UnquoteHead
      <4>2. Unquote(s) \in Seq(C) /\ Range(Unquote(s)) = {c} \union Range(Unquote(r))
        <5>1. Unquote(r) \in Seq(C)
          BY <3>2
        <5>2. \A u \in Seq(C) : <<c>> \o u \in Seq(C) /\ Range(<<c>> \o u) = {c} \union Range(u)
          BY <3>1, Prefixed
        <5> HIDE DEF Survives, P
        <5> QED BY <4>1, <5>1, <5>2
      <4> QED BY <3>2, <3>3, <4>2
    <3> QED BY <3>4, <3>5
  <2> QED BY <2>1, <2>2
<1>2. \A s \in Seq(C) : s \in P
  <2>1. \A s \in Seq(C) : (\A u \in Seq(C) : Len(u) < Len(s) => u \in P) => s \in P
    BY <1>1
  <2> HIDE DEF P
  <2> QED BY <2>1, InductLen
<1> QED BY <1>2

\* Whatever a text is, its quoted form is read as that text.
THEOREM RoundTrip ==
    ASSUME NEW C, Alphabet(C), NEW text \in Seq(C)
    PROVE  Unquote(Quote(text)) = text
<1>0. \A u, v, w \in Seq(C) : (u \o v) \o w = u \o (v \o w)
  BY Associative
<1> DEFINE P == {t \in Seq(C) : \A s \in Seq(C) : Unquote(Quote(t) \o s) = t \o Unquote(s)}
<1>1. <<>> \in P
  <2>1. \A s \in Seq(C) : Unquote(s) \in Seq(C)
    BY UnquoteKeeps
  <2>2. \A s \in Seq(C) : <<>> \o s = s /\ <<>> \o Unquote(s) = Unquote(s)
    BY <2>1, ConcatEmptySeq
  <2> QED BY <2>2, QuoteEmpty, EmptySeq
<1>2. ASSUME NEW t \in P, NEW c \in C PROVE Append(t, c) \in P
  <2>1. t \in Seq(C) /\ Append(t, c) \in Seq(C) /\ \A s \in Seq(C) : Unquote(Quote(t) \o s) = t \o Unquote(s)
    BY AppendProperties
  <2> HIDE DEF P
  <2>2. ASSUME NEW s \in Seq(C) PROVE Unquote(Quote(Append(t, c)) \o s) = Append(t, c) \o Unquote(s)
    <3>1. Quote(t) \in Seq(C) /\ Shown(c) \in Seq(C) /\ <<c>> \in Seq(C) /\ Unquote(s) \in Seq(C)
      BY <2>1, QuoteAppend, ShownType, UnquoteKeeps
    <3>2. Quote(Append(t, c)) \o s = Quote(t) \o (Shown(c) \o s)
      <4>1. Quote(Append(t, c)) = Quote(t) \o Shown(c)
        BY <2>1, QuoteAppend
      <4> QED BY <1>0, <3>1, <4>1
    <3>3. Shown(c) \o s \in Seq(C)
      BY <3>1, ConcatProperties
    <3>4. Unquote(Quote(t) \o (Shown(c) \o s)) = t \o (<<c>> \o Unquote(s))
      BY <2>1, <3>3, UnquoteShown
    <3>5. t \o (<<c>> \o Unquote(s)) = Append(t, c) \o Unquote(s)
      <4>1. Append(t, c) = t \o <<c>>
        BY <2>1, AppendIsConcat
      <4>2. \A w \in Seq(C) : (t \o <<c>>) \o w = t \o (<<c>> \o w)
        BY <1>0, <2>1, <3>1
      <4>3. (t \o <<c>>) \o Unquote(s) = t \o (<<c>> \o Unquote(s))
        BY <3>1, <4>2
      <4> QED BY <4>1, <4>3
    <3> QED BY <3>2, <3>4, <3>5
  <2> QED BY <2>1, <2>2 DEF P
<1>3. P = Seq(C)
  <2>1. P \in SUBSET Seq(C)
    OBVIOUS
  <2> HIDE DEF P
  <2> QED BY <1>1, <1>2, <2>1, InductSeq
<1>4. Unquote(Quote(text) \o <<>>) = text \o Unquote(<<>>)
  BY <1>3, EmptySeq
<1> QED BY <1>4, UnquoteEmpty, ConcatEmptySeq, QuoteAppend

\* And it holds no separator.
LEMMA QuoteIsASegment ==
    ASSUME NEW C, Alphabet(C), NEW text \in Seq(C)
    PROVE  Quote(text) \in Seq(C \ {"/"})
<1> DEFINE D == C \ {"/"}
           P == {t \in Seq(C) : Quote(t) \in Seq(D)}
<1>1. <<>> \in P
  BY QuoteEmpty, EmptySeq
<1>2. ASSUME NEW t \in P, NEW c \in C PROVE Append(t, c) \in P
  <2>1. t \in Seq(C) /\ Append(t, c) \in Seq(C) /\ Quote(t) \in Seq(D)
    BY AppendProperties
  <2>2. Shown(c) \in Seq(D)
    <3>1. CASE c \in Escaped
      <4>1. "%" \in D
        BY CodeFacts DEF Alphabet
      <4>2. Code[c] \in D
        <5>1. Code[c] \in Range(Code)
          BY <3>1, CodeFacts
        <5> QED BY <5>1, CodeFacts DEF Alphabet
      <4>3. \A x, y \in D : <<x, y>> \in Seq(D)
        OBVIOUS
      <4>4. Shown(c) = <<"%", Code[c]>>
        BY <3>1 DEF Shown
      <4> HIDE DEF D
      <4> QED BY <4>1, <4>2, <4>3, <4>4
    <3>2. CASE c \notin Escaped
      <4>1. c \in D /\ Shown(c) = <<c>>
        BY <3>2, CodeFacts DEF Shown
      <4> HIDE DEF D
      <4> QED BY <4>1
    <3> QED BY <3>1, <3>2
  <2>3. Quote(Append(t, c)) = Quote(t) \o Shown(c)
    BY <2>1, QuoteAppend
  <2> HIDE DEF D
  <2>4. Quote(Append(t, c)) \in Seq(D)
    BY <2>1, <2>2, <2>3, ConcatProperties
  <2> QED BY <2>1, <2>4
<1>3. P = Seq(C)
  <2>1. P \in SUBSET Seq(C)
    OBVIOUS
  <2> HIDE DEF P, D
  <2> QED BY <1>1, <1>2, <2>1, InductSeq
<1> QED BY <1>3
-----------------------------------------------------------------------------
(* Where requests and tokens go.                                            *)

\* What a client has is what the application gave last, or an error in its place;
\* and what is not checked later was checked when the client was constructed.
Faithful(home, said) ==
    /\ home.sdk \in {"python", "erlang", "gleam"}
    /\ home.refused \in BOOLEAN /\ home.insecure \in BOOLEAN /\ home.spelling \in Spellings
    /\ said.token \in Tokens \union {None, Unsafe}
    /\ home.token \in {said.token, None}
    /\ home.sdk # "erlang" => home.scheme \in Schemes /\ home.token \in Tokens \union {None}
    /\ home.sdk = "python" =>
        /\ home.insecure = said.insecure
        /\ CleartextAllowed(home, home.token) \/ home.insecure
    /\ \/ home.sdk = "gleam" /\ home.refused
       \/ home.scheme = said.scheme /\ home.host = said.host

Kept ==
    /\ DOMAIN client = Clients /\ DOMAIN given = Clients
    /\ \A c \in Clients : client[c] # None => Faithful(client[c], given[c])

\* Nothing of the client of a call changes while it is under way.
Addressed ==
    call # None =>
        /\ call.client \in Clients /\ client[call.client] # None
        /\ call.op \in Ops /\ call.scheme \in Schemes /\ call.token \in Tokens \union {None}
        /\ TokenStaysHome /\ NeverDowngraded

Dated == version # None => version.location \in Locations /\ version.sha \in Digests

Inv == Kept /\ Addressed /\ Dated

LEMMA InitInv == Init => Inv
BY DEF Init, Inv, Kept, Addressed, Dated

\* A change of a client that no call is under way of.
LEMMA BecomeKeeps ==
    ASSUME Inv, NEW c \in Clients, client[c] = None \/ call = None,
           NEW home, NEW said, Become(c, home, said), Faithful(home, said)
    PROVE  Inv'
<1>1. /\ client' = [client EXCEPT ![c] = home] /\ given' = [given EXCEPT ![c] = said]
      /\ UNCHANGED <<version, call>>
  BY DEF Become
<1>2. Kept'
  BY <1>1 DEF Inv, Kept
<1>3. Addressed'
  <2>1. CASE call = None
    BY <1>1, <2>1 DEF Addressed
  <2>2. CASE call # None
    <3>1. call.client # c /\ call.client \in Clients
      BY <2>2 DEF Inv, Addressed
    <3>2. client'[call.client] = client[call.client] /\ given'[call.client] = given[call.client]
      BY <1>1, <3>1 DEF Inv, Kept
    <3> QED  BY <1>1, <3>2 DEF Inv, Addressed, TokenStaysHome, NeverDowngraded
  <2> QED  BY <2>1, <2>2
<1>4. Dated'
  BY <1>1 DEF Inv, Dated
<1> QED  BY <1>2, <1>3, <1>4 DEF Inv

\* The clients that a constructor makes.
LEMMA SettingsAreFaithful ==
    ASSUME NEW url, NEW sdk \in {"python", "erlang", "gleam"}, Accepted(sdk, url),
           NEW token \in Tokens \union {None}, NEW insecure \in BOOLEAN,
           sdk = "python" => CleartextAllowed(url, token) \/ insecure
    PROVE  Faithful(Settings(sdk, url, token, FALSE, insecure), Given(url, token, insecure))
<1>1. url.scheme \in Schemes
  BY DEF Accepted
<1> QED  BY <1>1 DEF Settings, Given, Faithful, CleartextAllowed, Spellings

LEMMA ConstructKeeps == ASSUME Inv, NEW c \in Clients, Construct(c) PROVE Inv'
<1>1. PICK url \in Urls, token \in Tokens \union {None}, insecure \in BOOLEAN :
        /\ Accepted("python", url) /\ (CleartextAllowed(url, token) \/ insecure)
        /\ Become(c, Settings("python", url, token, FALSE, insecure), Given(url, token, insecure))
  BY DEF Construct
<1>2. Faithful(Settings("python", url, token, FALSE, insecure), Given(url, token, insecure))
  BY <1>1, SettingsAreFaithful
<1> QED  BY <1>1, <1>2, BecomeKeeps DEF Construct

LEMMA NewKeeps == ASSUME Inv, NEW c \in Clients, NewErlang(c) \/ NewGleam(c) PROVE Inv'
<1>1. CASE NewErlang(c)
  <2>1. PICK url \in Urls : /\ Accepted("erlang", url)
                           /\ Become(c, Settings("erlang", url, None, FALSE, FALSE),
                                     Given(url, None, FALSE))
    BY <1>1 DEF NewErlang
  <2>2. Faithful(Settings("erlang", url, None, FALSE, FALSE), Given(url, None, FALSE))
    BY <2>1, SettingsAreFaithful
  <2> QED  BY <1>1, <2>1, <2>2, BecomeKeeps DEF NewErlang
<1>2. CASE NewGleam(c)
  <2>1. PICK url \in Urls :
            LET refused == ~ Accepted("gleam", url)
            IN  Become(c, Settings("gleam", IF refused THEN DefaultRegistry ELSE url,
                                   None, refused, FALSE),
                       Given(url, None, FALSE))
    BY <1>2 DEF NewGleam
  <2>2. CASE Accepted("gleam", url)
    <3>1. Faithful(Settings("gleam", url, None, FALSE, FALSE), Given(url, None, FALSE))
      BY <2>2, SettingsAreFaithful
    <3>2. Become(c, Settings("gleam", url, None, FALSE, FALSE), Given(url, None, FALSE))
      BY <2>1, <2>2
    <3> QED  BY <1>2, <3>1, <3>2, BecomeKeeps DEF NewGleam
  <2>3. CASE ~ Accepted("gleam", url)
    <3>1. DefaultRegistry.scheme \in Schemes
      BY DEF DefaultRegistry, Url, Schemes
    <3>2. Faithful(Settings("gleam", DefaultRegistry, None, TRUE, FALSE), Given(url, None, FALSE))
      BY <3>1 DEF Settings, Given, Faithful, Spellings
    <3>3. Become(c, Settings("gleam", DefaultRegistry, None, TRUE, FALSE), Given(url, None, FALSE))
      BY <2>1, <2>3
    <3> QED  BY <1>2, <3>2, <3>3, BecomeKeeps DEF NewGleam
  <2> QED  BY <2>2, <2>3
<1> QED  BY <1>1, <1>2

\* Erlang's token is replaced, or an error takes its place.
LEMMA ReplacedIsFaithful ==
    ASSUME NEW home, NEW said, Faithful(home, said), home.sdk = "erlang",
           NEW token \in Tokens \union {None, Unsafe}, NEW shown \in {token, None},
           NEW refused \in BOOLEAN
    PROVE  Faithful([home EXCEPT !.token = shown, !.refused = refused],
                    [said EXCEPT !.token = token])
<1> DEFINE new == [home EXCEPT !.token = shown, !.refused = refused]
           told == [said EXCEPT !.token = token]
<1>1. /\ new.sdk = "erlang" /\ new.refused = refused /\ new.token = shown
      /\ new.insecure = home.insecure /\ new.scheme = home.scheme /\ new.host = home.host
      /\ new.spelling = home.spelling
      /\ told.token = token /\ told.scheme = said.scheme /\ told.host = said.host
  OBVIOUS
<1> HIDE DEF new, told
<1>2. Faithful(new, told)
  BY <1>1 DEF Faithful
<1> QED  BY <1>2 DEF new, told

LEMMA ChangeKeeps ==
    ASSUME Inv, NEW c \in Clients,
           \/ ErlangWithToken(c) \/ ErlangMutated(c)
           \/ GleamWithToken(c) \/ GleamWithTimeout(c)
    PROVE  Inv'
<1>1. /\ call = None /\ client[c] # None /\ client[c].sdk \in {"erlang", "gleam"}
      /\ Faithful(client[c], given[c])
  BY DEF Inv, Kept, ErlangWithToken, ErlangMutated, GleamWithToken, GleamWithTimeout, Settled
<1>2. CASE ErlangWithToken(c)
  <2>1. PICK token \in Tokens \union {None, Unsafe} :
        Become(c, [client[c] EXCEPT !.token = IF token = Unsafe THEN None ELSE token,
                                    !.refused = token = Unsafe],
               [given[c] EXCEPT !.token = token])
    BY <1>2 DEF ErlangWithToken
  <2>2. /\ client[c].sdk = "erlang" /\ (token = Unsafe) \in BOOLEAN
        /\ (IF token = Unsafe THEN None ELSE token) \in {token, None}
    BY <1>2 DEF ErlangWithToken, Settled
  <2>3. Faithful([client[c] EXCEPT !.token = IF token = Unsafe THEN None ELSE token,
                                   !.refused = token = Unsafe],
                 [given[c] EXCEPT !.token = token])
    BY <1>1, <2>2, ReplacedIsFaithful
  <2> QED  BY <1>1, <2>1, <2>3, BecomeKeeps
<1>3. CASE ErlangMutated(c)
  <2>1. CASE \E url \in Urls, spelling \in Spellings :
            LET new == Settings("erlang", url, client[c].token, client[c].refused, FALSE)
            IN  Become(c, [new EXCEPT !.spelling = spelling], Given(url, given[c].token, FALSE))
    <3>1. PICK url \in Urls, spelling \in Spellings :
                Become(c, [Settings("erlang", url, client[c].token, client[c].refused, FALSE)
                              EXCEPT !.spelling = spelling],
                       Given(url, given[c].token, FALSE))
      BY <2>1
    <3>2. Faithful([Settings("erlang", url, client[c].token, client[c].refused, FALSE)
                       EXCEPT !.spelling = spelling],
                   Given(url, given[c].token, FALSE))
      BY <1>1 DEF Faithful, Settings, Given
    <3> QED  BY <1>1, <3>1, <3>2, BecomeKeeps
  <2>2. CASE \E token \in Tokens \union {None, Unsafe}, refused \in {client[c].refused, FALSE} :
                Become(c, [client[c] EXCEPT !.token = token, !.refused = refused],
                       [given[c] EXCEPT !.token = token])
    <3>1. PICK token \in Tokens \union {None, Unsafe}, refused \in {client[c].refused, FALSE} :
                Become(c, [client[c] EXCEPT !.token = token, !.refused = refused],
                       [given[c] EXCEPT !.token = token])
      BY <2>2
    <3>2. Faithful([client[c] EXCEPT !.token = token, !.refused = refused],
                   [given[c] EXCEPT !.token = token])
      <4>1. client[c].sdk = "erlang" /\ refused \in BOOLEAN /\ token \in {token, None}
        BY <1>1, <1>3 DEF Faithful, ErlangMutated, Settled
      <4> QED  BY <1>1, <4>1, ReplacedIsFaithful
    <3> QED  BY <1>1, <3>1, <3>2, BecomeKeeps
  <2> QED  BY <1>3, <2>1, <2>2 DEF ErlangMutated
<1>4. CASE GleamWithToken(c)
  <2>1. PICK token \in Tokens \union {None} :
        Become(c, [client[c] EXCEPT !.token = token], [given[c] EXCEPT !.token = token])
    BY <1>4 DEF GleamWithToken
  <2>2. Faithful([client[c] EXCEPT !.token = token], [given[c] EXCEPT !.token = token])
    BY <1>1, <1>4 DEF Faithful, GleamWithToken, Settled
  <2> QED  BY <1>1, <2>1, <2>2, BecomeKeeps
<1>5. CASE GleamWithTimeout(c)
  <2>1. Faithful([client[c] EXCEPT !.refused = TRUE], given[c])
    BY <1>1, <1>5 DEF Faithful, GleamWithTimeout, Settled
  <2> QED  BY <1>1, <1>5, <2>1, BecomeKeeps DEF GleamWithTimeout
<1> QED  BY <1>2, <1>3, <1>4, <1>5

\* A client that may send anything has the registry that it was given.
LEMMA UsableIsAccepted ==
    ASSUME Inv, NEW c \in Clients, Ready(c)
    PROVE  /\ client[c] # None /\ Faithful(client[c], given[c])
           /\ client[c].scheme \in Schemes
           /\ client[c].scheme = given[c].scheme /\ client[c].host = given[c].host
<1>1. client[c] # None /\ Faithful(client[c], given[c]) /\ Usable(c)
  BY DEF Ready, Inv, Kept
<1>2. CASE client[c].sdk = "erlang"
  BY <1>1, <1>2 DEF Usable, Accepted, Faithful
<1>3. CASE client[c].sdk # "erlang"
  BY <1>1, <1>3 DEF Usable, Faithful
<1> QED  BY <1>1, <1>2, <1>3

\* The token of a request is the one given last, and may go where it goes.
LEMMA TokenMayBeSent ==
    ASSUME Inv, NEW c \in Clients, Ready(c), Authorized(c)
    PROVE  /\ client[c].token \in Tokens /\ client[c].token = given[c].token
           /\ client[c].scheme = "http" =>
                \/ client[c].host \in Internal \/ given[c].insecure
                \/ client[c].sdk = "erlang" /\ client[c].spelling = "padded"
<1>1. Faithful(client[c], given[c]) /\ client[c].token # None /\ Usable(c)
  BY UsableIsAccepted DEF Authorized, Ready
<1>2. CASE client[c].sdk = "python"
  BY <1>1, <1>2 DEF Faithful, CleartextAllowed
<1>3. CASE client[c].sdk = "erlang"
  BY <1>1, <1>3 DEF Faithful, CleartextAllowed, Authorized, SpellingAllowed
<1>4. CASE client[c].sdk = "gleam"
  BY <1>1, <1>4 DEF Faithful, CleartextAllowed, Usable
<1> QED  BY <1>1, <1>2, <1>3, <1>4 DEF Faithful

LEMMA ToRegistryKeeps ==
    ASSUME Inv, NEW c \in Clients, Ready(c), NEW op \in Ops, NEW named, NEW token,
           token = None \/ (Authorized(c) /\ token = client[c].token),
           Send(ToRegistry(c, op, named, token))
    PROVE  Inv'
<1>1. /\ call' = ToRegistry(c, op, named, token) /\ UNCHANGED <<client, given, version>>
      /\ call'.client = c /\ call'.op = op /\ call'.token = token
      /\ call'.scheme = client[c].scheme /\ call'.host = client[c].host
  BY DEF Send, ToRegistry
<1>2. /\ client[c] # None /\ client[c].scheme \in Schemes
      /\ client[c].scheme = given[c].scheme /\ client[c].host = given[c].host
  BY UsableIsAccepted
<1>3. token # None => /\ token \in Tokens /\ token = given[c].token
                      /\ client[c].scheme = "http" =>
                            \/ client[c].host \in Internal \/ given[c].insecure
                            \/ client[c].sdk = "erlang" /\ client[c].spelling = "padded"
  BY TokenMayBeSent
<1>4. Addressed'
  BY <1>1, <1>2, <1>3 DEF Addressed, TokenStaysHome, NeverDowngraded
<1> QED  BY <1>1, <1>4 DEF Inv, Kept, Dated

LEMMA DownloadKeeps == ASSUME Inv, NEW c \in Clients, Download(c) PROVE Inv'
<1>1. Ready(c)
  BY DEF Download
<1>2. CASE version.location.form = "empty"
  <2>1. Send(ToRegistry(c, "download", ArtifactPath(version.sha), None))
    BY <1>2 DEF Download
  <2>2. "download" \in Ops
    BY DEF Ops
  <2> QED  BY <1>1, <2>1, <2>2, ToRegistryKeeps
<1>3. CASE version.location.form # "empty"
  <2> DEFINE l == Joined(client[c], version.location)
  <2>1. /\ AllowedDownload(client[c], l) /\ UNCHANGED <<client, given, version>>
        /\ call' = [client |-> c, op |-> "fetch", named |-> <<>>, scheme |-> l.scheme,
                    host |-> l.host, path |-> <<>>, token |-> None]
    BY <1>3 DEF Download, Send
  <2> HIDE DEF l
  <2>2. /\ call'.client = c /\ call'.op = "fetch" /\ call'.token = None
        /\ call'.scheme = l.scheme /\ call'.host = l.host
    BY <2>1
  <2>3. /\ l.scheme \in Schemes
        /\ l.scheme = "http" => l.host \in Loopback \/ client[c].scheme = "http"
    BY <2>1 DEF AllowedDownload
  <2>4. client[c] # None
    BY <1>1 DEF Ready
  <2>5. Addressed'
    BY <2>1, <2>2, <2>3, <2>4 DEF Addressed, TokenStaysHome, NeverDowngraded, Ops, Schemes
  <2> QED  BY <2>1, <2>5 DEF Inv, Kept, Dated
<1> QED  BY <1>2, <1>3

LEMMA NextInv == Inv /\ [Next]_vars => Inv'
<1> SUFFICES ASSUME Inv, [Next]_vars PROVE Inv'
  OBVIOUS
<1>1. ASSUME NEW c \in Clients, Construct(c) \/ NewErlang(c) \/ NewGleam(c) PROVE Inv'
  BY <1>1, ConstructKeeps, NewKeeps
<1>2. ASSUME NEW c \in Clients,
             \/ ErlangWithToken(c) \/ ErlangMutated(c)
             \/ GleamWithToken(c) \/ GleamWithTimeout(c)
      PROVE  Inv'
  BY <1>2, ChangeKeeps
<1>3. ASSUME NEW c \in Clients, Read(c) PROVE Inv'
  <2>1. Ready(c) /\ \E op \in Ops : \E named : Send(ToRegistry(c, op, named, None))
    BY <1>3 DEF Read, Ops
  <2> QED  BY <2>1, ToRegistryKeeps
<1>4. ASSUME NEW c \in Clients, Write(c) PROVE Inv'
  <2>1. Ready(c) /\ Authorized(c)
        /\ \E op \in Ops : \E named : Send(ToRegistry(c, op, named, client[c].token))
    BY <1>4 DEF Write, Ops
  <2> QED  BY <2>1, ToRegistryKeeps
<1>5. ASSUME NEW c \in Clients, Download(c) PROVE Inv'
  BY <1>5, DownloadKeeps
<1>6. ASSUME call' = None, UNCHANGED <<client, given>>, Dated' PROVE Inv'
  BY <1>6 DEF Inv, Kept, Addressed
<1>7. CASE Answered
  BY <1>6, <1>7 DEF Answered, Inv, Dated
<1>8. ASSUME NEW to \in Locations, Redirected(to) PROVE Inv'
  BY <1>6, <1>8 DEF Redirected, Inv, Dated
<1>9. CASE UNCHANGED vars
  BY <1>9 DEF vars, Inv, Kept, Addressed, Dated, TokenStaysHome, NeverDowngraded
<1> QED  BY <1>1, <1>2, <1>3, <1>4, <1>5, <1>7, <1>8, <1>9 DEF Next

LEMMA AlwaysInv == Spec => []Inv
BY InitInv, NextInv, PTL DEF Spec
-----------------------------------------------------------------------------
(* Which route a request has.                                               *)

Words == {"v1", "packages", "versions", "yank", "artifacts", "orgs", "search"}

\* The characters of texts and of what they are written in.
Letters == STRING \union {"/"} \union DOMAIN Code \union Range(Code) \union Words

LEMMA LettersFacts ==
    /\ Alphabet(Letters) /\ Text \subseteq Seq(Letters)
    /\ \A w \in Words : Word(w) \in Seq(Letters) \ DotSegments
<1>1. Alphabet(Letters)
  BY DEF Alphabet, Letters
<1>2. Text \subseteq Seq(Letters)
  BY SeqMonotonic DEF Text, Letters
<1>3. ASSUME NEW w \in Words PROVE Word(w) \in Seq(Letters) \ DotSegments
  <2>1. w \in Letters /\ w # "."
    BY DEF Words, Letters
  <2>2. Word(w) \in Seq(Letters)
    BY <2>1 DEF Word
  <2>3. Word(w) \notin DotSegments
    BY <2>1 DEF Word, DotSegments
  <2> QED BY <2>2, <2>3
<1> QED BY <1>1, <1>2, <1>3

\* A nonempty set of numbers that are bounded has a largest.
LEMMA MaxOf ==
    ASSUME NEW n \in Nat, NEW S \in SUBSET (0..n), S # {}
    PROVE  Max(S) \in S
<1> DEFINE R == OpToRel(<, Nat)
           T == {m \in Nat : \A x \in S : x <= m}
<1>1. IsWellFoundedOn(R, Nat)
  BY NatLessThanWellFounded
<1>2. \A m, k \in Nat : <<m, k>> \in R <=> m < k
  BY DEF OpToRel
<1> HIDE DEF R
<1>3. n \in T /\ T \subseteq Nat
  OBVIOUS
<1>4. PICK m \in T : \A k \in T : <<k, m>> \notin R
  BY <1>1, <1>3, WFMin
<1>5. m \in Nat /\ \A x \in S : x <= m /\ x \in Nat
  OBVIOUS
<1>6. m \in S
  <2>1. CASE m = 0
    <3>1. PICK x \in S : x <= m /\ x \in Nat
      BY <1>5
    <3> QED BY <2>1, <3>1
  <2>2. CASE m # 0 /\ m \notin S
    <3>1. m - 1 \in Nat /\ m - 1 < m /\ \A x \in S : x <= m - 1
      BY <1>5, <2>2
    <3>2. m - 1 \in T
      BY <3>1
    <3> QED BY <1>2, <1>4, <1>5, <3>1, <3>2
  <2> QED BY <2>1, <2>2
<1> QED BY <1>5, <1>6 DEF Max

LEMMA WithoutTrailingIs ==
    ASSUME NEW C, NEW path \in Seq(C)
    PROVE  /\ WithoutTrailing(path) \in Seq(C)
           /\ \A i \in DOMAIN WithoutTrailing(path) :
                i \in DOMAIN path /\ WithoutTrailing(path)[i] = path[i]
<1> DEFINE S == {0} \union {i \in DOMAIN path : path[i] # <<>>}
           n == Max(S)
<1>1. Len(path) \in Nat /\ DOMAIN path = 1..Len(path)
  BY LenProperties
<1>2. n \in S
  <2>1. S \in SUBSET (0..Len(path)) /\ S # {}
    BY <1>1
  <2> HIDE DEF S
  <2> QED BY <1>1, <2>1, MaxOf
<1>3. n \in 0..Len(path)
  BY <1>1, <1>2
<1> HIDE DEF n
<1> DEFINE w == SubSeq(path, 1, n)
<1>4. /\ w \in Seq(C) /\ DOMAIN w = 1..n /\ \A i \in 1..n : w[i] = path[i] /\ i \in 1..Len(path)
  <2>1. \A i \in 1..n : path[i] \in C /\ i \in 1..Len(path)
    BY <1>1, <1>3, ElementOfSeq
  <2>2. n \in Nat /\ w = [i \in 1..n |-> path[i]]
    BY <1>1, <1>3
  <2> QED BY <2>1, <2>2, SeqDef
<1>5. WithoutTrailing(path) = w
  BY DEF WithoutTrailing, n
<1> QED BY <1>1, <1>4, <1>5

\* The path of a client's registry: text in which no segment escapes the base, unless
\* it is checked at each call.
PathSound(home) ==
    /\ home.path \in Seq(Text)
    /\ home.sdk # "erlang" => \A i \in DOMAIN home.path : SegmentAllowed(home.path[i])

Routed ==
    /\ \A c \in Clients : client[c] # None => PathSound(client[c])
    /\ RoutesAreNamed

LEMMA SettingsPathSound ==
    ASSUME NEW sdk, NEW url, url.path \in Seq(Text), NEW token, NEW refused, NEW insecure,
           sdk # "erlang" => \A i \in DOMAIN url.path : SegmentAllowed(url.path[i])
    PROVE  PathSound(Settings(sdk, url, token, refused, insecure))
<1> DEFINE home == Settings(sdk, url, token, refused, insecure)
<1>1. home.sdk = sdk /\ home.path = WithoutTrailing(url.path)
  BY DEF Settings
<1> HIDE DEF home
<1>2. /\ WithoutTrailing(url.path) \in Seq(Text)
      /\ \A i \in DOMAIN WithoutTrailing(url.path) :
            i \in DOMAIN url.path /\ WithoutTrailing(url.path)[i] = url.path[i]
  BY WithoutTrailingIs
<1>3. PathSound(home)
  BY <1>1, <1>2 DEF PathSound
<1> QED BY <1>3 DEF home

\* Every segment that is allowed holds no separator, nor is read as a dot segment.
LEMMA AllowedSegment ==
    ASSUME NEW encoded \in Text, SegmentAllowed(encoded)
    PROVE  /\ encoded \in Seq(Letters \ {"/"})
           /\ Unquote(encoded) \in Seq(Letters) \ DotSegments
<1>1. encoded \in Seq(Letters) /\ Alphabet(Letters)
  BY LettersFacts
<1>2. Unquote(encoded) \in Seq(Letters) /\ ("/" \in Range(encoded) => "/" \in Range(Unquote(encoded)))
  BY <1>1, UnquoteKeeps
<1>3. CASE encoded = <<>>
  <2>1. <<>> \in Seq(Letters \ {"/"}) /\ <<>> \notin DotSegments
    BY EmptySeq DEF DotSegments
  <2> QED BY <1>2, <1>3, <2>1, UnquoteEmpty
<1>4. CASE encoded # <<>>
  <2>1. Unquote(encoded) \notin DotSegments /\ "/" \notin Range(Unquote(encoded))
    BY <1>4 DEF SegmentAllowed, Acceptable
  <2>2. "/" \notin Range(encoded)
    BY <1>2, <2>1
  <2>3. encoded \in Seq(Letters \ {"/"})
    <3>1. Len(encoded) \in Nat /\ DOMAIN encoded = 1..Len(encoded)
          /\ \A i \in 1..Len(encoded) : encoded[i] \in Letters
      BY <1>1, LenProperties, ElementOfSeq
    <3>2. \A i \in 1..Len(encoded) : encoded[i] \in Letters \ {"/"}
      BY <2>2, <3>1 DEF Range
    <3>3. encoded = [i \in 1..Len(encoded) |-> encoded[i]]
      BY <1>1
    <3> QED BY <3>1, <3>2, <3>3, SeqDef
  <2> QED BY <1>2, <2>1, <2>3
<1> QED BY <1>3, <1>4

\* The registry reads the base and then what was named.
LEMMA RequestIsRead ==
    ASSUME NEW base \in Seq(Text), \A i \in DOMAIN base : SegmentAllowed(base[i]),
           NEW named \in Seq(Seq(Letters) \ DotSegments)
    PROVE  LET Unquoted(path) == [i \in DOMAIN path |-> Unquote(path[i])]
               read == Unquoted(Tail(Split(Joint(base \o [i \in DOMAIN named |-> Quote(named[i])]))))
           IN  /\ read = Unquoted(base) \o named
               /\ Range(read) \intersect DotSegments = {}
<1> DEFINE D == Letters \ {"/"}
           M == [i \in DOMAIN named |-> Quote(named[i])]
           p == base \o M
           Unquoted(path) == [i \in DOMAIN path |-> Unquote(path[i])]
           good == Seq(Letters) \ DotSegments
           b == Unquoted(base)
           r == Unquoted(p)
<1>1. /\ Len(base) \in Nat /\ DOMAIN base = 1..Len(base)
      /\ \A i \in 1..Len(base) : base[i] \in Seq(D) /\ Unquote(base[i]) \in good
  <2>1. Len(base) \in Nat /\ DOMAIN base = 1..Len(base) /\ \A i \in 1..Len(base) : base[i] \in Text
    BY LenProperties, ElementOfSeq
  <2> QED BY <2>1, AllowedSegment
<1>2. /\ Len(named) \in Nat /\ DOMAIN named = 1..Len(named)
      /\ \A i \in 1..Len(named) : named[i] \in good /\ named[i] \in Seq(Letters)
  BY LenProperties, ElementOfSeq
<1>3. \A t \in Seq(Letters) : Quote(t) \in Seq(D) /\ Unquote(Quote(t)) = t
  BY LettersFacts, QuoteIsASegment, RoundTrip
<1> HIDE DEF D, good
<1>4. M \in Seq(Seq(D)) /\ Len(M) = Len(named) /\ \A i \in 1..Len(named) : M[i] = Quote(named[i])
  <2>1. \A i \in 1..Len(named) : Quote(named[i]) \in Seq(D)
    BY <1>2, <1>3
  <2> QED BY <1>2, <2>1, SeqDef
<1>5. /\ base \in Seq(Seq(D)) /\ b \in Seq(good) /\ Len(b) = Len(base)
      /\ \A i \in 1..Len(base) : b[i] = Unquote(base[i])
  <2>1. base = [i \in 1..Len(base) |-> base[i]]
    BY <1>1
  <2>2. base \in Seq(Seq(D))
    BY <1>1, <2>1, SeqDef
  <2>3. b = [i \in 1..Len(base) |-> Unquote(base[i])]
    BY <1>1
  <2> QED BY <1>1, <2>2, <2>3, SeqDef
<1> HIDE DEF M, b
<1>6. /\ p \in Seq(Seq(D)) /\ Len(p) = Len(base) + Len(named)
      /\ \A i \in 1..(Len(base) + Len(named)) :
            p[i] = IF i <= Len(base) THEN base[i] ELSE M[i - Len(base)]
  <2>1. \A u, v \in Seq(Seq(D)) :
          /\ u \o v \in Seq(Seq(D)) /\ Len(u \o v) = Len(u) + Len(v)
          /\ \A i \in 1..(Len(u) + Len(v)) : (u \o v)[i] = IF i <= Len(u) THEN u[i] ELSE v[i - Len(u)]
    BY ConcatProperties
  <2>2. /\ base \o M \in Seq(Seq(D)) /\ Len(base \o M) = Len(base) + Len(M)
        /\ \A i \in 1..(Len(base) + Len(M)) :
              (base \o M)[i] = IF i <= Len(base) THEN base[i] ELSE M[i - Len(base)]
    BY <1>4, <1>5, <2>1
  <2>3. Len(M) = Len(named)
    BY <1>4
  <2> QED BY <2>2, <2>3
<1>7. /\ b \o named \in Seq(good) /\ Len(b \o named) = Len(base) + Len(named)
      /\ \A i \in 1..(Len(base) + Len(named)) :
            (b \o named)[i] = IF i <= Len(base) THEN b[i] ELSE named[i - Len(base)]
  <2>1. named \in Seq(good)
    BY DEF good
  <2>2. \A u, v \in Seq(good) :
          /\ u \o v \in Seq(good) /\ Len(u \o v) = Len(u) + Len(v)
          /\ \A i \in 1..(Len(u) + Len(v)) : (u \o v)[i] = IF i <= Len(u) THEN u[i] ELSE v[i - Len(u)]
    BY ConcatProperties
  <2>3. /\ b \o named \in Seq(good) /\ Len(b \o named) = Len(b) + Len(named)
        /\ \A i \in 1..(Len(b) + Len(named)) :
              (b \o named)[i] = IF i <= Len(b) THEN b[i] ELSE named[i - Len(b)]
    BY <1>5, <2>1, <2>2
  <2>4. Len(b) = Len(base)
    BY <1>5
  <2> QED BY <2>3, <2>4
<1> HIDE DEF p
<1>8. DOMAIN p = 1..(Len(base) + Len(named))
  BY <1>1, <1>2, <1>6
<1>9. \A i \in 1..(Len(base) + Len(named)) : Unquote(p[i]) = (b \o named)[i]
  <2> TAKE i \in 1..(Len(base) + Len(named))
  <2>1. CASE i <= Len(base)
    <3>1. i \in 1..Len(base)
      BY <1>1, <1>2, <2>1
    <3> QED BY <1>5, <1>6, <1>7, <2>1, <3>1
  <2>2. CASE ~ (i <= Len(base))
    <3>1. i - Len(base) \in 1..Len(named)
      BY <1>1, <1>2, <2>2
    <3>2. p[i] = Quote(named[i - Len(base)]) /\ (b \o named)[i] = named[i - Len(base)]
      BY <1>4, <1>6, <1>7, <2>2, <3>1
    <3> QED BY <1>2, <1>3, <3>1, <3>2
  <2> QED BY <2>1, <2>2
<1>10. r = b \o named
  <2>1. b \o named = [i \in 1..(Len(base) + Len(named)) |-> (b \o named)[i]]
    <3>1. \A u \in Seq(good) : u = [i \in 1..Len(u) |-> u[i]]
      OBVIOUS
    <3> QED BY <1>7, <3>1
  <2>2. r = [i \in 1..(Len(base) + Len(named)) |-> Unquote(p[i])]
    BY <1>8
  <2> QED BY <1>9, <2>1, <2>2
<1>11. Range(b \o named) \intersect DotSegments = {}
  <2>1. \A i \in DOMAIN (b \o named) : (b \o named)[i] \in good
    BY <1>7, LenProperties, ElementOfSeq
  <2> QED BY <2>1 DEF Range, good
<1>12. Tail(Split(Joint(p))) = p
  <2>1. "/" \in Letters
    BY DEF Letters
  <2> QED BY <1>6, <2>1, SplitJoint DEF D
<1> HIDE DEF r
<1>13. /\ Unquoted(Tail(Split(Joint(p)))) = r /\ r = b \o named
       /\ Range(r) \intersect DotSegments = {}
  BY <1>10, <1>11, <1>12 DEF r
<1> QED BY <1>13 DEF p, M, b

LEMMA InitRouted == Init => Routed
BY DEF Init, Routed, RoutesAreNamed

\* A change of a client that no call is under way of.
LEMMA BecomeRouted ==
    ASSUME Inv, Routed, NEW c \in Clients, client[c] = None \/ call = None,
           NEW home, NEW said, Become(c, home, said), PathSound(home)
    PROVE  Routed'
<1>1. /\ client' = [client EXCEPT ![c] = home] /\ call' = call /\ DOMAIN client = Clients
  BY DEF Become, Inv, Kept
<1>2. \A d \in Clients : client'[d] # None => PathSound(client'[d])
  BY <1>1 DEF Routed
<1>3. RoutesAreNamed'
  <2>1. CASE call = None
    BY <1>1, <2>1 DEF RoutesAreNamed
  <2>2. CASE call # None
    <3>1. call.client # c /\ call.client \in Clients
      BY <2>2 DEF Inv, Addressed
    <3>2. client'[call.client] = client[call.client]
      BY <1>1, <3>1
    <3> QED BY <1>1, <3>2 DEF Routed, RoutesAreNamed
  <2> QED BY <2>1, <2>2
<1> QED BY <1>2, <1>3 DEF Routed

LEMMA ClientsRouted ==
    ASSUME Inv, Routed, NEW c \in Clients,
           \/ Construct(c) \/ NewErlang(c) \/ NewGleam(c)
           \/ ErlangWithToken(c) \/ ErlangMutated(c)
           \/ GleamWithToken(c) \/ GleamWithTimeout(c)
    PROVE  Routed'
<1>1. \A url \in Urls : url.path \in Seq(Text)
  BY TextAssumption
<1>2. ASSUME NEW home, NEW said, client[c] = None \/ call = None,
             Become(c, home, said), PathSound(home)
      PROVE  Routed'
  BY <1>2, BecomeRouted
<1>3. CASE Construct(c)
  <2>1. PICK url \in Urls, token \in Tokens \union {None}, insecure \in BOOLEAN :
          /\ Accepted("python", url)
          /\ Become(c, Settings("python", url, token, FALSE, insecure), Given(url, token, insecure))
    BY <1>3 DEF Construct
  <2>2. PathSound(Settings("python", url, token, FALSE, insecure))
    BY <1>1, <2>1, SettingsPathSound DEF Accepted
  <2> QED BY <1>2, <1>3, <2>1, <2>2 DEF Construct
<1>4. CASE NewErlang(c)
  <2>1. PICK url \in Urls :
          Become(c, Settings("erlang", url, None, FALSE, FALSE), Given(url, None, FALSE))
    BY <1>4 DEF NewErlang
  <2>2. PathSound(Settings("erlang", url, None, FALSE, FALSE))
    BY <1>1, SettingsPathSound
  <2> QED BY <1>2, <1>4, <2>1, <2>2 DEF NewErlang
<1>5. CASE NewGleam(c)
  <2>1. PICK url \in Urls :
          LET refused == ~ Accepted("gleam", url)
          IN  Become(c, Settings("gleam", IF refused THEN DefaultRegistry ELSE url,
                                 None, refused, FALSE),
                     Given(url, None, FALSE))
    BY <1>5 DEF NewGleam
  <2> DEFINE refused == ~ Accepted("gleam", url)
             taken == IF refused THEN DefaultRegistry ELSE url
  <2>2. DefaultRegistry.path \in Seq(Text) /\ DOMAIN DefaultRegistry.path = {}
    <3>1. DefaultRegistry.path = <<>>
      BY DEF DefaultRegistry, Url
    <3> QED BY <3>1, EmptySeq
  <2>3. taken.path \in Seq(Text) /\ \A i \in DOMAIN taken.path : SegmentAllowed(taken.path[i])
    BY <1>1, <2>2 DEF Accepted
  <2>4. Become(c, Settings("gleam", taken, None, refused, FALSE), Given(url, None, FALSE))
    BY <2>1
  <2> HIDE DEF taken, refused
  <2>5. PathSound(Settings("gleam", taken, None, refused, FALSE))
    BY <2>3, SettingsPathSound
  <2> QED BY <1>2, <1>5, <2>4, <2>5 DEF NewGleam
<1>6. ASSUME call = None, client[c] # None, NEW home, NEW said, Become(c, home, said),
             home.sdk = client[c].sdk, home.path = client[c].path
      PROVE  Routed'
  <2>1. PathSound(home)
    BY <1>6 DEF PathSound, Routed
  <2> QED BY <1>2, <1>6, <2>1
<1>7. CASE ErlangWithToken(c)
  <2>1. PICK token \in Tokens \union {None, Unsafe} :
        Become(c, [client[c] EXCEPT !.token = IF token = Unsafe THEN None ELSE token,
                                    !.refused = token = Unsafe],
               [given[c] EXCEPT !.token = token])
    BY <1>7 DEF ErlangWithToken
  <2> DEFINE home == [client[c] EXCEPT !.token = IF token = Unsafe THEN None ELSE token,
                                       !.refused = token = Unsafe]
  <2>2. home.sdk = client[c].sdk /\ home.path = client[c].path
    OBVIOUS
  <2> QED BY <1>6, <1>7, <2>1, <2>2 DEF ErlangWithToken, Settled
<1>8. CASE ErlangMutated(c)
  <2>1. CASE \E url \in Urls, spelling \in Spellings :
            LET new == Settings("erlang", url, client[c].token, client[c].refused, FALSE)
            IN  Become(c, [new EXCEPT !.spelling = spelling], Given(url, given[c].token, FALSE))
    <3>1. PICK url \in Urls, spelling \in Spellings :
                Become(c, [Settings("erlang", url, client[c].token, client[c].refused, FALSE)
                              EXCEPT !.spelling = spelling],
                       Given(url, given[c].token, FALSE))
      BY <2>1
    <3> DEFINE new == Settings("erlang", url, client[c].token, client[c].refused, FALSE)
               home == [new EXCEPT !.spelling = spelling]
    <3>2. PathSound(new)
      BY <1>1, SettingsPathSound
    <3>3. home.sdk = new.sdk /\ home.path = new.path
      BY DEF Settings
    <3>4. Become(c, home, Given(url, given[c].token, FALSE))
      BY <3>1
    <3> HIDE DEF new, home
    <3>5. PathSound(home)
      BY <3>2, <3>3 DEF PathSound
    <3> QED BY <1>2, <1>8, <3>4, <3>5 DEF ErlangMutated, Settled
  <2>2. CASE \E token \in Tokens \union {None, Unsafe}, refused \in {client[c].refused, FALSE} :
                Become(c, [client[c] EXCEPT !.token = token, !.refused = refused],
                       [given[c] EXCEPT !.token = token])
    <3>1. PICK token \in Tokens \union {None, Unsafe}, refused \in {client[c].refused, FALSE} :
                Become(c, [client[c] EXCEPT !.token = token, !.refused = refused],
                       [given[c] EXCEPT !.token = token])
      BY <2>2
    <3> DEFINE home == [client[c] EXCEPT !.token = token, !.refused = refused]
    <3>2. home.sdk = client[c].sdk /\ home.path = client[c].path
      OBVIOUS
    <3> QED BY <1>6, <1>8, <3>1, <3>2 DEF ErlangMutated, Settled
  <2> QED BY <1>8, <2>1, <2>2 DEF ErlangMutated
<1>9. CASE GleamWithToken(c)
  <2>1. PICK token \in Tokens \union {None} :
        Become(c, [client[c] EXCEPT !.token = token], [given[c] EXCEPT !.token = token])
    BY <1>9 DEF GleamWithToken
  <2> DEFINE home == [client[c] EXCEPT !.token = token]
  <2>2. home.sdk = client[c].sdk /\ home.path = client[c].path
    OBVIOUS
  <2> QED BY <1>6, <1>9, <2>1, <2>2 DEF GleamWithToken, Settled
<1>10. CASE GleamWithTimeout(c)
  <2> DEFINE home == [client[c] EXCEPT !.refused = TRUE]
  <2>1. home.sdk = client[c].sdk /\ home.path = client[c].path
    OBVIOUS
  <2> QED BY <1>6, <1>10, <2>1 DEF GleamWithTimeout, Settled
<1> QED BY <1>3, <1>4, <1>5, <1>7, <1>8, <1>9, <1>10

\* A client that is used has a base in which every segment is allowed.
LEMMA UsableBase ==
    ASSUME Inv, Routed, NEW c \in Clients, Ready(c)
    PROVE  /\ client[c].path \in Seq(Text)
           /\ \A i \in DOMAIN client[c].path : SegmentAllowed(client[c].path[i])
<1>1. PathSound(client[c]) /\ Usable(c)
  BY DEF Ready, Routed
<1>2. CASE client[c].sdk = "erlang"
  BY <1>1, <1>2 DEF Usable, Accepted, PathSound
<1>3. CASE client[c].sdk # "erlang"
  BY <1>1, <1>3 DEF PathSound
<1> QED BY <1>2, <1>3

LEMMA ToRegistryRouted ==
    ASSUME Inv, Routed, NEW c \in Clients, Ready(c), NEW op, NEW token,
           NEW named \in Seq(Seq(Letters) \ DotSegments),
           Send(ToRegistry(c, op, named, token))
    PROVE  Routed'
<1>1. /\ call' = ToRegistry(c, op, named, token) /\ client' = client
      /\ call'.client = c /\ call'.named = named
      /\ call'.path = client[c].path \o [i \in DOMAIN named |-> Quote(named[i])]
  BY DEF Send, ToRegistry
<1> DEFINE Unquoted(path) == [i \in DOMAIN path |-> Unquote(path[i])]
           sent == client[c].path \o [i \in DOMAIN named |-> Quote(named[i])]
           seen == Unquoted(Tail(Split(Joint(sent))))
<1>2. seen = Unquoted(client[c].path) \o named /\ Range(seen) \intersect DotSegments = {}
  BY UsableBase, RequestIsRead
<1>3. seen = Unquoted(Tail(Split(Joint(call'.path))))
  BY <1>1
<1> HIDE DEF sent, seen
<1>4. RoutesAreNamed'
  BY <1>1, <1>2, <1>3 DEF RoutesAreNamed
<1> QED BY <1>1, <1>4 DEF Routed

\* What may be named.
LEMMA NamedIsText ==
    /\ \A t \in Text : Acceptable(t) => t \in Seq(Letters) \ DotSegments
    /\ OrgsPath \in Seq(Seq(Letters) \ DotSegments)
    /\ SearchPath \in Seq(Seq(Letters) \ DotSegments)
    /\ \A sha \in Text : Acceptable(sha) => ArtifactPath(sha) \in Seq(Seq(Letters) \ DotSegments)
    /\ \A at \in Coordinates :
        /\ AllAcceptable(<<at[1], at[2]>>) => PackagePath(at) \in Seq(Seq(Letters) \ DotSegments)
        /\ AllAcceptable(at) =>
            VersionPath(at) \in Seq(Seq(Letters) \ DotSegments)
            /\ YankPath(at) \in Seq(Seq(Letters) \ DotSegments)
<1> DEFINE good == Seq(Letters) \ DotSegments
<1>1. \A t \in Text : Acceptable(t) => t \in good
  BY LettersFacts DEF Acceptable
<1>2. /\ Word("v1") \in good /\ Word("packages") \in good /\ Word("versions") \in good
      /\ Word("yank") \in good /\ Word("artifacts") \in good /\ Word("orgs") \in good
      /\ Word("search") \in good
  BY LettersFacts DEF Words
<1> HIDE DEF good
<1>3. OrgsPath \in Seq(good) /\ SearchPath \in Seq(good)
  BY <1>2 DEF OrgsPath, SearchPath
<1>4. \A sha \in Text : Acceptable(sha) => ArtifactPath(sha) \in Seq(good)
  BY <1>1, <1>2 DEF ArtifactPath
<1>5. ASSUME NEW at \in Coordinates, AllAcceptable(<<at[1], at[2]>>)
      PROVE  PackagePath(at) \in Seq(good)
  <2>1. at[1] \in Text /\ at[2] \in Text
    BY TextAssumption
  <2>2. Acceptable(at[1]) /\ Acceptable(at[2])
    BY <1>5 DEF AllAcceptable
  <2> QED BY <1>1, <1>2, <2>1, <2>2 DEF PackagePath
<1>6. ASSUME NEW at \in Coordinates, AllAcceptable(at)
      PROVE  VersionPath(at) \in Seq(good) /\ YankPath(at) \in Seq(good)
  <2>1. at[1] \in Text /\ at[2] \in Text /\ at[3] \in Text /\ DOMAIN at = 1..3
    BY TextAssumption
  <2>2. Acceptable(at[1]) /\ Acceptable(at[2]) /\ Acceptable(at[3])
    BY <1>6, <2>1 DEF AllAcceptable
  <2>3. AllAcceptable(<<at[1], at[2]>>)
    BY <2>2 DEF AllAcceptable
  <2>4. PackagePath(at) \in Seq(good)
    BY <1>5, <2>3
  <2>5. <<Word("versions"), at[3]>> \in Seq(good) /\ <<Word("yank")>> \in Seq(good)
    BY <1>1, <1>2, <2>1, <2>2
  <2>6. \A u, v \in Seq(good) : u \o v \in Seq(good)
    BY ConcatProperties
  <2>7. VersionPath(at) \in Seq(good)
    BY <2>4, <2>5, <2>6 DEF VersionPath
  <2> QED BY <2>5, <2>6, <2>7 DEF YankPath
<1> QED BY <1>1, <1>3, <1>4, <1>5, <1>6 DEF good

LEMMA RequestsRouted ==
    ASSUME Inv, Routed, NEW c \in Clients, Read(c) \/ Write(c) \/ Download(c)
    PROVE  Routed'
<1> DEFINE good == Seq(Letters) \ DotSegments
<1>1. Ready(c)
  BY DEF Read, Write, Download
<1>2. ASSUME \E op, token : \E named \in Seq(good) : Send(ToRegistry(c, op, named, token))
      PROVE  Routed'
  BY <1>1, <1>2, ToRegistryRouted
<1>3. /\ OrgsPath \in Seq(good) /\ SearchPath \in Seq(good)
      /\ \A sha \in Text : Acceptable(sha) => ArtifactPath(sha) \in Seq(good)
      /\ \A at \in Coordinates :
        /\ AllAcceptable(<<at[1], at[2]>>) => PackagePath(at) \in Seq(good)
        /\ AllAcceptable(at) => VersionPath(at) \in Seq(good) /\ YankPath(at) \in Seq(good)
  BY NamedIsText
<1> HIDE DEF good
<1>4. CASE Read(c)
  <2>1. \E op, token : \E named \in Seq(good) : Send(ToRegistry(c, op, named, token))
    BY <1>3, <1>4 DEF Read
  <2> QED BY <1>2, <2>1
<1>5. CASE Write(c)
  <2>1. \E op, token : \E named \in Seq(good) : Send(ToRegistry(c, op, named, token))
    BY <1>3, <1>5 DEF Write
  <2> QED BY <1>2, <2>1
<1>6. CASE Download(c) /\ version.location.form = "empty"
  <2>1. version.sha \in Text
    BY <1>6, TextAssumption DEF Download, Inv, Dated
  <2>2. \E op, token : \E named \in Seq(good) : Send(ToRegistry(c, op, named, token))
    BY <1>3, <1>6, <2>1 DEF Download
  <2> QED BY <1>2, <2>2
<1>7. CASE Download(c) /\ version.location.form # "empty"
  <2>1. call'.op = "fetch" /\ client' = client
    BY <1>7 DEF Download, Send
  <2> QED BY <2>1 DEF Routed, RoutesAreNamed
<1> QED BY <1>4, <1>5, <1>6, <1>7

LEMMA NextRouted == Inv /\ Routed /\ [Next]_vars => Routed'
<1> SUFFICES ASSUME Inv, Routed, [Next]_vars PROVE Routed'
  OBVIOUS
<1>1. ASSUME NEW c \in Clients,
             \/ Construct(c) \/ NewErlang(c) \/ NewGleam(c)
             \/ ErlangWithToken(c) \/ ErlangMutated(c)
             \/ GleamWithToken(c) \/ GleamWithTimeout(c)
      PROVE  Routed'
  BY <1>1, ClientsRouted
<1>2. ASSUME NEW c \in Clients, Read(c) \/ Write(c) \/ Download(c) PROVE Routed'
  BY <1>2, RequestsRouted
<1>3. CASE Answered \/ \E to \in Locations : Redirected(to)
  <2>1. call' = None /\ client' = client
    BY <1>3 DEF Answered, Redirected
  <2> QED BY <2>1 DEF Routed, RoutesAreNamed
<1>4. CASE UNCHANGED vars
  <2>1. call' = call /\ client' = client
    BY <1>4 DEF vars
  <2> QED BY <2>1 DEF Routed, RoutesAreNamed
<1> QED BY <1>1, <1>2, <1>3, <1>4 DEF Next
-----------------------------------------------------------------------------
(* The theorems. *)

\* Clients, metadata and requests are well typed.
THEOREM ClientTypeCorrect == Spec => []TypeOK
<1>1. Inv => TypeOK
  BY DEF Inv, Kept, Faithful, Addressed, Dated, TypeOK
<1> QED  BY <1>1, AlwaysInv, PTL

\* A token goes only to the registry it was given for, never in cleartext to a public
\* host without leave unless the base of an Erlang map was padded by its caller, and
\* never once it was replaced, whatever registries answer and however clients are
\* changed.
THEOREM TokenAlwaysStaysHome == Spec => []TokenStaysHome
<1>1. Inv => TokenStaysHome
  BY DEF Inv, Addressed, TokenStaysHome
<1> QED  BY <1>1, AlwaysInv, PTL

\* A client of an https registry asks only this machine anything in cleartext.
THEOREM NeverEverDowngraded == Spec => []NeverDowngraded
<1>1. Inv => NeverDowngraded
  BY DEF Inv, Addressed, NeverDowngraded
<1> QED  BY <1>1, AlwaysInv, PTL
\* The route that the registry reads is the one the caller named, below the base that
\* the client was given: whatever is named and whatever the base, no segment is added,
\* left out or walked up from.
THEOREM RoutesAlwaysNamed == Spec => []RoutesAreNamed
<1>1. Inv /\ Routed /\ [Next]_vars => Routed'
  BY NextRouted
<1>2. Routed => RoutesAreNamed
  BY DEF Routed
<1> QED BY <1>1, <1>2, InitRouted, AlwaysInv, PTL DEF Spec
=============================================================================
