----------------------- MODULE MessageAnalysisProofs -----------------------
(***************************************************************************)
(* The analysis of one message, for messages of every length and every     *)
(* limit: what the guest counts byte by byte is what the detector counts   *)
(* character by character, only long messages run out of fuel, and the     *)
(* governed decision is the one that the plain analysis takes.             *)
(***************************************************************************)
EXTENDS MessageAnalysis, WellFoundedInduction, SequenceTheorems, FiniteSetTheorems, TLAPS

----------------------------------------------------------------------------
(* Recursive functions. *)

\* Induction over the naturals, said of a set: a number missing from it would have a least.
LEMMA SetInduction ==
    ASSUME NEW S, 0 \in S, \A n \in Nat : n \in S => n + 1 \in S
    PROVE  Nat \subseteq S
<1> DEFINE T == {n \in Nat : n \notin S}
           R == OpToRel(<, Nat)
<1> SUFFICES ASSUME T # {} PROVE FALSE
  OBVIOUS
<1>1. IsWellFoundedOn(R, Nat)
  BY NatLessThanWellFounded
<1>2. \A a, b \in Nat : a < b => <<a, b>> \in R
  BY DEF OpToRel
<1>3. T \subseteq Nat
  OBVIOUS
<1> HIDE DEF R
<1>4. PICK x \in T : \A y \in T : ~(<<y, x>> \in R)
  BY <1>1, <1>3, WFMin
<1>5. x \in Nat /\ x # 0 /\ x - 1 \in Nat /\ x - 1 < x
  BY <1>4
<1>6. x - 1 \in S
  BY <1>2, <1>4, <1>5
<1>7. (x - 1) + 1 \in S /\ (x - 1) + 1 = x
  BY <1>5, <1>6
<1> QED
  BY <1>4, <1>7

\* The parts of a sequence put together up to each of its first n.
Joined(seqs, g, n) ==
    /\ DOMAIN g = 1 .. n
    /\ \A k \in 1 .. n : g[k] = IF k = 1 THEN seqs[k] ELSE g[k - 1] \o seqs[k]

LEMMA JoinedExists ==
    ASSUME NEW seqs, NEW n \in Nat
    PROVE  \E g : Joined(seqs, g, n)
<1> DEFINE S == {k \in Nat : \E g : Joined(seqs, g, k)}
<1>1. 0 \in S
  <2>1. Joined(seqs, [k \in 1 .. 0 |-> 0], 0)
    BY DEF Joined
  <2> QED
    BY <2>1
<1>2. ASSUME NEW k \in Nat, k \in S PROVE k + 1 \in S
  <2>1. PICK g : Joined(seqs, g, k)
    BY <1>2
  <2> DEFINE h == [j \in 1 .. k + 1 |->
                     IF j <= k THEN g[j] ELSE IF j = 1 THEN seqs[j] ELSE g[j - 1] \o seqs[j]]
  <2>2. ASSUME NEW j \in 1 .. k + 1
        PROVE  h[j] = IF j = 1 THEN seqs[j] ELSE h[j - 1] \o seqs[j]
    <3>1. j \in Nat /\ (j # 1 => j - 1 \in 1 .. k /\ j - 1 <= k)
      OBVIOUS
    <3>2. j # 1 => h[j - 1] = g[j - 1]
      BY <3>1
    <3>3. CASE j <= k
      <4>1. j \in 1 .. k
        BY <3>1, <3>3
      <4> QED
        BY <2>1, <3>2, <3>3, <4>1 DEF Joined
    <3>4. CASE ~(j <= k)
      BY <3>2, <3>4
    <3> QED
      BY <3>3, <3>4
  <2>3. Joined(seqs, h, k + 1)
    BY <2>2 DEF Joined
  <2> QED
    BY <2>3
<1> HIDE DEF S
<1>3. Nat \subseteq S
  BY <1>1, <1>2, SetInduction
<1> QED
  BY <1>3 DEF S

\* What FlattenSeq is: the last of them.
LEMMA FlattenIs ==
    ASSUME NEW seqs, Len(seqs) \in Nat, Len(seqs) # 0
    PROVE  \E g : Joined(seqs, g, Len(seqs)) /\ FlattenSeq(seqs) = g[Len(seqs)]
<1> DEFINE N == Len(seqs)
           Fits(f) == f = [k \in 1 .. N |-> IF k = 1 THEN seqs[k] ELSE f[k - 1] \o seqs[k]]
           F == CHOOSE f : Fits(f)
<1>1. \E f : Fits(f)
  <2>1. PICK g : Joined(seqs, g, N)
    BY JoinedExists
  <2> DEFINE h == [k \in 1 .. N |-> g[k]]
  <2>2. \A k \in 1 .. N : k # 1 => k - 1 \in 1 .. N
    OBVIOUS
  <2>3. \A k \in 1 .. N : h[k] = IF k = 1 THEN seqs[k] ELSE h[k - 1] \o seqs[k]
    BY <2>1, <2>2 DEF Joined
  <2>4. Fits(h)
    BY <2>3
  <2> QED
    BY <2>4
<1>2. Fits(F)
  BY <1>1
<1>3. FlattenSeq(seqs) = F[N]
  BY DEF FlattenSeq
<1> HIDE DEF F
<1>4. Joined(seqs, F, N)
  BY <1>2 DEF Joined
<1> QED
  BY <1>3, <1>4

\* One more part goes to the end.
LEMMA FlattenAppend ==
    ASSUME NEW B, NEW seqs \in Seq(Seq(B)), NEW s \in Seq(B)
    PROVE  FlattenSeq(Append(seqs, s)) = FlattenSeq(seqs) \o s
<1> DEFINE more == Append(seqs, s)
           N == Len(seqs)
<1>1. /\ N \in Nat /\ Len(more) = N + 1 /\ more[N + 1] = s
      /\ \A k \in 1 .. N : more[k] = seqs[k]
  OBVIOUS
<1>2. PICK h : Joined(more, h, N + 1) /\ FlattenSeq(more) = h[N + 1]
  <2>1. Len(more) \in Nat /\ Len(more) # 0
    BY <1>1
  <2>2. \E h : Joined(more, h, Len(more)) /\ FlattenSeq(more) = h[Len(more)]
    BY <2>1, FlattenIs
  <2> QED
    BY <1>1, <2>2
<1>3. CASE N = 0
  <2>1. seqs = <<>> /\ FlattenSeq(seqs) = <<>>
    <3>1. seqs = <<>>
      BY <1>3, EmptySeq
    <3>2. FlattenSeq(seqs) = seqs
      BY <1>3 DEF FlattenSeq
    <3> QED
      BY <3>1, <3>2
  <2>2. h[1] = s
    BY <1>1, <1>2, <1>3 DEF Joined
  <2>3. N + 1 = 1 /\ FlattenSeq(more) = s
    BY <1>2, <1>3, <2>2
  <2>4. <<>> \o s = s
    BY ConcatEmptySeq
  <2> HIDE DEF more
  <2> QED
    BY <2>1, <2>3, <2>4 DEF more
<1>4. CASE N # 0
  <2>1. PICK g : Joined(seqs, g, N) /\ FlattenSeq(seqs) = g[N]
    BY <1>1, <1>4, FlattenIs
  <2> DEFINE S == {k \in Nat : k \in 1 .. N => g[k] = h[k]}
  <2>2. 0 \in S
    OBVIOUS
  <2>3. ASSUME NEW k \in Nat, k \in S PROVE k + 1 \in S
    <3> SUFFICES ASSUME k + 1 \in 1 .. N PROVE g[k + 1] = h[k + 1]
      OBVIOUS
    <3>1. k + 1 \in 1 .. N + 1 /\ more[k + 1] = seqs[k + 1] /\ (k + 1) - 1 = k
      BY <1>1
    <3>2. h[k + 1] = IF k + 1 = 1 THEN more[k + 1] ELSE h[k] \o more[k + 1]
      BY <1>2, <3>1 DEF Joined
    <3>3. g[k + 1] = IF k + 1 = 1 THEN seqs[k + 1] ELSE g[k] \o seqs[k + 1]
      BY <2>1, <3>1 DEF Joined
    <3>4. k + 1 # 1 => k \in 1 .. N
      BY <1>1
    <3> QED
      BY <2>3, <3>1, <3>2, <3>3, <3>4
  <2> HIDE DEF S
  <2>4. Nat \subseteq S
    BY <2>2, <2>3, SetInduction
  <2>5. g[N] = h[N]
    BY <1>1, <1>4, <2>4 DEF S
  <2>6. h[N + 1] = h[N] \o s
    <3>1. N + 1 \in 1 .. N + 1 /\ N + 1 # 1 /\ (N + 1) - 1 = N
      BY <1>1, <1>4
    <3>2. h[N + 1] = IF N + 1 = 1 THEN more[N + 1] ELSE h[(N + 1) - 1] \o more[N + 1]
      BY <1>2, <3>1 DEF Joined
    <3> HIDE DEF more
    <3> QED
      BY <1>1, <3>1, <3>2
  <2> QED
    BY <1>2, <2>1, <2>5, <2>6
<1> QED
  BY <1>3, <1>4
----------------------------------------------------------------------------
(* Bytes and characters. *)

Prefix(text, n) == SubSeq(text, 1, n)
Start(text, n) == Len(Bytes(Prefix(text, n)))

\* A character of one byte, or of three.
Encodes(bytes, a, b, d) ==
    /\ bytes \in Seq(Nat) /\ Len(bytes) = IF b = 0 THEN 1 ELSE 3
    /\ bytes[1] = a /\ (b # 0 => bytes[2] = b /\ bytes[3] = d)

LEMMA Encodings ==
    /\ Encodes(Utf8["o"], 111, 0, 0) /\ Encodes(Utf8["O"], 79, 0, 0) /\ Encodes(Utf8["x"], 120, 0, 0)
    /\ Encodes(Utf8["hira_o"], 227, 129, 138) /\ Encodes(Utf8["kata_o"], 227, 130, 170)
    /\ Encodes(Utf8["hira_a"], 227, 129, 130)
<1>1. /\ Utf8["o"] = <<111>> /\ Utf8["O"] = <<79>> /\ Utf8["x"] = <<120>>
      /\ Utf8["hira_o"] = <<227, 129, 138>> /\ Utf8["kata_o"] = <<227, 130, 170>>
      /\ Utf8["hira_a"] = <<227, 129, 130>>
  BY DEF Utf8
<1>2. \A u : \A a \in Nat : u = <<a>> => Encodes(u, a, 0, 0)
  BY DEF Encodes
<1>3. \A u : \A a, b, d \in Nat : u = <<a, b, d>> /\ b # 0 => Encodes(u, a, b, d)
  BY DEF Encodes
<1> QED
  BY <1>1, <1>2, <1>3

LEMMA CharBytes ==
    ASSUME NEW c \in Chars
    PROVE  /\ Utf8[c] \in Seq(Nat) /\ Len(Utf8[c]) \in {1, 3}
           /\ c \in {"o", "O", "x"} <=> Len(Utf8[c]) = 1
           /\ Utf8[c][1] \in {111, 79} <=> c \in {"o", "O"}
           /\ Utf8[c][1] = 227 <=> Len(Utf8[c]) = 3
<1>1. \/ c = "o" \/ c = "O" \/ c = "x" \/ c = "hira_o" \/ c = "kata_o" \/ c = "hira_a"
  BY DEF Chars
<1>2. ASSUME NEW u, NEW a \in {111, 79}, Encodes(u, a, 0, 0)
      PROVE  /\ u \in Seq(Nat) /\ Len(u) \in {1, 3} /\ Len(u) = 1
             /\ u[1] \in {111, 79} /\ ~(u[1] = 227) /\ ~(Len(u) = 3)
  BY <1>2 DEF Encodes
<1>3. ASSUME NEW u, Encodes(u, 120, 0, 0)
      PROVE  /\ u \in Seq(Nat) /\ Len(u) \in {1, 3} /\ Len(u) = 1
             /\ ~(u[1] \in {111, 79}) /\ ~(u[1] = 227) /\ ~(Len(u) = 3)
  BY <1>3 DEF Encodes
<1>4. ASSUME NEW u, NEW b \in Nat \ {0}, NEW d \in Nat, Encodes(u, 227, b, d)
      PROVE  /\ u \in Seq(Nat) /\ Len(u) \in {1, 3} /\ ~(Len(u) = 1)
             /\ ~(u[1] \in {111, 79}) /\ u[1] = 227 /\ Len(u) = 3
  BY <1>4 DEF Encodes
<1>5. CASE c \in {"o", "O"}
  <2>1. PICK a \in {111, 79} : Encodes(Utf8[c], a, 0, 0)
    BY <1>5, Encodings
  <2>2. c \in {"o", "O", "x"}
    BY <1>5
  <2> QED
    BY <1>2, <1>5, <2>1, <2>2
<1>6. CASE c = "x"
  <2>1. Encodes(Utf8[c], 120, 0, 0)
    BY <1>6, Encodings
  <2>2. c \in {"o", "O", "x"} /\ c \notin {"o", "O"}
    BY <1>6
  <2>3. /\ Utf8[c] \in Seq(Nat) /\ Len(Utf8[c]) \in {1, 3} /\ Len(Utf8[c]) = 1
        /\ ~(Utf8[c][1] \in {111, 79}) /\ ~(Utf8[c][1] = 227) /\ ~(Len(Utf8[c]) = 3)
    BY <1>3, <2>1
  <2> QED
    BY <2>2, <2>3
<1>7. CASE c \in {"hira_o", "kata_o", "hira_a"}
  <2>1. PICK b \in Nat \ {0}, d \in Nat : Encodes(Utf8[c], 227, b, d)
    BY <1>7, Encodings
  <2>2. c \notin {"o", "O", "x"} /\ c \notin {"o", "O"}
    BY <1>7
  <2>3. /\ Utf8[c] \in Seq(Nat) /\ Len(Utf8[c]) \in {1, 3} /\ ~(Len(Utf8[c]) = 1)
        /\ ~(Utf8[c][1] \in {111, 79}) /\ Utf8[c][1] = 227 /\ Len(Utf8[c]) = 3
    BY <1>4, <2>1
  <2> QED
    BY <2>2, <2>3, Zenon
<1> QED
  BY <1>1, <1>5, <1>6, <1>7

LEMMA BytesAppend ==
    ASSUME NEW text \in Seq(Chars), NEW c \in Chars
    PROVE  Bytes(Append(text, c)) = Bytes(text) \o Utf8[c]
<1> DEFINE parts == [p \in DOMAIN text |-> Utf8[text[p]]]
           longer == Append(text, c)
           more == [p \in DOMAIN longer |-> Utf8[longer[p]]]
<1>1. /\ DOMAIN text = 1 .. Len(text) /\ Len(text) \in Nat
      /\ DOMAIN longer = 1 .. Len(text) + 1 /\ longer[Len(text) + 1] = c
      /\ \A p \in 1 .. Len(text) : longer[p] = text[p] /\ text[p] \in Chars
  OBVIOUS
<1>2. Utf8[c] \in Seq(Nat) /\ \A p \in 1 .. Len(text) : Utf8[text[p]] \in Seq(Nat)
  BY <1>1, CharBytes
<1>3. parts \in Seq(Seq(Nat)) /\ Len(parts) = Len(text)
  BY <1>1, <1>2
<1>4. more = Append(parts, Utf8[c])
  <2>1. /\ Append(parts, Utf8[c]) \in Seq(Seq(Nat)) /\ Len(Append(parts, Utf8[c])) = Len(text) + 1
        /\ Append(parts, Utf8[c])[Len(text) + 1] = Utf8[c]
        /\ \A p \in 1 .. Len(text) : Append(parts, Utf8[c])[p] = parts[p]
    BY <1>2, <1>3
  <2>2. \A p \in 1 .. Len(text) + 1 : more[p] \in Seq(Nat) /\ (p # Len(text) + 1 => p \in 1 .. Len(text))
    BY <1>1, <1>2
  <2>3. more \in Seq(Seq(Nat)) /\ Len(more) = Len(text) + 1
    BY <1>1, <2>2
  <2>4. \A p \in 1 .. Len(text) + 1 : more[p] = Append(parts, Utf8[c])[p]
    BY <1>1, <2>1, <2>2
  <2> HIDE DEF more, parts
  <2> QED
    BY <2>1, <2>3, <2>4, SeqEqual
<1> HIDE DEF parts, more
<1>5. FlattenSeq(Append(parts, Utf8[c])) = FlattenSeq(parts) \o Utf8[c]
  BY <1>2, <1>3, FlattenAppend
<1> QED
  BY <1>4, <1>5 DEF Bytes, parts, more

LEMMA PrefixOf ==
    ASSUME NEW S, NEW text \in Seq(S), NEW n \in Nat, n <= Len(text)
    PROVE  /\ Prefix(text, n) \in Seq(S) /\ Len(Prefix(text, n)) = n
           /\ \A p \in 1 .. n : Prefix(text, n)[p] = text[p]
           /\ n = 0 => Prefix(text, n) = <<>>
           /\ n = Len(text) => Prefix(text, n) = text
           /\ n < Len(text) => Prefix(text, n + 1) = Append(Prefix(text, n), text[n + 1])
<1>1. ASSUME NEW m \in Nat, m <= Len(text)
      PROVE  /\ Prefix(text, m) \in Seq(S) /\ Len(Prefix(text, m)) = m
             /\ \A p \in 1 .. m : Prefix(text, m)[p] = text[p]
  BY <1>1 DEF Prefix
<1>2. n = 0 => Prefix(text, n) = <<>>
  BY <1>1, EmptySeq
<1>3. n = Len(text) => Prefix(text, n) = text
  BY <1>1, SeqEqual
<1>4. ASSUME n < Len(text) PROVE Prefix(text, n + 1) = Append(Prefix(text, n), text[n + 1])
  <2> DEFINE one == Prefix(text, n + 1)
             other == Append(Prefix(text, n), text[n + 1])
  <2>1. n + 1 \in Nat /\ n + 1 <= Len(text) /\ text[n + 1] \in S /\ n + 1 \in 1 .. n + 1
    BY <1>4
  <2>2. one \in Seq(S) /\ Len(one) = n + 1 /\ \A p \in 1 .. n + 1 : one[p] = text[p]
    BY <1>1, <2>1
  <2>3. /\ other \in Seq(S) /\ Len(other) = n + 1 /\ other[n + 1] = text[n + 1]
        /\ \A p \in 1 .. n : other[p] = text[p]
    BY <1>1, <2>1
  <2>4. \A p \in 1 .. n + 1 : one[p] = other[p]
    <3>1. \A p \in 1 .. n + 1 : p = n + 1 \/ p \in 1 .. n
      OBVIOUS
    <3> HIDE DEF one, other
    <3> QED
      BY <2>2, <2>3, <3>1
  <2> HIDE DEF one, other
  <2>5. one = other
    BY <2>2, <2>3, <2>4, SeqEqual
  <2> QED
    BY <2>5 DEF one, other
<1>5. /\ Prefix(text, n) \in Seq(S) /\ Len(Prefix(text, n)) = n
      /\ \A p \in 1 .. n : Prefix(text, n)[p] = text[p]
  BY <1>1
<1> QED
  BY <1>2, <1>3, <1>4, <1>5

LEMMA NextBytes ==
    ASSUME NEW text \in Seq(Chars), NEW n \in Nat, n < Len(text)
    PROVE  Bytes(Prefix(text, n + 1)) = Bytes(Prefix(text, n)) \o Utf8[text[n + 1]]
<1>1. text[n + 1] \in Chars
  OBVIOUS
<1>2. Prefix(text, n) \in Seq(Chars) /\ Prefix(text, n + 1) = Append(Prefix(text, n), text[n + 1])
  <2>1. n <= Len(text)
    OBVIOUS
  <2> QED
    BY <2>1, PrefixOf
<1>3. Bytes(Append(Prefix(text, n), text[n + 1])) = Bytes(Prefix(text, n)) \o Utf8[text[n + 1]]
  BY <1>1, <1>2, BytesAppend
<1> QED
  BY <1>2, <1>3
\* Where the characters of a message begin in its bytes.
LEMMA Starts ==
    ASSUME NEW text \in Seq(Chars)
    PROVE  /\ \A n \in 0 .. Len(text) : Bytes(Prefix(text, n)) \in Seq(Nat) /\ Start(text, n) \in Nat
           /\ Start(text, 0) = 0
           /\ \A n \in 0 .. Len(text) - 1 :
                 Start(text, n + 1) = Start(text, n) + Len(Utf8[text[n + 1]])
<1> DEFINE S == {n \in Nat : n <= Len(text) => Bytes(Prefix(text, n)) \in Seq(Nat)}
<1>1. Bytes(Prefix(text, 0)) = <<>>
  <2>1. Prefix(text, 0) = <<>>
    BY PrefixOf
  <2>2. DOMAIN <<>> = {} /\ [p \in {} |-> Utf8[<<>>[p]]] = <<>>
    OBVIOUS
  <2>3. FlattenSeq(<<>>) = <<>>
    BY DEF FlattenSeq
  <2> QED
    BY <2>1, <2>2, <2>3 DEF Bytes
<1>2. 0 \in S
  <2>1. <<>> \in Seq(Nat)
    OBVIOUS
  <2> QED
    BY <1>1, <2>1
<1>3. ASSUME NEW n \in Nat, n \in S PROVE n + 1 \in S
  <2> SUFFICES ASSUME n + 1 <= Len(text) PROVE Bytes(Prefix(text, n + 1)) \in Seq(Nat)
    OBVIOUS
  <2>1. n < Len(text) /\ n <= Len(text) /\ text[n + 1] \in Chars
    OBVIOUS
  <2>2. Bytes(Prefix(text, n + 1)) = Bytes(Prefix(text, n)) \o Utf8[text[n + 1]]
    BY <2>1, NextBytes
  <2>3. Utf8[text[n + 1]] \in Seq(Nat) /\ Bytes(Prefix(text, n)) \in Seq(Nat)
    BY <1>3, <2>1, CharBytes
  <2> QED
    BY <2>2, <2>3, ConcatProperties
<1> HIDE DEF S
<1>4. Nat \subseteq S
  BY <1>2, <1>3, SetInduction
<1>5. ASSUME NEW n \in 0 .. Len(text)
      PROVE  Bytes(Prefix(text, n)) \in Seq(Nat) /\ Start(text, n) \in Nat
  BY <1>4 DEF S, Start
<1>6. Start(text, 0) = 0
  BY <1>1 DEF Start
<1>7. ASSUME NEW n \in 0 .. Len(text) - 1
      PROVE  Start(text, n + 1) = Start(text, n) + Len(Utf8[text[n + 1]])
  <2>1. n \in Nat /\ n < Len(text) /\ text[n + 1] \in Chars /\ n \in 0 .. Len(text)
    OBVIOUS
  <2>2. Bytes(Prefix(text, n + 1)) = Bytes(Prefix(text, n)) \o Utf8[text[n + 1]]
    BY <2>1, NextBytes
  <2>3. Utf8[text[n + 1]] \in Seq(Nat) /\ Bytes(Prefix(text, n)) \in Seq(Nat)
    BY <1>5, <2>1, CharBytes
  <2> QED
    BY <2>2, <2>3, ConcatProperties DEF Start
<1> QED
  BY <1>5, <1>6, <1>7

LEMMA StartsGrow ==
    ASSUME NEW text \in Seq(Chars), NEW a \in 0 .. Len(text), NEW b \in 0 .. Len(text), a < b
    PROVE  Start(text, a) < Start(text, b)
<1> DEFINE S == {m \in Nat : a < m /\ m <= Len(text) => Start(text, a) < Start(text, m)}
<1>1. 0 \in S
  OBVIOUS
<1>2. ASSUME NEW m \in Nat, m \in S PROVE m + 1 \in S
  <2> SUFFICES ASSUME a < m + 1, m + 1 <= Len(text) PROVE Start(text, a) < Start(text, m + 1)
    OBVIOUS
  <2>1. m \in 0 .. Len(text) - 1 /\ m \in 0 .. Len(text) /\ m + 1 \in 0 .. Len(text)
        /\ text[m + 1] \in Chars
    OBVIOUS
  <2>2. Start(text, m + 1) = Start(text, m) + Len(Utf8[text[m + 1]]) /\ Len(Utf8[text[m + 1]]) \in {1, 3}
    BY <2>1, Starts, CharBytes
  <2>3. Start(text, a) \in Nat /\ Start(text, m) \in Nat
    BY <2>1, Starts
  <2>4. a < m => Start(text, a) < Start(text, m)
    BY <1>2, <2>1
  <2>5. a = m \/ a < m
    BY <2>1
  <2>6. \A x, y, z \in Nat, w \in {1, 3} : y = z + w /\ (x = z \/ x < z) => x < y
    OBVIOUS
  <2>7. Start(text, m + 1) \in Nat /\ (Start(text, a) = Start(text, m) \/ Start(text, a) < Start(text, m))
    BY <2>1, <2>4, <2>5, Starts
  <2> QED
    BY <2>2, <2>3, <2>6, <2>7
<1> HIDE DEF S
<1>3. Nat \subseteq S
  BY <1>1, <1>2, SetInduction
<1> QED
  BY <1>3 DEF S

\* A character's bytes lie where it begins.
LEMMA BytesThere ==
    ASSUME NEW text \in Seq(Chars), NEW n \in 0 .. Len(text) - 1,
           NEW k \in 1 .. Len(Utf8[text[n + 1]])
    PROVE  /\ Bytes(text)[Start(text, n) + k] = Utf8[text[n + 1]][k]
           /\ Bytes(text) \in Seq(Nat) /\ Len(Bytes(text)) = Start(text, Len(text))
           /\ Start(text, n) + k \in 1 .. Len(Bytes(text))
<1> DEFINE at == Start(text, n) + k
           S == {m \in Nat : n < m /\ m <= Len(text) =>
                    at \in 1 .. Start(text, m) /\ Bytes(Prefix(text, m))[at] = Utf8[text[n + 1]][k]}
<1>1. n \in Nat /\ n < Len(text) /\ Len(text) \in Nat /\ text[n + 1] \in Chars
      /\ n \in 0 .. Len(text) /\ n + 1 \in 0 .. Len(text) /\ Len(text) \in 0 .. Len(text)
  OBVIOUS
<1>2. Start(text, n) \in Nat /\ Len(Utf8[text[n + 1]]) \in {1, 3} /\ k \in Nat /\ at \in Nat /\ k >= 1
  BY <1>1, Starts, CharBytes
<1>3. 0 \in S
  BY <1>1
<1>4. ASSUME NEW m \in Nat, m \in S PROVE m + 1 \in S
  <2> SUFFICES ASSUME n < m + 1, m + 1 <= Len(text)
               PROVE  at \in 1 .. Start(text, m + 1)
                      /\ Bytes(Prefix(text, m + 1))[at] = Utf8[text[n + 1]][k]
    OBVIOUS
  <2>1. m \in 0 .. Len(text) - 1 /\ m \in 0 .. Len(text) /\ m + 1 \in 0 .. Len(text) /\ m < Len(text)
        /\ text[m + 1] \in Chars
    BY <1>1
  <2>2. /\ Start(text, m + 1) = Start(text, m) + Len(Utf8[text[m + 1]])
        /\ Len(Utf8[text[m + 1]]) \in {1, 3} /\ Utf8[text[m + 1]] \in Seq(Nat)
        /\ Start(text, m) \in Nat /\ Bytes(Prefix(text, m)) \in Seq(Nat)
    BY <2>1, Starts, CharBytes
  <2>3. Bytes(Prefix(text, m + 1)) = Bytes(Prefix(text, m)) \o Utf8[text[m + 1]]
    BY <2>1, NextBytes
  <2>4. \A x \in 1 .. Start(text, m + 1) : Bytes(Prefix(text, m + 1))[x] =
            IF x <= Start(text, m) THEN Bytes(Prefix(text, m))[x] ELSE Utf8[text[m + 1]][x - Start(text, m)]
    BY <2>2, <2>3, ConcatProperties DEF Start
  <2>5. CASE n < m
    <3>1. at \in 1 .. Start(text, m) /\ Bytes(Prefix(text, m))[at] = Utf8[text[n + 1]][k]
      BY <1>4, <2>1, <2>5
    <3> HIDE DEF at
    <3>2. at \in 1 .. Start(text, m + 1) /\ at <= Start(text, m)
      <4>1. Start(text, m + 1) \in Nat /\ Start(text, m) <= Start(text, m + 1)
        BY <2>2
      <4> QED
        BY <2>2, <3>1, <4>1
    <3> QED
      BY <2>4, <3>1, <3>2
  <2>6. CASE n = m
    <3>1. at \in 1 .. Start(text, m + 1) /\ ~(at <= Start(text, m)) /\ at - Start(text, m) = k
      BY <1>2, <2>2, <2>6
    <3> HIDE DEF at
    <3> QED
      BY <2>4, <2>6, <3>1
  <2> QED
    BY <2>1, <2>5, <2>6
<1> HIDE DEF S, at
<1>5. Nat \subseteq S
  BY <1>3, <1>4, SetInduction
<1>6. at \in 1 .. Start(text, Len(text)) /\ Bytes(Prefix(text, Len(text)))[at] = Utf8[text[n + 1]][k]
  BY <1>1, <1>5 DEF S
<1>7. Prefix(text, Len(text)) = text
  BY <1>1, PrefixOf
<1>8. Bytes(text) \in Seq(Nat) /\ Len(Bytes(text)) = Start(text, Len(text))
  BY <1>1, <1>7, Starts DEF Start
<1> QED
  BY <1>6, <1>7, <1>8 DEF at
----------------------------------------------------------------------------
(* What count_oo_sequences finds from a position on. *)

FromThere(text, f, p) ==
    IF p >= Len(text) THEN 0
    ELSE IF SameO(text[p], text[p + 1]) THEN 1 + f[p + 2] ELSE f[p + 1]

OoFrom(text) == CHOOSE f : f = [p \in 1 .. Len(text) + 1 |-> FromThere(text, f, p)]

\* The last k + 1 positions.
Counted(text, g, k) ==
    \A p \in Len(text) + 1 - k .. Len(text) + 1 : g[p] = FromThere(text, g, p)

LEMMA CountedExists ==
    ASSUME NEW text, Len(text) \in Nat
    PROVE  \A k \in 0 .. Len(text) : \E g : Counted(text, g, k)
<1> DEFINE N == Len(text)
           S == {k \in Nat : k <= N => \E g : Counted(text, g, k)}
<1>1. 0 \in S
  <2> DEFINE g == [p \in {N + 1} |-> 0]
  <2>1. \A p \in N + 1 - 0 .. N + 1 : p = N + 1 /\ p >= N
    OBVIOUS
  <2>2. g[N + 1] = 0 /\ FromThere(text, g, N + 1) = 0
    BY DEF FromThere
  <2> HIDE DEF g
  <2>3. Counted(text, g, 0)
    BY <2>1, <2>2 DEF Counted
  <2> QED
    BY <2>3
<1>2. ASSUME NEW k \in Nat, k \in S PROVE k + 1 \in S
  <2> SUFFICES ASSUME k + 1 <= N PROVE \E g : Counted(text, g, k + 1)
    OBVIOUS
  <2>1. PICK g : Counted(text, g, k)
    BY <1>2
  <2> DEFINE h == [p \in N - k .. N + 1 |-> IF p = N - k THEN FromThere(text, g, p) ELSE g[p]]
  <2>2. ASSUME NEW p \in N - k .. N + 1 PROVE h[p] = FromThere(text, h, p)
    <3>1. ASSUME p < N PROVE h[p + 1] = g[p + 1] /\ h[p + 2] = g[p + 2]
      <4>1. p + 1 \in N - k .. N + 1 /\ p + 2 \in N - k .. N + 1 /\ p + 1 # N - k /\ p + 2 # N - k
        BY <3>1
      <4> QED
        BY <4>1
    <3>2. ~(p >= N) => p < N
      OBVIOUS
    <3> HIDE DEF h
    <3>3. FromThere(text, h, p) = FromThere(text, g, p)
      BY <3>1, <3>2 DEF FromThere
    <3>4. CASE p = N - k
      BY <3>3, <3>4 DEF h
    <3>5. CASE p # N - k
      <4>1. p \in N + 1 - k .. N + 1
        BY <3>5
      <4>2. h[p] = g[p]
        BY <3>5 DEF h
      <4> QED
        BY <2>1, <3>3, <4>1, <4>2 DEF Counted
    <3> QED
      BY <3>4, <3>5
  <2> HIDE DEF h
  <2>3. N + 1 - (k + 1) = N - k
    OBVIOUS
  <2>4. Counted(text, h, k + 1)
    BY <2>2, <2>3 DEF Counted
  <2> QED
    BY <2>4
<1> HIDE DEF S
<1>3. Nat \subseteq S
  BY <1>1, <1>2, SetInduction
<1> QED
  BY <1>3 DEF S

LEMMA OoFromIs ==
    ASSUME NEW text, Len(text) \in Nat
    PROVE  /\ OoSequences(text) = OoFrom(text)[1]
           /\ \A p \in 1 .. Len(text) + 1 : OoFrom(text)[p] = FromThere(text, OoFrom(text), p)
<1> DEFINE N == Len(text)
           Fits(f) == f = [p \in 1 .. N + 1 |-> FromThere(text, f, p)]
<1>1. \E f : Fits(f)
  <2>1. N \in 0 .. N
    OBVIOUS
  <2>2. PICK g : Counted(text, g, N)
    BY <2>1, CountedExists
  <2> DEFINE h == [p \in 1 .. N + 1 |-> g[p]]
  <2>3. ASSUME NEW p \in 1 .. N + 1 PROVE h[p] = FromThere(text, h, p)
    <3>1. ASSUME ~(p >= N) PROVE h[p + 1] = g[p + 1] /\ h[p + 2] = g[p + 2]
      <4>1. p + 1 \in 1 .. N + 1 /\ p + 2 \in 1 .. N + 1
        BY <3>1
      <4> QED
        BY <4>1
    <3>2. h[p] = g[p] /\ p \in N + 1 - N .. N + 1
      OBVIOUS
    <3> HIDE DEF h
    <3>3. FromThere(text, h, p) = FromThere(text, g, p)
      BY <3>1 DEF FromThere
    <3> QED
      BY <2>2, <3>2, <3>3 DEF Counted
  <2>4. Fits(h)
    BY <2>3
  <2> QED
    BY <2>4
<1>2. Fits(OoFrom(text))
  BY <1>1 DEF OoFrom
<1>3. OoSequences(text) = OoFrom(text)[1]
  BY DEF OoSequences, OoFrom, FromThere
<1> QED
  BY <1>2, <1>3
LEMMA OoFromType ==
    ASSUME NEW text, Len(text) \in Nat
    PROVE  \A p \in 1 .. Len(text) + 1 : OoFrom(text)[p] \in Nat
<1> DEFINE N == Len(text)
           f == OoFrom(text)
           S == {k \in Nat : k <= N => \A p \in N + 1 - k .. N + 1 : f[p] \in Nat}
<1>1. \A p \in 1 .. N + 1 : f[p] = FromThere(text, f, p)
  BY OoFromIs
<1> HIDE DEF f
<1>2. 0 \in S
  <2>1. \A p \in N + 1 - 0 .. N + 1 : p \in 1 .. N + 1 /\ p >= N
    OBVIOUS
  <2> QED
    BY <1>1, <2>1 DEF FromThere
<1>3. ASSUME NEW k \in Nat, k \in S PROVE k + 1 \in S
  <2> SUFFICES ASSUME k + 1 <= N, NEW p \in N + 1 - (k + 1) .. N + 1 PROVE f[p] \in Nat
    OBVIOUS
  <2>1. p \in 1 .. N + 1
    OBVIOUS
  <2>2. ASSUME ~(p >= N) PROVE f[p + 1] \in Nat /\ f[p + 2] \in Nat
    <3>1. p + 1 \in N + 1 - k .. N + 1 /\ p + 2 \in N + 1 - k .. N + 1
      BY <2>2
    <3> QED
      BY <1>3, <3>1
  <2>3. f[p] = FromThere(text, f, p)
    BY <1>1, <2>1
  <2>4. CASE p >= N
    BY <2>3, <2>4 DEF FromThere
  <2>5. CASE ~(p >= N)
    <3>1. f[p] = 1 + f[p + 2] \/ f[p] = f[p + 1]
      BY <2>3, <2>5 DEF FromThere
    <3> QED
      BY <2>2, <2>5, <3>1
  <2> QED
    BY <2>4, <2>5
<1> HIDE DEF S
<1>4. Nat \subseteq S
  BY <1>2, <1>3, SetInduction
<1> QED
  BY <1>4 DEF S, f

\* The scan of a message, and of every beginning of it, comes by the end of its first n
\* characters, having found c sequences.
Tallied(text, n, c) ==
    \A m \in n .. Len(text) :
        OoSequences(Prefix(text, m)) = c + OoFrom(Prefix(text, m))[n + 1]

LEMMA Tally ==
    ASSUME NEW text \in Seq(Chars), NEW n \in 0 .. Len(text), NEW m \in n .. Len(text)
    PROVE  /\ Len(Prefix(text, m)) = m
           /\ OoSequences(Prefix(text, m)) = OoFrom(Prefix(text, m))[1]
           /\ \A p \in 1 .. m + 1 : OoFrom(Prefix(text, m))[p] \in Nat
           /\ OoFrom(Prefix(text, m))[n + 1] =
                 IF m <= n + 1 THEN 0
                 ELSE IF SameO(text[n + 1], text[n + 2])
                      THEN 1 + OoFrom(Prefix(text, m))[n + 3] ELSE OoFrom(Prefix(text, m))[n + 2]
<1> DEFINE t == Prefix(text, m)
<1>1. m \in Nat /\ m <= Len(text) /\ n \in Nat
  OBVIOUS
<1>2. t \in Seq(Chars) /\ Len(t) = m /\ \A p \in 1 .. m : t[p] = text[p]
  BY <1>1, PrefixOf
<1> HIDE DEF t
<1>3. Len(t) \in Nat
  BY <1>1, <1>2
<1>4. OoSequences(t) = OoFrom(t)[1] /\ \A p \in 1 .. m + 1 : OoFrom(t)[p] \in Nat
  BY <1>2, <1>3, OoFromIs, OoFromType
<1>5. n + 1 \in 1 .. m + 1 /\ (n + 1) + 1 = n + 2 /\ (n + 1) + 2 = n + 3
  OBVIOUS
<1>6. OoFrom(t)[n + 1] = FromThere(t, OoFrom(t), n + 1)
  BY <1>2, <1>3, <1>5, OoFromIs
<1>7. m > n + 1 => t[n + 1] = text[n + 1] /\ t[n + 2] = text[n + 2]
  BY <1>1, <1>2
<1>8. n + 1 >= m <=> m <= n + 1
  BY <1>1
<1>9. ~(m <= n + 1) <=> m > n + 1
  BY <1>1
<1> QED
  BY <1>2, <1>4, <1>5, <1>6, <1>7, <1>8, <1>9 DEF FromThere, t

LEMMA TallyStart == ASSUME NEW text \in Seq(Chars) PROVE Tallied(text, 0, 0)
<1>1. 0 \in 0 .. Len(text) /\ \A m \in 0 .. Len(text) : 0 + 1 \in 1 .. m + 1 /\ 0 + 1 = 1
  OBVIOUS
<1>2. \A m \in 0 .. Len(text) : /\ OoSequences(Prefix(text, m)) = OoFrom(Prefix(text, m))[1]
                                /\ OoFrom(Prefix(text, m))[1] \in Nat
  BY <1>1, Tally
<1> QED
  BY <1>1, <1>2 DEF Tallied

LEMMA TallyEnd ==
    ASSUME NEW text \in Seq(Chars), NEW n \in 0 .. Len(text), NEW c \in Nat, Tallied(text, n, c)
    PROVE  OoSequences(Prefix(text, n)) = c
<1>1. n \in n .. Len(text) /\ n <= n + 1
  OBVIOUS
<1>2. OoFrom(Prefix(text, n))[n + 1] = 0
  BY <1>1, Tally
<1> QED
  BY <1>1, <1>2 DEF Tallied

LEMMA TallyPair ==
    ASSUME NEW text \in Seq(Chars), NEW n \in 0 .. Len(text), NEW c \in Nat, Tallied(text, n, c),
           n + 2 <= Len(text), SameO(text[n + 1], text[n + 2])
    PROVE  Tallied(text, n + 2, c + 1)
<1> SUFFICES ASSUME NEW m \in n + 2 .. Len(text)
             PROVE  OoSequences(Prefix(text, m)) = (c + 1) + OoFrom(Prefix(text, m))[(n + 2) + 1]
  BY DEF Tallied
<1>1. m \in n .. Len(text) /\ ~(m <= n + 1) /\ n + 3 \in 1 .. m + 1 /\ (n + 2) + 1 = n + 3
  OBVIOUS
<1>2. OoFrom(Prefix(text, m))[n + 1] = 1 + OoFrom(Prefix(text, m))[n + 3]
      /\ OoFrom(Prefix(text, m))[n + 3] \in Nat
  BY <1>1, Tally
<1>3. OoSequences(Prefix(text, m)) = c + OoFrom(Prefix(text, m))[n + 1]
  BY <1>1 DEF Tallied
<1> QED
  BY <1>1, <1>2, <1>3

LEMMA TallySkip ==
    ASSUME NEW text \in Seq(Chars), NEW n \in 0 .. Len(text), NEW c \in Nat, Tallied(text, n, c),
           n + 1 <= Len(text), n + 2 <= Len(text) => ~SameO(text[n + 1], text[n + 2])
    PROVE  Tallied(text, n + 1, c)
<1> SUFFICES ASSUME NEW m \in n + 1 .. Len(text)
             PROVE  OoSequences(Prefix(text, m)) = c + OoFrom(Prefix(text, m))[(n + 1) + 1]
  BY DEF Tallied
<1>1. m \in n .. Len(text) /\ (n + 1) + 1 = n + 2 /\ n + 1 \in 0 .. Len(text)
  OBVIOUS
<1>2. OoSequences(Prefix(text, m)) = c + OoFrom(Prefix(text, m))[n + 1]
  BY <1>1 DEF Tallied
<1>3. CASE m <= n + 1
  <2>1. OoFrom(Prefix(text, m))[n + 1] = 0
    BY <1>1, <1>3, Tally
  <2>2. OoFrom(Prefix(text, m))[(n + 1) + 1] = 0
    <3>1. m \in n + 1 .. Len(text) /\ m <= (n + 1) + 1
      BY <1>3
    <3> QED
      BY <1>1, <3>1, Tally
  <2> QED
    BY <1>2, <2>1, <2>2
<1>4. CASE ~(m <= n + 1)
  <2>1. n + 2 <= Len(text)
    BY <1>4
  <2>2. OoFrom(Prefix(text, m))[n + 1] = OoFrom(Prefix(text, m))[n + 2]
    BY <1>1, <1>4, <2>1, Tally
  <2> QED
    BY <1>1, <1>2, <2>2
<1> QED
  BY <1>3, <1>4
----------------------------------------------------------------------------
(* Where the guest stands in a message. *)

\* At the first byte of character n + 1 or inside of it, with c sequences counted. It is only
\* inside of a character that begins no sequence.
Standing(text, n, at, c) ==
    /\ n \in 0 .. Len(text) /\ at \in Nat /\ c \in Nat
    /\ Start(text, n) <= at
    /\ IF n = Len(text) THEN at = Start(text, n) ELSE at < Start(text, n + 1)
    /\ Start(text, n) < at /\ n + 2 <= Len(text) => ~SameO(text[n + 1], text[n + 2])
    /\ c <= n /\ Tallied(text, n, c)

LEMMA StandsFirst == ASSUME NEW text \in Seq(Chars) PROVE Standing(text, 0, 0, 0)
<1>1. Len(text) \in Nat /\ 0 \in 0 .. Len(text) /\ Start(text, 0) = 0
  BY Starts
<1>2. ASSUME 0 # Len(text) PROVE 0 < Start(text, 0 + 1)
  <2>1. 0 \in 0 .. Len(text) - 1 /\ 0 + 1 \in 0 .. Len(text) /\ text[0 + 1] \in Chars
    BY <1>1, <1>2
  <2>2. Start(text, 0 + 1) = Start(text, 0) + Len(Utf8[text[0 + 1]])
    BY <2>1, Starts
  <2>3. Len(Utf8[text[0 + 1]]) \in {1, 3}
    BY <2>1, CharBytes
  <2>4. \A x, y, w : x = 0 /\ w \in {1, 3} /\ y = x + w => 0 < y
    OBVIOUS
  <2> QED
    BY <1>1, <2>2, <2>3, <2>4
<1>3. Tallied(text, 0, 0)
  BY TallyStart
<1> QED
  BY <1>1, <1>2, <1>3 DEF Standing

LEMMA StandsAtCharacter ==
    ASSUME NEW text \in Seq(Chars), NEW n \in 0 .. Len(text), NEW c \in Nat, c <= n,
           Tallied(text, n, c)
    PROVE  Standing(text, n, Start(text, n), c)
<1>1. Start(text, n) \in Nat
  BY Starts
<1>2. ASSUME n # Len(text) PROVE Start(text, n) < Start(text, n + 1)
  <2>1. n + 1 \in 0 .. Len(text) /\ n < n + 1
    BY <1>2
  <2> QED
    BY <2>1, StartsGrow
<1> QED
  BY <1>1, <1>2 DEF Standing

LEMMA PairStands ==
    ASSUME NEW text \in Seq(Chars), NEW n, NEW c, Standing(text, n, Start(text, n), c),
           n + 2 <= Len(text), SameO(text[n + 1], text[n + 2])
    PROVE  Standing(text, n + 2,
                    Start(text, n) + Len(Utf8[text[n + 1]]) + Len(Utf8[text[n + 2]]), c + 1)
<1>1. n \in 0 .. Len(text) /\ c \in Nat /\ c <= n /\ Tallied(text, n, c)
  BY DEF Standing
<1>2. /\ n + 2 \in 0 .. Len(text) /\ c + 1 \in Nat /\ c + 1 <= n + 2
      /\ n \in 0 .. Len(text) - 1 /\ n + 1 \in 0 .. Len(text) - 1 /\ (n + 1) + 1 = n + 2
  BY <1>1
<1>3. Tallied(text, n + 2, c + 1)
  BY <1>1, TallyPair
<1>4. Start(text, n + 2) = Start(text, n) + Len(Utf8[text[n + 1]]) + Len(Utf8[text[n + 2]])
  BY <1>2, Starts
<1> QED
  BY <1>2, <1>3, <1>4, StandsAtCharacter

LEMMA SkipStands ==
    ASSUME NEW text \in Seq(Chars), NEW n, NEW at, NEW c, Standing(text, n, at, c), n < Len(text),
           at = Start(text, n) /\ n + 2 <= Len(text) => ~SameO(text[n + 1], text[n + 2])
    PROVE  \E m : Standing(text, m, at + 1, c)
<1>1. /\ n \in 0 .. Len(text) /\ at \in Nat /\ c \in Nat /\ c <= n /\ Tallied(text, n, c)
      /\ Start(text, n) <= at /\ at < Start(text, n + 1)
      /\ n + 2 <= Len(text) => ~SameO(text[n + 1], text[n + 2])
  <2>1. Start(text, n) <= at /\ at \in Nat /\ n \in 0 .. Len(text)
    BY DEF Standing
  <2>2. Start(text, n) \in Nat
    BY <2>1, Starts
  <2>3. at = Start(text, n) \/ Start(text, n) < at
    BY <2>1, <2>2
  <2> QED
    BY <2>3 DEF Standing
<1>2. /\ n + 1 \in 0 .. Len(text) /\ Start(text, n) \in Nat /\ Start(text, n + 1) \in Nat
      /\ at + 1 \in Nat /\ c <= n + 1 /\ n + 1 <= Len(text)
  BY <1>1, Starts
<1>3. CASE at + 1 < Start(text, n + 1)
  <2>1. Start(text, n) <= at + 1 /\ n # Len(text)
    BY <1>1, <1>2
  <2>2. Standing(text, n, at + 1, c)
    BY <1>1, <1>2, <1>3, <2>1 DEF Standing
  <2> QED
    BY <2>2
<1>4. CASE ~(at + 1 < Start(text, n + 1))
  <2>1. at + 1 = Start(text, n + 1)
    BY <1>1, <1>2, <1>4
  <2>2. Tallied(text, n + 1, c)
    BY <1>1, <1>2, TallySkip
  <2>3. Standing(text, n + 1, at + 1, c)
    BY <1>1, <1>2, <2>1, <2>2, StandsAtCharacter
  <2> QED
    BY <2>3
<1> QED
  BY <1>3, <1>4

LEMMA BytesLength ==
    ASSUME NEW text \in Seq(Chars)
    PROVE  Bytes(text) \in Seq(Nat) /\ Len(Bytes(text)) \in Nat /\ Len(Bytes(text)) = Start(text, Len(text))
<1>1. Len(text) \in Nat /\ Len(text) <= Len(text) /\ Len(text) \in 0 .. Len(text)
  OBVIOUS
<1>2. Prefix(text, Len(text)) = text
  BY <1>1, PrefixOf
<1>3. Bytes(Prefix(text, Len(text))) \in Seq(Nat) /\ Start(text, Len(text)) \in Nat
  BY <1>1, Starts
<1> QED
  BY <1>2, <1>3 DEF Start

\* Before the last byte there is a character to look at.
LEMMA StandsBefore ==
    ASSUME NEW text \in Seq(Chars), NEW n, NEW at, NEW c, Standing(text, n, at, c),
           at < Len(Bytes(text)) - 1
    PROVE  n < Len(text) /\ n \in 0 .. Len(text) - 1
<1>1. n \in 0 .. Len(text) /\ at \in Nat /\ (n = Len(text) => at = Start(text, n))
  BY DEF Standing
<1>2. n # Len(text)
  BY <1>1, BytesLength
<1> QED
  BY <1>1, <1>2

\* At the last byte or behind it, everything is counted.
LEMMA ScanEnds ==
    ASSUME NEW text \in Seq(Chars), NEW n, NEW at, NEW c, Standing(text, n, at, c),
           at >= Len(Bytes(text)) - 1
    PROVE  OoSequences(text) = c /\ c <= Len(text)
<1>1. /\ n \in 0 .. Len(text) /\ at \in Nat /\ c \in Nat /\ c <= n /\ Tallied(text, n, c)
      /\ n # Len(text) => at < Start(text, n + 1)
  BY DEF Standing
<1>2. Prefix(text, Len(text)) = text
  <2>1. Len(text) \in Nat /\ Len(text) <= Len(text)
    OBVIOUS
  <2> QED
    BY <2>1, PrefixOf
<1>3. CASE n = Len(text)
  BY <1>1, <1>2, <1>3, TallyEnd
<1>4. CASE n # Len(text)
  <2>1. n + 1 \in 0 .. Len(text) /\ Len(text) \in 0 .. Len(text) /\ n + 1 <= Len(text)
    BY <1>1, <1>4
  <2>2. Start(text, n + 1) \in Nat /\ Len(Bytes(text)) \in Nat
    BY <2>1, Starts, BytesLength
  <2>3. Start(text, n + 1) >= Len(Bytes(text))
    BY <1>1, <1>4, <2>2
  <2>4. ~(n + 1 < Len(text))
    <3> SUFFICES ASSUME n + 1 < Len(text) PROVE FALSE
      OBVIOUS
    <3>1. Start(text, n + 1) < Start(text, Len(text))
      BY <2>1, StartsGrow
    <3> QED
      BY <2>2, <2>3, <3>1, BytesLength
  <2>5. n + 1 = Len(text) /\ ~(n + 2 <= Len(text)) /\ c <= Len(text)
    BY <1>1, <2>1, <2>4
  <2>6. Tallied(text, n + 1, c)
    BY <1>1, <2>1, <2>5, TallySkip
  <2>7. OoSequences(Prefix(text, n + 1)) = c
    BY <1>1, <2>1, <2>6, TallyEnd
  <2> QED
    BY <1>2, <2>5, <2>7
<1> QED
  BY <1>3, <1>4

\* The characters behind the index are those before the one it stands at.
LEMMA Behind ==
    ASSUME NEW text \in Seq(Chars), NEW n, NEW at, NEW c, Standing(text, n, at, c)
    PROVE  LET passed == {m \in 0 .. Len(text) : Len(Bytes(SubSeq(text, 1, m))) <= at}
           IN  c = OoSequences(SubSeq(text, 1, Max(passed)))
<1> DEFINE passed == {m \in 0 .. Len(text) : Start(text, m) <= at}
<1>1. /\ n \in 0 .. Len(text) /\ at \in Nat /\ c \in Nat /\ Tallied(text, n, c)
      /\ Start(text, n) <= at /\ (n # Len(text) => at < Start(text, n + 1))
  BY DEF Standing
<1>2. n \in passed
  BY <1>1
<1>3. ASSUME NEW m \in passed PROVE m <= n
  <2> SUFFICES ASSUME n < m PROVE FALSE
    BY <1>1
  <2>1. m \in 0 .. Len(text) /\ n # Len(text) /\ n + 1 \in 0 .. Len(text) /\ (n + 1 = m \/ n + 1 < m)
    BY <1>1
  <2>2. Start(text, n + 1) \in Nat /\ Start(text, m) \in Nat /\ Start(text, m) <= at
    BY <2>1, Starts
  <2>3. Start(text, n + 1) <= Start(text, m)
    BY <2>1, <2>2, StartsGrow
  <2> QED
    BY <1>1, <2>1, <2>2, <2>3
<1>4. passed \subseteq Int
  OBVIOUS
<1> HIDE DEF passed
<1>5. Max(passed) = n
  <2>1. \A x \in passed : n >= x
    BY <1>1, <1>3, <1>4
  <2>2. \A x \in passed : (\A y \in passed : x >= y) => x = n
    BY <1>1, <1>2, <1>3, <1>4
  <2>3. (CHOOSE x \in passed : \A y \in passed : x >= y) = n
    BY <1>2, <2>1, <2>2
  <2> QED
    BY <2>3 DEF Max
<1>6. OoSequences(Prefix(text, n)) = c
  BY <1>1, TallyEnd
<1> QED
  BY <1>5, <1>6 DEF passed, Prefix, Start
----------------------------------------------------------------------------
(* What the guest's comparisons of bytes say of the characters. *)

HiraOrKata == {"hira_o", "kata_o"}

LEMMA SameOKinds ==
    ASSUME NEW a \in Chars, NEW b \in Chars
    PROVE  SameO(a, b) <=> \/ a \in {"o", "O"} /\ b \in {"o", "O"}
                           \/ a \in HiraOrKata /\ b = a
<1>1. SameO(a, b) <=> \/ a = "hira_o" /\ b = "hira_o"
                      \/ a = "kata_o" /\ b = "kata_o"
                      \/ a \in {"o", "O"} /\ b \in {"o", "O"}
  BY DEF SameO
<1> QED
  BY <1>1 DEF HiraOrKata

\* The second and third byte tell the characters of three bytes apart.
LEMMA TailBytes ==
    ASSUME NEW c \in Chars, Len(Utf8[c]) = 3
    PROVE  /\ Utf8[c][1] = 227
           /\ \/ c = "hira_o" /\ Utf8[c][2] = 129 /\ Utf8[c][3] = 138
              \/ c = "kata_o" /\ Utf8[c][2] = 130 /\ Utf8[c][3] = 170
              \/ c = "hira_a" /\ Utf8[c][2] = 129 /\ Utf8[c][3] = 130
<1>1. c = "hira_o" \/ c = "kata_o" \/ c = "hira_a"
  BY CharBytes DEF Chars
<1>2. ASSUME NEW u, NEW b \in Nat \ {0}, NEW d \in Nat, Encodes(u, 227, b, d)
      PROVE  u[1] = 227 /\ u[2] = b /\ u[3] = d
  BY <1>2 DEF Encodes
<1>3. CASE c = "hira_o"
  BY <1>2, <1>3, Encodings
<1>4. CASE c = "kata_o"
  BY <1>2, <1>4, Encodings
<1>5. CASE c = "hira_a"
  BY <1>2, <1>5, Encodings
<1> QED
  BY <1>1, <1>3, <1>4, <1>5

LEMMA KanaWide == ASSUME NEW kana \in HiraOrKata PROVE kana \in Chars /\ Len(Utf8[kana]) = 3
<1>1. kana \in Chars /\ kana \notin {"o", "O", "x"}
  BY DEF HiraOrKata, Chars
<1> QED
  BY <1>1, CharBytes

LEMMA KanaTwice ==
    ASSUME NEW kana \in HiraOrKata
    PROVE  \A k \in 0 .. 5 : (Utf8[kana] \o Utf8[kana])[k + 1] =
                                IF k < 3 THEN Utf8[kana][k + 1] ELSE Utf8[kana][k - 2]
<1>1. Utf8[kana] \in Seq(Nat) /\ Len(Utf8[kana]) = 3
  BY KanaWide, CharBytes
<1>2. \A j \in 1 .. 3 + 3 : (Utf8[kana] \o Utf8[kana])[j] =
                                IF j <= 3 THEN Utf8[kana][j] ELSE Utf8[kana][j - 3]
  <2> DEFINE u == Utf8[kana]
  <2>1. \A j \in 1 .. Len(u) + Len(u) : (u \o u)[j] = IF j <= Len(u) THEN u[j] ELSE u[j - Len(u)]
    BY <1>1, ConcatProperties
  <2> HIDE DEF u
  <2>2. Len(u) = 3
    BY <1>1 DEF u
  <2>3. \A j \in 1 .. 3 + 3 : (u \o u)[j] = IF j <= 3 THEN u[j] ELSE u[j - 3]
    BY <2>1, <2>2
  <2> QED
    BY <2>3 DEF u
<1> SUFFICES ASSUME NEW k \in 0 .. 5
             PROVE  (Utf8[kana] \o Utf8[kana])[k + 1] =
                       IF k < 3 THEN Utf8[kana][k + 1] ELSE Utf8[kana][k - 2]
  OBVIOUS
<1>3. k + 1 \in 1 .. 3 + 3 /\ (k + 1 <= 3 <=> k < 3) /\ (k + 1) - 3 = k - 2
  OBVIOUS
<1>4. (Utf8[kana] \o Utf8[kana])[k + 1] =
         IF k + 1 <= 3 THEN Utf8[kana][k + 1] ELSE Utf8[kana][(k + 1) - 3]
  BY <1>2, <1>3
<1> QED
  BY <1>3, <1>4

LEMMA ByteHere ==
    ASSUME content \in Seq(Chars), NEW n \in 0 .. Len(content) - 1,
           NEW k \in 1 .. Len(Utf8[content[n + 1]])
    PROVE  /\ Byte(Start(content, n) + (k - 1)) = Utf8[content[n + 1]][k]
           /\ Start(content, n) + (k - 1) < Len(Bytes(content))
<1>1. /\ Bytes(content)[Start(content, n) + k] = Utf8[content[n + 1]][k]
      /\ Start(content, n) + k \in 1 .. Len(Bytes(content))
  BY BytesThere
<1>2. Start(content, n) \in Nat /\ Len(Bytes(content)) \in Nat /\ k \in Nat
  <2>1. n \in 0 .. Len(content) /\ content[n + 1] \in Chars
    OBVIOUS
  <2>2. Len(Utf8[content[n + 1]]) \in {1, 3}
    BY <2>1, CharBytes
  <2> QED
    BY <2>1, <2>2, Starts, BytesLength
<1>3. (Start(content, n) + (k - 1)) + 1 = Start(content, n) + k
      /\ Start(content, n) + (k - 1) < Len(Bytes(content))
  BY <1>1, <1>2
<1> QED
  BY <1>1, <1>3 DEF Byte

\* The first byte of a character, and where the next one begins.
LEMMA CharHere ==
    ASSUME content \in Seq(Chars), NEW n \in 0 .. Len(content) - 1
    PROVE  /\ content[n + 1] \in Chars /\ Start(content, n) \in Nat
           /\ Byte(Start(content, n)) = Utf8[content[n + 1]][1]
           /\ Start(content, n) < Len(Bytes(content)) /\ Len(Bytes(content)) \in Nat
           /\ Len(Utf8[content[n + 1]]) \in {1, 3}
           /\ Start(content, n + 1) = Start(content, n) + Len(Utf8[content[n + 1]])
           /\ n + 1 = Len(content) => Start(content, n + 1) = Len(Bytes(content))
<1>1. content[n + 1] \in Chars /\ n \in 0 .. Len(content)
  OBVIOUS
<1>2. Len(Utf8[content[n + 1]]) \in {1, 3} /\ 1 \in 1 .. Len(Utf8[content[n + 1]])
  BY <1>1, CharBytes
<1>3. Start(content, n) \in Nat /\ Start(content, n) + (1 - 1) = Start(content, n)
  BY <1>1, Starts
<1>4. Byte(Start(content, n)) = Utf8[content[n + 1]][1] /\ Start(content, n) < Len(Bytes(content))
  BY <1>2, <1>3, ByteHere
<1>5. Start(content, n + 1) = Start(content, n) + Len(Utf8[content[n + 1]])
  BY Starts
<1> QED
  BY <1>1, <1>2, <1>3, <1>4, <1>5, BytesLength

LEMMA AsciiPairHere ==
    ASSUME content \in Seq(Chars), NEW n \in 0 .. Len(content) - 1,
           Start(content, n) < Len(Bytes(content)) - 1
    PROVE  AsciiPairAt(Start(content, n)) <=>
              n + 2 <= Len(content) /\ content[n + 1] \in {"o", "O"} /\ content[n + 2] \in {"o", "O"}
<1> DEFINE at == Start(content, n)
<1>1. AsciiO(Byte(at)) <=> content[n + 1] \in {"o", "O"}
  BY CharHere, CharBytes DEF AsciiO
<1>2. ASSUME content[n + 1] \in {"o", "O"}
      PROVE  /\ n + 2 <= Len(content)
             /\ AsciiO(Byte(at + 1)) <=> content[n + 2] \in {"o", "O"}
  <2>1. Len(Utf8[content[n + 1]]) = 1 /\ content[n + 1] \in Chars
    <3>1. content[n + 1] \in {"o", "O", "x"} /\ content[n + 1] \in Chars
      BY <1>2, CharHere
    <3> QED
      BY <3>1, CharBytes
  <2>2. Start(content, n + 1) = at + 1
    BY <2>1, CharHere
  <2>3. n + 1 # Len(content)
    BY <2>2, CharHere
  <2>4. n + 1 \in 0 .. Len(content) - 1 /\ (n + 1) + 1 = n + 2 /\ n + 2 <= Len(content)
    BY <2>3
  <2>5. content[n + 2] \in Chars /\ Byte(at + 1) = Utf8[content[n + 2]][1]
    BY <2>2, <2>4, CharHere
  <2> QED
    BY <2>4, <2>5, CharBytes DEF AsciiO
<1> QED
  BY <1>1, <1>2 DEF AsciiPairAt
LEMMA WideHere ==
    ASSUME content \in Seq(Chars), NEW n \in 0 .. Len(content) - 1, Len(Utf8[content[n + 1]]) = 3
    PROVE  /\ Byte(Start(content, n)) = Utf8[content[n + 1]][1]
           /\ Byte(Start(content, n) + 1) = Utf8[content[n + 1]][2]
           /\ Byte(Start(content, n) + 2) = Utf8[content[n + 1]][3]
           /\ Start(content, n + 1) = Start(content, n) + 3
           /\ Start(content, n) + 2 < Len(Bytes(content))
<1>1. 2 \in 1 .. Len(Utf8[content[n + 1]]) /\ 3 \in 1 .. Len(Utf8[content[n + 1]]) /\ 2 - 1 = 1 /\ 3 - 1 = 2
  OBVIOUS
<1>2. /\ Byte(Start(content, n) + (2 - 1)) = Utf8[content[n + 1]][2]
      /\ Byte(Start(content, n) + (3 - 1)) = Utf8[content[n + 1]][3]
      /\ Start(content, n) + (3 - 1) < Len(Bytes(content))
  BY <1>1, ByteHere
<1> QED
  BY <1>1, <1>2, CharHere

LEMMA KanaHere ==
    ASSUME content \in Seq(Chars), NEW n \in 0 .. Len(content) - 1, NEW kana \in HiraOrKata
    PROVE  content[n + 1] = kana <=> /\ Byte(Start(content, n)) = Utf8[kana][1]
                                     /\ Byte(Start(content, n) + 1) = Utf8[kana][2]
                                     /\ Byte(Start(content, n) + 2) = Utf8[kana][3]
<1>1. kana \in Chars /\ Len(Utf8[kana]) = 3
  BY KanaWide
<1>2. ASSUME content[n + 1] = kana
      PROVE  /\ Byte(Start(content, n)) = Utf8[kana][1]
             /\ Byte(Start(content, n) + 1) = Utf8[kana][2]
             /\ Byte(Start(content, n) + 2) = Utf8[kana][3]
  BY <1>1, <1>2, WideHere
<1>3. ASSUME /\ Byte(Start(content, n)) = Utf8[kana][1]
             /\ Byte(Start(content, n) + 1) = Utf8[kana][2]
             /\ Byte(Start(content, n) + 2) = Utf8[kana][3]
      PROVE  content[n + 1] = kana
  <2>1. content[n + 1] \in Chars /\ Utf8[content[n + 1]][1] = 227
    BY <1>1, <1>3, CharHere, TailBytes
  <2>2. Len(Utf8[content[n + 1]]) = 3
    BY <2>1, CharBytes
  <2>3. Utf8[content[n + 1]][2] = Utf8[kana][2] /\ Utf8[content[n + 1]][3] = Utf8[kana][3]
    BY <1>3, <2>2, WideHere
  <2>4. \/ kana = "hira_o" /\ Utf8[kana][2] = 129 /\ Utf8[kana][3] = 138
        \/ kana = "kata_o" /\ Utf8[kana][2] = 130 /\ Utf8[kana][3] = 170
    BY <1>1, TailBytes DEF HiraOrKata
  <2> DEFINE c == content[n + 1]
  <2>5. \/ c = "hira_o" /\ Utf8[c][2] = 129 /\ Utf8[c][3] = 138
        \/ c = "kata_o" /\ Utf8[c][2] = 130 /\ Utf8[c][3] = 170
        \/ c = "hira_a" /\ Utf8[c][2] = 129 /\ Utf8[c][3] = 130
    BY <2>1, <2>2, TailBytes
  <2> HIDE DEF c
  <2>6. Utf8[c][2] = Utf8[kana][2] /\ Utf8[c][3] = Utf8[kana][3]
    BY <2>3 DEF c
  <2>7. c = kana
    BY <2>4, <2>5, <2>6
  <2> QED
    BY <2>7 DEF c
<1> QED
  BY <1>2, <1>3

\* The six bytes of a kana twice.
LEMMA KanaAt ==
    ASSUME NEW kana \in HiraOrKata, NEW at \in Nat
    PROVE  (\A k \in 0 .. 5 : Byte(at + k) = (Utf8[kana] \o Utf8[kana])[k + 1]) <=>
              /\ Byte(at) = Utf8[kana][1] /\ Byte(at + 1) = Utf8[kana][2] /\ Byte(at + 2) = Utf8[kana][3]
              /\ Byte(at + 3) = Utf8[kana][1] /\ Byte((at + 3) + 1) = Utf8[kana][2]
              /\ Byte((at + 3) + 2) = Utf8[kana][3]
<1> DEFINE two == Utf8[kana] \o Utf8[kana]
<1>1. \A k \in 0 .. 5 : two[k + 1] = IF k < 3 THEN Utf8[kana][k + 1] ELSE Utf8[kana][k - 2]
  BY KanaTwice
<1> HIDE DEF two
<1>2. /\ two[0 + 1] = Utf8[kana][1] /\ two[1 + 1] = Utf8[kana][2] /\ two[2 + 1] = Utf8[kana][3]
      /\ two[3 + 1] = Utf8[kana][1] /\ two[4 + 1] = Utf8[kana][2] /\ two[5 + 1] = Utf8[kana][3]
  <2>1. 0 \in 0 .. 5 /\ 1 \in 0 .. 5 /\ 2 \in 0 .. 5 /\ 3 \in 0 .. 5 /\ 4 \in 0 .. 5 /\ 5 \in 0 .. 5
    OBVIOUS
  <2> QED
    BY <1>1, <2>1
<1>3. at + 0 = at /\ (at + 3) + 1 = at + 4 /\ (at + 3) + 2 = at + 5
  OBVIOUS
<1>4. \A k \in 0 .. 5 : k = 0 \/ k = 1 \/ k = 2 \/ k = 3 \/ k = 4 \/ k = 5
  OBVIOUS
<1>5. /\ 0 \in 0 .. 5 /\ 1 \in 0 .. 5 /\ 2 \in 0 .. 5 /\ 3 \in 0 .. 5 /\ 4 \in 0 .. 5 /\ 5 \in 0 .. 5
  OBVIOUS
<1>6. (\A k \in 0 .. 5 : Byte(at + k) = two[k + 1]) <=>
         /\ Byte(at) = Utf8[kana][1] /\ Byte(at + 1) = Utf8[kana][2] /\ Byte(at + 2) = Utf8[kana][3]
         /\ Byte(at + 3) = Utf8[kana][1] /\ Byte(at + 4) = Utf8[kana][2] /\ Byte(at + 5) = Utf8[kana][3]
  <2>1. ASSUME \A k \in 0 .. 5 : Byte(at + k) = two[k + 1]
        PROVE  /\ Byte(at + 0) = two[0 + 1] /\ Byte(at + 1) = two[1 + 1] /\ Byte(at + 2) = two[2 + 1]
               /\ Byte(at + 3) = two[3 + 1] /\ Byte(at + 4) = two[4 + 1] /\ Byte(at + 5) = two[5 + 1]
    BY <1>5, <2>1
  <2>2. ASSUME /\ Byte(at + 0) = two[0 + 1] /\ Byte(at + 1) = two[1 + 1] /\ Byte(at + 2) = two[2 + 1]
               /\ Byte(at + 3) = two[3 + 1] /\ Byte(at + 4) = two[4 + 1] /\ Byte(at + 5) = two[5 + 1]
        PROVE  \A k \in 0 .. 5 : Byte(at + k) = two[k + 1]
    <3> TAKE k \in 0 .. 5
    <3> QED
      BY <1>4, <2>2
  <2> QED
    BY <1>2, <1>3, <2>1, <2>2
<1> QED
  BY <1>3, <1>6 DEF two

LEMMA KanaPairHere ==
    ASSUME content \in Seq(Chars), NEW n \in 0 .. Len(content) - 1
    PROVE  KanaPairAt(Start(content, n)) <=>
              /\ n + 2 <= Len(content) /\ content[n + 1] \in HiraOrKata
              /\ content[n + 2] = content[n + 1]
<1> DEFINE at == Start(content, n)
<1>1. at \in Nat /\ Len(Bytes(content)) \in Nat
  BY CharHere
<1>2. ASSUME KanaPairAt(at)
      PROVE  /\ n + 2 <= Len(content) /\ content[n + 1] \in HiraOrKata
             /\ content[n + 2] = content[n + 1]
  <2>1. PICK kana \in HiraOrKata :
              \A k \in 0 .. 5 : Byte(at + k) = (Utf8[kana] \o Utf8[kana])[k + 1]
    BY <1>2 DEF KanaPairAt, HiraOrKata
  <2>2. /\ Byte(at) = Utf8[kana][1] /\ Byte(at + 1) = Utf8[kana][2] /\ Byte(at + 2) = Utf8[kana][3]
        /\ Byte(at + 3) = Utf8[kana][1] /\ Byte((at + 3) + 1) = Utf8[kana][2]
        /\ Byte((at + 3) + 2) = Utf8[kana][3]
    BY <1>1, <2>1, KanaAt
  <2>3. content[n + 1] = kana
    BY <2>2, KanaHere
  <2>4. Start(content, n + 1) = at + 3
    BY <2>3, KanaWide, WideHere
  <2>5. at + 5 < Len(Bytes(content))
    BY <1>2 DEF KanaPairAt
  <2>6. n + 1 # Len(content)
    BY <1>1, <2>4, <2>5, CharHere
  <2>7. n + 1 \in 0 .. Len(content) - 1 /\ (n + 1) + 1 = n + 2 /\ n + 2 <= Len(content)
    BY <2>6
  <2>8. content[n + 2] = kana
    BY <2>2, <2>4, <2>7, KanaHere
  <2> QED
    BY <2>3, <2>7, <2>8
<1>3. ASSUME n + 2 <= Len(content), content[n + 1] \in HiraOrKata, content[n + 2] = content[n + 1]
      PROVE  KanaPairAt(at)
  <2> DEFINE kana == content[n + 1]
  <2>1. n + 1 \in 0 .. Len(content) - 1 /\ (n + 1) + 1 = n + 2
    BY <1>3
  <2>2. Len(Utf8[kana]) = 3 /\ Len(Utf8[content[n + 2]]) = 3
    BY <1>3, KanaWide
  <2>3. Start(content, n + 1) = at + 3
    BY <2>2, WideHere
  <2>4. Start(content, n + 1) + 2 < Len(Bytes(content))
    BY <2>1, <2>2, WideHere
  <2>5. at + 5 < Len(Bytes(content))
    BY <1>1, <2>3, <2>4
  <2>6. /\ Byte(at) = Utf8[kana][1] /\ Byte(at + 1) = Utf8[kana][2] /\ Byte(at + 2) = Utf8[kana][3]
    BY <2>2, WideHere
  <2>7. /\ Byte(at + 3) = Utf8[kana][1] /\ Byte((at + 3) + 1) = Utf8[kana][2]
        /\ Byte((at + 3) + 2) = Utf8[kana][3]
    BY <1>3, <2>1, <2>2, <2>3, WideHere
  <2>8. kana \in HiraOrKata
    BY <1>3
  <2> HIDE DEF kana, at
  <2>9. \A k \in 0 .. 5 : Byte(at + k) = (Utf8[kana] \o Utf8[kana])[k + 1]
    BY <1>1, <2>6, <2>7, <2>8, KanaAt
  <2> QED
    BY <2>5, <2>8, <2>9 DEF KanaPairAt, HiraOrKata
<1> QED
  BY <1>2, <1>3

\* Inside of a character no byte begins a sequence.
LEMMA InsideHere ==
    ASSUME content \in Seq(Chars), NEW n \in 0 .. Len(content) - 1, NEW at \in Nat,
           Start(content, n) < at, at < Start(content, n + 1)
    PROVE  ~AsciiPairAt(at) /\ ~KanaPairAt(at)
<1>1. /\ content[n + 1] \in Chars /\ Len(Utf8[content[n + 1]]) \in {1, 3} /\ Start(content, n) \in Nat
      /\ Start(content, n + 1) = Start(content, n) + Len(Utf8[content[n + 1]])
  BY CharHere
<1>2. Len(Utf8[content[n + 1]]) = 3 /\ (at = Start(content, n) + 1 \/ at = Start(content, n) + 2)
  <2>1. \A first \in Nat : \A width \in {1, 3} : first < at /\ at < first + width
          => width = 3 /\ (at = first + 1 \/ at = first + 2)
    OBVIOUS
  <2> QED
    BY <1>1, <2>1
<1>3. Byte(at) = Utf8[content[n + 1]][2] \/ Byte(at) = Utf8[content[n + 1]][3]
  BY <1>2, WideHere
<1>4. Byte(at) \in {129, 130, 138, 170}
  BY <1>1, <1>2, <1>3, TailBytes
<1>5. ~AsciiPairAt(at)
  BY <1>4 DEF AsciiPairAt, AsciiO
<1>6. ~KanaPairAt(at)
  <2> SUFFICES ASSUME KanaPairAt(at) PROVE FALSE
    OBVIOUS
  <2>1. PICK kana \in HiraOrKata :
              \A k \in 0 .. 5 : Byte(at + k) = (Utf8[kana] \o Utf8[kana])[k + 1]
    BY DEF KanaPairAt, HiraOrKata
  <2>2. Byte(at) = Utf8[kana][1]
    BY <2>1, KanaAt
  <2>3. Utf8[kana][1] = 227
    BY KanaWide, TailBytes
  <2> QED
    BY <1>4, <2>2, <2>3
<1> QED
  BY <1>5, <1>6
----------------------------------------------------------------------------
(* The passes of the guest's loop. *)

\* A standing place is in the message.
LEMMA StandsWithin ==
    ASSUME NEW text \in Seq(Chars), NEW n, NEW at, NEW c, Standing(text, n, at, c)
    PROVE  at \in 0 .. Len(Bytes(text)) /\ c \in 0 .. Len(text)
<1>1. /\ n \in 0 .. Len(text) /\ at \in Nat /\ c \in Nat /\ c <= n
      /\ IF n = Len(text) THEN at = Start(text, n) ELSE at < Start(text, n + 1)
  BY DEF Standing
<1>2. Len(Bytes(text)) \in Nat /\ Len(Bytes(text)) = Start(text, Len(text))
  BY BytesLength
<1>3. CASE n = Len(text)
  BY <1>1, <1>2, <1>3
<1>4. CASE n # Len(text)
  <2>1. n + 1 \in 0 .. Len(text) /\ Start(text, n + 1) \in Nat
    BY <1>1, <1>4, Starts
  <2>2. Start(text, n + 1) <= Start(text, Len(text))
    <3>1. CASE n + 1 = Len(text)
      BY <2>1, <3>1
    <3>2. CASE n + 1 # Len(text)
      <4>1. Len(text) \in 0 .. Len(text) /\ n + 1 < Len(text)
        BY <2>1, <3>2
      <4>2. Start(text, n + 1) < Start(text, Len(text))
        BY <2>1, <4>1, StartsGrow
      <4> QED
        BY <4>2, <2>1, <1>2
    <3> QED
      BY <3>1, <3>2
  <2> QED
    BY <1>1, <1>2, <2>1, <2>2
<1> QED
  BY <1>3, <1>4

\* A pair of bytes or of kana is two characters, and counted once; past anything else the guest goes
\* byte by byte.
LEMMA PassStands ==
    ASSUME content \in Seq(Chars), NEW n, Standing(content, n, i, count), i < Len(Bytes(content)) - 1
    PROVE  /\ AsciiPairAt(i) => Standing(content, n + 2, i + 2, count + 1)
           /\ ~AsciiPairAt(i) /\ KanaPairAt(i) => Standing(content, n + 2, i + 6, count + 1)
           /\ ~AsciiPairAt(i) /\ ~KanaPairAt(i) => \E m : Standing(content, m, i + 1, count)
<1>1. n < Len(content) /\ n \in 0 .. Len(content) - 1
  BY StandsBefore
<1>2. i \in Nat /\ Start(content, n) <= i /\ i < Start(content, n + 1) /\ Start(content, n) \in Nat
  BY <1>1, CharHere DEF Standing
<1>3. AsciiPairAt(i) \/ KanaPairAt(i) => i = Start(content, n)
  <2>1. Start(content, n) < i => ~AsciiPairAt(i) /\ ~KanaPairAt(i)
    BY <1>1, <1>2, InsideHere
  <2> QED
    BY <1>2, <2>1
<1>4. ASSUME AsciiPairAt(i) PROVE Standing(content, n + 2, i + 2, count + 1)
  <2>1. i = Start(content, n) /\ AsciiPairAt(Start(content, n))
    BY <1>3, <1>4
  <2>2. n + 2 <= Len(content) /\ content[n + 1] \in {"o", "O"} /\ content[n + 2] \in {"o", "O"}
    BY <1>1, <2>1, AsciiPairHere
  <2>3. /\ content[n + 1] \in Chars /\ content[n + 2] \in Chars
        /\ SameO(content[n + 1], content[n + 2])
    BY <2>2, SameOKinds DEF Chars
  <2>4. Len(Utf8[content[n + 1]]) = 1 /\ Len(Utf8[content[n + 2]]) = 1
    BY <2>2, <2>3, CharBytes
  <2>5. Standing(content, n + 2, i + Len(Utf8[content[n + 1]]) + Len(Utf8[content[n + 2]]), count + 1)
    BY <2>1, <2>2, <2>3, PairStands
  <2>6. i + 1 + 1 = i + 2
    BY <1>2
  <2> QED
    BY <2>4, <2>5, <2>6
<1>5. ASSUME KanaPairAt(i) PROVE Standing(content, n + 2, i + 6, count + 1)
  <2>1. i = Start(content, n) /\ KanaPairAt(Start(content, n))
    BY <1>3, <1>5
  <2>2. /\ n + 2 <= Len(content) /\ content[n + 1] \in HiraOrKata
        /\ content[n + 2] = content[n + 1]
    BY <1>1, <2>1, KanaPairHere
  <2>3. Len(Utf8[content[n + 1]]) = 3 /\ Len(Utf8[content[n + 2]]) = 3 /\ content[n + 1] \in Chars
    BY <2>2, KanaWide
  <2>4. SameO(content[n + 1], content[n + 2])
    BY <2>2, <2>3, SameOKinds
  <2>5. Standing(content, n + 2, i + Len(Utf8[content[n + 1]]) + Len(Utf8[content[n + 2]]), count + 1)
    BY <2>1, <2>2, <2>4, PairStands
  <2>6. i + 3 + 3 = i + 6
    BY <1>2
  <2> QED
    BY <2>3, <2>5, <2>6
<1>6. ASSUME ~AsciiPairAt(i), ~KanaPairAt(i) PROVE \E m : Standing(content, m, i + 1, count)
  <2>1. ASSUME i = Start(content, n), n + 2 <= Len(content)
        PROVE  ~SameO(content[n + 1], content[n + 2])
    <3>1. /\ ~(content[n + 1] \in {"o", "O"} /\ content[n + 2] \in {"o", "O"})
          /\ ~(content[n + 1] \in HiraOrKata /\ content[n + 2] = content[n + 1])
      BY <1>1, <1>6, <2>1, AsciiPairHere, KanaPairHere
    <3>2. n + 2 \in 1 .. Len(content) /\ n + 1 \in 1 .. Len(content)
      BY <1>1, <2>1
    <3>3. content[n + 1] \in Chars /\ content[n + 2] \in Chars
      BY <3>2
    <3> QED
      BY <3>1, <3>3, SameOKinds
  <2> QED
    BY <1>1, <2>1, SkipStands
<1> QED
  BY <1>4, <1>5, <1>6
----------------------------------------------------------------------------
(* The answers. *)

\* What decode_wire makes of each of the guest's answers.
LEMMA Decoded ==
    /\ \A aux : DecodeWire(0, aux) = [kind |-> "Noop", count |-> 0]
    /\ \A aux : DecodeWire(1, aux) = [kind |-> "ReactOnce", count |-> 0]
    /\ \A aux \in 1 .. MaxStamps : DecodeWire(2, aux) = [kind |-> "SendStamped", count |-> aux]
    /\ \A aux : DecodeWire(3, aux) = [kind |-> "SpecialPhrase", count |-> 0]
    /\ \A aux : DecodeWire(4, aux) = [kind |-> "SuspiciousInput", count |-> 0]
    /\ \A aux : DecodeWire(5, aux) = [kind |-> "Defer", count |-> 0]
<1>1. /\ Kinds[0 + 1] = "Noop" /\ Kinds[1 + 1] = "ReactOnce" /\ Kinds[2 + 1] = "SendStamped"
      /\ Kinds[3 + 1] = "SpecialPhrase" /\ Kinds[4 + 1] = "SuspiciousInput" /\ Kinds[5 + 1] = "Defer"
  BY DEF Kinds
<1>2. MaxStamps \in Nat
  BY MessageAnalysisAssumption
<1>3. \A aux \in 1 .. MaxStamps : AtMost(AtLeast(aux, 1), MaxStamps) = aux
  BY <1>2 DEF AtMost, AtLeast
<1> QED
  BY <1>1, <1>3 DEF DecodeWire

\* The end of `analyze`: the phrase goes before the count, and the stamps stay in the wire's byte.
LEMMA WireIs ==
    ASSUME NEW total \in Nat, phraseHit \in BOOLEAN
    PROVE  Wire(total) =
              IF phraseHit THEN [kind |-> "SpecialPhrase", count |-> 0]
              ELSE IF total = 0 THEN [kind |-> "Noop", count |-> 0]
              ELSE IF total = 1 THEN [kind |-> "ReactOnce", count |-> 0]
              ELSE [kind |-> "SendStamped", count |-> AtMost(total, MaxStamps)]
<1>1. CASE phraseHit
  <2>1. Wire(total) = DecodeWire(3, 1)
    BY <1>1 DEF Wire
  <2> QED
    BY <1>1, <2>1, Decoded
<1>2. CASE ~phraseHit /\ total = 0
  <2>1. Wire(total) = DecodeWire(0, 0)
    BY <1>2 DEF Wire
  <2> QED
    BY <1>2, <2>1, Decoded
<1>3. CASE ~phraseHit /\ total = 1
  <2>1. Wire(total) = DecodeWire(1, 1)
    BY <1>3 DEF Wire
  <2> QED
    BY <1>3, <2>1, Decoded
<1>4. CASE ~phraseHit /\ total > 1
  <2>1. Wire(total) = DecodeWire(2, AtMost(total, MaxStamps))
    BY <1>4 DEF Wire
  <2>2. AtMost(total, MaxStamps) \in 1 .. MaxStamps
    BY <1>4, MessageAnalysisAssumption DEF AtMost
  <2> QED
    BY <1>4, <2>1, <2>2, Decoded
<1> QED
  BY <1>1, <1>2, <1>3, <1>4

LEMMA WireType ==
    ASSUME NEW total \in Nat, phraseHit \in BOOLEAN
    PROVE  Wire(total) \in Proposals(1 .. MaxStamps)
<1>1. total # 0 => AtMost(total, MaxStamps) \in 1 .. MaxStamps
  BY MessageAnalysisAssumption DEF AtMost
<1> QED
  BY <1>1, WireIs DEF Proposals

\* A proposal is not one of the other replies.
LEMMA ProposalsApart ==
    /\ \A p \in Proposals(1 .. MaxStamps) : Answered(p) /\ p \notin Failures
    /\ \A f \in Failures : Answered(f)
    /\ Received # Running /\ DecodeWire(4, 0) \in Proposals(1 .. MaxStamps)
<1>1. \A p \in Proposals(1 .. MaxStamps) :
          p.kind \in {"Noop", "Defer", "Reject", "SuspiciousInput", "SpecialPhrase", "ReactOnce",
                      "SendStamped"}
  BY DEF Proposals
<1>2. /\ Received.kind = "received" /\ Running.kind = "running"
      /\ \A f \in Failures : f.kind \in {"Timeout", "ResourceLimit"}
  BY DEF Received, Running, Failures, Failed
<1>3. DecodeWire(4, 0) \in Proposals(1 .. MaxStamps)
  BY Decoded DEF Proposals
<1>4. \A p \in Proposals(1 .. MaxStamps) : p # Received /\ p # Running /\ p \notin Failures
  BY <1>1, <1>2
<1>5. Received # Running /\ \A f \in Failures : f # Received /\ f # Running
  BY <1>2
<1> QED
  BY <1>3, <1>4, <1>5 DEF Answered
----------------------------------------------------------------------------
(* The invariant of the guest. *)

AnalysisTypes ==
    /\ content \in Contents /\ tokenHits \in TokenHits
    /\ phraseHit \in BOOLEAN /\ odd \in BOOLEAN
    /\ suspicion \in SuspicionLevels
    /\ i \in 0 .. Len(Bytes(content))
    /\ count \in 0 .. Len(content) + tokenHits
    /\ fuel \in 0 .. FuelLimit
    /\ reply \in {Received, Running} \cup Failures \cup Proposals(1 .. MaxStamps)

\* Nothing is counted before the guest runs; while it runs it stands somewhere in the message, and has
\* come at least as many bytes as it has spent fuel.
ScanInv ==
    /\ reply = Received => i = 0 /\ count = 0
    /\ reply = Running => /\ i + fuel >= FuelLimit
                          /\ \E n : Standing(content, n, i, count)

\* What an answer says of the message.
AnswerInv ==
    /\ reply = Failed("Timeout") => Len(Bytes(content)) > FuelLimit + 1
    /\ Answered(reply) /\ reply \notin Failures /\ reply # DecodeWire(4, 0)
          => reply = Wire(OoSequences(content) + tokenHits)

GuestInv == AnalysisTypes /\ ScanInv /\ AnswerInv

\* The message is a sequence of characters, of some number of bytes.
LEMMA MessageFacts ==
    ASSUME content \in Contents, tokenHits \in TokenHits
    PROVE  /\ content \in Seq(Chars) /\ Len(content) \in Nat /\ tokenHits \in Nat
           /\ Len(Bytes(content)) \in Nat /\ FuelLimit \in Nat
<1>1. content \in Seq(Chars) /\ tokenHits \in Nat /\ FuelLimit \in Nat
  BY MessageAnalysisAssumption
<1> QED
  BY <1>1, BytesLength

LEMMA GuestInit == AnalysisInit => GuestInv
<1> SUFFICES ASSUME AnalysisInit PROVE GuestInv
  OBVIOUS
<1>1. /\ content \in Contents /\ tokenHits \in TokenHits /\ phraseHit \in BOOLEAN /\ odd \in BOOLEAN
      /\ suspicion = "None" /\ i = 0 /\ count = 0 /\ fuel = 0 /\ reply = Received
  BY DEF AnalysisInit
<1>2. /\ Len(content) \in Nat /\ tokenHits \in Nat /\ Len(Bytes(content)) \in Nat /\ FuelLimit \in Nat
  BY <1>1, MessageFacts
<1>3. AnalysisTypes
  BY <1>1, <1>2 DEF AnalysisTypes, SuspicionLevels
<1>4. Received # Running /\ Received # Failed("Timeout") /\ ~Answered(Received)
  BY ProposalsApart DEF Answered, Failures
<1> QED
  BY <1>1, <1>3, <1>4 DEF GuestInv, ScanInv, AnswerInv

LEMMA RefuseSuspiciousKeeps == GuestInv /\ RefuseSuspicious => GuestInv'
<1> SUFFICES ASSUME GuestInv, RefuseSuspicious PROVE GuestInv'
  OBVIOUS
<1> PICK refused : refused = DecodeWire(4, 0)
  OBVIOUS
<1>1. /\ reply' = refused /\ suspicion' = "Hard"
      /\ UNCHANGED <<content, tokenHits, phraseHit, odd, i, count, fuel>>
  BY DEF RefuseSuspicious, message
<1>2. /\ refused \in Proposals(1 .. MaxStamps) /\ refused \notin Failures
      /\ refused # Received /\ refused # Running /\ refused # Failed("Timeout")
  BY ProposalsApart DEF Answered, Failures
<1>3. AnalysisTypes'
  BY <1>1, <1>2 DEF GuestInv, AnalysisTypes, SuspicionLevels
<1>4. ScanInv' /\ AnswerInv'
  BY <1>1, <1>2 DEF ScanInv, AnswerInv
<1> QED
  BY <1>3, <1>4 DEF GuestInv

LEMMA SuspicionType == Suspicion(content, odd) \in SuspicionLevels
<1>1. CASE Len(content) >= HardChars
  BY <1>1 DEF Suspicion, SuspicionLevels
<1>2. CASE Len(content) < HardChars /\ (Len(content) >= SoftChars \/ odd \/ Repetitive(content))
  BY <1>2, MessageAnalysisAssumption DEF Suspicion, SuspicionLevels
<1> QED
  BY DEF Suspicion, SuspicionLevels

LEMMA CallGuestKeeps == GuestInv /\ CallGuest => GuestInv'
<1> SUFFICES ASSUME GuestInv, CallGuest PROVE GuestInv'
  OBVIOUS
<1> PICK refused : refused = DecodeWire(4, 0)
  OBVIOUS
<1> PICK text : text = content
  OBVIOUS
<1> PICK level : level = Suspicion(content, odd)
  OBVIOUS
<1>1. /\ reply = Received /\ suspicion' = level
      /\ UNCHANGED <<content, tokenHits, phraseHit, odd, i, count>>
      /\ \/ reply' = Failed("ResourceLimit") /\ fuel' = fuel
         \/ reply' = refused /\ fuel' = fuel
         \/ reply' = Running /\ fuel' = FuelLimit
  BY DEF CallGuest, message
<1>2. /\ content \in Contents /\ i = 0 /\ count = 0 /\ FuelLimit \in Nat /\ level \in SuspicionLevels
      /\ text \in Seq(Chars) /\ Standing(text, 0, 0, 0)
  <2>1. AnalysisTypes /\ i = 0 /\ count = 0
    BY <1>1 DEF GuestInv, ScanInv
  <2>2. content \in Seq(Chars) /\ FuelLimit \in Nat
    BY <2>1, MessageFacts DEF AnalysisTypes
  <2> QED
    BY <2>1, <2>2, SuspicionType, StandsFirst DEF AnalysisTypes
<1>3. /\ refused \in Proposals(1 .. MaxStamps) /\ refused # Received /\ refused # Running
      /\ refused \notin Failures /\ refused # Failed("Timeout")
      /\ Failed("ResourceLimit") \in Failures /\ Failed("ResourceLimit") # Failed("Timeout")
      /\ Failed("ResourceLimit") # Received /\ Failed("ResourceLimit") # Running
      /\ Running # Received /\ Running # Failed("Timeout") /\ ~Answered(Running)
  <2>1. Failed("ResourceLimit").kind # Failed("Timeout").kind
    BY DEF Failed
  <2> QED
    BY <2>1, ProposalsApart DEF Answered, Failures
<1>4. AnalysisTypes'
  BY <1>1, <1>2, <1>3 DEF GuestInv, AnalysisTypes
<1>5. ScanInv'
  <2>1. reply' # Received
    BY <1>1, <1>3
  <2>2. ASSUME reply' = Running PROVE (i + fuel)' >= FuelLimit /\ \E n : Standing(content', n, i', count')
    <3>1. fuel' = FuelLimit /\ i' = 0 /\ count' = 0 /\ content' = text
      BY <1>1, <1>2, <1>3, <2>2
    <3> QED
      BY <1>2, <3>1
  <2> QED
    BY <2>1, <2>2 DEF ScanInv
<1>6. AnswerInv'
  BY <1>1, <1>3 DEF AnswerInv
<1> QED
  BY <1>4, <1>5, <1>6 DEF GuestInv
\* A pass moves the guest on by at least the one unit of fuel that it burns.
LEMMA PassKeeps ==
    ASSUME GuestInv, NEW width \in Nat \ {0}, NEW hits \in Nat, Scanning, Advance(width, hits),
           \E n : Standing(content, n, i + width, count + hits)
    PROVE  GuestInv'
<1> PICK text : text = content
  OBVIOUS
<1> PICK m : Standing(text, m, i + width, count + hits)
  OBVIOUS
<1>1. /\ i' = i + width /\ count' = count + hits /\ fuel' = fuel - 1
      /\ UNCHANGED <<content, tokenHits, phraseHit, odd, suspicion, reply>>
      /\ reply = Running /\ fuel > 0
  BY DEF Advance, message, Scanning
<1>2. /\ content \in Contents /\ tokenHits \in Nat /\ Len(text) \in Nat /\ text \in Seq(Chars)
      /\ fuel \in 0 .. FuelLimit /\ FuelLimit \in Nat /\ i \in Nat /\ count \in Nat
      /\ Len(Bytes(text)) \in Nat
  <2>1. AnalysisTypes
    BY DEF GuestInv
  <2>2. content \in Contents /\ tokenHits \in TokenHits /\ fuel \in 0 .. FuelLimit
    BY <2>1 DEF AnalysisTypes
  <2>3. /\ content \in Seq(Chars) /\ Len(content) \in Nat /\ tokenHits \in Nat
        /\ Len(Bytes(content)) \in Nat /\ FuelLimit \in Nat
    BY <2>2, MessageFacts
  <2>4. i \in 0 .. Len(Bytes(content)) /\ count \in 0 .. Len(content) + tokenHits
    BY <2>1 DEF AnalysisTypes
  <2> QED
    BY <2>2, <2>3, <2>4
<1>3. i + width \in 0 .. Len(Bytes(text)) /\ count + hits \in 0 .. Len(text)
  BY <1>2, StandsWithin
<1>4. count + hits \in 0 .. Len(text) + tokenHits /\ fuel - 1 \in 0 .. FuelLimit
  BY <1>1, <1>2, <1>3
<1>5. AnalysisTypes'
  <2>1. i' \in 0 .. Len(Bytes(content'))
    BY <1>1, <1>3
  <2>2. count' \in 0 .. Len(content') + tokenHits'
    BY <1>1, <1>4
  <2>3. fuel' \in 0 .. FuelLimit
    BY <1>1, <1>4
  <2> QED
    BY <1>1, <2>1, <2>2, <2>3 DEF GuestInv, AnalysisTypes
<1>6. Running # Received /\ Running # Failed("Timeout") /\ ~Answered(Running)
  BY ProposalsApart DEF Answered, Failures
<1>7. ScanInv'
  <2>1. i + fuel >= FuelLimit
    BY <1>1 DEF GuestInv, ScanInv
  <2>2. (i + width) + (fuel - 1) >= FuelLimit
    BY <1>2, <2>1
  <2>3. i' + fuel' >= FuelLimit /\ Standing(content', m, i', count')
    BY <1>1, <2>2
  <2>4. reply' # Received
    BY <1>1, <1>6
  <2> QED
    BY <2>3, <2>4 DEF ScanInv
<1>8. AnswerInv'
  BY <1>1, <1>6 DEF AnswerInv
<1> QED
  BY <1>5, <1>7, <1>8 DEF GuestInv

LEMMA PassesKeep == GuestInv /\ (CountAsciiPair \/ CountKanaPair \/ SkipByte) => GuestInv'
<1> SUFFICES ASSUME GuestInv, CountAsciiPair \/ CountKanaPair \/ SkipByte PROVE GuestInv'
  OBVIOUS
<1>1. Scanning /\ reply = Running /\ i < Len(Bytes(content)) - 1 /\ content \in Seq(Chars)
  <2>1. Scanning /\ content \in Contents /\ tokenHits \in TokenHits
    BY DEF CountAsciiPair, CountKanaPair, SkipByte, GuestInv, AnalysisTypes
  <2> QED
    BY <2>1, MessageFacts DEF Scanning
<1>2. PICK n : Standing(content, n, i, count)
  BY <1>1 DEF GuestInv, ScanInv
<1>3. CASE CountAsciiPair
  <2>1. AsciiPairAt(i) /\ Advance(2, 1)
    BY <1>3 DEF CountAsciiPair
  <2>2. Standing(content, n + 2, i + 2, count + 1)
    BY <1>1, <1>2, <2>1, PassStands
  <2>3. \E m : Standing(content, m, i + 2, count + 1)
    BY <2>2
  <2> QED
    BY <1>1, <2>1, <2>3, PassKeeps
<1>4. CASE CountKanaPair
  <2>1. ~AsciiPairAt(i) /\ KanaPairAt(i) /\ Advance(6, 1)
    BY <1>4 DEF CountKanaPair
  <2>2. Standing(content, n + 2, i + 6, count + 1)
    BY <1>1, <1>2, <2>1, PassStands
  <2>3. \E m : Standing(content, m, i + 6, count + 1)
    BY <2>2
  <2> QED
    BY <1>1, <2>1, <2>3, PassKeeps
<1>5. CASE SkipByte
  <2>1. ~AsciiPairAt(i) /\ ~KanaPairAt(i) /\ Advance(1, 0)
    BY <1>5 DEF SkipByte
  <2>2. PICK m : Standing(content, m, i + 1, count)
    BY <1>1, <1>2, <2>1, PassStands
  <2>3. count + 0 = count
    BY <1>2 DEF Standing
  <2>4. \E k : Standing(content, k, i + 1, count + 0)
    BY <2>2, <2>3
  <2> QED
    BY <1>1, <2>1, <2>4, PassKeeps
<1> QED
  BY <1>3, <1>4, <1>5

LEMMA OutOfFuelKeeps == GuestInv /\ OutOfFuel => GuestInv'
<1> SUFFICES ASSUME GuestInv, OutOfFuel PROVE GuestInv'
  OBVIOUS
<1> PICK length : length = Len(Bytes(content))
  OBVIOUS
<1> PICK timeout : timeout = Failed("Timeout")
  OBVIOUS
<1>1. /\ reply = Running /\ fuel = 0 /\ i < length - 1 /\ reply' = timeout
      /\ UNCHANGED <<content, tokenHits, phraseHit, odd, suspicion, i, count, fuel>>
  BY DEF OutOfFuel, message
<1>2. /\ content \in Contents /\ tokenHits \in TokenHits /\ i \in 0 .. length
  BY DEF GuestInv, AnalysisTypes
<1>3. length \in Nat /\ FuelLimit \in Nat
  BY <1>2, MessageFacts
<1>4. i + fuel >= FuelLimit
  BY <1>1 DEF GuestInv, ScanInv
<1>5. length > FuelLimit + 1
  BY <1>1, <1>2, <1>3, <1>4
<1>6. timeout \in Failures /\ timeout # Received /\ timeout # Running
  BY ProposalsApart DEF Answered, Failures
<1>7. AnalysisTypes'
  BY <1>1, <1>6 DEF GuestInv, AnalysisTypes
<1>8. Len(Bytes(content')) > FuelLimit + 1
  BY <1>1, <1>5
<1>9. ScanInv' /\ AnswerInv'
  BY <1>1, <1>6, <1>8 DEF ScanInv, AnswerInv
<1> QED
  BY <1>7, <1>9 DEF GuestInv

LEMMA ProposeKeeps == GuestInv /\ Propose => GuestInv'
<1> SUFFICES ASSUME GuestInv, Propose PROVE GuestInv'
  OBVIOUS
<1> PICK text : text = content
  OBVIOUS
<1> PICK total : total = count + tokenHits
  OBVIOUS
<1>1. /\ content \in Contents /\ tokenHits \in TokenHits /\ phraseHit \in BOOLEAN
      /\ reply = Running /\ count' = total
      /\ i >= Len(Bytes(content)) - 1
      /\ UNCHANGED <<content, tokenHits, phraseHit, odd, suspicion, i, fuel>>
  BY DEF Propose, message, GuestInv, AnalysisTypes
<1>2. text \in Seq(Chars) /\ Len(text) \in Nat /\ tokenHits \in Nat
  BY <1>1, MessageFacts
<1>3. PICK n : Standing(text, n, i, count)
  BY <1>1 DEF GuestInv, ScanInv
<1>4. OoSequences(text) = count /\ count <= Len(text) /\ count \in Nat
  BY <1>1, <1>2, <1>3, ScanEnds DEF Standing
<1>5. total \in Nat /\ total \in 0 .. Len(text) + tokenHits /\ total = OoSequences(text) + tokenHits
  BY <1>2, <1>4
<1> PICK proposal : proposal = Wire(total)
  OBVIOUS
<1>6. reply' = proposal
  BY <1>1 DEF Propose
<1>7. /\ proposal \in Proposals(1 .. MaxStamps) /\ proposal \notin Failures
      /\ proposal # Received /\ proposal # Running /\ proposal # Failed("Timeout")
  BY <1>1, <1>5, WireType, ProposalsApart DEF Answered, Failures
<1>8. AnalysisTypes'
  <2>1. count' \in 0 .. Len(content') + tokenHits'
    BY <1>1, <1>5
  <2> QED
    BY <1>1, <1>6, <1>7, <2>1 DEF GuestInv, AnalysisTypes
<1>9. ScanInv'
  BY <1>6, <1>7 DEF ScanInv
<1>10. AnswerInv'
  <2>1. reply' = Wire(OoSequences(content) + tokenHits)'
    BY <1>1, <1>5, <1>6 DEF Wire
  <2> QED
    BY <1>6, <1>7, <2>1 DEF AnswerInv
<1> QED
  BY <1>8, <1>9, <1>10 DEF GuestInv
LEMMA GuestSafe == AnalysisSpec => []GuestInv
<1>1. GuestInv /\ [AnalysisNext]_analysisVars => GuestInv'
  <2> SUFFICES ASSUME GuestInv, [AnalysisNext]_analysisVars PROVE GuestInv'
    OBVIOUS
  <2>1. CASE RefuseSuspicious
    BY <2>1, RefuseSuspiciousKeeps
  <2>2. CASE CallGuest
    BY <2>2, CallGuestKeeps
  <2>3. CASE CountAsciiPair \/ CountKanaPair \/ SkipByte
    BY <2>3, PassesKeep
  <2>4. CASE OutOfFuel
    BY <2>4, OutOfFuelKeeps
  <2>5. CASE Propose
    BY <2>5, ProposeKeeps
  <2>6. CASE UNCHANGED analysisVars
    BY <2>6 DEF analysisVars, GuestInv, AnalysisTypes, ScanInv, AnswerInv, Wire
  <2> QED
    BY <2>1, <2>2, <2>3, <2>4, <2>5, <2>6 DEF AnalysisNext
<1> QED
  BY <1>1, GuestInit, PTL DEF AnalysisSpec

----------------------------------------------------------------------------
(* The theorems. *)

(* The guest's index never leaves the message by more than its last sequence, its count never exceeds *)
(* the characters and tokens there are, and what it answers decode_wire can return.                    *)
THEOREM AnalysisTypesCorrect == AnalysisSpec => []AnalysisTypeOK
<1>1. GuestInv => AnalysisTypeOK
  <2> SUFFICES ASSUME GuestInv PROVE AnalysisTypeOK
    OBVIOUS
  <2>1. content \in Contents /\ tokenHits \in TokenHits /\ i \in 0 .. Len(Bytes(content))
    BY DEF GuestInv, AnalysisTypes
  <2>2. Len(Bytes(content)) \in Nat
    BY <2>1, MessageFacts
  <2>3. i \in 0 .. Len(Bytes(content)) + 1
    BY <2>1, <2>2
  <2> QED
    BY <2>3 DEF GuestInv, AnalysisTypes, AnalysisTypeOK
<1> QED
  BY <1>1, GuestSafe, PTL

(* The loop over bytes in the sandboxed guest and count_oo_sequences over characters agree on every    *)
(* message, of every length: wherever the guest stands, it has counted the sequences of the characters *)
(* behind it, no character seen twice and none missed, though it also stops inside of characters.      *)
THEOREM GuestCountsWhole == AnalysisSpec => []CountsWholeSequences
<1>1. GuestInv => CountsWholeSequences
  <2> SUFFICES ASSUME GuestInv, reply = Running
               PROVE  LET passed == {n \in 0 .. Len(content) : Len(Bytes(SubSeq(content, 1, n))) <= i}
                      IN  count = OoSequences(SubSeq(content, 1, Max(passed)))
    BY DEF CountsWholeSequences
  <2>1. PICK n : Standing(content, n, i, count)
    BY DEF GuestInv, ScanInv
  <2>2. content \in Seq(Chars)
    BY MessageFacts DEF GuestInv, AnalysisTypes
  <2> QED
    BY <2>1, <2>2, Behind
<1> QED
  BY <1>1, GuestSafe, PTL

(* A Timeout of the sandbox, which the core counts as a failure of the analyzer, is only ever the      *)
(* answer to a message with more bytes than the fuel pays passes for.                                  *)
THEOREM OnlyLongTimeouts == AnalysisSpec => []TimeoutsAreLong
<1>1. GuestInv => TimeoutsAreLong
  BY DEF GuestInv, AnswerInv, TimeoutsAreLong
<1> QED
  BY <1>1, GuestSafe, PTL
----------------------------------------------------------------------------
(* What the detector's patterns find. *)

MatchThere(hay, needle, f, p) ==
    IF p > Len(hay) THEN 0
    ELSE IF IsPrefix(needle, SubSeq(hay, p, Len(hay)))
         THEN 1 + f[p + Len(needle)]
         ELSE f[p + 1]

\* The last k positions, and those that a match can end on.
MatchesTo(hay, needle, g, k) ==
    \A p \in Len(hay) + 1 - k .. Len(hay) + Len(needle) : g[p] = MatchThere(hay, needle, g, p)

LEMMA MatchesExist ==
    ASSUME NEW hay, Len(hay) \in Nat, NEW needle, Len(needle) \in Nat \ {0}
    PROVE  \A k \in 0 .. Len(hay) : \E g : MatchesTo(hay, needle, g, k)
<1> DEFINE N == Len(hay)
           L == Len(needle)
           S == {k \in Nat : k <= N => \E g : MatchesTo(hay, needle, g, k)}
<1>1. 0 \in S
  <2> DEFINE g == [p \in N + 1 .. N + L |-> 0]
  <2>1. \A p \in N + 1 - 0 .. N + L : p > N /\ g[p] = 0
    OBVIOUS
  <2> HIDE DEF g
  <2>2. MatchesTo(hay, needle, g, 0)
    BY <2>1 DEF MatchesTo, MatchThere
  <2> QED
    BY <2>2
<1>2. ASSUME NEW k \in Nat, k \in S PROVE k + 1 \in S
  <2> SUFFICES ASSUME k + 1 <= N PROVE \E g : MatchesTo(hay, needle, g, k + 1)
    OBVIOUS
  <2>1. PICK g : MatchesTo(hay, needle, g, k)
    BY <1>2
  <2> DEFINE h == [p \in N - k .. N + L |-> IF p = N - k THEN MatchThere(hay, needle, g, p) ELSE g[p]]
  <2>2. ASSUME NEW p \in N - k .. N + L PROVE h[p] = MatchThere(hay, needle, h, p)
    <3>1. ASSUME ~(p > N) PROVE h[p + 1] = g[p + 1] /\ h[p + L] = g[p + L]
      <4>1. p + 1 \in N - k .. N + L /\ p + L \in N - k .. N + L /\ p + 1 # N - k /\ p + L # N - k
        BY <3>1
      <4> QED
        BY <4>1
    <3> HIDE DEF h
    <3>2. MatchThere(hay, needle, h, p) = MatchThere(hay, needle, g, p)
      BY <3>1 DEF MatchThere
    <3>3. CASE p = N - k
      BY <3>2, <3>3 DEF h
    <3>4. CASE p # N - k
      <4>1. p \in N + 1 - k .. N + L
        BY <3>4
      <4>2. h[p] = g[p]
        BY <3>4 DEF h
      <4> QED
        BY <2>1, <3>2, <4>1, <4>2 DEF MatchesTo
    <3> QED
      BY <3>3, <3>4
  <2> HIDE DEF h
  <2>3. N + 1 - (k + 1) = N - k
    OBVIOUS
  <2>4. MatchesTo(hay, needle, h, k + 1)
    BY <2>2, <2>3 DEF MatchesTo
  <2> QED
    BY <2>4
<1> HIDE DEF S
<1>3. Nat \subseteq S
  BY <1>1, <1>2, SetInduction
<1> QED
  BY <1>3 DEF S

LEMMA MatchesAre ==
    ASSUME NEW hay, Len(hay) \in Nat, NEW needle, Len(needle) \in Nat \ {0}
    PROVE  \E f : /\ MatchesIn(hay, needle) = f[1]
                  /\ \A p \in 1 .. Len(hay) + Len(needle) : f[p] = MatchThere(hay, needle, f, p)
<1> DEFINE N == Len(hay)
           L == Len(needle)
           Fits(f) == f = [p \in 1 .. N + L |-> MatchThere(hay, needle, f, p)]
           F == CHOOSE f : Fits(f)
<1>1. \E f : Fits(f)
  <2>1. N \in 0 .. N
    OBVIOUS
  <2>2. PICK g : MatchesTo(hay, needle, g, N)
    BY <2>1, MatchesExist
  <2> DEFINE h == [p \in 1 .. N + L |-> g[p]]
  <2>3. ASSUME NEW p \in 1 .. N + L PROVE h[p] = MatchThere(hay, needle, h, p)
    <3>1. ASSUME ~(p > N) PROVE h[p + 1] = g[p + 1] /\ h[p + L] = g[p + L]
      <4>1. p + 1 \in 1 .. N + L /\ p + L \in 1 .. N + L
        BY <3>1
      <4> QED
        BY <4>1
    <3>2. h[p] = g[p] /\ p \in N + 1 - N .. N + L
      OBVIOUS
    <3> HIDE DEF h
    <3>3. MatchThere(hay, needle, h, p) = MatchThere(hay, needle, g, p)
      BY <3>1 DEF MatchThere
    <3> QED
      BY <2>2, <3>2, <3>3 DEF MatchesTo
  <2>4. Fits(h)
    BY <2>3
  <2> QED
    BY <2>4
<1>2. Fits(F)
  BY <1>1
<1>3. MatchesIn(hay, needle) = F[1]
  BY DEF MatchesIn, MatchThere
<1> HIDE DEF F
<1>4. \A p \in 1 .. N + L : F[p] = MatchThere(hay, needle, F, p)
  BY <1>2
<1> QED
  BY <1>3, <1>4

\* A pattern of one character twice.
Twice(hay, a, p) == p + 1 <= Len(hay) /\ hay[p] = a /\ hay[p + 1] = a

LEMMA PrefixTwice ==
    ASSUME NEW hay \in Seq(Chars), NEW needle \in Seq(Chars), NEW a \in Chars,
           Len(needle) = 2, needle[1] = a, needle[2] = a, NEW p \in 1 .. Len(hay)
    PROVE  IsPrefix(needle, SubSeq(hay, p, Len(hay))) <=> Twice(hay, a, p)
<1> PICK rest : rest = SubSeq(hay, p, Len(hay))
  OBVIOUS
<1>1. /\ rest \in Seq(Chars) /\ Len(rest) \in Nat /\ Len(rest) = Len(hay) - p + 1
      /\ \A q \in 1 .. Len(rest) : rest[q] = hay[p + q - 1]
  OBVIOUS
<1>2. Len(rest) >= 1 /\ (2 <= Len(rest) <=> p + 1 <= Len(hay))
  BY <1>1
<1>3. ASSUME 2 <= Len(rest)
      PROVE  SubSeq(needle, 1, 2) = SubSeq(rest, 1, 2) <=> hay[p] = a /\ hay[p + 1] = a
  <2>1. 1 \in 1 .. Len(rest) /\ 2 \in 1 .. Len(rest) /\ p + 1 - 1 = p /\ p + 2 - 1 = p + 1
    BY <1>1, <1>3
  <2>2. rest[1] = hay[p] /\ rest[2] = hay[p + 1]
    BY <1>1, <2>1
  <2> PICK front : front = SubSeq(rest, 1, 2)
    OBVIOUS
  <2> PICK whole : whole = SubSeq(needle, 1, 2)
    OBVIOUS
  <2>3. front \in Seq(Chars) /\ Len(front) = 2 /\ front[1] = rest[1] /\ front[2] = rest[2]
    BY <1>1, <1>3
  <2>4. whole \in Seq(Chars) /\ Len(whole) = 2 /\ whole[1] = a /\ whole[2] = a
    OBVIOUS
  <2>5. ASSUME front[1] = a, front[2] = a PROVE front = whole
    <3>1. \A q \in 1 .. 2 : q = 1 \/ q = 2
      OBVIOUS
    <3>2. \A q \in 1 .. Len(front) : front[q] = whole[q]
      BY <2>3, <2>4, <2>5, <3>1
    <3>3. front \in Seq(Chars) /\ whole \in Seq(Chars) /\ Len(front) = Len(whole)
      BY <2>3, <2>4
    <3> QED
      BY <3>2, <3>3, SeqEqual
  <2> QED
    BY <2>2, <2>3, <2>4, <2>5
<1>4. IsPrefix(needle, rest) <=> 2 <= Len(rest) /\ SubSeq(needle, 1, 2) = SubSeq(rest, 1, 2)
  BY DEF IsPrefix
<1> QED
  BY <1>2, <1>3, <1>4 DEF Twice

\* How many times the pattern is found from each position on.
PairsFrom(hay, a, f) ==
    /\ f[Len(hay) + 1] = 0
    /\ \A p \in 1 .. Len(hay) : f[p] = IF Twice(hay, a, p) THEN 1 + f[p + 2] ELSE f[p + 1]

LEMMA PairsAre ==
    ASSUME NEW hay \in Seq(Chars), NEW needle \in Seq(Chars), NEW a \in Chars,
           Len(needle) = 2, needle[1] = a, needle[2] = a
    PROVE  \E f : MatchesIn(hay, needle) = f[1] /\ PairsFrom(hay, a, f)
<1>1. Len(hay) \in Nat /\ Len(needle) \in Nat \ {0}
  OBVIOUS
<1>2. PICK f : /\ MatchesIn(hay, needle) = f[1]
               /\ \A p \in 1 .. Len(hay) + Len(needle) : f[p] = MatchThere(hay, needle, f, p)
  BY <1>1, MatchesAre
<1>3. f[Len(hay) + 1] = 0
  <2>1. Len(hay) + 1 \in 1 .. Len(hay) + Len(needle) /\ Len(hay) + 1 > Len(hay)
    BY <1>1
  <2>2. f[Len(hay) + 1] = MatchThere(hay, needle, f, Len(hay) + 1)
    BY <1>2, <2>1
  <2> QED
    BY <2>1, <2>2 DEF MatchThere
<1>4. ASSUME NEW p \in 1 .. Len(hay)
      PROVE  f[p] = IF Twice(hay, a, p) THEN 1 + f[p + 2] ELSE f[p + 1]
  <2>1. p \in 1 .. Len(hay) + Len(needle) /\ ~(p > Len(hay))
    BY <1>1
  <2>2. f[p] = MatchThere(hay, needle, f, p)
    BY <1>2, <2>1
  <2>3. IsPrefix(needle, SubSeq(hay, p, Len(hay))) <=> Twice(hay, a, p)
    BY PrefixTwice
  <2> QED
    BY <2>1, <2>2, <2>3 DEF MatchThere
<1> QED
  BY <1>2, <1>3, <1>4 DEF PairsFrom

LEMMA LowerCaseIs ==
    ASSUME NEW text \in Seq(Chars)
    PROVE  /\ LowerCase(text) \in Seq(Chars) /\ Len(LowerCase(text)) = Len(text)
           /\ \A p \in 1 .. Len(text) : LowerCase(text)[p] = "o" <=> text[p] \in {"o", "O"}
<1>1. /\ DOMAIN text = 1 .. Len(text) /\ Len(text) \in Nat /\ "o" \in Chars
      /\ \A p \in 1 .. Len(text) : text[p] \in Chars
  BY DEF Chars
<1> PICK low : low = LowerCase(text)
  OBVIOUS
<1>2. low = [p \in 1 .. Len(text) |-> IF text[p] = "O" THEN "o" ELSE text[p]]
  BY <1>1 DEF LowerCase
<1>3. low \in Seq(Chars) /\ Len(low) = Len(text)
  BY <1>1, <1>2
<1>4. \A p \in 1 .. Len(text) : low[p] = "o" <=> text[p] \in {"o", "O"}
  BY <1>2
<1> QED
  BY <1>3, <1>4

\* What a pair of characters adds to each count: a pair of one kind is no beginning of another.
Adds(text, hira, kata, ascii, p) ==
    /\ SameO(text[p], text[p + 1]) =>
          \/ hira[p] = 1 + hira[p + 2] /\ kata[p] = kata[p + 2] /\ ascii[p] = ascii[p + 2]
          \/ hira[p] = hira[p + 2] /\ kata[p] = 1 + kata[p + 2] /\ ascii[p] = ascii[p + 2]
          \/ hira[p] = hira[p + 2] /\ kata[p] = kata[p + 2] /\ ascii[p] = 1 + ascii[p + 2]
    /\ ~SameO(text[p], text[p + 1]) =>
          hira[p] = hira[p + 1] /\ kata[p] = kata[p + 1] /\ ascii[p] = ascii[p + 1]

LEMMA PairAdds ==
    ASSUME NEW text \in Seq(Chars), NEW hira, NEW kata, NEW ascii,
           PairsFrom(text, "hira_o", hira), PairsFrom(text, "kata_o", kata),
           PairsFrom(LowerCase(text), "o", ascii), NEW p \in 1 .. Len(text) - 1
    PROVE  Adds(text, hira, kata, ascii, p)
<1> PICK low : low = LowerCase(text)
  OBVIOUS
<1>1. /\ Len(low) = Len(text) /\ Len(text) \in Nat /\ p \in 1 .. Len(text) /\ p + 1 \in 1 .. Len(text)
      /\ p + 1 <= Len(text) /\ (p + 1) + 1 = p + 2
  BY LowerCaseIs
<1>2. /\ low[p] = "o" <=> text[p] \in {"o", "O"}
      /\ low[p + 1] = "o" <=> text[p + 1] \in {"o", "O"}
  BY <1>1, LowerCaseIs
<1>3. text[p] \in Chars /\ text[p + 1] \in Chars
  BY <1>1
<1>4. /\ hira[p] = IF Twice(text, "hira_o", p) THEN 1 + hira[p + 2] ELSE hira[p + 1]
      /\ kata[p] = IF Twice(text, "kata_o", p) THEN 1 + kata[p + 2] ELSE kata[p + 1]
      /\ ascii[p] = IF Twice(low, "o", p) THEN 1 + ascii[p + 2] ELSE ascii[p + 1]
  BY <1>1 DEF PairsFrom
<1>5. /\ text[p + 1] # "hira_o" => hira[p + 1] = hira[p + 2]
      /\ text[p + 1] # "kata_o" => kata[p + 1] = kata[p + 2]
      /\ low[p + 1] # "o" => ascii[p + 1] = ascii[p + 2]
  <2>1. /\ hira[p + 1] = IF Twice(text, "hira_o", p + 1) THEN 1 + hira[(p + 1) + 2] ELSE hira[(p + 1) + 1]
        /\ kata[p + 1] = IF Twice(text, "kata_o", p + 1) THEN 1 + kata[(p + 1) + 2] ELSE kata[(p + 1) + 1]
        /\ ascii[p + 1] = IF Twice(low, "o", p + 1) THEN 1 + ascii[(p + 1) + 2] ELSE ascii[(p + 1) + 1]
    BY <1>1 DEF PairsFrom
  <2> QED
    BY <1>1, <2>1 DEF Twice
<1>6. /\ Twice(text, "hira_o", p) <=> text[p] = "hira_o" /\ text[p + 1] = "hira_o"
      /\ Twice(text, "kata_o", p) <=> text[p] = "kata_o" /\ text[p + 1] = "kata_o"
      /\ Twice(low, "o", p) <=> text[p] \in {"o", "O"} /\ text[p + 1] \in {"o", "O"}
  BY <1>1, <1>2 DEF Twice
<1>7. SameO(text[p], text[p + 1]) <=>
          Twice(text, "hira_o", p) \/ Twice(text, "kata_o", p) \/ Twice(low, "o", p)
  BY <1>3, <1>6, SameOKinds DEF HiraOrKata
<1>8. CASE Twice(text, "hira_o", p)
  <2>1. ~Twice(text, "kata_o", p) /\ ~Twice(low, "o", p) /\ text[p + 1] # "kata_o" /\ low[p + 1] # "o"
    BY <1>2, <1>6, <1>8
  <2> QED
    BY <1>4, <1>5, <1>7, <1>8, <2>1 DEF Adds
<1>9. CASE Twice(text, "kata_o", p)
  <2>1. ~Twice(text, "hira_o", p) /\ ~Twice(low, "o", p) /\ text[p + 1] # "hira_o" /\ low[p + 1] # "o"
    BY <1>2, <1>6, <1>9
  <2> QED
    BY <1>4, <1>5, <1>7, <1>9, <2>1 DEF Adds
<1>10. CASE Twice(low, "o", p)
  <2>1. /\ ~Twice(text, "hira_o", p) /\ ~Twice(text, "kata_o", p)
        /\ text[p + 1] # "hira_o" /\ text[p + 1] # "kata_o"
    BY <1>2, <1>6, <1>10
  <2> QED
    BY <1>4, <1>5, <1>7, <1>10, <2>1 DEF Adds
<1>11. CASE ~Twice(text, "hira_o", p) /\ ~Twice(text, "kata_o", p) /\ ~Twice(low, "o", p)
  BY <1>4, <1>7, <1>11 DEF Adds
<1> QED
  BY <1>8, <1>9, <1>10, <1>11

LEMMA PairsSum ==
    ASSUME NEW text \in Seq(Chars), NEW hira, NEW kata, NEW ascii,
           PairsFrom(text, "hira_o", hira), PairsFrom(text, "kata_o", kata),
           PairsFrom(LowerCase(text), "o", ascii)
    PROVE  /\ hira[1] \in Nat /\ kata[1] \in Nat /\ ascii[1] \in Nat
           /\ OoSequences(text) = hira[1] + kata[1] + ascii[1]
<1> DEFINE N == Len(text)
           oo == OoFrom(text)
           Sums(p) == /\ hira[p] \in Nat /\ kata[p] \in Nat /\ ascii[p] \in Nat
                      /\ oo[p] = hira[p] + kata[p] + ascii[p]
           S == {k \in Nat : k <= N => \A p \in N + 1 - k .. N + 1 : Sums(p)}
<1>1. N \in Nat /\ OoSequences(text) = oo[1] /\ \A p \in 1 .. N + 1 : oo[p] = FromThere(text, oo, p)
  BY OoFromIs
<1>2. Len(LowerCase(text)) = N
  BY LowerCaseIs
<1> HIDE DEF oo
<1>3. Sums(N + 1)
  <2>1. oo[N + 1] = 0
    BY <1>1 DEF FromThere
  <2>2. hira[N + 1] = 0 /\ kata[N + 1] = 0 /\ ascii[N + 1] = 0
    BY <1>2 DEF PairsFrom
  <2> QED
    BY <2>1, <2>2
<1>4. ASSUME NEW p \in 1 .. N, Sums(p + 1), p < N => Sums(p + 2) PROVE Sums(p)
  <2>1. CASE p = N
    <3>1. oo[p] = 0
      BY <1>1, <2>1 DEF FromThere
    <3>2. /\ hira[p] = hira[p + 1] /\ kata[p] = kata[p + 1] /\ ascii[p] = ascii[p + 1]
      BY <1>1, <1>2, <2>1 DEF PairsFrom, Twice
    <3>3. hira[N + 1] = 0 /\ kata[N + 1] = 0 /\ ascii[N + 1] = 0
      BY <1>2 DEF PairsFrom
    <3> QED
      BY <2>1, <3>1, <3>2, <3>3
  <2>2. CASE p < N
    <3>1. p \in 1 .. Len(text) - 1 /\ p \in 1 .. N + 1 /\ ~(p >= N)
      BY <1>1, <2>2
    <3>2. oo[p] = IF SameO(text[p], text[p + 1]) THEN 1 + oo[p + 2] ELSE oo[p + 1]
      BY <1>1, <3>1 DEF FromThere
    <3>3. Adds(text, hira, kata, ascii, p)
      BY <3>1, PairAdds
    <3>4. CASE SameO(text[p], text[p + 1])
      <4>1. /\ hira[p + 2] \in Nat /\ kata[p + 2] \in Nat /\ ascii[p + 2] \in Nat
            /\ oo[p + 2] = hira[p + 2] + kata[p + 2] + ascii[p + 2]
        BY <1>4, <2>2
      <4>2. oo[p] = 1 + oo[p + 2]
        BY <3>2, <3>4
      <4>3. CASE hira[p] = 1 + hira[p + 2] /\ kata[p] = kata[p + 2] /\ ascii[p] = ascii[p + 2]
        BY <4>1, <4>2, <4>3
      <4>4. CASE hira[p] = hira[p + 2] /\ kata[p] = 1 + kata[p + 2] /\ ascii[p] = ascii[p + 2]
        BY <4>1, <4>2, <4>4
      <4>5. CASE hira[p] = hira[p + 2] /\ kata[p] = kata[p + 2] /\ ascii[p] = 1 + ascii[p + 2]
        BY <4>1, <4>2, <4>5
      <4> QED
        BY <3>3, <3>4, <4>3, <4>4, <4>5 DEF Adds
    <3>5. CASE ~SameO(text[p], text[p + 1])
      BY <1>4, <3>2, <3>3, <3>5 DEF Adds
    <3> QED
      BY <3>4, <3>5
  <2> QED
    BY <1>1, <2>1, <2>2
<1> HIDE DEF Sums
<1>5. 0 \in S
  <2>1. \A p \in N + 1 - 0 .. N + 1 : p = N + 1
    BY <1>1
  <2> QED
    BY <1>3, <2>1
<1>6. ASSUME NEW k \in Nat, k \in S PROVE k + 1 \in S
  <2> SUFFICES ASSUME k + 1 <= N, NEW p \in N + 1 - (k + 1) .. N + 1 PROVE Sums(p)
    OBVIOUS
  <2>1. CASE p \in N + 1 - k .. N + 1
    BY <1>1, <1>6, <2>1
  <2>2. CASE p = N - k
    <3>1. p \in 1 .. N /\ p + 1 \in N + 1 - k .. N + 1 /\ (p < N => p + 2 \in N + 1 - k .. N + 1)
      BY <1>1, <2>2
    <3>2. \A q \in N + 1 - k .. N + 1 : Sums(q)
      BY <1>1, <1>6
    <3> QED
      BY <1>4, <3>1, <3>2
  <2> QED
    BY <1>1, <2>1, <2>2
<1> HIDE DEF S
<1>7. Nat \subseteq S
  BY <1>5, <1>6, SetInduction
<1>8. Sums(1)
  <2>1. N \in S /\ 1 \in N + 1 - N .. N + 1
    BY <1>1, <1>7
  <2> QED
    BY <1>1, <2>1 DEF S
<1> QED
  BY <1>1, <1>8 DEF Sums

\* The patterns that the sample configuration ships.
SamplePatterns == <<<<"hira_o", "hira_o">>, <<"kata_o", "kata_o">>, <<"o", "o">>>>

LEMMA DoublesAre ==
    ASSUME NEW a \in Chars, NEW pattern, pattern = <<a, a>>
    PROVE  /\ pattern \in Seq(Chars) /\ Len(pattern) = 2 /\ pattern[1] = a /\ pattern[2] = a
           /\ ToSet(pattern) = {a} /\ pattern # <<>>
<1>1. pattern \in Seq(Chars) /\ Len(pattern) = 2 /\ pattern[1] = a /\ pattern[2] = a
  OBVIOUS
<1>2. DOMAIN pattern = 1 .. 2 /\ \A q \in 1 .. 2 : q = 1 \/ q = 2
  OBVIOUS
<1>3. ToSet(pattern) = {a}
  <2>1. \A q \in DOMAIN pattern : pattern[q] = a
    BY <1>1, <1>2
  <2>2. 1 \in DOMAIN pattern
    BY <1>2
  <2> QED
    BY <1>1, <2>1, <2>2 DEF ToSet
<1> QED
  BY <1>1, <1>3, EmptySeq

\* The sums of SequenceHits over three patterns.
LEMMA ThreeHits ==
    ASSUME NEW text, NEW a, NEW b, NEW c,
           Len(Patterns) = 3, Patterns[1] = a, Patterns[2] = b, Patterns[3] = c,
           a # <<>>, b # <<>>, c # <<>>,
           CountNonOverlapping(text, a) \in Nat, CountNonOverlapping(text, b) \in Nat,
           CountNonOverlapping(text, c) \in Nat
    PROVE  SequenceHits(text) = CountNonOverlapping(text, a) + CountNonOverlapping(text, b)
                                   + CountNonOverlapping(text, c)
<1> PICK ca : ca = CountNonOverlapping(text, a)
  OBVIOUS
<1> PICK cb : cb = CountNonOverlapping(text, b)
  OBVIOUS
<1> PICK cc : cc = CountNonOverlapping(text, c)
  OBVIOUS
<1> DEFINE There(f, n) == IF n = 0 THEN 0
                          ELSE IF Patterns[n] = <<>> THEN f[n - 1]
                          ELSE f[n - 1] + CountNonOverlapping(text, Patterns[n])
           Fits(f) == f = [n \in 0 .. Len(Patterns) |-> There(f, n)]
           F == CHOOSE f : Fits(f)
           h == [n \in 0 .. 3 |-> IF n = 0 THEN 0 ELSE IF n = 1 THEN ca ELSE IF n = 2 THEN ca + cb ELSE ca + cb + cc]
<1>1. Len(Patterns) = 3 /\ Patterns[1] = a /\ Patterns[2] = b /\ Patterns[3] = c
  OBVIOUS
<1>2. \A n \in 0 .. 3 : n = 0 \/ n = 1 \/ n = 2 \/ n = 3
  OBVIOUS
<1>3. h[0] = 0 /\ h[1] = ca /\ h[2] = ca + cb /\ h[3] = ca + cb + cc
  OBVIOUS
<1>4. h = [n \in 0 .. 3 |-> h[n]]
  OBVIOUS
<1> HIDE DEF h
<1>5. There(h, 0) = 0 /\ There(h, 1) = ca /\ There(h, 2) = ca + cb /\ There(h, 3) = ca + cb + cc
  <2>1. ca \in Nat /\ cb \in Nat /\ cc \in Nat
    OBVIOUS
  <2>2. 1 # 0 /\ 2 # 0 /\ 3 # 0 /\ 1 - 1 = 0 /\ 2 - 1 = 1 /\ 3 - 1 = 2
    OBVIOUS
  <2>3. There(h, 0) = 0
    OBVIOUS
  <2>4. There(h, 1) = 0 + ca
    BY <1>1, <1>3, <2>2
  <2>5. There(h, 2) = ca + cb
    BY <1>1, <1>3, <2>2
  <2>6. There(h, 3) = (ca + cb) + cc
    BY <1>1, <1>3, <2>2
  <2> HIDE DEF There
  <2> QED
    BY <2>1, <2>3, <2>4, <2>5, <2>6
<1> HIDE DEF There
<1>6. \A n \in 0 .. 3 : h[n] = There(h, n)
  BY <1>2, <1>3, <1>5
<1>7. Fits(h)
  <2>1. h = [n \in 0 .. 3 |-> There(h, n)]
    BY <1>4, <1>6
  <2> QED
    BY <1>1, <2>1
<1>8. Fits(F)
  BY <1>7
<1>9. SequenceHits(text) = F[3]
  BY <1>1 DEF SequenceHits, There
<1> HIDE DEF F
<1>10. \A n \in 0 .. 3 : F[n] = There(F, n)
  BY <1>1, <1>8
<1>11. F[0] = 0 /\ F[1] = F[0] + ca /\ F[2] = F[1] + cb /\ F[3] = F[2] + cc
  <2>1. F[0] = There(F, 0) /\ F[1] = There(F, 1) /\ F[2] = There(F, 2) /\ F[3] = There(F, 3)
    BY <1>10
  <2>2. There(F, 0) = 0
    BY DEF There
  <2>3. There(F, 1) = F[1 - 1] + ca
    BY <1>1 DEF There
  <2>4. There(F, 2) = F[2 - 1] + cb
    BY <1>1 DEF There
  <2>5. There(F, 3) = F[3 - 1] + cc
    BY <1>1 DEF There
  <2>6. 1 - 1 = 0 /\ 2 - 1 = 1 /\ 3 - 1 = 2
    OBVIOUS
  <2> QED
    BY <2>1, <2>2, <2>3, <2>4, <2>5, <2>6
<1>12. F[3] = ca + cb + cc
  BY <1>11
<1> QED
  BY <1>9, <1>12

\* With those patterns the detector, which looks for one pattern after the other, and count_oo_sequences,
\* which takes each pair as it comes, count the same sequences in every message.
LEMMA PatternsFindPairs ==
    ASSUME Patterns = SamplePatterns, NEW text \in Seq(Chars)
    PROVE  SequenceHits(text) = OoSequences(text) /\ OoSequences(text) \in Nat
<1> PICK a : a = <<"hira_o", "hira_o">>
  OBVIOUS
<1> PICK b : b = <<"kata_o", "kata_o">>
  OBVIOUS
<1> PICK c : c = <<"o", "o">>
  OBVIOUS
<1>1. "hira_o" \in Chars /\ "kata_o" \in Chars /\ "o" \in Chars
  BY DEF Chars
<1>2. /\ a \in Seq(Chars) /\ Len(a) = 2 /\ a[1] = "hira_o" /\ a[2] = "hira_o" /\ ToSet(a) = {"hira_o"} /\ a # <<>>
      /\ b \in Seq(Chars) /\ Len(b) = 2 /\ b[1] = "kata_o" /\ b[2] = "kata_o" /\ ToSet(b) = {"kata_o"} /\ b # <<>>
      /\ c \in Seq(Chars) /\ Len(c) = 2 /\ c[1] = "o" /\ c[2] = "o" /\ ToSet(c) = {"o"} /\ c # <<>>
  BY <1>1, DoublesAre
<1>3. PICK hira : MatchesIn(text, a) = hira[1] /\ PairsFrom(text, "hira_o", hira)
  BY <1>1, <1>2, PairsAre
<1>4. PICK kata : MatchesIn(text, b) = kata[1] /\ PairsFrom(text, "kata_o", kata)
  BY <1>1, <1>2, PairsAre
<1> PICK low : low = LowerCase(text)
  OBVIOUS
<1> PICK lowC : lowC = LowerCase(c)
  OBVIOUS
<1>5. low \in Seq(Chars)
  BY LowerCaseIs
<1>6. lowC \in Seq(Chars) /\ Len(lowC) = 2 /\ lowC[1] = "o" /\ lowC[2] = "o"
  <2>1. 1 \in 1 .. Len(c) /\ 2 \in 1 .. Len(c)
    BY <1>2
  <2> QED
    BY <1>2, <2>1, LowerCaseIs
<1>7. PICK ascii : MatchesIn(low, lowC) = ascii[1] /\ PairsFrom(low, "o", ascii)
  BY <1>1, <1>5, <1>6, PairsAre
<1>8. /\ CountNonOverlapping(text, a) = hira[1]
      /\ CountNonOverlapping(text, b) = kata[1]
      /\ CountNonOverlapping(text, c) = ascii[1]
  <2>1. CountNonOverlapping(text, a) = MatchesIn(text, a)
    BY <1>2 DEF CountNonOverlapping
  <2>2. CountNonOverlapping(text, b) = MatchesIn(text, b)
    BY <1>2 DEF CountNonOverlapping
  <2>3. CountNonOverlapping(text, c) = MatchesIn(low, lowC)
    BY <1>2 DEF CountNonOverlapping
  <2> QED
    BY <1>3, <1>4, <1>7, <2>1, <2>2, <2>3
<1>9. /\ hira[1] \in Nat /\ kata[1] \in Nat /\ ascii[1] \in Nat
      /\ OoSequences(text) = hira[1] + kata[1] + ascii[1]
  BY <1>3, <1>4, <1>7, PairsSum
<1>10. Len(Patterns) = 3 /\ Patterns[1] = a /\ Patterns[2] = b /\ Patterns[3] = c
  BY DEF SamplePatterns
<1>11. SequenceHits(text) = CountNonOverlapping(text, a) + CountNonOverlapping(text, b) + CountNonOverlapping(text, c)
  <2>1. /\ CountNonOverlapping(text, a) \in Nat /\ CountNonOverlapping(text, b) \in Nat
        /\ CountNonOverlapping(text, c) \in Nat
    BY <1>8, <1>9
  <2> QED
    BY <1>2, <1>10, <2>1, ThreeHits
<1> QED
  BY <1>8, <1>9, <1>11

----------------------------------------------------------------------------
(* The governed decision and the plain one. *)

\* The settings of the sample configuration that the two decisions read: the patterns are its patterns,
\* nothing is held back by the policy or left out for being blank, and the cap on stamps is within what
\* the wire and a message can carry. With other settings the two really differ.
SampleSettings ==
    /\ Patterns = SamplePatterns
    /\ ActionPolicy = "ReactOrSend" /\ ReactionValid /\ TemplateRenders /\ Sendable = Sends
    /\ AtLeast(MaxCountCap, 1) <= MaxStamps
    /\ AtLeast(MaxCountCap, 1) <= AtLeast(FittingStamps, 1)

\* In mode Normal nothing but suspicion then changes a proposed action.
LEMMA Compiled ==
    ASSUME SampleSettings, NEW p, NEW total, NEW level, ProposalToAction(p, total) \in BotActions
    PROVE  CompileResponse(p, "Normal", level, total) =
              IF level = "Soft" THEN Soften(ProposalToAction(p, total)) ELSE ProposalToAction(p, total)
<1> PICK proposed : proposed = ProposalToAction(p, total)
  OBVIOUS
<1> DEFINE softened == IF level = "Soft" THEN Soften(proposed) ELSE proposed
<1>1. softened \in BotActions
  BY DEF BotActions, Outbound, Sends, Soften
<1>2. ASSUME NEW action \in BotActions
      PROVE  ValidOrNoop(PolicyGate(ModeGate("Normal", action))) = action
  <2>1. ModeGate("Normal", action) = action
    BY DEF ModeGate
  <2>2. PolicyGate(action) = action
    BY DEF PolicyGate, SampleSettings
  <2>3. ValidOrNoop(action) = action
    BY DEF ValidOrNoop, SampleSettings
  <2> QED
    BY <2>1, <2>2, <2>3
<1>3. CompileResponse(p, "Normal", level, total) = ValidOrNoop(PolicyGate(ModeGate("Normal", softened)))
  BY DEF CompileResponse
<1> HIDE DEF softened
<1>4. CompileResponse(p, "Normal", level, total) = softened
  BY <1>1, <1>2, <1>3
<1> QED
  BY <1>4 DEF softened

\* The count the detector and the dictionary give.
LEMMA Totals ==
    ASSUME GuestInv, SampleSettings
    PROVE  /\ Total(content, tokenHits) = OoSequences(content) + tokenHits
           /\ Total(content, tokenHits) \in Nat /\ phraseHit \in BOOLEAN
<1>1. content \in Contents /\ tokenHits \in TokenHits /\ phraseHit \in BOOLEAN
  BY DEF GuestInv, AnalysisTypes
<1>2. content \in Seq(Chars) /\ tokenHits \in Nat /\ Len(content) \in Nat
  BY <1>1, MessageFacts
<1>3. SequenceHits(content) = OoSequences(content) /\ OoSequences(content) \in Nat
  BY <1>2, PatternsFindPairs DEF SampleSettings
<1> QED
  BY <1>1, <1>2, <1>3 DEF Total

\* Without an answer to go by, nothing is done.
LEMMA NothingDone ==
    ASSUME SampleSettings, ProposalOf(reply).kind \in {"Noop", "Defer", "SuspiciousInput"}
    PROVE  GovernedAction = [action |-> "Noop", stamps |-> 0]
<1> PICK proposal : proposal = ProposalOf(reply)
  OBVIOUS
<1> PICK total : total = Total(content, tokenHits)
  OBVIOUS
<1>1. ProposalToAction(proposal, total) = "Noop"
  BY DEF ProposalToAction
<1>2. CompileResponse(proposal, "Normal", suspicion, total) = "Noop"
  BY <1>1, Compiled DEF BotActions, Soften, Sends
<1> QED
  BY <1>2 DEF GovernedAction

\* The caps of the two paths are one cap.
LEMMA StampsAgree ==
    ASSUME SampleSettings, NEW total \in Nat, total > 1,
           NEW p, p.count = AtMost(total, MaxStamps)
    PROVE  /\ AtMost(total, AtLeast(MaxCountCap, 1)) \in Nat \ {0}
           /\ Repeats(p, total) = AtMost(total, AtLeast(MaxCountCap, 1))
           /\ AtMost(AtMost(total, AtLeast(MaxCountCap, 1)), AtLeast(FittingStamps, 1)) = Repeats(p, total)
<1>1. MaxStamps \in Nat /\ FittingStamps \in Nat /\ MaxCountCap \in Nat
  BY MessageAnalysisAssumption, ResponseCompilerAssumption
<1> QED
  BY <1>1 DEF Repeats, SampleSettings, AtMost, AtLeast

(* The governed path (the guest's proposal across the wire, compiled with the caps and the gates) does *)
(* with a message what analyze_message decides from its text alone, softened where the text was        *)
(* suspicious; and does nothing with one that the guest failed on or that was refused to it. The       *)
(* settings that the sample configuration ships are what this takes.                                   *)
THEOREM DecidesAlike ==
    ASSUME SampleSettings
    PROVE  AnalysisSpec => []DecidesLikePlainAnalysis
<1>1. ASSUME GuestInv, Answered(reply)
      PROVE  GovernedAction =
                IF reply \in Failures \/ reply.kind = "SuspiciousInput"
                THEN [action |-> "Noop", stamps |-> 0]
                ELSE Tempered(PlainAction(content, tokenHits, phraseHit))
  <2>1. CASE reply \in Failures
    <3>1. ProposalOf(reply).kind = "Defer"
      BY <2>1, Decoded DEF ProposalOf
    <3> QED
      BY <2>1, <3>1, NothingDone
  <2>2. CASE reply \notin Failures /\ reply = DecodeWire(4, 0)
    <3>1. reply.kind = "SuspiciousInput" /\ ProposalOf(reply).kind = "SuspiciousInput"
      BY <2>2, Decoded DEF ProposalOf
    <3> QED
      BY <3>1, NothingDone
  <2>3. CASE reply \notin Failures /\ reply # DecodeWire(4, 0)
    <3> PICK total : total = Total(content, tokenHits)
      OBVIOUS
    <3>1. total = OoSequences(content) + tokenHits /\ total \in Nat /\ phraseHit \in BOOLEAN
      BY <1>1, Totals
    <3>2. reply = Wire(total) /\ ProposalOf(reply) = reply
      BY <1>1, <2>3, <3>1 DEF GuestInv, AnswerInv, ProposalOf
    <3> DEFINE capped == AtMost(total, AtLeast(MaxCountCap, 1))
    <3>3. capped \in Nat /\ (capped = 0 <=> total = 0) /\ (total = 1 => capped = 1)
      BY <3>1, ResponseCompilerAssumption DEF AtMost, AtLeast
    <3>4. GovernedAction = LET action == CompileResponse(reply, "Normal", suspicion, total)
                           IN  [action |-> action,
                                stamps |-> CASE action = "SendTemplate" -> Repeats(reply, total)
                                             [] action = "Noop" -> 0
                                             [] OTHER -> 1]
      BY <3>2 DEF GovernedAction
    <3>5. CASE phraseHit
      <4>1. reply.kind = "SpecialPhrase"
        BY <3>1, <3>2, <3>5, WireIs
      <4>2. ProposalToAction(reply, total) = "SendPhrase"
        BY <4>1 DEF ProposalToAction
      <4>3. PlainAction(content, tokenHits, phraseHit) = [action |-> "SendPhrase", stamps |-> 1]
        BY <3>5 DEF PlainAction
      <4>4. CompileResponse(reply, "Normal", suspicion, total) =
               IF suspicion = "Soft" THEN "React" ELSE "SendPhrase"
        BY <4>2, Compiled DEF BotActions, Outbound, Sends, Soften
      <4>5. GovernedAction = IF suspicion = "Soft" THEN [action |-> "React", stamps |-> 1]
                             ELSE [action |-> "SendPhrase", stamps |-> 1]
        BY <3>4, <4>4
      <4> QED
        BY <2>3, <4>1, <4>3, <4>5 DEF Tempered, Sends
    <3>6. CASE ~phraseHit /\ total = 0
      <4>1. reply.kind = "Noop"
        BY <3>1, <3>2, <3>6, WireIs
      <4>2. GovernedAction = [action |-> "Noop", stamps |-> 0]
        BY <3>2, <4>1, NothingDone
      <4>3. PlainAction(content, tokenHits, phraseHit) = [action |-> "Noop", stamps |-> 0]
        BY <3>3, <3>6 DEF PlainAction
      <4> QED
        BY <2>3, <4>1, <4>2, <4>3 DEF Tempered, Sends
    <3>7. CASE ~phraseHit /\ total = 1
      <4>1. reply.kind = "ReactOnce"
        BY <3>1, <3>2, <3>7, WireIs
      <4>2. ProposalToAction(reply, total) = "React"
        BY <4>1 DEF ProposalToAction
      <4>3. PlainAction(content, tokenHits, phraseHit) = [action |-> "React", stamps |-> 1]
        BY <3>3, <3>7 DEF PlainAction
      <4>4. CompileResponse(reply, "Normal", suspicion, total) = "React"
        BY <4>2, Compiled DEF BotActions, Outbound, Sends, Soften
      <4> QED
        BY <2>3, <3>4, <4>1, <4>3, <4>4 DEF Tempered, Sends
    <3>8. CASE ~phraseHit /\ total > 1
      <4>1. reply.kind = "SendStamped" /\ reply.count = AtMost(total, MaxStamps)
        BY <3>1, <3>2, <3>8, WireIs
      <4>2. /\ Repeats(reply, total) = capped /\ capped \in Nat \ {0}
            /\ AtMost(capped, AtLeast(FittingStamps, 1)) = capped
        BY <3>1, <3>8, <4>1, StampsAgree
      <4>3. CASE capped = 1
        <5>1. ProposalToAction(reply, total) = "React"
          BY <4>1, <4>2, <4>3 DEF ProposalToAction
        <5>2. PlainAction(content, tokenHits, phraseHit) = [action |-> "React", stamps |-> 1]
          BY <3>8, <4>3 DEF PlainAction
        <5>3. CompileResponse(reply, "Normal", suspicion, total) = "React"
          BY <5>1, Compiled DEF BotActions, Outbound, Sends, Soften
        <5> QED
          BY <2>3, <3>4, <4>1, <5>2, <5>3 DEF Tempered, Sends
      <4>4. CASE capped > 1
        <5>1. ProposalToAction(reply, total) = "SendTemplate"
          BY <4>1, <4>2, <4>4 DEF ProposalToAction, SampleSettings
        <5>2. PolicyGate("SendTemplate") = "SendTemplate"
          BY DEF PolicyGate, SampleSettings
        <5>3. PlainAction(content, tokenHits, phraseHit) = [action |-> "SendTemplate", stamps |-> capped]
          BY <3>8, <4>2, <4>4, <5>2 DEF PlainAction
        <5>4. CompileResponse(reply, "Normal", suspicion, total) =
                 IF suspicion = "Soft" THEN "React" ELSE "SendTemplate"
          BY <5>1, Compiled DEF BotActions, Outbound, Sends, Soften
        <5>5. GovernedAction = IF suspicion = "Soft" THEN [action |-> "React", stamps |-> 1]
                               ELSE [action |-> "SendTemplate", stamps |-> capped]
          BY <3>4, <4>2, <5>4
        <5> QED
          BY <2>3, <4>1, <5>3, <5>5 DEF Tempered, Sends
      <4> QED
        BY <4>2, <4>3, <4>4
    <3> QED
      BY <3>1, <3>5, <3>6, <3>7, <3>8
  <2> QED
    BY <2>1, <2>2, <2>3
<1>2. GuestInv => DecidesLikePlainAnalysis
  BY <1>1 DEF DecidesLikePlainAnalysis
<1> QED
  BY <1>2, GuestSafe, PTL
=============================================================================
