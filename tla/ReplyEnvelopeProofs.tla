-------------------------- MODULE ReplyEnvelopeProofs --------------------------
(***************************************************************************)
(* What streaming a reply guarantees, for replies of any length: that what *)
(* was shown is what is stored, and that a reply which keeps to the format *)
(* is stored as what the model meant.                                      *)
(*                                                                         *)
(* The scans of the model are recursive functions.  Each one is first      *)
(* shown to exist (by the least position at which it could not), and what  *)
(* it computes is then followed position by position; of two texts of      *)
(* which one begins the other, the scans agree as far as they both go.     *)
(***************************************************************************)
EXTENDS ReplyEnvelope, SequenceTheorems, WellFoundedInduction, TLAPS

LEMMA LeastElement ==
    ASSUME NEW T \in SUBSET Nat, T # {}
    PROVE  \E x \in T : \A y \in T : x <= y
<1> DEFINE R == {ss \in Nat \X Nat : ss[1] < ss[2]}
<1>1. IsWellFoundedOn(R, Nat)
  BY NatLessThanWellFounded DEF OpToRel
<1>2. ASSUME NEW x \in T, NEW y \in T, <<y, x>> \notin R PROVE x <= y
  BY <1>2
<1>3. \E x \in T : \A y \in T : <<y, x>> \notin R
  <2> HIDE DEF R
  <2> QED BY <1>1, WFMin
<1> QED BY <1>2, <1>3

LEMMA GreatestElement ==
    ASSUME NEW hi \in Nat, NEW T \in SUBSET (0 .. hi), T # {}
    PROVE  \E x \in T : \A y \in T : y <= x
<1> DEFINE U == {hi - x : x \in T}
<1>1. U \in SUBSET Nat /\ U # {}
  <2>1. \A x \in T : hi - x \in Nat
    OBVIOUS
  <2> QED BY <2>1
<1>2. PICK u \in U : \A v \in U : u <= v
  <2> HIDE DEF U
  <2> QED BY <1>1, LeastElement
<1>3. PICK x \in T : u = hi - x
  OBVIOUS
<1>4. ASSUME NEW y \in T PROVE y <= x
  BY <1>2, <1>3
<1> QED BY <1>4

LEMMA WindowOfThree ==
    ASSUME NEW t \in Seq(Symbols), NEW i \in Nat \ {0}, i + 2 <= Len(t), NEW a, NEW b, NEW c
    PROVE  SubSeq(t, i, i + 2) = <<a, b, c>> <=> (t[i] = a /\ t[i + 1] = b /\ t[i + 2] = c)
<1> DEFINE w == SubSeq(t, i, i + 2)
<1>1. Len(w) = 3 /\ \A k \in 1 .. 3 : w[k] = t[i + k - 1]
  BY SubSeqProperties
<1>2. w \in Seq(Symbols)
  BY SubSeqProperties
<1>3. w[1] = t[i] /\ w[2] = t[i + 1] /\ w[3] = t[i + 2]
  BY <1>1
<1>4. w = <<w[1], w[2], w[3]>>
  <2>1. w[1] \in Symbols /\ w[2] \in Symbols /\ w[3] \in Symbols
    BY <1>1, <1>2, ElementOfSeq
  <2> HIDE DEF w
  <2>2. <<w[1], w[2], w[3]>> \in Seq(Symbols) /\ Len(<<w[1], w[2], w[3]>>) = 3
    BY <2>1
  <2>3. \A k \in 1 .. 3 : w[k] = <<w[1], w[2], w[3]>>[k]
    OBVIOUS
  <2> QED BY <1>1, <1>2, <2>2, <2>3, SeqEqual
<1> HIDE DEF w
<1>5. <<w[1], w[2], w[3]>> = <<a, b, c>> <=> (w[1] = a /\ w[2] = b /\ w[3] = c)
  OBVIOUS
<1> QED BY <1>3, <1>4, <1>5 DEF w

LEMMA LowFollowsIs ==
    ASSUME NEW t \in Seq(Symbols), NEW i \in Nat \ {0}
    PROVE  LowFollows(t, i) <=> /\ i + 5 <= Len(t)
                                /\ t[i + 3] = "\\" /\ t[i + 4] = "u" /\ t[i + 5] = "low"
<1>1. i + 3 \in Nat \ {0} /\ (i + 3) + 1 = i + 4 /\ (i + 3) + 2 = i + 5
  OBVIOUS
<1>2. ASSUME i + 5 <= Len(t)
      PROVE  SubSeq(t, i + 3, i + 5) = <<"\\", "u", "low">> <=>
                (t[i + 3] = "\\" /\ t[i + 4] = "u" /\ t[i + 5] = "low")
  <2> DEFINE h == i + 3
  <2>1. h \in Nat \ {0} /\ h + 2 <= Len(t)
    BY <1>2
  <2>2. SubSeq(t, h, h + 2) = <<"\\", "u", "low">> <=>
          (t[h] = "\\" /\ t[h + 1] = "u" /\ t[h + 2] = "low")
    <3> HIDE DEF h
    <3>1. \A a, b, c : SubSeq(t, h, h + 2) = <<a, b, c>> <=>
                         (t[h] = a /\ t[h + 1] = b /\ t[h + 2] = c)
      BY <2>1, WindowOfThree
    <3> QED BY <3>1
  <2> QED BY <1>1, <2>2
<1> QED BY <1>2 DEF LowFollows

\* A token that is not held is read the same wherever the same symbols stand.
LEMMA SameToken ==
    ASSUME NEW t \in Seq(Symbols), NEW i \in 1 .. Len(t), ~Held(t, i),
           NEW u \in Seq(Symbols), NEW k \in Nat \ {0}, k + Width(t, i) - 1 <= Len(u),
           \A j \in 0 .. Width(t, i) - 1 : u[k + j] = t[i + j]
    PROVE  /\ Width(t, i) \in {1, 2, 3, 6} /\ i + Width(t, i) - 1 <= Len(t)
           /\ ~Held(u, k) /\ Width(u, k) = Width(t, i) /\ Character(u, k) = Character(t, i)
<1>1. Len(t) \in Nat /\ Len(u) \in Nat /\ i \in Nat \ {0}
  OBVIOUS
<1>2. CASE t[i] # "\\"
  <2>1. Width(t, i) = 1 /\ u[k] = t[i]
    BY <1>1, <1>2 DEF Width
  <2> QED BY <1>1, <1>2, <2>1 DEF Width, Held, Character
<1>3. CASE t[i] = "\\" /\ t[i + 1] # "u"
  <2>1. Width(t, i) = 2 /\ i < Len(t)
    BY <1>1, <1>3 DEF Width, Held
  <2>2. u[k] = t[i] /\ u[k + 1] = t[i + 1] /\ k < Len(u)
    BY <1>1, <2>1
  <2> QED BY <1>1, <1>3, <2>1, <2>2 DEF Width, Held, Character
<1>4. CASE t[i] = "\\" /\ t[i + 1] = "u" /\ t[i + 2] = "high"
  <2>1. i + 1 < Len(t) /\ LowFollows(t, i)
    BY <1>1, <1>4 DEF Held
  <2>2. Width(t, i) = 6
    BY <1>1, <1>4, <2>1 DEF Width
  <2>3. /\ i + 5 <= Len(t) /\ k + 5 <= Len(u)
        /\ t[i + 3] = "\\" /\ t[i + 4] = "u" /\ t[i + 5] = "low"
    BY <1>1, <2>1, <2>2, LowFollowsIs
  <2>4. /\ u[k] = t[i] /\ u[k + 1] = t[i + 1] /\ u[k + 2] = t[i + 2] /\ u[k + 3] = t[i + 3]
        /\ u[k + 4] = t[i + 4] /\ u[k + 5] = t[i + 5]
    <3>1. Width(t, i) - 1 = 5
      BY <2>2
    <3>2. \A j \in 0 .. 5 : u[k + j] = t[i + j]
      BY <3>1
    <3>3. /\ u[k + 0] = t[i + 0] /\ u[k + 1] = t[i + 1] /\ u[k + 2] = t[i + 2]
          /\ u[k + 3] = t[i + 3] /\ u[k + 4] = t[i + 4] /\ u[k + 5] = t[i + 5]
      <4>1. 0 \in 0 .. 5 /\ 1 \in 0 .. 5 /\ 2 \in 0 .. 5 /\ 3 \in 0 .. 5 /\ 4 \in 0 .. 5 /\ 5 \in 0 .. 5
        OBVIOUS
      <4> QED BY Zenon, <3>2, <4>1
    <3>4. k + 0 = k /\ i + 0 = i
      BY <1>1
    <3> QED BY <3>3, <3>4
  <2>5. LowFollows(u, k)
    BY <2>3, <2>4, LowFollowsIs
  <2>6. Width(u, k) = 6 /\ ~Held(u, k)
    BY <1>1, <1>4, <2>3, <2>4, <2>5 DEF Width, Held, Hex
  <2>7. Character(u, k) = "emoji" /\ Character(t, i) = "emoji"
    BY <1>1, <1>4, <2>2, <2>3, <2>4, <2>6 DEF Character, Hex
  <2> QED BY <2>2, <2>3, <2>6, <2>7
<1>5. CASE t[i] = "\\" /\ t[i + 1] = "u" /\ t[i + 2] # "high"
  <2>1. i + 1 < Len(t) /\ t[i + 2] \in Hex
    BY <1>1, <1>5 DEF Held
  <2>2. Width(t, i) = 3
    BY <1>1, <1>5 DEF Width
  <2>3. k + 2 <= Len(u) /\ u[k] = t[i] /\ u[k + 1] = t[i + 1] /\ u[k + 2] = t[i + 2]
    BY <1>1, <2>2
  <2>4. Width(u, k) = 3
    BY <1>5, <2>3 DEF Width
  <2>5. Character(u, k) = Character(t, i) /\ ~Held(u, k)
    BY <1>1, <1>5, <2>1, <2>2, <2>3, <2>4 DEF Character, Held
  <2> QED BY <1>1, <2>1, <2>2, <2>4, <2>5
<1> QED BY <1>2, <1>3, <1>4, <1>5

-------------------------------------------------------------------------------
(* The recursive functions are there. *)

Jumps(D, stop, val, next, f) ==
    f = [i \in D |-> IF i \in stop THEN val[i] ELSE f[next[i]]]

LEMMA JumpsExists ==
    ASSUME NEW lo \in Nat, NEW hi \in Nat, lo <= hi, NEW stop, NEW val, NEW next,
           \A i \in lo .. hi : i \notin stop => next[i] \in lo .. hi /\ next[i] > i
    PROVE  \E f : Jumps(lo .. hi, stop, val, next, f)
<1> DEFINE Bad == {m \in lo .. hi : ~ \E f : Jumps(m .. hi, stop, val, next, f)}
<1>1. Bad = {}
  <2> SUFFICES ASSUME Bad # {} PROVE FALSE
    OBVIOUS
  <2>1. PICK m \in Bad : \A k \in Bad : k <= m
    <3>1. Bad \in SUBSET (0 .. hi)
      OBVIOUS
    <3> HIDE DEF Bad
    <3> QED BY <3>1, GreatestElement
  <2>2. m \in lo .. hi /\ ~ \E f : Jumps(m .. hi, stop, val, next, f)
    OBVIOUS
  <2>3. \E g : Jumps(m + 1 .. hi, stop, val, next, g)
    <3>1. CASE m = hi
      <4>1. Jumps(m + 1 .. hi, stop, val, next, [i \in m + 1 .. hi |-> 0])
        BY <3>1 DEF Jumps
      <4> QED BY <4>1
    <3>2. CASE m # hi
      <4>1. m + 1 \in lo .. hi /\ m + 1 \notin Bad
        BY <2>1, <2>2, <3>2
      <4> QED BY <4>1
    <3> QED BY <3>1, <3>2
  <2>4. PICK g : Jumps(m + 1 .. hi, stop, val, next, g)
    BY <2>3
  <2>5. \A i \in m + 1 .. hi : g[i] = IF i \in stop THEN val[i] ELSE g[next[i]]
    BY <2>4 DEF Jumps
  <2> DEFINE f == [i \in m .. hi |-> IF i # m THEN g[i]
                                     ELSE IF m \in stop THEN val[m] ELSE g[next[m]]]
  <2>6. \A i \in m .. hi : f[i] = IF i \in stop THEN val[i] ELSE f[next[i]]
    <3> TAKE i \in m .. hi
    <3>1. i \notin stop => next[i] \in m + 1 .. hi /\ next[i] # m /\ f[next[i]] = g[next[i]]
      BY <2>2
    <3>2. CASE i = m
      BY <3>1, <3>2
    <3>3. CASE i # m
      <4>1. i \in m + 1 .. hi /\ f[i] = g[i]
        BY <2>2, <3>3
      <4> QED BY <2>5, <3>1, <4>1
    <3> QED BY <3>2, <3>3
  <2>7. Jumps(m .. hi, stop, val, next, f)
    BY <2>6 DEF Jumps
  <2> QED BY <2>2, <2>7
<1>2. lo \notin Bad /\ lo \in lo .. hi
  BY <1>1
<1> QED BY <1>2

Collects(D, stop, val, next, f) ==
    f = [i \in D |-> IF i \in stop THEN val[i] ELSE val[i] \o f[next[i]]]

LEMMA CollectsExists ==
    ASSUME NEW lo \in Nat, NEW hi \in Nat, lo <= hi, NEW stop, NEW val, NEW next,
           \A i \in lo .. hi : i \notin stop => next[i] \in lo .. hi /\ next[i] > i
    PROVE  \E f : Collects(lo .. hi, stop, val, next, f)
<1> DEFINE Bad == {m \in lo .. hi : ~ \E f : Collects(m .. hi, stop, val, next, f)}
<1>1. Bad = {}
  <2> SUFFICES ASSUME Bad # {} PROVE FALSE
    OBVIOUS
  <2>1. PICK m \in Bad : \A k \in Bad : k <= m
    <3>1. Bad \in SUBSET (0 .. hi)
      OBVIOUS
    <3> HIDE DEF Bad
    <3> QED BY <3>1, GreatestElement
  <2>2. m \in lo .. hi /\ ~ \E f : Collects(m .. hi, stop, val, next, f)
    OBVIOUS
  <2>3. \E g : Collects(m + 1 .. hi, stop, val, next, g)
    <3>1. CASE m = hi
      <4> DEFINE E == [i \in m + 1 .. hi |-> 0]
      <4>1. \A i \in m + 1 .. hi : E[i] = IF i \in stop THEN val[i] ELSE val[i] \o E[next[i]]
        BY <3>1
      <4>2. Collects(m + 1 .. hi, stop, val, next, E)
        BY <4>1 DEF Collects
      <4> QED BY <4>2
    <3>2. CASE m # hi
      <4>1. m + 1 \in lo .. hi /\ m + 1 \notin Bad
        BY <2>1, <2>2, <3>2
      <4> QED BY <4>1
    <3> QED BY <3>1, <3>2
  <2>4. PICK g : Collects(m + 1 .. hi, stop, val, next, g)
    BY <2>3
  <2>5. \A i \in m + 1 .. hi : g[i] = IF i \in stop THEN val[i] ELSE val[i] \o g[next[i]]
    BY <2>4 DEF Collects
  <2> DEFINE f == [i \in m .. hi |-> IF i # m THEN g[i]
                                     ELSE IF m \in stop THEN val[m] ELSE val[m] \o g[next[m]]]
  <2>6. \A i \in m .. hi : f[i] = IF i \in stop THEN val[i] ELSE val[i] \o f[next[i]]
    <3> TAKE i \in m .. hi
    <3>1. i \notin stop => next[i] \in m + 1 .. hi /\ next[i] # m /\ f[next[i]] = g[next[i]]
      BY <2>2
    <3>2. CASE i = m
      BY <3>1, <3>2
    <3>3. CASE i # m
      <4>1. i \in m + 1 .. hi /\ f[i] = g[i]
        BY <2>2, <3>3
      <4> QED BY <2>5, <3>1, <4>1
    <3> QED BY <3>2, <3>3
  <2>7. Collects(m .. hi, stop, val, next, f)
    BY <2>6 DEF Collects
  <2> QED BY <2>2, <2>7
<1>2. lo \notin Bad /\ lo \in lo .. hi
  BY <1>1
<1> QED BY <1>2

-------------------------------------------------------------------------------
(* The two scans and the decoding, as what satisfies their equations. *)

LEMMA TokenFits ==
    ASSUME NEW t \in Seq(Symbols), NEW i \in 1 .. Len(t), ~Held(t, i)
    PROVE  Width(t, i) \in {1, 2, 3, 6} /\ i + Width(t, i) <= Len(t) + 1
<1>1. Len(t) \in Nat /\ i \in Nat \ {0}
  OBVIOUS
<1>2. CASE t[i] # "\\"
  BY <1>1, <1>2 DEF Width
<1>3. CASE t[i] = "\\" /\ t[i + 1] # "u"
  BY <1>1, <1>3 DEF Width, Held
<1>4. CASE t[i] = "\\" /\ t[i + 1] = "u" /\ t[i + 2] = "high"
  <2>1. i + 1 < Len(t) /\ LowFollows(t, i)
    BY <1>1, <1>4 DEF Held
  <2>2. Width(t, i) = 6 /\ i + 5 <= Len(t)
    BY <1>1, <1>4, <2>1, LowFollowsIs DEF Width
  <2> QED BY <1>1, <2>2
<1>5. CASE t[i] = "\\" /\ t[i + 1] = "u" /\ t[i + 2] # "high"
  BY <1>1, <1>5 DEF Width, Held
<1> QED BY <1>2, <1>3, <1>4, <1>5

Stops(t, i) == i > Len(t) \/ Held(t, i) \/ t[i] = "quote"
Scan(t, start, f) ==
    f = [i \in start .. Len(t) + 1 |->
           IF i > Len(t) THEN i
           ELSE IF Held(t, i) \/ t[i] = "quote" THEN i
           ELSE f[i + Width(t, i)]]

LEMMA EndOfScan ==
    ASSUME NEW t \in Seq(Symbols), NEW start \in 1 .. Len(t) + 1
    PROVE  \E f : Scan(t, start, f) /\ EndOf(t, start) = f[start]
<1> DEFINE D == start .. Len(t) + 1
           stop == {i \in D : Stops(t, i)}
           val == [i \in D |-> i]
           next == [i \in D |-> i + Width(t, i)]
<1>1. \E f : Jumps(D, stop, val, next, f)
  <2>1. Len(t) \in Nat /\ start \in Nat /\ Len(t) + 1 \in Nat /\ start <= Len(t) + 1
    OBVIOUS
  <2>2. \A i \in D : i \notin stop => next[i] \in D /\ next[i] > i
    <3> SUFFICES ASSUME NEW i \in D, ~Stops(t, i)
                 PROVE  i + Width(t, i) \in D /\ i + Width(t, i) > i
      OBVIOUS
    <3>1. i \in 1 .. Len(t) /\ ~Held(t, i)
      BY <2>1 DEF Stops
    <3>2. Width(t, i) \in {1, 2, 3, 6} /\ i + Width(t, i) <= Len(t) + 1
      BY <3>1, TokenFits
    <3> QED BY <2>1, <3>1, <3>2
  <2> HIDE DEF stop, val, next
  <2> QED BY <2>1, <2>2, JumpsExists
<1>2. PICK f : Jumps(D, stop, val, next, f)
  BY <1>1
<1>3. Scan(t, start, f)
  <2>1. \A i \in D : f[i] = IF Stops(t, i) THEN i ELSE f[i + Width(t, i)]
    BY <1>2 DEF Jumps
  <2>2. f = [i \in D |-> f[i]]
    BY <1>2 DEF Jumps
  <2> QED BY <2>1, <2>2 DEF Scan, Stops
<1>4. PICK g : g = CHOOSE h : Scan(t, start, h)
  OBVIOUS
<1>5. Scan(t, start, g)
  BY <1>3, <1>4
<1>6. EndOf(t, start) = g[start]
  BY <1>4 DEF EndOf, Scan
<1> QED BY <1>5, <1>6

LEMMA ScanGoesOn ==
    ASSUME NEW t \in Seq(Symbols), NEW start \in 1 .. Len(t) + 1, NEW f, Scan(t, start, f)
    PROVE  \A i \in start .. Len(t) + 1 :
             /\ f[i] \in i .. Len(t) + 1
             /\ Stops(t, i) => f[i] = i
             /\ ~Stops(t, i) => /\ i <= Len(t) /\ ~Held(t, i) /\ t[i] # "quote"
                                /\ Width(t, i) \in {1, 2, 3, 6}
                                /\ i + Width(t, i) \in start .. Len(t) + 1
                                /\ f[i] = f[i + Width(t, i)]
<1> DEFINE D == start .. Len(t) + 1
           Bad == {i \in D : f[i] \notin i .. Len(t) + 1}
<1>1. Len(t) \in Nat /\ start \in Nat /\ start >= 1
  OBVIOUS
<1>2. \A i \in D : f[i] = IF Stops(t, i) THEN i ELSE f[i + Width(t, i)]
  BY DEF Scan, Stops
<1>3. \A i \in D : ~Stops(t, i) =>
        /\ i <= Len(t) /\ ~Held(t, i) /\ t[i] # "quote"
        /\ Width(t, i) \in {1, 2, 3, 6} /\ i + Width(t, i) \in D /\ i + Width(t, i) > i
  <2> SUFFICES ASSUME NEW i \in D, ~Stops(t, i)
               PROVE  /\ i <= Len(t) /\ ~Held(t, i) /\ t[i] # "quote"
                      /\ Width(t, i) \in {1, 2, 3, 6}
                      /\ i + Width(t, i) \in D /\ i + Width(t, i) > i
    OBVIOUS
  <2>1. i \in 1 .. Len(t) /\ ~Held(t, i) /\ t[i] # "quote"
    BY <1>1 DEF Stops
  <2>2. Width(t, i) \in {1, 2, 3, 6} /\ i + Width(t, i) <= Len(t) + 1
    BY <2>1, TokenFits
  <2> QED BY <1>1, <2>1, <2>2
<1>4. Bad = {}
  <2> SUFFICES ASSUME Bad # {} PROVE FALSE
    OBVIOUS
  <2>1. PICK i \in Bad : \A j \in Bad : j <= i
    <3>1. Bad \in SUBSET (0 .. Len(t) + 1) /\ Len(t) + 1 \in Nat
      BY <1>1
    <3> HIDE DEF Bad
    <3> QED BY <3>1, GreatestElement
  <2>2. i \in D /\ f[i] \notin i .. Len(t) + 1
    OBVIOUS
  <2>3. ~Stops(t, i)
    BY <1>1, <1>2, <2>2
  <2>4. /\ i + Width(t, i) \in D /\ i + Width(t, i) > i /\ f[i] = f[i + Width(t, i)]
    BY <1>2, <1>3, <2>2, <2>3
  <2>5. i + Width(t, i) \notin Bad
    BY <2>1, <2>2, <2>4
  <2> QED BY <1>1, <2>2, <2>4, <2>5
<1>5. \A i \in D : f[i] \in i .. Len(t) + 1
  BY <1>4
<1> HIDE DEF D
<1>6. \A i \in D : /\ f[i] \in i .. Len(t) + 1
                   /\ Stops(t, i) => f[i] = i
                   /\ ~Stops(t, i) => /\ i <= Len(t) /\ ~Held(t, i) /\ t[i] # "quote"
                                      /\ Width(t, i) \in {1, 2, 3, 6}
                                      /\ i + Width(t, i) \in D
                                      /\ f[i] = f[i + Width(t, i)]
  BY <1>2, <1>3, <1>5
<1> QED BY <1>6 DEF D

Closing(t, start, f) ==
    f = [i \in start .. Len(t) + 2 |->
           IF i >= Len(t) + 1 THEN 0
           ELSE IF t[i] = "quote" THEN i
           ELSE f[i + IF t[i] = "\\" THEN 2 ELSE 1]]

LEMMA ClosedAtScan ==
    ASSUME NEW t \in Seq(Symbols), NEW start \in 1 .. Len(t) + 1
    PROVE  \E f : Closing(t, start, f) /\ ClosedAt(t, start) = f[start]
<1> DEFINE D == start .. Len(t) + 2
           stop == {i \in D : i >= Len(t) + 1 \/ t[i] = "quote"}
           val == [i \in D |-> IF i >= Len(t) + 1 THEN 0 ELSE i]
           next == [i \in D |-> i + IF t[i] = "\\" THEN 2 ELSE 1]
<1>1. \E f : Jumps(D, stop, val, next, f)
  <2>1. Len(t) \in Nat /\ start \in Nat /\ Len(t) + 2 \in Nat /\ start <= Len(t) + 2
    OBVIOUS
  <2>2. \A i \in D : i \notin stop => next[i] \in D /\ next[i] > i
    <3> TAKE i \in D
    <3>1. i <= Len(t) => \A w \in {1, 2} : i + w \in D /\ i + w > i
      BY <2>1
    <3>2. next[i] \in {i + 1, i + 2} /\ (i \notin stop => i <= Len(t))
      BY <2>1
    <3> QED BY <3>1, <3>2
  <2> HIDE DEF stop, val, next
  <2> QED BY <2>1, <2>2, JumpsExists
<1>2. PICK f : Jumps(D, stop, val, next, f)
  BY <1>1
<1>3. Closing(t, start, f)
  <2>1. \A i \in D : f[i] = IF i >= Len(t) + 1 THEN 0 ELSE IF t[i] = "quote" THEN i
                            ELSE f[i + IF t[i] = "\\" THEN 2 ELSE 1]
    BY <1>2 DEF Jumps
  <2>2. f = [i \in D |-> f[i]]
    BY <1>2 DEF Jumps
  <2> QED BY <2>1, <2>2 DEF Closing
<1>4. PICK g : g = CHOOSE h : Closing(t, start, h)
  OBVIOUS
<1>5. Closing(t, start, g)
  BY <1>3, <1>4
<1>6. ClosedAt(t, start) = g[start]
  BY <1>4 DEF ClosedAt, Closing
<1> QED BY <1>5, <1>6

LEMMA ClosingGoesOn ==
    ASSUME NEW t \in Seq(Symbols), NEW start \in 1 .. Len(t) + 1, NEW f, Closing(t, start, f)
    PROVE  \A i \in start .. Len(t) + 2 :
             /\ f[i] = 0 \/ f[i] \in i .. Len(t)
             /\ i > Len(t) => f[i] = 0
             /\ i <= Len(t) /\ t[i] = "quote" => f[i] = i
             /\ i <= Len(t) /\ t[i] = "\\" => f[i] = f[i + 2]
             /\ i <= Len(t) /\ t[i] \notin {"quote", "\\"} => f[i] = f[i + 1]
<1> DEFINE D == start .. Len(t) + 2
           Bad == {i \in D : ~(f[i] = 0 \/ f[i] \in i .. Len(t))}
<1>1. Len(t) \in Nat /\ start \in Nat /\ start >= 1
  OBVIOUS
<1>2. \A i \in D : f[i] = IF i >= Len(t) + 1 THEN 0 ELSE IF t[i] = "quote" THEN i
                          ELSE f[i + IF t[i] = "\\" THEN 2 ELSE 1]
  BY DEF Closing
<1>3. Bad = {}
  <2> SUFFICES ASSUME Bad # {} PROVE FALSE
    OBVIOUS
  <2>1. PICK i \in Bad : \A j \in Bad : j <= i
    <3>1. Bad \in SUBSET (0 .. Len(t) + 2) /\ Len(t) + 2 \in Nat
      BY <1>1
    <3> HIDE DEF Bad
    <3> QED BY <3>1, GreatestElement
  <2>2. i \in D /\ ~(f[i] = 0 \/ f[i] \in i .. Len(t))
    OBVIOUS
  <2>3. i <= Len(t) /\ \E w \in {1, 2} : f[i] = f[i + w]
    BY <1>1, <1>2, <2>2
  <2>4. PICK w \in {1, 2} : f[i] = f[i + w]
    BY <2>3
  <2>5. i + w \in D /\ i + w > i /\ i + w \notin Bad
    BY <1>1, <2>1, <2>2, <2>3
  <2> QED BY <1>1, <2>2, <2>4, <2>5
<1>4. \A i \in D : f[i] = 0 \/ f[i] \in i .. Len(t)
  BY <1>3
<1> QED BY <1>1, <1>2, <1>4

LEMMA CharacterFits ==
    ASSUME NEW t \in Seq(Symbols), NEW i \in 1 .. Len(t)
    PROVE  /\ Character(t, i) \in Characters
           /\ Character(t, i) # "invalid" =>
                Width(t, i) \in {1, 2, 3, 6} /\ i + Width(t, i) <= Len(t) + 1
<1>1. Len(t) \in Nat /\ i \in Nat \ {0} /\ t[i] \in Symbols
  BY ElementOfSeq
<1>2. CASE t[i] # "\\"
  BY <1>1, <1>2 DEF Width, Character, Characters
<1>3. CASE t[i] = "\\" /\ i = Len(t)
  BY <1>1, <1>3 DEF Character, Characters
<1>4. CASE t[i] = "\\" /\ i < Len(t) /\ t[i + 1] # "u"
  <2>1. Character(t, i) \in {"quote", "\\", "invalid"} /\ Width(t, i) = 2
    BY <1>1, <1>4 DEF Character, Width
  <2>2. Character(t, i) \in Characters
    BY <2>1 DEF Characters, Symbols
  <2> QED BY <1>1, <1>4, <2>1, <2>2
<1>5. CASE t[i] = "\\" /\ i < Len(t) /\ t[i + 1] = "u"
  <2>1. Character(t, i) \in {"invalid", "letter", "emoji", "half"}
    BY <1>1, <1>5 DEF Character
  <2>2. Character(t, i) # "invalid" => i + 2 <= Len(t)
    BY <1>1, <1>5 DEF Character
  <2>3. Width(t, i) = 3 \/ (Width(t, i) = 6 /\ i + 5 <= Len(t))
    BY <1>1, <1>5, LowFollowsIs DEF Width
  <2> QED BY <1>1, <2>1, <2>2, <2>3 DEF Characters
<1> QED BY <1>1, <1>2, <1>3, <1>4, <1>5

Decoding(t, f) ==
    f = [i \in 1 .. Len(t) + 1 |->
           IF i > Len(t) THEN <<>>
           ELSE IF Character(t, i) = "invalid" THEN <<"invalid">>
           ELSE <<Character(t, i)>> \o f[i + Width(t, i)]]

LEMMA LoadsDecoding ==
    ASSUME NEW t \in Seq(Symbols)
    PROVE  \E f : Decoding(t, f) /\ Loads(t) = f[1]
<1> DEFINE D == 1 .. Len(t) + 1
           stop == {i \in D : i > Len(t) \/ Character(t, i) = "invalid"}
           val == [i \in D |-> IF i > Len(t) THEN <<>> ELSE <<Character(t, i)>>]
           next == [i \in D |-> i + Width(t, i)]
<1>1. Len(t) \in Nat /\ Len(t) + 1 \in Nat /\ 1 <= Len(t) + 1
  OBVIOUS
<1>2. \E f : Collects(D, stop, val, next, f)
  <2>1. \A i \in D : i \notin stop => next[i] \in D /\ next[i] > i
    <3> TAKE i \in D
    <3>1. i \notin stop => i \in 1 .. Len(t) /\ Character(t, i) # "invalid"
      BY <1>1
    <3>2. i \notin stop => Width(t, i) \in {1, 2, 3, 6} /\ i + Width(t, i) <= Len(t) + 1
      BY <3>1, CharacterFits
    <3>3. next[i] = i + Width(t, i)
      OBVIOUS
    <3> HIDE DEF stop, next
    <3> QED BY <1>1, <3>2, <3>3
  <2> HIDE DEF stop, val, next
  <2> QED BY <1>1, <2>1, CollectsExists
<1>3. PICK f : Collects(D, stop, val, next, f)
  BY <1>2
<1>4. Decoding(t, f)
  <2>1. \A i \in D : f[i] = IF i > Len(t) THEN <<>>
                            ELSE IF Character(t, i) = "invalid" THEN <<"invalid">>
                            ELSE <<Character(t, i)>> \o f[i + Width(t, i)]
    BY <1>3 DEF Collects
  <2>2. f = [i \in D |-> f[i]]
    BY <1>3 DEF Collects
  <2> QED BY <2>1, <2>2 DEF Decoding
<1>5. PICK g : g = CHOOSE h : Decoding(t, h)
  OBVIOUS
<1>6. Decoding(t, g)
  BY <1>4, <1>5
<1>7. Loads(t) = g[1]
  BY <1>5 DEF Loads, Decoding
<1> QED BY <1>6, <1>7

LEMMA DecodingGoesOn ==
    ASSUME NEW t \in Seq(Symbols), NEW f, Decoding(t, f)
    PROVE  /\ f[Len(t) + 1] = <<>>
           /\ \A i \in 1 .. Len(t) + 1 : f[i] \in Seq(Characters)
           /\ \A i \in 1 .. Len(t) :
                /\ Character(t, i) = "invalid" => f[i] = <<"invalid">>
                /\ Character(t, i) # "invalid" =>
                     /\ i + Width(t, i) \in 1 .. Len(t) + 1 /\ i + Width(t, i) > i
                     /\ f[i] = <<Character(t, i)>> \o f[i + Width(t, i)]
<1> DEFINE D == 1 .. Len(t) + 1
           Bad == {i \in D : f[i] \notin Seq(Characters)}
<1>1. Len(t) \in Nat
  OBVIOUS
<1>2. \A i \in D : f[i] = IF i > Len(t) THEN <<>>
                          ELSE IF Character(t, i) = "invalid" THEN <<"invalid">>
                          ELSE <<Character(t, i)>> \o f[i + Width(t, i)]
  BY DEF Decoding
<1>3. f[Len(t) + 1] = <<>>
  <2>1. Len(t) + 1 \in D /\ Len(t) + 1 > Len(t)
    BY <1>1
  <2> QED BY <1>2, <2>1
<1>4. \A i \in 1 .. Len(t) :
        /\ Character(t, i) = "invalid" => f[i] = <<"invalid">>
        /\ Character(t, i) # "invalid" =>
             /\ i + Width(t, i) \in D /\ i + Width(t, i) > i
             /\ f[i] = <<Character(t, i)>> \o f[i + Width(t, i)]
  <2> TAKE i \in 1 .. Len(t)
  <2>1. Character(t, i) # "invalid" =>
          Width(t, i) \in {1, 2, 3, 6} /\ i + Width(t, i) <= Len(t) + 1
    BY CharacterFits
  <2>2. i \in D /\ ~(i > Len(t))
    BY <1>1
  <2>3. Character(t, i) = "invalid" => f[i] = <<"invalid">>
    BY <1>2, <2>2
  <2>4. Character(t, i) # "invalid" => f[i] = <<Character(t, i)>> \o f[i + Width(t, i)]
    BY <1>2, <2>2
  <2>5. Character(t, i) # "invalid" => i + Width(t, i) \in D /\ i + Width(t, i) > i
    BY <1>1, <2>1, <2>2
  <2> QED BY <2>3, <2>4, <2>5
<1>5. Bad = {}
  <2> SUFFICES ASSUME Bad # {} PROVE FALSE
    OBVIOUS
  <2>1. PICK i \in Bad : \A j \in Bad : j <= i
    <3>1. Bad \in SUBSET (0 .. Len(t) + 1) /\ Len(t) + 1 \in Nat
      BY <1>1
    <3> HIDE DEF Bad
    <3> QED BY <3>1, GreatestElement
  <2>2. i \in D /\ f[i] \notin Seq(Characters)
    OBVIOUS
  <2>3. i \in 1 .. Len(t) /\ Character(t, i) # "invalid"
    <3>1. i = Len(t) + 1 => f[i] \in Seq(Characters)
      BY <1>3, EmptySeq
    <3>2. i \in 1 .. Len(t)
      BY <1>1, <2>2, <3>1
    <3>3. <<"invalid">> \in Seq(Characters)
      BY DEF Characters
    <3> QED BY <1>4, <2>2, <3>2, <3>3
  <2>4. /\ i + Width(t, i) \in D /\ i + Width(t, i) > i
        /\ f[i] = <<Character(t, i)>> \o f[i + Width(t, i)]
    BY <1>4, <2>3
  <2>5. f[i + Width(t, i)] \in Seq(Characters)
    BY <2>1, <2>2, <2>4
  <2>6. <<Character(t, i)>> \in Seq(Characters)
    BY <2>3, CharacterFits
  <2> QED BY <2>2, <2>4, <2>5, <2>6, ConcatProperties
<1> QED BY <1>3, <1>4, <1>5

-------------------------------------------------------------------------------
(* A text that goes on: what could be read of it still reads the same. *)

Begins(u, v) == Len(u) <= Len(v) /\ \A k \in 1 .. Len(u) : u[k] = v[k]

LEMMA ConsBegins ==
    ASSUME NEW C, NEW c \in C, NEW x \in Seq(C), NEW y \in Seq(C), Begins(x, y)
    PROVE  Begins(<<c>> \o x, <<c>> \o y)
<1>1. /\ <<c>> \in Seq(C) /\ Len(<<c>>) = 1 /\ <<c>>[1] = c
      /\ Len(x) \in Nat /\ Len(y) \in Nat /\ Len(x) <= Len(y)
  BY DEF Begins
<1>2. /\ Len(<<c>> \o x) = 1 + Len(x) /\ Len(<<c>> \o y) = 1 + Len(y)
      /\ \A k \in 1 .. 1 + Len(x) : (<<c>> \o x)[k] = IF k <= 1 THEN c ELSE x[k - 1]
      /\ \A k \in 1 .. 1 + Len(y) : (<<c>> \o y)[k] = IF k <= 1 THEN c ELSE y[k - 1]
  <2>1. ASSUME NEW z \in Seq(C)
        PROVE  /\ Len(<<c>> \o z) = 1 + Len(z)
               /\ \A k \in 1 .. 1 + Len(z) : (<<c>> \o z)[k] = IF k <= 1 THEN c ELSE z[k - 1]
    BY <1>1, ConcatProperties
  <2> QED BY <2>1
<1>3. ASSUME NEW k \in 1 .. 1 + Len(x)
      PROVE  (<<c>> \o x)[k] = (<<c>> \o y)[k]
  <2>1. k \in 1 .. 1 + Len(y)
    BY <1>1
  <2>2. k > 1 => k - 1 \in 1 .. Len(x)
    BY <1>1
  <2>3. k > 1 => x[k - 1] = y[k - 1]
    BY <2>2 DEF Begins
  <2> QED BY <1>1, <1>2, <2>1, <2>3
<1> QED BY <1>1, <1>2, <1>3 DEF Begins

Chain(u, B) ==
    \A k \in B : /\ k \in 1 .. Len(u) + 1
                 /\ k <= Len(u) => ~Held(u, k) /\ k + Width(u, k) \in B

LEMMA LoadsBegins ==
    ASSUME NEW u \in Seq(Symbols), NEW v \in Seq(Symbols), Begins(u, v),
           NEW B, Chain(u, B), 1 \in B
    PROVE  Begins(Loads(u), Loads(v))
<1>1. PICK f : Decoding(u, f) /\ Loads(u) = f[1]
  BY LoadsDecoding
<1>2. PICK g : Decoding(v, g) /\ Loads(v) = g[1]
  BY LoadsDecoding
<1> DEFINE Bad == {k \in B : ~Begins(f[k], g[k])}
<1>3. Len(u) \in Nat /\ Len(v) \in Nat /\ Len(u) <= Len(v)
  BY DEF Begins
<1>4. Bad = {}
  <2> SUFFICES ASSUME Bad # {} PROVE FALSE
    OBVIOUS
  <2>1. PICK k \in Bad : \A j \in Bad : j <= k
    <3>1. Bad \in SUBSET (0 .. Len(u) + 1) /\ Len(u) + 1 \in Nat
      BY <1>3 DEF Chain
    <3> HIDE DEF Bad
    <3> QED BY <3>1, GreatestElement
  <2>2. k \in B /\ k \in 1 .. Len(u) + 1 /\ ~Begins(f[k], g[k])
    BY DEF Chain
  <2>3. g[k] \in Seq(Characters)
    <3>1. k \in 1 .. Len(v) + 1
      BY <1>3, <2>2
    <3> QED BY <1>2, <3>1, DecodingGoesOn
  <2>4. k <= Len(u)
    <3>1. CASE k = Len(u) + 1
      <4>1. f[k] = <<>>
        BY <1>1, <3>1, DecodingGoesOn
      <4>2. Len(g[k]) \in Nat
        BY <2>3
      <4> QED BY <2>2, <4>1, <4>2 DEF Begins
    <3> QED BY <1>3, <2>2, <3>1
  <2>5. k \in 1 .. Len(u) /\ k \in 1 .. Len(v)
    BY <1>3, <2>2, <2>4
  <2>6. ~Held(u, k) /\ k + Width(u, k) \in B /\ k + Width(u, k) \in 1 .. Len(u) + 1
        /\ Width(u, k) \in {1, 2, 3, 6}
    BY <2>2, <2>4, <2>5, TokenFits DEF Chain
  <2>7. Width(v, k) = Width(u, k) /\ Character(v, k) = Character(u, k)
    <3>1. k + Width(u, k) - 1 <= Len(v) /\ k \in Nat \ {0}
      BY <1>3, <2>5, <2>6
    <3>2. \A j \in 0 .. Width(u, k) - 1 : v[k + j] = u[k + j]
      <4> TAKE j \in 0 .. Width(u, k) - 1
      <4>1. k + j \in 1 .. Len(u)
        BY <1>3, <2>5, <2>6
      <4> QED BY <4>1 DEF Begins
    <3> QED BY <2>5, <2>6, <3>1, <3>2, SameToken
  <2>8. CASE Character(u, k) = "invalid"
    <3>1. f[k] = <<"invalid">> /\ g[k] = <<"invalid">>
      BY <1>1, <1>2, <2>5, <2>7, <2>8, DecodingGoesOn
    <3> QED BY <2>2, <3>1 DEF Begins
  <2>9. CASE Character(u, k) # "invalid"
    <3> DEFINE n == k + Width(u, k)
    <3>1. /\ f[k] = <<Character(u, k)>> \o f[n] /\ f[n] \in Seq(Characters)
          /\ g[k] = <<Character(u, k)>> \o g[n] /\ g[n] \in Seq(Characters)
      BY <1>1, <1>2, <1>3, <2>5, <2>6, <2>7, <2>9, DecodingGoesOn
    <3>2. Begins(f[n], g[n])
      <4>1. n \in B /\ ~(n <= k)
        BY <1>3, <2>5, <2>6
      <4> QED BY <2>1, <4>1
    <3>3. Character(u, k) \in Characters
      BY <2>5, CharacterFits
    <3> HIDE DEF n
    <3> QED BY <2>2, <3>1, <3>2, <3>3, ConsBegins
  <2> QED BY <2>8, <2>9
<1>5. Begins(f[1], g[1])
  BY <1>4
<1> QED BY <1>1, <1>2, <1>5

LEMMA ValueChain ==
    ASSUME NEW t \in Seq(Symbols), NEW start \in 1 .. Len(t) + 1
    PROVE  LET u == SubSeq(t, start, EndOf(t, start) - 1)
           IN  /\ EndOf(t, start) \in start .. Len(t) + 1
               /\ u \in Seq(Symbols) /\ Len(u) = EndOf(t, start) - start
               /\ \A k \in 1 .. Len(u) : u[k] = t[start + k - 1]
               /\ \E B : Chain(u, B) /\ 1 \in B
<1>1. PICK f : Scan(t, start, f) /\ EndOf(t, start) = f[start]
  BY EndOfScan
<1>2. PICK e : e = f[start]
  OBVIOUS
<1>3. Len(t) \in Nat /\ start \in Nat /\ start >= 1 /\ e \in start .. Len(t) + 1
  BY <1>1, <1>2, ScanGoesOn
<1> DEFINE u == SubSeq(t, start, e - 1)
           B == {k \in 1 .. e - start + 1 : f[start + k - 1] = e}
<1>4. /\ u \in Seq(Symbols) /\ Len(u) = e - start
      /\ \A k \in 1 .. Len(u) : u[k] = t[start + k - 1]
  <2>1. start \in 1 .. Len(t) + 1 /\ e - 1 \in start - 1 .. Len(t)
    BY <1>3
  <2> QED BY <1>3, <2>1, SubSeqProperties
<1>5. 1 \in B
  BY <1>2, <1>3
<1> HIDE DEF u
<1>6. Chain(u, B)
  <2> SUFFICES ASSUME NEW k \in B, k <= Len(u)
               PROVE  ~Held(u, k) /\ k + Width(u, k) \in B
    BY <1>3, <1>4 DEF Chain
  <2> DEFINE i == start + k - 1
  <2>1. k \in 1 .. e - start /\ f[i] = e /\ i \in start .. Len(t) /\ i < e /\ Len(u) = e - start
    BY <1>3, <1>4
  <2>2. /\ ~Stops(t, i) /\ ~Held(t, i) /\ Width(t, i) \in {1, 2, 3, 6}
        /\ f[i + Width(t, i)] = e /\ i + Width(t, i) \in start .. Len(t) + 1
    <3>1. i \in start .. Len(t) + 1 /\ f[i] # i
      BY <1>3, <2>1
    <3> HIDE DEF i
    <3> QED BY <1>1, <2>1, <3>1, ScanGoesOn
  <2>3. i + Width(t, i) <= e
    <3>1. f[i + Width(t, i)] \in i + Width(t, i) .. Len(t) + 1
      BY <1>1, <2>2, ScanGoesOn
    <3> QED BY <1>3, <2>1, <2>2, <3>1
  <2>4. i \in 1 .. Len(t) /\ k \in Nat \ {0} /\ k + Width(t, i) - 1 <= Len(u)
    BY <1>3, <2>1, <2>2, <2>3
  <2>5. \A j \in 0 .. Width(t, i) - 1 : u[k + j] = t[i + j]
    <3> TAKE j \in 0 .. Width(t, i) - 1
    <3>1. k + j \in 1 .. Len(u) /\ start + (k + j) - 1 = i + j
      BY <1>3, <2>1, <2>2, <2>4
    <3> QED BY <1>4, <3>1
  <2>6. ~Held(u, k) /\ Width(u, k) = Width(t, i)
    <3> HIDE DEF i
    <3> QED BY <1>4, <2>2, <2>4, <2>5, SameToken
  <2>7. k + Width(u, k) \in 1 .. e - start + 1 /\ start + (k + Width(u, k)) - 1 = i + Width(t, i)
    <3>1. PICK w \in {1, 2, 3, 6} : w = Width(t, i) /\ w = Width(u, k)
      BY <2>2, <2>6
    <3>2. k + w \in 1 .. e - start + 1 /\ start + (k + w) - 1 = i + w
      BY <1>3, <2>1, <2>3, <3>1
    <3> QED BY <3>1, <3>2
  <2>8. k + Width(u, k) \in B
    BY <2>2, <2>7
  <2> QED BY <2>6, <2>8
<1>7. \E X : Chain(u, X) /\ 1 \in X
  BY <1>5, <1>6
<1> QED BY <1>1, <1>2, <1>3, <1>4, <1>7 DEF u

LEMMA SameInLonger ==
    ASSUME NEW a \in Seq(Symbols), NEW b \in Seq(Symbols), Begins(a, b),
           NEW i \in 1 .. Len(a), ~Held(a, i)
    PROVE  /\ Width(a, i) \in {1, 2, 3, 6} /\ i + Width(a, i) <= Len(a) + 1
           /\ ~Held(b, i) /\ Width(b, i) = Width(a, i)
<1>1. Len(a) \in Nat /\ Len(b) \in Nat /\ Len(a) <= Len(b) /\ i \in Nat \ {0}
  BY DEF Begins
<1>2. Width(a, i) \in {1, 2, 3, 6} /\ i + Width(a, i) <= Len(a) + 1
  BY TokenFits
<1>3. i + Width(a, i) - 1 <= Len(b)
  BY <1>1, <1>2
<1>4. \A j \in 0 .. Width(a, i) - 1 : b[i + j] = a[i + j]
  <2> TAKE j \in 0 .. Width(a, i) - 1
  <2>1. i + j \in 1 .. Len(a)
    BY <1>1, <1>2
  <2> QED BY <2>1 DEF Begins
<1> QED BY <1>1, <1>2, <1>3, <1>4, SameToken

LEMMA EndGrows ==
    ASSUME NEW a \in Seq(Symbols), NEW b \in Seq(Symbols), Begins(a, b),
           NEW start \in 1 .. Len(a) + 1
    PROVE  EndOf(a, start) <= EndOf(b, start)
<1>1. Len(a) \in Nat /\ Len(b) \in Nat /\ Len(a) <= Len(b) /\ start \in 1 .. Len(b) + 1
  BY DEF Begins
<1>2. PICK f : Scan(a, start, f) /\ EndOf(a, start) = f[start]
  BY EndOfScan
<1>3. PICK g : Scan(b, start, g) /\ EndOf(b, start) = g[start]
  BY <1>1, EndOfScan
<1> DEFINE D == start .. Len(a) + 1
           Bad == {i \in D : ~(f[i] <= g[i])}
<1>4. \A i \in D : i \in start .. Len(b) + 1 /\ f[i] \in Nat /\ g[i] \in i .. Len(b) + 1
  <2> TAKE i \in D
  <2>1. i \in start .. Len(a) + 1 /\ i \in start .. Len(b) + 1
    BY <1>1
  <2>2. f[i] \in i .. Len(a) + 1 /\ g[i] \in i .. Len(b) + 1
    BY <1>1, <1>2, <1>3, <2>1, ScanGoesOn
  <2> QED BY <1>1, <2>1, <2>2
<1>5. Bad = {}
  <2> SUFFICES ASSUME Bad # {} PROVE FALSE
    OBVIOUS
  <2>1. PICK i \in Bad : \A j \in Bad : j <= i
    <3>1. Bad \in SUBSET (0 .. Len(a) + 1) /\ Len(a) + 1 \in Nat
      BY <1>1
    <3> HIDE DEF Bad
    <3> QED BY <3>1, GreatestElement
  <2>2. i \in D /\ ~(f[i] <= g[i])
    OBVIOUS
  <2>3. ~Stops(a, i)
    <3>1. Stops(a, i) => f[i] = i
      BY <1>2, <2>2, ScanGoesOn
    <3> QED BY <1>1, <1>4, <2>2, <3>1
  <2>4. /\ i \in 1 .. Len(a) /\ ~Held(a, i) /\ a[i] # "quote"
        /\ i + Width(a, i) \in D /\ f[i] = f[i + Width(a, i)]
    BY <1>1, <1>2, <2>2, <2>3, ScanGoesOn
  <2>5. ~Held(b, i) /\ Width(b, i) = Width(a, i) /\ Width(a, i) \in {1, 2, 3, 6}
    BY <2>4, SameInLonger
  <2>6. ~Stops(b, i)
    <3>1. b[i] = a[i] /\ ~(i > Len(b))
      BY <1>1, <2>4 DEF Begins
    <3> QED BY <2>4, <2>5, <3>1 DEF Stops
  <2>7. g[i] = g[i + Width(a, i)]
    BY <1>1, <1>3, <1>4, <2>2, <2>5, <2>6, ScanGoesOn
  <2>8. i + Width(a, i) \notin Bad
    <3>1. ~(i + Width(a, i) <= i)
      BY <2>4, <2>5
    <3> QED BY <2>1, <3>1
  <2> QED BY <2>2, <2>4, <2>7, <2>8
<1>6. start \in D
  BY <1>1
<1> QED BY <1>2, <1>3, <1>5, <1>6

\* The quote that closes the value is never inside what the scan has passed.
LEMMA ClosedLater ==
    ASSUME NEW a \in Seq(Symbols), NEW b \in Seq(Symbols), Begins(a, b),
           NEW start \in 1 .. Len(a) + 1, ClosedAt(b, start) # 0
    PROVE  EndOf(a, start) <= ClosedAt(b, start)
<1>1. Len(a) \in Nat /\ Len(b) \in Nat /\ Len(a) <= Len(b) /\ start \in 1 .. Len(b) + 1
  BY DEF Begins
<1>2. PICK f : Scan(a, start, f) /\ EndOf(a, start) = f[start]
  BY EndOfScan
<1>3. PICK g : Closing(b, start, g) /\ ClosedAt(b, start) = g[start]
  BY <1>1, ClosedAtScan
<1> DEFINE D == start .. Len(a) + 1
           Bad == {i \in D : g[i] # 0 /\ ~(f[i] <= g[i])}
<1>4. \A i \in D : /\ i \in start .. Len(b) + 2 /\ f[i] \in Nat
                   /\ g[i] = 0 \/ g[i] \in i .. Len(b)
  <2> TAKE i \in D
  <2>1. i \in start .. Len(a) + 1 /\ i \in start .. Len(b) + 2
    BY <1>1
  <2>2. f[i] \in i .. Len(a) + 1
    BY <1>2, <2>1, ScanGoesOn
  <2>3. g[i] = 0 \/ g[i] \in i .. Len(b)
    BY <1>1, <1>3, <2>1, ClosingGoesOn
  <2> QED BY <1>1, <2>1, <2>2, <2>3
<1>5. Bad = {}
  <2> SUFFICES ASSUME Bad # {} PROVE FALSE
    OBVIOUS
  <2>1. PICK i \in Bad : \A j \in Bad : j <= i
    <3>1. Bad \in SUBSET (0 .. Len(a) + 1) /\ Len(a) + 1 \in Nat
      BY <1>1
    <3> HIDE DEF Bad
    <3> QED BY <3>1, GreatestElement
  <2>2. i \in D /\ g[i] # 0 /\ ~(f[i] <= g[i])
    OBVIOUS
  <2>3. ~Stops(a, i)
    <3>1. Stops(a, i) => f[i] = i
      BY <1>2, <2>2, ScanGoesOn
    <3> QED BY <1>1, <1>4, <2>2, <3>1
  <2>4. /\ i \in 1 .. Len(a) /\ ~Held(a, i) /\ a[i] # "quote"
        /\ i + Width(a, i) \in D /\ f[i] = f[i + Width(a, i)]
    BY <1>1, <1>2, <2>2, <2>3, ScanGoesOn
  <2>5. Width(a, i) \in {1, 2, 3, 6} /\ i + Width(a, i) <= Len(a) + 1
    BY <2>4, TokenFits
  <2>6. g[i] = g[i + Width(a, i)]
    <3>1. \A k \in i .. Len(a) :
            /\ b[k] = a[k] /\ k \in start .. Len(b) + 2 /\ k <= Len(b)
            /\ a[k] = "\\" => g[k] = g[k + 2]
            /\ a[k] \notin {"quote", "\\"} => g[k] = g[k + 1]
      <4> TAKE k \in i .. Len(a)
      <4>1. k \in 1 .. Len(a) /\ k \in start .. Len(b) + 2 /\ k <= Len(b)
        BY <1>1, <2>2, <2>4
      <4>2. b[k] = a[k]
        BY <4>1 DEF Begins
      <4> QED BY <1>1, <1>3, <4>1, <4>2, ClosingGoesOn
    <3>2. i \in Nat /\ i <= Len(a)
      BY <1>1, <2>4
    <3>3. CASE a[i] # "\\"
      BY <2>4, <3>1, <3>2, <3>3 DEF Width
    <3>4. CASE a[i] = "\\" /\ a[i + 1] # "u"
      BY <3>1, <3>2, <3>4 DEF Width
    <3>5. CASE a[i] = "\\" /\ a[i + 1] = "u" /\ a[i + 2] = "high"
      <4>1. i + 1 < Len(a) /\ LowFollows(a, i)
        BY <2>4, <3>2, <3>5 DEF Held
      <4>2. /\ Width(a, i) = 6 /\ i + 5 <= Len(a)
            /\ a[i + 3] = "\\" /\ a[i + 4] = "u" /\ a[i + 5] = "low"
        BY <2>4, <3>2, <3>5, <4>1, LowFollowsIs DEF Width
      <4>3. /\ i + 2 \in i .. Len(a) /\ i + 3 \in i .. Len(a) /\ i + 5 \in i .. Len(a)
            /\ (i + 2) + 1 = i + 3 /\ (i + 3) + 2 = i + 5 /\ (i + 5) + 1 = i + 6
        BY <1>1, <3>2, <4>2
      <4>4. g[i] = g[i + 2]
        BY <3>1, <3>2, <3>5
      <4>5. g[i + 2] = g[i + 3]
        BY <3>1, <3>5, <4>3
      <4>6. g[i + 3] = g[i + 5]
        BY <3>1, <4>2, <4>3
      <4>7. g[i + 5] = g[i + 6]
        BY <3>1, <4>2, <4>3
      <4> QED BY <4>2, <4>4, <4>5, <4>6, <4>7
    <3>6. CASE a[i] = "\\" /\ a[i + 1] = "u" /\ a[i + 2] # "high"
      <4>1. i + 1 < Len(a) /\ a[i + 2] \in Hex
        BY <2>4, <3>2, <3>6 DEF Held
      <4>2. Width(a, i) = 3
        BY <3>6 DEF Width
      <4>3. i + 2 \in i .. Len(a) /\ (i + 2) + 1 = i + 3
        BY <1>1, <3>2, <4>1
      <4>4. g[i] = g[i + 2]
        BY <3>1, <3>2, <3>6
      <4>5. g[i + 2] = g[i + 3]
        BY <3>1, <4>1, <4>3 DEF Hex
      <4> QED BY <4>2, <4>4, <4>5
    <3> QED BY <3>3, <3>4, <3>5, <3>6
  <2>7. i + Width(a, i) \notin Bad
    <3>1. ~(i + Width(a, i) <= i)
      BY <2>4, <2>5
    <3> QED BY <2>1, <3>1
  <2> QED BY <2>2, <2>4, <2>6, <2>7
<1>6. start \in D
  BY <1>1
<1> QED BY <1>2, <1>3, <1>5, <1>6

KeyAt(t, i) == t[i] = "key" /\ t[i + 1] = ":" /\ t[i + 2] = "quote"

LEMMA StartIs ==
    ASSUME NEW t \in Seq(Symbols)
    PROVE  \/ /\ StartOf(t) = 0 /\ \A i \in 1 .. Len(t) - 2 : ~KeyAt(t, i)
           \/ \E i \in 1 .. Len(t) - 2 :
                /\ KeyAt(t, i) /\ \A j \in 1 .. Len(t) - 2 : KeyAt(t, j) => i <= j
                /\ StartOf(t) = i + 3
<1> DEFINE named == {i \in 1 .. Len(t) - 2 : SubSeq(t, i, i + 2) = <<"key", ":", "quote">>}
<1>1. Len(t) \in Nat
  OBVIOUS
<1>2. \A i \in 1 .. Len(t) - 2 : SubSeq(t, i, i + 2) = <<"key", ":", "quote">> <=> KeyAt(t, i)
  <2> TAKE i \in 1 .. Len(t) - 2
  <2>1. i \in Nat \ {0} /\ i + 2 <= Len(t)
    BY <1>1
  <2>2. \A a, b, c : SubSeq(t, i, i + 2) = <<a, b, c>> <=> (t[i] = a /\ t[i + 1] = b /\ t[i + 2] = c)
    BY <2>1, WindowOfThree
  <2> QED BY <2>2 DEF KeyAt
<1>3. named = {i \in 1 .. Len(t) - 2 : KeyAt(t, i)}
  BY <1>2
<1>4. StartOf(t) = IF named = {} THEN 0 ELSE 3 + CHOOSE i \in named : \A j \in named : i <= j
  BY DEF StartOf
<1>5. CASE named = {}
  BY <1>3, <1>4, <1>5
<1>6. CASE named # {}
  <2>1. named \in SUBSET Nat
    BY <1>1
  <2> HIDE DEF named
  <2>2. \E i \in named : \A j \in named : i <= j
    BY <1>6, <2>1, LeastElement
  <2>3. PICK i : i = CHOOSE k \in named : \A j \in named : k <= j
    OBVIOUS
  <2>4. i \in named /\ \A j \in named : i <= j
    BY <2>2, <2>3
  <2>5. StartOf(t) = 3 + i
    BY <1>4, <1>6, <2>3
  <2>6. i \in 1 .. Len(t) - 2 /\ StartOf(t) = i + 3
    BY <1>3, <2>1, <2>4, <2>5
  <2> QED BY <1>3, <2>4, <2>6
<1> QED BY <1>5, <1>6

LEMMA StartStays ==
    ASSUME NEW a \in Seq(Symbols), NEW b \in Seq(Symbols), Begins(a, b), StartOf(a) # 0
    PROVE  StartOf(b) = StartOf(a) /\ StartOf(a) \in 1 .. Len(a) + 1
<1>1. Len(a) \in Nat /\ Len(b) \in Nat /\ Len(a) <= Len(b)
  BY DEF Begins
<1>2. PICK i \in 1 .. Len(a) - 2 :
        /\ KeyAt(a, i) /\ \A j \in 1 .. Len(a) - 2 : KeyAt(a, j) => i <= j
        /\ StartOf(a) = i + 3
  BY StartIs
<1>3. \A j \in 1 .. Len(a) - 2 : j \in 1 .. Len(b) - 2 /\ (KeyAt(a, j) <=> KeyAt(b, j))
  <2> TAKE j \in 1 .. Len(a) - 2
  <2>1. j \in 1 .. Len(a) /\ j + 1 \in 1 .. Len(a) /\ j + 2 \in 1 .. Len(a)
    BY <1>1
  <2>2. a[j] = b[j] /\ a[j + 1] = b[j + 1] /\ a[j + 2] = b[j + 2]
    BY <2>1 DEF Begins
  <2> QED BY <1>1, <2>2 DEF KeyAt
<1>4. PICK k \in 1 .. Len(b) - 2 :
        /\ KeyAt(b, k) /\ \A j \in 1 .. Len(b) - 2 : KeyAt(b, j) => k <= j
        /\ StartOf(b) = k + 3
  BY <1>2, <1>3, StartIs
<1>5. k <= i /\ k \in 1 .. Len(a) - 2
  BY <1>1, <1>2, <1>3, <1>4
<1>6. i <= k
  BY <1>2, <1>3, <1>4, <1>5
<1> QED BY <1>1, <1>2, <1>4, <1>5, <1>6

LEMMA LoadsType == ASSUME NEW t \in Seq(Symbols) PROVE Loads(t) \in Seq(Characters)
<1>1. PICK f : Decoding(t, f) /\ Loads(t) = f[1]
  BY LoadsDecoding
<1>2. 1 \in 1 .. Len(t) + 1
  OBVIOUS
<1> QED BY <1>1, <1>2, DecodingGoesOn

LEMMA HalvesReplaced ==
    ASSUME NEW x \in Seq(Characters)
    PROVE  /\ ReplaceHalves(x) \in Seq(Characters \cup {"?"})
           /\ Len(ReplaceHalves(x)) = Len(x)
           /\ \A k \in 1 .. Len(x) : ReplaceHalves(x)[k] = IF x[k] = "half" THEN "?" ELSE x[k]
<1> DEFINE r == [i \in 1 .. Len(x) |-> IF x[i] = "half" THEN "?" ELSE x[i]]
<1>1. Len(x) \in Nat /\ DOMAIN x = 1 .. Len(x) /\ \A i \in 1 .. Len(x) : x[i] \in Characters
  BY ElementOfSeq, LenProperties
<1>2. ReplaceHalves(x) = r
  BY <1>1 DEF ReplaceHalves
<1>3. \A i \in 1 .. Len(x) : (IF x[i] = "half" THEN "?" ELSE x[i]) \in Characters \cup {"?"}
  BY <1>1
<1>4. r \in Seq(Characters \cup {"?"}) /\ Len(r) = Len(x)
  BY <1>1, <1>3, IsASeq
<1>5. \A k \in 1 .. Len(x) : r[k] = IF x[k] = "half" THEN "?" ELSE x[k]
  OBVIOUS
<1> HIDE DEF r
<1> QED BY <1>2, <1>4, <1>5

NoHalf(x) == \A k \in 1 .. Len(x) : x[k] # "half"

LEMMA ToldWithoutHalves ==
    ASSUME NEW x \in Seq(Characters)
    PROVE  ReplaceHalves(x) \in Seq(Told) /\ NoHalf(ReplaceHalves(x))
BY HalvesReplaced DEF Told, NoHalf

LEMMA HalvesBegin ==
    ASSUME NEW x \in Seq(Characters), NEW y \in Seq(Characters), Begins(x, y)
    PROVE  Begins(ReplaceHalves(x), ReplaceHalves(y))
<1>1. Len(x) \in Nat /\ Len(y) \in Nat /\ Len(x) <= Len(y)
  BY DEF Begins
<1>2. ASSUME NEW k \in 1 .. Len(x)
      PROVE  ReplaceHalves(x)[k] = ReplaceHalves(y)[k]
  <2>1. k \in 1 .. Len(y) /\ x[k] = y[k]
    BY <1>1 DEF Begins
  <2> QED BY <2>1, HalvesReplaced
<1> QED BY <1>1, <1>2, HalvesReplaced DEF Begins

-------------------------------------------------------------------------------
(* What is extracted, and what is parsed at the end. *)

LEMMA ExtractType ==
    ASSUME NEW t \in Seq(Symbols), Extract(t) # None
    PROVE  /\ StartOf(t) # 0
           /\ Extract(t) = ReplaceHalves(Loads(SubSeq(t, StartOf(t), EndOf(t, StartOf(t)) - 1)))
           /\ Extract(t) \in Seq(Told) /\ NoHalf(Extract(t))
<1> DEFINE value == SubSeq(t, StartOf(t), EndOf(t, StartOf(t)) - 1)
<1>1. StartOf(t) # 0 /\ Extract(t) = ReplaceHalves(Loads(value))
  BY DEF Extract
<1>2. Begins(t, t)
  BY DEF Begins
<1>3. StartOf(t) \in 1 .. Len(t) + 1
  BY <1>1, <1>2, StartStays
<1>4. value \in Seq(Symbols)
  BY <1>3, ValueChain
<1> HIDE DEF value
<1>5. Loads(value) \in Seq(Characters)
  BY <1>4, LoadsType
<1> QED BY <1>1, <1>5, ToldWithoutHalves DEF value

\* The value as far as the scan of the shorter text goes, and one that goes further.
LEMMA ValueBegins ==
    ASSUME NEW a \in Seq(Symbols), NEW b \in Seq(Symbols), Begins(a, b),
           NEW start \in 1 .. Len(a) + 1, NEW last \in Nat,
           EndOf(a, start) - 1 <= last, last <= Len(b)
    PROVE  /\ SubSeq(b, start, last) \in Seq(Symbols)
           /\ Begins(ReplaceHalves(Loads(SubSeq(a, start, EndOf(a, start) - 1))),
                     ReplaceHalves(Loads(SubSeq(b, start, last))))
<1> DEFINE u == SubSeq(a, start, EndOf(a, start) - 1)
           v == SubSeq(b, start, last)
           e == EndOf(a, start)
<1>1. /\ e \in start .. Len(a) + 1 /\ u \in Seq(Symbols) /\ Len(u) = e - start
      /\ \A k \in 1 .. Len(u) : u[k] = a[start + k - 1]
      /\ \E B : Chain(u, B) /\ 1 \in B
  BY ValueChain
<1>2. Len(a) \in Nat /\ Len(b) \in Nat /\ Len(a) <= Len(b)
  BY DEF Begins
<1>3. /\ v \in Seq(Symbols) /\ Len(v) = last - start + 1
      /\ \A k \in 1 .. Len(v) : v[k] = b[start + k - 1]
  <2>1. start \in 1 .. Len(b) + 1 /\ last \in start - 1 .. Len(b)
    BY <1>1, <1>2
  <2>2. /\ v \in Seq(Symbols) /\ Len(v) = IF start <= last THEN last - start + 1 ELSE 0
        /\ \A k \in 1 .. last - start + 1 : v[k] = b[start + k - 1]
    BY <2>1, SubSeqProperties
  <2>3. Len(v) = last - start + 1
    <3> HIDE DEF v
    <3> QED BY <2>1, <2>2
  <2> HIDE DEF v
  <2> QED BY <2>2, <2>3
<1>4. Begins(u, v)
  <2>1. Len(u) <= Len(v)
    BY <1>1, <1>2, <1>3
  <2>2. ASSUME NEW k \in 1 .. Len(u) PROVE u[k] = v[k]
    <3>1. k \in 1 .. Len(v) /\ start + k - 1 \in 1 .. Len(a)
      <4> HIDE DEF u, v, e
      <4> QED BY <1>1, <1>2, <2>1, <1>3
    <3>2. a[start + k - 1] = b[start + k - 1]
      BY <3>1 DEF Begins
    <3> HIDE DEF u, v
    <3> QED BY <1>1, <1>3, <3>1, <3>2
  <2> HIDE DEF u, v
  <2> QED BY <2>1, <2>2 DEF Begins
<1> HIDE DEF u, v
<1>5. Begins(Loads(u), Loads(v))
  BY <1>1, <1>3, <1>4, LoadsBegins
<1>6. Begins(ReplaceHalves(Loads(u)), ReplaceHalves(Loads(v)))
  BY <1>1, <1>3, <1>5, LoadsType, HalvesBegin
<1> QED BY <1>3, <1>6 DEF u, v

LEMMA ExtractBegins ==
    ASSUME NEW a \in Seq(Symbols), NEW b \in Seq(Symbols), Begins(a, b),
           Extract(a) # None, Extract(b) # None
    PROVE  Begins(Extract(a), Extract(b))
<1> DEFINE start == StartOf(a)
           last == EndOf(b, start) - 1
<1>1. StartOf(b) = start /\ start \in 1 .. Len(a) + 1
  BY ExtractType, StartStays
<1>2. Len(a) \in Nat /\ Len(b) \in Nat /\ start \in 1 .. Len(b) + 1
  BY <1>1 DEF Begins
<1>3. EndOf(a, start) <= EndOf(b, start) /\ EndOf(a, start) \in start .. Len(a) + 1
      /\ EndOf(b, start) \in start .. Len(b) + 1
  BY <1>1, <1>2, EndGrows, ValueChain
<1>4. last \in Nat /\ EndOf(a, start) - 1 <= last /\ last <= Len(b)
  BY <1>1, <1>2, <1>3
<1>5. /\ Extract(a) = ReplaceHalves(Loads(SubSeq(a, start, EndOf(a, start) - 1)))
      /\ Extract(b) = ReplaceHalves(Loads(SubSeq(b, start, last)))
  BY <1>1, ExtractType
<1> HIDE DEF start, last
<1> QED BY <1>1, <1>4, <1>5, ValueBegins

\* An envelope that parses: its value is closed, and the rest is as it should be.
Parses(raw) ==
    /\ StartOf(raw) # 0 /\ ClosedAt(raw, StartOf(raw)) # 0
    /\ Parse(raw).content =
         ReplaceHalves(Loads(SubSeq(raw, StartOf(raw), ClosedAt(raw, StartOf(raw)) - 1)))

LEMMA ParseIs == \A raw : Parse(raw).content = raw \/ Parses(raw)
BY DEF Parse, Fallback, Parses

LEMMA ParseBegins ==
    ASSUME NEW a \in Seq(Symbols), NEW raw \in Seq(Symbols), Begins(a, raw), Parses(raw)
    PROVE  /\ Parse(raw).content \in Seq(Told) /\ NoHalf(Parse(raw).content)
           /\ Extract(a) # None => Begins(Extract(a), Parse(raw).content)
<1> DEFINE start == StartOf(raw)
           last == ClosedAt(raw, start) - 1
<1>1. Begins(raw, raw)
  BY DEF Begins
<1>2. start \in 1 .. Len(raw) + 1
  BY <1>1, StartStays DEF Parses
<1>3. Len(raw) \in Nat /\ ClosedAt(raw, start) \in start .. Len(raw)
  <2>1. PICK g : Closing(raw, start, g) /\ ClosedAt(raw, start) = g[start]
    BY <1>2, ClosedAtScan
  <2>2. start \in start .. Len(raw) + 2
    BY <1>2
  <2> HIDE DEF start
  <2>3. g[start] = 0 \/ g[start] \in start .. Len(raw)
    BY <1>2, <2>1, <2>2, ClosingGoesOn
  <2> QED BY <2>1, <2>3 DEF Parses, start
<1>4. last \in Nat /\ last <= Len(raw) /\ last \in start - 1 .. Len(raw)
  BY <1>2, <1>3
<1>5. SubSeq(raw, start, last) \in Seq(Symbols)
  BY <1>2, <1>4, SubSeqProperties
<1>6. Parse(raw).content = ReplaceHalves(Loads(SubSeq(raw, start, last)))
  BY DEF Parses
<1>7. Parse(raw).content \in Seq(Told) /\ NoHalf(Parse(raw).content)
  BY <1>5, <1>6, LoadsType, ToldWithoutHalves
<1>8. ASSUME Extract(a) # None PROVE Begins(Extract(a), Parse(raw).content)
  <2>1. StartOf(a) = start /\ start \in 1 .. Len(a) + 1
    BY <1>8, ExtractType, StartStays
  <2>2. Extract(a) = ReplaceHalves(Loads(SubSeq(a, start, EndOf(a, start) - 1)))
    BY <1>8, <2>1, ExtractType
  <2>3. EndOf(a, start) <= ClosedAt(raw, start)
    <3>1. ClosedAt(raw, start) # 0
      BY DEF Parses
    <3> HIDE DEF start
    <3> QED BY <2>1, <3>1, ClosedLater
  <2>4. EndOf(a, start) - 1 <= last
    <3>1. EndOf(a, start) \in start .. Len(a) + 1
      BY <2>1, ValueChain
    <3> QED BY <1>2, <1>3, <2>1, <2>3, <3>1
  <2> HIDE DEF start, last
  <2> QED BY <1>4, <1>6, <2>1, <2>2, <2>4, ValueBegins
<1> QED BY <1>7, <1>8

-------------------------------------------------------------------------------
(* The text is made of symbols. *)

Flattening(p, f) == f = [i \in 1 .. Len(p) |-> IF i = 1 THEN p[i] ELSE f[i - 1] \o p[i]]

LEMMA FlattenIs ==
    ASSUME NEW C, NEW p \in Seq(C), p # <<>>
    PROVE  \E f : Flattening(p, f) /\ FlattenSeq(p) = f[Len(p)]
<1> DEFINE Upto(n, f) == f = [i \in 1 .. n |-> IF i = 1 THEN p[i] ELSE f[i - 1] \o p[i]]
           Bad == {n \in Nat : ~ \E f : Upto(n, f)}
<1>1. Len(p) \in Nat /\ Len(p) # 0
  BY EmptySeq
<1>2. Bad = {}
  <2> SUFFICES ASSUME Bad # {} PROVE FALSE
    OBVIOUS
  <2>1. PICK n \in Bad : \A k \in Bad : n <= k
    <3>1. Bad \in SUBSET Nat
      OBVIOUS
    <3> HIDE DEF Bad
    <3> QED BY <3>1, LeastElement
  <2>2. n \in Nat /\ ~ \E f : Upto(n, f)
    OBVIOUS
  <2>3. CASE n = 0
    <3> DEFINE f == [i \in 1 .. n |-> 0]
    <3>1. \A i \in 1 .. n : f[i] = IF i = 1 THEN p[i] ELSE f[i - 1] \o p[i]
      BY <2>3
    <3>2. Upto(n, f)
      BY <3>1
    <3> QED BY <2>2, <3>2
  <2>4. CASE n # 0
    <3>1. n - 1 \in Nat /\ ~(n <= n - 1)
      BY <2>2, <2>4
    <3>0. n - 1 \notin Bad
      <4> HIDE DEF Bad
      <4> QED BY <2>1, <3>1
    <3>2. PICK g : Upto(n - 1, g)
      <4> HIDE DEF Upto
      <4> QED BY <3>0, <3>1
    <3>3. \A i \in 1 .. n - 1 : g[i] = IF i = 1 THEN p[i] ELSE g[i - 1] \o p[i]
      BY <3>2
    <3> DEFINE f == [i \in 1 .. n |-> IF i # n THEN g[i]
                                     ELSE IF i = 1 THEN p[i] ELSE g[i - 1] \o p[i]]
    <3>4. \A i \in 1 .. n : f[i] = IF i = 1 THEN p[i] ELSE f[i - 1] \o p[i]
      <4> TAKE i \in 1 .. n
      <4>1. i # 1 => i - 1 \in 1 .. n /\ i - 1 # n
        BY <2>2
      <4>2. i # 1 => f[i - 1] = g[i - 1]
        BY <4>1
      <4>3. CASE i = n
        BY <4>2, <4>3
      <4>4. CASE i # n
        <5>1. i \in 1 .. n - 1 /\ f[i] = g[i]
          BY <2>2, <4>4
        <5> QED BY <3>3, <4>2, <5>1
      <4> QED BY <4>3, <4>4
    <3>5. Upto(n, f)
      BY <3>4
    <3> QED BY <2>2, <3>5
  <2> QED BY <2>3, <2>4
<1>3. \E f : Flattening(p, f)
  <2>1. Len(p) \notin Bad
    BY <1>2
  <2> QED BY <1>1, <2>1 DEF Flattening
<1>4. PICK g : g = CHOOSE f : Flattening(p, f)
  OBVIOUS
<1>5. Flattening(p, g)
  BY <1>3, <1>4
<1>6. FlattenSeq(p) = g[Len(p)]
  BY <1>1, <1>4 DEF FlattenSeq, Flattening
<1> QED BY <1>5, <1>6

LEMMA FlatteningType ==
    ASSUME NEW C, NEW p \in Seq(Seq(C)), NEW f, Flattening(p, f)
    PROVE  \A i \in 1 .. Len(p) : f[i] \in Seq(C)
<1> DEFINE Bad == {i \in 1 .. Len(p) : f[i] \notin Seq(C)}
<1>1. Len(p) \in Nat /\ \A i \in 1 .. Len(p) : p[i] \in Seq(C)
  BY ElementOfSeq
<1>2. Bad = {}
  <2> SUFFICES ASSUME Bad # {} PROVE FALSE
    OBVIOUS
  <2>1. PICK i \in Bad : \A k \in Bad : i <= k
    <3>1. Bad \in SUBSET Nat
      OBVIOUS
    <3> HIDE DEF Bad
    <3> QED BY <3>1, LeastElement
  <2>2. i \in 1 .. Len(p) /\ f[i] \notin Seq(C)
    OBVIOUS
  <2>3. f[i] = IF i = 1 THEN p[i] ELSE f[i - 1] \o p[i]
    BY <2>2 DEF Flattening
  <2>4. i # 1
    BY <1>1, <2>2, <2>3
  <2>5. i - 1 \in 1 .. Len(p) /\ i - 1 \notin Bad
    BY <1>1, <2>1, <2>2, <2>4
  <2>6. f[i - 1] \in Seq(C) /\ p[i] \in Seq(C)
    BY <1>1, <2>2, <2>5
  <2> QED BY <2>2, <2>3, <2>4, <2>6, ConcatProperties
<1> QED BY <1>2

LEMMA FlattenType ==
    ASSUME NEW C, NEW p \in Seq(Seq(C)) PROVE FlattenSeq(p) \in Seq(C)
<1>1. CASE p = <<>>
  <2>1. FlattenSeq(p) = <<>>
    BY <1>1, EmptySeq DEF FlattenSeq
  <2> QED BY <2>1, EmptySeq
<1>2. CASE p # <<>>
  <2>1. PICK f : Flattening(p, f) /\ FlattenSeq(p) = f[Len(p)]
    BY <1>2, FlattenIs
  <2>2. Len(p) \in 1 .. Len(p)
    BY <1>2, EmptySeq
  <2> QED BY <2>1, <2>2, FlatteningType
<1> QED BY <1>1, <1>2

LEMMA PiecesType == Pieces \subseteq Seq(Symbols)
BY DEF Pieces, Symbols

LEMMA FramesType ==
    ASSUME NEW f \in Frames PROVE f[1] \in Seq(Symbols) /\ f[2] \in Seq(Symbols)
<1>1. \A r \in Rests : <<"quote">> \o r \in Seq(Symbols)
  <2>1. <<"quote">> \in Seq(Symbols) /\ \A r \in Rests : r \in Seq(Symbols)
    BY DEF Rests, Symbols
  <2> QED BY <2>1, ConcatProperties
<1>2. /\ <<"open", "key", ":", "quote">> \in Seq(Symbols)
      /\ <<"x", "open", "key", ":", "quote">> \in Seq(Symbols)
      /\ <<"open", "id", ":", "7", "comma", "key", ":", "quote">> \in Seq(Symbols)
      /\ <<"quote", "close">> \in Seq(Symbols) /\ <<"quote", "close", "x">> \in Seq(Symbols)
  BY DEF Symbols
<1>3. CASE \E start \in Starts, rest \in Rests : f = Wrap(start, rest)
  <2>1. PICK start \in Starts, rest \in Rests : f = Wrap(start, rest)
    BY <1>3
  <2>2. f[1] = start /\ f[2] = <<"quote">> \o rest
    BY <2>1 DEF Wrap
  <2>3. start \in Seq(Symbols)
    BY <1>2 DEF Starts
  <2> QED BY <1>1, <2>1, <2>2, <2>3
<1>4. CASE f = IdFirst
  <2>1. /\ f[1] = <<"open", "id", ":", "7", "comma", "key", ":", "quote">>
        /\ f[2] = <<"quote", "close">>
    BY <1>4 DEF IdFirst
  <2> QED BY <1>2, <2>1
<1>5. CASE f = Trailed
  <2>1. f[1] = <<"open", "key", ":", "quote">> /\ f[2] = <<"quote", "close", "x">>
    BY <1>5 DEF Trailed
  <2> QED BY <1>2, <2>1
<1>6. \/ \E start \in Starts, rest \in Rests : f = Wrap(start, rest)
      \/ f = IdFirst \/ f = Trailed
  BY DEF Frames
<1> QED BY <1>3, <1>4, <1>5, <1>6

Given == frame \in Frames /\ pieces \in Seq(Pieces)

LEMMA TextType == Given => Text \in Seq(Symbols)
<1> SUFFICES ASSUME Given PROVE Text \in Seq(Symbols)
  OBVIOUS
<1>1. pieces \in Seq(Seq(Symbols))
  BY PiecesType, SeqMonotonic DEF Given
<1>2. FlattenSeq(pieces) \in Seq(Symbols)
  BY <1>1, FlattenType
<1>3. frame[1] \in Seq(Symbols) /\ frame[2] \in Seq(Symbols)
  BY FramesType DEF Given
<1>4. frame[1] \o FlattenSeq(pieces) \in Seq(Symbols)
  BY <1>2, <1>3, ConcatProperties
<1> QED BY <1>3, <1>4, ConcatProperties DEF Text

-------------------------------------------------------------------------------
(* What is shown, and what is stored. *)

LEMMA JoinRest ==
    ASSUME NEW C, NEW x \in Seq(C), NEW y \in Seq(C), Begins(x, y)
    PROVE  x \o From(y, Len(x) + 1) = y
<1> DEFINE z == SubSeq(y, Len(x) + 1, Len(y))
<1>1. Len(x) \in Nat /\ Len(y) \in Nat /\ Len(x) <= Len(y)
  BY DEF Begins
<1>2. \A i \in Len(x) + 1 .. Len(y) : y[i] \in C
  BY <1>1, ElementOfSeq
<1>3. /\ z \in Seq(C) /\ Len(z) = Len(y) - Len(x)
      /\ \A i \in 1 .. Len(y) - Len(x) : z[i] = y[Len(x) + i]
  <2>1. CASE Len(x) = Len(y)
    <3>1. z = <<>>
      BY <1>1, <2>1, SubSeqProperties
    <3> QED BY <1>1, <2>1, <3>1
  <2>2. CASE Len(x) # Len(y)
    <3>1. Len(x) + 1 \in 1 .. Len(y) + 1 /\ Len(y) \in Len(x) + 1 - 1 .. Len(y)
      BY <1>1, <2>2
    <3>2. z \in Seq(C) /\ Len(z) = Len(y) - (Len(x) + 1) + 1
          /\ \A i \in 1 .. Len(y) - (Len(x) + 1) + 1 : z[i] = y[Len(x) + 1 + i - 1]
      BY <3>1, SubSeqProperties
    <3> QED BY <1>1, <3>2
  <2> QED BY <2>1, <2>2
<1> HIDE DEF z
<1>4. /\ x \o z \in Seq(C) /\ Len(x \o z) = Len(y)
      /\ \A i \in 1 .. Len(y) : (x \o z)[i] = y[i]
  <2>1. /\ x \o z \in Seq(C) /\ Len(x \o z) = Len(x) + Len(z)
        /\ \A i \in 1 .. Len(x) + Len(z) :
             (x \o z)[i] = IF i <= Len(x) THEN x[i] ELSE z[i - Len(x)]
    BY <1>3, ConcatProperties
  <2>2. Len(x) + Len(z) = Len(y)
    BY <1>1, <1>3
  <2>3. ASSUME NEW i \in 1 .. Len(y) PROVE (x \o z)[i] = y[i]
    <3>1. CASE i <= Len(x)
      BY <1>1, <2>1, <2>2, <3>1 DEF Begins
    <3>2. CASE ~(i <= Len(x))
      <4>1. i - Len(x) \in 1 .. Len(y) - Len(x) /\ Len(x) + (i - Len(x)) = i
        BY <1>1, <3>2
      <4>2. z[i - Len(x)] = y[i]
        BY <1>3, <4>1
      <4> QED BY <2>1, <2>2, <2>3, <3>2, <4>2
    <3> QED BY <3>1, <3>2
  <2> QED BY <2>1, <2>2, <2>3
<1>5. x \o z = y
  BY <1>4, SeqEqual
<1> QED BY <1>5 DEF From, z

LEMMA ContainsHalf ==
    ASSUME NEW C, NEW x \in Seq(C) PROVE Contains(x, "half") <=> ~NoHalf(x)
BY DEF Contains, NoHalf

LEMMA PrefixBegins ==
    ASSUME NEW t \in Seq(Symbols), NEW m \in 0 .. Len(t), NEW n \in 0 .. m
    PROVE  /\ SubSeq(t, 1, m) \in Seq(Symbols)
           /\ SubSeq(t, 1, n) \in Seq(Symbols)
           /\ Begins(SubSeq(t, 1, n), SubSeq(t, 1, m))
<1>1. Len(t) \in Nat /\ \A i \in 1 .. Len(t) : t[i] \in Symbols
  BY ElementOfSeq
<1>2. ASSUME NEW k \in 0 .. Len(t)
      PROVE  /\ SubSeq(t, 1, k) \in Seq(Symbols) /\ Len(SubSeq(t, 1, k)) = k
             /\ \A i \in 1 .. k : SubSeq(t, 1, k)[i] = t[i]
  BY <1>1, <1>2, SubSeqProperties
<1>3. n \in 0 .. Len(t) /\ n <= m
  BY <1>1
<1> QED BY <1>2, <1>3 DEF Begins

LEMMA SymbolsAreTold ==
    ASSUME NEW t \in Seq(Symbols) PROVE t \in Seq(Told) /\ NoHalf(t)
<1>1. Symbols \subseteq Told /\ "half" \notin Symbols
  BY DEF Told, Characters, Symbols
<1>2. \A k \in 1 .. Len(t) : t[k] \in Symbols
  BY ElementOfSeq
<1> QED BY <1>1, <1>2, SeqMonotonic DEF NoHalf

\* e is what the first m symbols of t have shown.
Shown(t, m, e) ==
    /\ e \in Seq(Told) /\ NoHalf(e)
    /\ e # <<>> => \E n \in 1 .. m : /\ Extract(SubSeq(t, 1, n)) # None
                                   /\ e = Extract(SubSeq(t, 1, n))

LEMMA MoreIsShown ==
    ASSUME NEW t \in Seq(Symbols), NEW m \in 0 .. Len(t), NEW k \in 1 .. Len(t), m <= k,
           NEW e, Shown(t, m, e)
    PROVE  /\ Shown(t, k, e)
           /\ Extract(SubSeq(t, 1, k)) # None /\ Len(Extract(SubSeq(t, 1, k))) > Len(e) =>
                /\ e \o From(Extract(SubSeq(t, 1, k)), Len(e) + 1) = Extract(SubSeq(t, 1, k))
                /\ Shown(t, k, Extract(SubSeq(t, 1, k)))
<1> DEFINE x == Extract(SubSeq(t, 1, k))
<1>1. Len(t) \in Nat
  OBVIOUS
<1>2. Shown(t, k, e)
  <2>1. \A n \in 1 .. m : n \in 1 .. k
    BY <1>1
  <2> QED BY <2>1 DEF Shown
<1>3. ASSUME x # None
      PROVE  x \in Seq(Told) /\ NoHalf(x) /\ Begins(e, x) /\ Shown(t, k, x)
  <2>1. k \in 0 .. Len(t) /\ k \in 0 .. k
    BY <1>1
  <2>2. SubSeq(t, 1, k) \in Seq(Symbols)
    BY <2>1, PrefixBegins
  <2>3. x \in Seq(Told) /\ NoHalf(x)
    BY <1>3, <2>2, ExtractType
  <2>4. CASE e = <<>>
    <3>1. Len(e) = 0
      BY <2>4
    <3>2. Len(x) \in Nat
      <4> HIDE DEF x
      <4> QED BY <2>3
    <3> HIDE DEF x
    <3>3. Begins(e, x)
      BY <3>1, <3>2 DEF Begins
    <3>4. Shown(t, k, x)
      BY <1>3, <2>3 DEF Shown, x
    <3> QED BY <2>3, <3>3, <3>4
  <2>5. CASE e # <<>>
    <3>1. PICK n \in 1 .. m : Extract(SubSeq(t, 1, n)) # None /\ e = Extract(SubSeq(t, 1, n))
      BY <2>5 DEF Shown
    <3>2. n \in 0 .. k
      BY <1>1
    <3>3. Begins(SubSeq(t, 1, n), SubSeq(t, 1, k)) /\ SubSeq(t, 1, n) \in Seq(Symbols)
      BY <2>1, <3>2, PrefixBegins
    <3>4. Begins(e, x)
      BY <1>3, <2>2, <3>1, <3>3, ExtractBegins
    <3>5. Shown(t, k, x)
      BY <1>3, <2>3 DEF Shown
    <3> QED BY <2>3, <3>4, <3>5
  <2> QED BY <2>4, <2>5
<1>4. x # None => e \o From(x, Len(e) + 1) = x
  <2> HIDE DEF x
  <2>1. e \in Seq(Told)
    BY DEF Shown
  <2> QED BY <1>3, <2>1, JoinRest
<1> QED BY <1>2, <1>3, <1>4

LEMMA ParsedIsShown ==
    ASSUME NEW t \in Seq(Symbols), NEW m \in 1 .. Len(t), NEW e, Shown(t, m, e)
    PROVE  /\ Parse(SubSeq(t, 1, m)).content \in Seq(Told)
           /\ NoHalf(Parse(SubSeq(t, 1, m)).content)
           /\ \/ Parse(SubSeq(t, 1, m)).content = SubSeq(t, 1, m) /\ e # <<>>
              \/ Begins(e, Parse(SubSeq(t, 1, m)).content)
<1> DEFINE raw == SubSeq(t, 1, m)
           p == Parse(raw).content
<1>1. Len(t) \in Nat /\ m \in 0 .. Len(t) /\ m \in 0 .. m
  OBVIOUS
<1>2. raw \in Seq(Symbols) /\ Begins(raw, raw)
  BY <1>1, PrefixBegins
<1>3. e \in Seq(Told)
  BY DEF Shown
<1>4. ASSUME p \in Seq(Told), e = <<>> PROVE Begins(e, p)
  <2> HIDE DEF p
  <2>1. Len(p) \in Nat /\ Len(e) = 0
    BY <1>4
  <2> QED BY <2>1 DEF Begins
<1>5. CASE p = raw
  <2>1. p \in Seq(Told) /\ NoHalf(p)
    <3> HIDE DEF p, raw
    <3> QED BY <1>2, <1>5, SymbolsAreTold
  <2> QED BY <1>4, <1>5, <2>1
<1>6. CASE Parses(raw)
  <2>1. p \in Seq(Told) /\ NoHalf(p)
    <3> HIDE DEF raw
    <3> QED BY <1>2, <1>6, ParseBegins
  <2>2. CASE e # <<>>
    <3>1. PICK n \in 1 .. m : Extract(SubSeq(t, 1, n)) # None /\ e = Extract(SubSeq(t, 1, n))
      BY <2>2 DEF Shown
    <3>2. n \in 0 .. m
      BY <1>1
    <3>3. Begins(SubSeq(t, 1, n), raw) /\ SubSeq(t, 1, n) \in Seq(Symbols)
      BY <1>1, <3>2, PrefixBegins
    <3>4. Begins(e, p)
      <4> HIDE DEF raw
      <4> QED BY <1>2, <1>6, <3>1, <3>3, ParseBegins
    <3> QED BY <2>1, <3>4
  <2> QED BY <1>4, <2>1, <2>2
<1> QED BY <1>5, <1>6, ParseIs

LEMMA ParseType ==
    \A raw : /\ Parse(raw) = [content |-> Parse(raw).content, reply |-> Parse(raw).reply]
            /\ Parse(raw).reply \in {"7", None}
<1> SUFFICES ASSUME NEW raw
             PROVE  /\ Parse(raw) = [content |-> Parse(raw).content, reply |-> Parse(raw).reply]
                    /\ Parse(raw).reply \in {"7", None}
  OBVIOUS
<1>1. \E c, r : r \in {"7", None} /\ Parse(raw) = [content |-> c, reply |-> r]
  BY DEF Parse, Fallback
<1> QED BY <1>1

LEMMA NotNone ==
    ASSUME NEW c \in Seq(Told), NEW r \in {"7", None}
    PROVE  [content |-> c, reply |-> r] # None
<1>1. [content |-> c, reply |-> r] \in [content : Seq(Told), reply : {"7", None}]
  OBVIOUS
<1> QED BY <1>1, ReplyConstants

\* What holds while a reply comes in: what was shown is what the scan makes of the part
\* read so far, and all that was sent is what was shown, until the rest is added.
ReplyInv ==
    /\ Given
    /\ read \in 0 .. Len(Text)
    /\ Shown(Text, read, emitted)
    /\ stored = None => sent = emitted
    /\ StreamedIsStored

LEMMA InitInv == Init => ReplyInv
<1> SUFFICES ASSUME Init PROVE ReplyInv
  OBVIOUS
<1>1. Given
  <2>1. PICK n \in 0 .. MaxPieces : pieces \in [1 .. n -> Pieces]
    BY DEF Init
  <2>2. n \in Nat
    BY ReplyConstants
  <2> QED BY <2>1, <2>2 DEF Init, Given
<1>2. Len(Text) \in Nat
  BY <1>1, TextType
<1>3. emitted = <<>> /\ sent = <<>> /\ stored = None /\ read = 0
  BY DEF Init
<1>4. <<>> \in Seq(Told) /\ Len(<<>>) = 0
  OBVIOUS
<1>5. NoHalf(<<>>)
  BY <1>4 DEF NoHalf
<1>6. StreamedIsStored
  BY <1>3, <1>4, <1>5, ContainsHalf DEF StreamedIsStored
<1> QED BY <1>1, <1>2, <1>3, <1>4, <1>5, <1>6 DEF ReplyInv, Shown

LEMMA TextStays == ASSUME reply' = reply PROVE Text' = Text /\ (Given => Given')
BY DEF Text, Given, reply

LEMMA DeltaInv == ASSUME ReplyInv, NEW n \in 1 .. Len(Text), Delta(n) PROVE ReplyInv'
<1>1. reply' = reply /\ stored' = stored /\ stored = None /\ read' = read + n
      /\ n > 0 /\ read + n <= Len(Text)
  BY DEF Delta
<1>2. Given /\ Given' /\ Text' = Text /\ Text \in Seq(Symbols)
  BY <1>1, TextStays, TextType DEF ReplyInv
<1>3. PICK t : t = Text
  OBVIOUS
<1>4. PICK m : m = read
  OBVIOUS
<1>5. PICK e : e = emitted
  OBVIOUS
<1>6. t \in Seq(Symbols) /\ Len(t) \in Nat /\ m \in 0 .. Len(t) /\ n \in Nat
  BY <1>2, <1>3, <1>4 DEF ReplyInv
<1>7. m + n \in 1 .. Len(t) /\ m <= m + n
  BY <1>1, <1>3, <1>4, <1>6
<1>8. Shown(t, m, e) /\ sent = e
  BY <1>1, <1>3, <1>4, <1>5 DEF ReplyInv
<1> DEFINE x == Extract(SubSeq(t, 1, m + n))
<1>9. \/ emitted' = e /\ sent' = sent
      \/ x # None /\ Len(x) > Len(e) /\ sent' = sent \o From(x, Len(e) + 1) /\ emitted' = x
  BY <1>3, <1>4, <1>5 DEF Delta
<1>10. Shown(t, m + n, emitted') /\ sent' = emitted'
  <2> HIDE DEF x
  <2>1. /\ Shown(t, m + n, e)
        /\ x # None /\ Len(x) > Len(e) => e \o From(x, Len(e) + 1) = x /\ Shown(t, m + n, x)
    BY <1>6, <1>7, <1>8, MoreIsShown DEF x
  <2> QED BY <1>8, <1>9, <2>1
<1>11. Shown(Text, read, emitted)'
  BY <1>1, <1>2, <1>3, <1>4, <1>10 DEF Shown
<1>12. StreamedIsStored'
  <2>1. sent' \in Seq(Told) /\ NoHalf(sent')
    BY <1>10 DEF Shown
  <2> QED BY <1>1, <2>1, ContainsHalf DEF StreamedIsStored
<1>13. (read \in 0 .. Len(Text))'
  BY <1>1, <1>2, <1>3, <1>4, <1>7
<1> QED BY <1>2, <1>10, <1>11, <1>12, <1>13 DEF ReplyInv

LEMMA CompleteInv == ASSUME ReplyInv, Complete PROVE ReplyInv'
<1>1. reply' = reply /\ read' = read /\ emitted' = emitted /\ stored = None /\ read > 0
  BY DEF Complete
<1>2. Given /\ Given' /\ Text' = Text /\ Text \in Seq(Symbols)
  BY <1>1, TextStays, TextType DEF ReplyInv
<1>3. PICK t : t = Text
  OBVIOUS
<1>4. PICK m : m = read
  OBVIOUS
<1>5. PICK e : e = emitted
  OBVIOUS
<1>6. t \in Seq(Symbols) /\ Len(t) \in Nat /\ m \in 1 .. Len(t)
  BY <1>1, <1>2, <1>3, <1>4 DEF ReplyInv
<1>7. Shown(t, m, e) /\ sent = e
  BY <1>1, <1>3, <1>4, <1>5 DEF ReplyInv
<1>8. e \in Seq(Told) /\ NoHalf(e)
  BY <1>7 DEF Shown
<1> DEFINE p == Parse(SubSeq(t, 1, m))
<1>9. stored' = IF p.content = SubSeq(t, 1, m) /\ e # <<>>
                THEN [content |-> e, reply |-> None] ELSE p
  BY <1>3, <1>4, <1>5 DEF Complete, Content, buffer
<1>10. /\ p.content \in Seq(Told) /\ NoHalf(p.content)
       /\ (p.content = SubSeq(t, 1, m) /\ e # <<>>) \/ Begins(e, p.content)
  BY <1>6, <1>7, ParsedIsShown
<1>11. p = [content |-> p.content, reply |-> p.reply] /\ p.reply \in {"7", None}
  BY ParseType
<1> HIDE DEF p
<1>12. Begins(e, e)
  BY <1>8 DEF Begins
<1>13. /\ stored' # None
       /\ stored'.content \in Seq(Told) /\ NoHalf(stored'.content)
       /\ Begins(e, stored'.content)
  <2>1. CASE p.content = SubSeq(t, 1, m) /\ e # <<>>
    <3>1. stored' = [content |-> e, reply |-> None]
      BY <1>9, <2>1
    <3>2. stored'.content = e
      BY <3>1
    <3>3. stored' # None
      BY <1>8, <3>1, NotNone
    <3> QED BY <1>8, <1>12, <3>2, <3>3
  <2>2. CASE ~(p.content = SubSeq(t, 1, m) /\ e # <<>>)
    <3>1. stored' = p
      BY <1>9, <2>2
    <3>2. p # None
      BY <1>10, <1>11, NotNone
    <3> QED BY <1>10, <2>2, <3>1, <3>2
  <2> QED BY <2>1, <2>2
<1>14. sent' = stored'.content
  <2>1. PICK c : c = stored'.content
    OBVIOUS
  <2>2. sent' = e \o From(c, Len(e) + 1)
    BY <1>5, <1>7, <2>1 DEF Complete
  <2>3. e \o From(c, Len(e) + 1) = c
    BY <1>8, <1>13, <2>1, JoinRest
  <2> QED BY <2>1, <2>2, <2>3
<1>15. StreamedIsStored'
  <2>1. sent' \in Seq(Told) /\ NoHalf(sent')
    BY <1>13, <1>14
  <2> QED BY <1>14, <2>1, ContainsHalf DEF StreamedIsStored
<1>16. Shown(Text, read, emitted)'
  BY <1>1, <1>2, <1>3, <1>4, <1>5, <1>7 DEF Shown
<1>17. (read \in 0 .. Len(Text))'
  BY <1>1, <1>2, <1>3, <1>4, <1>6
<1> QED BY <1>2, <1>13, <1>15, <1>16, <1>17 DEF ReplyInv

LEMMA StutterInv == ASSUME ReplyInv, UNCHANGED vars PROVE ReplyInv'
<1>1. reply' = reply /\ UNCHANGED <<read, emitted, sent, stored>>
  BY DEF vars
<1>2. Text' = Text /\ Given'
  BY <1>1, TextStays DEF ReplyInv
<1> QED BY <1>1, <1>2 DEF ReplyInv, Shown, StreamedIsStored

(***************************************************************************)
(* extract_streamed_content and stream_response: wherever chunks and the   *)
(* reply end, and whether or not the model keeps to the format, the deltas *)
(* a client put together are the message that is stored, and neither has   *)
(* half of a pair, for replies of any length with one content member.      *)
(***************************************************************************)
THEOREM TheStreamIsStored == Spec => []StreamedIsStored
<1>1. Init => ReplyInv
  BY InitInv
<1>2. ReplyInv /\ [Next]_vars => ReplyInv'
  <2> SUFFICES ASSUME ReplyInv, [Next]_vars PROVE ReplyInv'
    OBVIOUS
  <2>1. ASSUME NEW n \in 1 .. Len(Text), Delta(n) PROVE ReplyInv'
    BY <2>1, DeltaInv
  <2>2. CASE Complete
    BY <2>2, CompleteInv
  <2>3. CASE UNCHANGED vars
    BY <2>3, StutterInv
  <2> QED BY <2>1, <2>2, <2>3 DEF Next, Over
<1>3. ReplyInv => StreamedIsStored
  BY DEF ReplyInv
<1> QED BY <1>1, <1>2, <1>3, PTL DEF Spec

-------------------------------------------------------------------------------
(* Where the pieces stand in the text. *)

LEMMA MiddleIs ==
    ASSUME NEW C, NEW t \in Seq(C), NEW y \in Seq(C), NEW a \in Nat, a + Len(y) <= Len(t),
           \A k \in 1 .. Len(y) : t[a + k] = y[k]
    PROVE  SubSeq(t, a + 1, a + Len(y)) = y
<1> DEFINE z == SubSeq(t, a + 1, a + Len(y))
<1>1. Len(t) \in Nat /\ Len(y) \in Nat /\ a + 1 \in Int /\ a + Len(y) \in Int
  OBVIOUS
<1>2. \A i \in a + 1 .. a + Len(y) : t[i] \in C
  <2> TAKE i \in a + 1 .. a + Len(y)
  <2>1. i \in 1 .. Len(t)
    BY <1>1
  <2> QED BY <2>1, ElementOfSeq
<1>3. /\ z \in Seq(C)
      /\ Len(z) = IF a + 1 <= a + Len(y) THEN a + Len(y) - (a + 1) + 1 ELSE 0
      /\ \A i \in 1 .. a + Len(y) - (a + 1) + 1 : z[i] = t[a + 1 + i - 1]
  BY <1>1, <1>2, SubSeqProperties
<1> HIDE DEF z
<1>4. Len(z) = Len(y)
  BY <1>1, <1>3
<1>5. \A i \in 1 .. Len(z) : z[i] = y[i]
  <2> TAKE i \in 1 .. Len(z)
  <2>1. i \in 1 .. Len(y) /\ i \in 1 .. a + Len(y) - (a + 1) + 1 /\ a + 1 + i - 1 = a + i
    BY <1>1, <1>4
  <2> QED BY <1>3, <2>1
<1>6. z = y
  BY <1>3, <1>4, <1>5, SeqEqual
<1> QED BY <1>6 DEF z

LEMMA TwoParts ==
    ASSUME NEW C, NEW x \in Seq(C), NEW y \in Seq(C)
    PROVE  /\ x \o y \in Seq(C)
           /\ Len(x) \in Nat /\ Len(y) \in Nat /\ Len(x \o y) = Len(x) + Len(y)
           /\ \A k \in 1 .. Len(x) : (x \o y)[k] = x[k]
           /\ \A k \in 1 .. Len(y) : (x \o y)[Len(x) + k] = y[k]
<1>1. Len(x) \in Nat /\ Len(y) \in Nat
  OBVIOUS
<1>2. /\ x \o y \in Seq(C) /\ Len(x \o y) = Len(x) + Len(y)
      /\ \A i \in 1 .. Len(x) + Len(y) :
           (x \o y)[i] = IF i <= Len(x) THEN x[i] ELSE y[i - Len(x)]
  BY ConcatProperties
<1>3. ASSUME NEW k \in 1 .. Len(x) PROVE (x \o y)[k] = x[k]
  <2>1. k \in 1 .. Len(x) + Len(y) /\ k <= Len(x)
    BY <1>1
  <2> QED BY <1>2, <2>1
<1>4. ASSUME NEW k \in 1 .. Len(y) PROVE (x \o y)[Len(x) + k] = y[k]
  <2>1. /\ Len(x) + k \in 1 .. Len(x) + Len(y) /\ ~(Len(x) + k <= Len(x))
        /\ Len(x) + k - Len(x) = k
    BY <1>1
  <2> QED BY <1>2, <2>1
<1> QED BY <1>1, <1>2, <1>3, <1>4

LEMMA ThreeParts ==
    ASSUME NEW C, NEW x \in Seq(C), NEW y \in Seq(C), NEW z \in Seq(C)
    PROVE  /\ x \o y \o z \in Seq(C)
           /\ Len(x \o y \o z) = Len(x) + Len(y) + Len(z)
           /\ \A k \in 1 .. Len(x) : (x \o y \o z)[k] = x[k]
           /\ \A k \in 1 .. Len(y) : (x \o y \o z)[Len(x) + k] = y[k]
           /\ \A k \in 1 .. Len(z) : (x \o y \o z)[Len(x) + Len(y) + k] = z[k]
<1>1. PICK w : w = x \o y
  OBVIOUS
<1>2. /\ w \in Seq(C) /\ Len(x) \in Nat /\ Len(y) \in Nat /\ Len(w) = Len(x) + Len(y)
      /\ \A k \in 1 .. Len(x) : w[k] = x[k]
      /\ \A k \in 1 .. Len(y) : w[Len(x) + k] = y[k]
  BY <1>1, TwoParts
<1>3. w \in Seq(C)
  BY <1>2
<1>4. /\ w \o z \in Seq(C) /\ Len(z) \in Nat /\ Len(w \o z) = Len(w) + Len(z)
      /\ \A k \in 1 .. Len(w) : (w \o z)[k] = w[k]
      /\ \A k \in 1 .. Len(z) : (w \o z)[Len(w) + k] = z[k]
  BY <1>3, TwoParts
<1>5. \A k \in 1 .. Len(x) : k \in 1 .. Len(w)
  BY <1>2
<1>6. \A k \in 1 .. Len(y) : Len(x) + k \in 1 .. Len(w)
  BY <1>2
<1>7. /\ \A k \in 1 .. Len(x) : (w \o z)[k] = x[k]
      /\ \A k \in 1 .. Len(y) : (w \o z)[Len(x) + k] = y[k]
  BY <1>2, <1>4, <1>5, <1>6
<1> QED BY <1>1, <1>2, <1>4, <1>7

\* How much of a flattened sequence stands before its i-th part.
Offset(f, i) == IF i = 1 THEN 0 ELSE Len(f[i - 1])

LEMMA PartsGrow ==
    ASSUME NEW C, NEW p \in Seq(Seq(C)), NEW f, Flattening(p, f), NEW i \in 1 .. Len(p)
    PROVE  \A j \in i .. Len(p) : Begins(f[i], f[j])
<1> DEFINE Bad == {j \in i .. Len(p) : ~Begins(f[i], f[j])}
<1>1. Len(p) \in Nat /\ i \in Nat /\ i >= 1
  OBVIOUS
<1>2. \A j \in 1 .. Len(p) : f[j] \in Seq(C) /\ p[j] \in Seq(C)
  BY FlatteningType, ElementOfSeq
<1>3. Bad = {}
  <2> SUFFICES ASSUME Bad # {} PROVE FALSE
    OBVIOUS
  <2>1. PICK j \in Bad : \A k \in Bad : j <= k
    <3>1. Bad \in SUBSET Nat
      BY <1>1
    <3> HIDE DEF Bad
    <3> QED BY <3>1, LeastElement
  <2>2. j \in i .. Len(p) /\ ~Begins(f[i], f[j]) /\ j \in 1 .. Len(p)
    BY <1>1
  <2>3. j # i
    BY <2>2 DEF Begins
  <2>4. j - 1 \in i .. Len(p) /\ j - 1 \in 1 .. Len(p) /\ ~(j <= j - 1) /\ j # 1
    BY <1>1, <2>2, <2>3
  <2>5. Begins(f[i], f[j - 1])
    BY <2>1, <2>4
  <2>6. PICK a, b : a = f[j - 1] /\ b = p[j]
    OBVIOUS
  <2>7. f[j] = a \o b /\ a \in Seq(C) /\ b \in Seq(C) /\ Begins(f[i], a)
    BY <1>2, <2>2, <2>4, <2>5, <2>6 DEF Flattening
  <2>8. /\ Len(a) \in Nat /\ Len(b) \in Nat /\ Len(f[j]) = Len(a) + Len(b)
        /\ \A k \in 1 .. Len(a) : f[j][k] = a[k]
    BY <2>7, TwoParts
  <2>9. f[i] \in Seq(C)
    BY <1>2
  <2>10. Len(f[i]) \in Nat /\ Len(f[i]) <= Len(a)
    BY <2>7, <2>9 DEF Begins
  <2>11. \A k \in 1 .. Len(f[i]) : f[i][k] = f[j][k]
    <3> TAKE k \in 1 .. Len(f[i])
    <3>1. k \in 1 .. Len(a)
      BY <2>8, <2>10
    <3>2. f[i][k] = a[k]
      BY <2>7 DEF Begins
    <3> QED BY <2>8, <3>1, <3>2
  <2>12. Len(f[i]) <= Len(f[j])
    BY <2>8, <2>10
  <2> QED BY <2>2, <2>11, <2>12 DEF Begins
<1> QED BY <1>3

LEMMA Laid ==
    ASSUME NEW C, NEW p \in Seq(Seq(C)), NEW f, Flattening(p, f), NEW i \in 1 .. Len(p)
    PROVE  /\ Offset(f, i) \in Nat /\ Len(p[i]) \in Nat
           /\ Offset(f, i + 1) = Offset(f, i) + Len(p[i])
           /\ Offset(f, i + 1) <= Len(f[Len(p)]) /\ Len(f[Len(p)]) \in Nat
           /\ \A k \in 1 .. Len(p[i]) : f[Len(p)][Offset(f, i) + k] = p[i][k]
<1>1. Len(p) \in Nat /\ i \in Nat /\ i >= 1 /\ Len(p) \in 1 .. Len(p) /\ Len(p) \in i .. Len(p)
  OBVIOUS
<1>2. \A j \in 1 .. Len(p) : f[j] \in Seq(C) /\ p[j] \in Seq(C)
  BY FlatteningType, ElementOfSeq
<1>3. Offset(f, i + 1) = Len(f[i])
  <2>1. i + 1 # 1 /\ i + 1 - 1 = i
    BY <1>1
  <2> QED BY <2>1 DEF Offset
<1>4. f[i] = IF i = 1 THEN p[i] ELSE f[i - 1] \o p[i]
  BY DEF Flattening
<1>5. /\ Offset(f, i) \in Nat /\ Len(f[i]) = Offset(f, i) + Len(p[i])
      /\ \A k \in 1 .. Len(p[i]) : f[i][Offset(f, i) + k] = p[i][k]
  <2>1. CASE i = 1
    <3>1. Offset(f, i) = 0 /\ f[i] = p[i] /\ Len(p[i]) \in Nat
      BY <1>2, <1>4, <2>1 DEF Offset
    <3>2. \A k \in 1 .. Len(p[i]) : 0 + k = k
      BY <3>1
    <3> QED BY <3>1, <3>2
  <2>2. CASE i # 1
    <3>1. PICK a, b : a = f[i - 1] /\ b = p[i]
      OBVIOUS
    <3>2. i - 1 \in 1 .. Len(p)
      BY <1>1, <2>2
    <3>3. a \in Seq(C) /\ b \in Seq(C) /\ f[i] = a \o b
      BY <1>2, <1>4, <2>2, <3>1, <3>2
    <3>4. Offset(f, i) = Len(a)
      BY <2>2, <3>1 DEF Offset
    <3>5. /\ Len(a) \in Nat /\ Len(b) \in Nat /\ Len(f[i]) = Len(a) + Len(b)
          /\ \A k \in 1 .. Len(b) : f[i][Len(a) + k] = b[k]
      BY <3>3, TwoParts
    <3> QED BY <3>1, <3>4, <3>5
  <2> QED BY <2>1, <2>2
<1>6. Begins(f[i], f[Len(p)])
  BY <1>1, PartsGrow
<1>7. Len(f[i]) \in Nat /\ Len(f[Len(p)]) \in Nat /\ Len(p[i]) \in Nat /\ Len(f[i]) <= Len(f[Len(p)])
  BY <1>1, <1>2, <1>6 DEF Begins
<1>8. ASSUME NEW k \in 1 .. Len(p[i]) PROVE f[Len(p)][Offset(f, i) + k] = p[i][k]
  <2>1. Offset(f, i) + k \in 1 .. Len(f[i])
    BY <1>5, <1>7
  <2>2. f[i][Offset(f, i) + k] = f[Len(p)][Offset(f, i) + k]
    BY <1>6, <2>1 DEF Begins
  <2> QED BY <1>5, <2>2
<1> QED BY <1>3, <1>5, <1>7, <1>8

-------------------------------------------------------------------------------
(* An envelope that keeps to the format is read as what the model meant. *)

LEMMA FramesAre ==
    ASSUME NEW f \in Frames
    PROVE  /\ f[1] \in Seq(Symbols) /\ f[2] \in Seq(Symbols)
           /\ Len(f[1]) \in Nat /\ Len(f[1]) >= 4 /\ KeyAt(f[1], Len(f[1]) - 2)
           /\ \A j \in 1 .. Len(f[1]) - 3 : f[1][j] # "key"
           /\ Len(f[2]) \in Nat /\ Len(f[2]) >= 2 /\ f[2][1] = "quote"
           /\ Last(f[2]) = "close" =>
                \E rest \in Rests : /\ rest \in Seq(Symbols) /\ Len(f[2]) = 1 + Len(rest)
                                    /\ \A k \in 1 .. Len(rest) : f[2][1 + k] = rest[k]
<1>1. f[1] \in Seq(Symbols) /\ f[2] \in Seq(Symbols)
  BY FramesType
<1> DEFINE Good(s) == /\ Len(s) \in Nat /\ Len(s) >= 4 /\ KeyAt(s, Len(s) - 2)
                      /\ \A j \in 1 .. Len(s) - 3 : s[j] # "key"
<1>2. ASSUME NEW s, s = <<"open", "key", ":", "quote">> PROVE Good(s)
  <2>1. Len(s) = 4 /\ s[1] = "open" /\ s[2] = "key" /\ s[3] = ":" /\ s[4] = "quote"
    BY <1>2
  <2>2. KeyAt(s, 2)
    BY <2>1 DEF KeyAt
  <2>3. \A j \in 1 .. 1 : s[j] # "key"
    BY <2>1
  <2>4. Len(s) - 2 = 2 /\ Len(s) - 3 = 1 /\ Len(s) \in Nat /\ Len(s) >= 4
    BY <2>1
  <2> QED BY <2>2, <2>3, <2>4
<1>3. ASSUME NEW s, s = <<"x", "open", "key", ":", "quote">> PROVE Good(s)
  <2>1. /\ Len(s) = 5 /\ s[1] = "x" /\ s[2] = "open" /\ s[3] = "key" /\ s[4] = ":"
        /\ s[5] = "quote"
    BY <1>3
  <2>2. KeyAt(s, 3)
    BY <2>1 DEF KeyAt
  <2>3. \A j \in 1 .. 2 : s[j] # "key"
    BY <2>1
  <2>4. Len(s) - 2 = 3 /\ Len(s) - 3 = 2 /\ Len(s) \in Nat /\ Len(s) >= 4
    BY <2>1
  <2> QED BY <2>2, <2>3, <2>4
<1>4. ASSUME NEW s, s = <<"open", "id", ":", "7", "comma", "key", ":", "quote">> PROVE Good(s)
  <2>1. /\ Len(s) = 8 /\ s[1] = "open" /\ s[2] = "id" /\ s[3] = ":" /\ s[4] = "7" /\ s[5] = "comma"
        /\ s[6] = "key" /\ s[7] = ":" /\ s[8] = "quote"
    BY <1>4
  <2>2. KeyAt(s, 6)
    BY <2>1 DEF KeyAt
  <2>3. \A j \in 1 .. 5 : s[j] # "key"
    BY <2>1
  <2>4. Len(s) - 2 = 6 /\ Len(s) - 3 = 5 /\ Len(s) \in Nat /\ Len(s) >= 4
    BY <2>1
  <2> QED BY <2>2, <2>3, <2>4
<1> HIDE DEF Good
<1>5. ASSUME NEW rest \in Rests
      PROVE  rest \in Seq(Symbols) /\ Len(rest) \in Nat /\ Len(rest) >= 1
  <2>1. CASE rest = <<"close">>
    BY <2>1 DEF Symbols
  <2>2. CASE rest = <<"comma", "id", ":", "7", "close">>
    BY <2>2 DEF Symbols
  <2>3. CASE rest = <<"comma", "id", ":", "0", "close">>
    BY <2>3 DEF Symbols
  <2> QED BY <2>1, <2>2, <2>3 DEF Rests
<1>6. /\ <<"quote">> \in Seq(Symbols) /\ Len(<<"quote">>) = 1 /\ <<"quote">>[1] = "quote"
  BY DEF Symbols
<1>7. CASE \E start \in Starts, rest \in Rests : f = Wrap(start, rest)
  <2>1. PICK start \in Starts, rest \in Rests : f = Wrap(start, rest)
    BY <1>7
  <2>2. PICK q : q = <<"quote">>
    OBVIOUS
  <2>3. f[1] = start /\ f[2] = q \o rest
    BY <2>1, <2>2 DEF Wrap
  <2>4. Good(f[1])
    BY <1>2, <1>3, <2>3 DEF Starts
  <2>5. q \in Seq(Symbols) /\ Len(q) = 1 /\ q[1] = "quote"
    BY <1>6, <2>2
  <2>6. rest \in Seq(Symbols) /\ Len(rest) \in Nat /\ Len(rest) >= 1
    BY <1>5
  <2>7. /\ Len(f[2]) = Len(q) + Len(rest)
        /\ \A k \in 1 .. Len(q) : f[2][k] = q[k]
        /\ \A k \in 1 .. Len(rest) : f[2][Len(q) + k] = rest[k]
    <3>1. q \in Seq(Symbols) /\ rest \in Seq(Symbols)
      BY <2>5, <2>6
    <3>2. PICK w : w = q \o rest
      OBVIOUS
    <3>3. /\ Len(w) = Len(q) + Len(rest)
          /\ \A k \in 1 .. Len(q) : w[k] = q[k]
          /\ \A k \in 1 .. Len(rest) : w[Len(q) + k] = rest[k]
      BY <3>1, <3>2, TwoParts
    <3> QED BY <2>3, <3>2, <3>3
  <2>8. f[2][1] = "quote" /\ Len(f[2]) = 1 + Len(rest)
        /\ \A k \in 1 .. Len(rest) : f[2][1 + k] = rest[k]
    BY <2>5, <2>7
  <2>9. Len(f[2]) \in Nat /\ Len(f[2]) >= 2
    BY <2>6, <2>8
  <2>10. \E r \in Rests : /\ r \in Seq(Symbols) /\ Len(f[2]) = 1 + Len(r)
                         /\ \A k \in 1 .. Len(r) : f[2][1 + k] = r[k]
    BY <2>6, <2>8
  <2> QED BY <1>1, <2>4, <2>8, <2>9, <2>10 DEF Good
<1>8. CASE f = IdFirst
  <2>1. /\ f[1] = <<"open", "id", ":", "7", "comma", "key", ":", "quote">>
        /\ f[2] = <<"quote", "close">>
    BY <1>8 DEF IdFirst
  <2>2. Good(f[1])
    BY <1>4, <2>1
  <2>3. PICK rest : rest = <<"close">>
    OBVIOUS
  <2>4. rest \in Rests /\ Len(rest) = 1 /\ rest[1] = "close"
    BY <2>3 DEF Rests
  <2>5. /\ Len(f[2]) = 2 /\ f[2][1] = "quote" /\ f[2][2] = "close" /\ Len(f[2]) = 1 + Len(rest)
        /\ Len(f[2]) \in Nat /\ Len(f[2]) >= 2
    BY <2>1, <2>4
  <2>6. \A k \in 1 .. Len(rest) : f[2][1 + k] = rest[k]
    <3>1. \A k \in 1 .. Len(rest) : k = 1
      BY <2>4
    <3>2. f[2][1 + 1] = rest[1]
      BY <2>4, <2>5
    <3> QED BY <3>1, <3>2
  <2>7. rest \in Seq(Symbols)
    BY <1>5, <2>4
  <2>8. \E r \in Rests : /\ r \in Seq(Symbols) /\ Len(f[2]) = 1 + Len(r)
                         /\ \A k \in 1 .. Len(r) : f[2][1 + k] = r[k]
    BY <2>4, <2>5, <2>6, <2>7
  <2> QED BY <1>1, <2>2, <2>5, <2>8 DEF Good
<1>9. CASE f = Trailed
  <2>1. f[1] = <<"open", "key", ":", "quote">> /\ f[2] = <<"quote", "close", "x">>
    BY <1>9 DEF Trailed
  <2>2. Good(f[1])
    BY <1>2, <2>1
  <2>3. Len(f[2]) = 3 /\ f[2][1] = "quote" /\ f[2][3] = "x" /\ Len(f[2]) \in Nat /\ Len(f[2]) >= 2
    BY <2>1
  <2>4. Last(f[2]) = "x"
    BY <2>3 DEF Last
  <2> QED BY <1>1, <2>2, <2>3, <2>4 DEF Good
<1>10. \/ \E start \in Starts, rest \in Rests : f = Wrap(start, rest)
       \/ f = IdFirst \/ f = Trailed
  BY DEF Frames
<1> QED BY <1>7, <1>8, <1>9, <1>10

\* The pieces of a content that keeps to the format.
Clean == {<<"x">>, <<"\\", "quote">>, <<"\\", "\\">>, <<"\\", "u", "bmp">>,
          <<"\\", "u", "high">>, <<"\\", "u", "low">>}

LEMMA CleanType == Clean \subseteq Seq(Symbols)
BY DEF Clean, Symbols

LEMMA CleanIs ==
    ASSUME NEW c \in Clean
    PROVE  \/ Len(c) = 1 /\ c[1] = "x" /\ c = <<"x">>
           \/ /\ Len(c) = 2 /\ c[1] = "\\" /\ c[2] \in {"quote", "\\"}
              /\ c = <<"\\", c[2]>>
           \/ /\ Len(c) = 3 /\ c[1] = "\\" /\ c[2] = "u" /\ c[3] \in Hex
              /\ c = <<"\\", "u", c[3]>>
<1>1. CASE c = <<"x">>
  BY <1>1
<1>2. CASE c = <<"\\", "quote">>
  BY <1>2
<1>3. CASE c = <<"\\", "\\">>
  BY <1>3
<1>4. CASE c = <<"\\", "u", "bmp">>
  BY <1>4 DEF Hex
<1>5. CASE c = <<"\\", "u", "high">>
  BY <1>5 DEF Hex
<1>6. CASE c = <<"\\", "u", "low">>
  BY <1>6 DEF Hex
<1> QED BY <1>1, <1>2, <1>3, <1>4, <1>5, <1>6 DEF Clean

\* The closing quote is the one after the last piece.
LEMMA CleanIsClosed ==
    ASSUME NEW t \in Seq(Symbols), NEW a \in Nat, NEW p \in Seq(Clean), p # <<>>,
           NEW f, Flattening(p, f), a + Len(f[Len(p)]) + 1 <= Len(t),
           \A k \in 1 .. Len(f[Len(p)]) : t[a + k] = f[Len(p)][k],
           t[a + Len(f[Len(p)]) + 1] = "quote"
    PROVE  ClosedAt(t, a + 1) = a + Len(f[Len(p)]) + 1
<1>1. PICK v : v = f[Len(p)]
  OBVIOUS
<1>2. p \in Seq(Seq(Symbols)) /\ Len(p) \in Nat /\ Len(p) >= 1 /\ Len(t) \in Nat
  BY CleanType, SeqMonotonic, EmptySeq
<1>3. ASSUME NEW i \in 1 .. Len(p)
      PROVE  /\ Offset(f, i) \in Nat /\ Len(p[i]) \in Nat /\ p[i] \in Clean
             /\ Offset(f, i + 1) = Offset(f, i) + Len(p[i])
             /\ Offset(f, i + 1) <= Len(v) /\ Len(v) \in Nat
             /\ \A k \in 1 .. Len(p[i]) : v[Offset(f, i) + k] = p[i][k]
  BY <1>1, <1>2, Laid, ElementOfSeq
<1>4. Len(v) \in Nat /\ Offset(f, 1) = 0 /\ Offset(f, Len(p) + 1) = Len(v)
  <2>1. Len(p) \in 1 .. Len(p) /\ Len(p) + 1 # 1 /\ Len(p) + 1 - 1 = Len(p)
    BY <1>2
  <2> QED BY <1>1, <1>3, <2>1 DEF Offset
<1>5. a + 1 \in 1 .. Len(t) + 1
  BY <1>1, <1>2, <1>4
<1>6. PICK g : Closing(t, a + 1, g) /\ ClosedAt(t, a + 1) = g[a + 1]
  BY <1>5, ClosedAtScan
<1>7. \A i \in a + 1 .. Len(t) + 2 :
        /\ i <= Len(t) /\ t[i] = "quote" => g[i] = i
        /\ i <= Len(t) /\ t[i] = "\\" => g[i] = g[i + 2]
        /\ i <= Len(t) /\ t[i] \notin {"quote", "\\"} => g[i] = g[i + 1]
  BY <1>5, <1>6, ClosingGoesOn
<1>8. ASSUME NEW i \in 1 .. Len(p)
      PROVE  g[a + Offset(f, i) + 1] = g[a + Offset(f, i + 1) + 1]
  <2>1. PICK o : o = Offset(f, i)
    OBVIOUS
  <2>2. PICK c : c = p[i]
    OBVIOUS
  <2>3. /\ o \in Nat /\ c \in Clean /\ Offset(f, i + 1) = o + Len(c) /\ o + Len(c) <= Len(v)
        /\ \A k \in 1 .. Len(c) : v[o + k] = c[k]
    BY <1>3, <2>1, <2>2
  <2>4. Len(c) \in {1, 2, 3} /\ Len(c) \in Nat /\ Len(c) >= 1
    <3>1. Len(c) = 1 \/ Len(c) = 2 \/ Len(c) = 3
      BY <2>3, CleanIs
    <3>2. PICK l : l = Len(c)
      OBVIOUS
    <3>3. l = 1 \/ l = 2 \/ l = 3
      BY <3>1, <3>2
    <3>4. l \in {1, 2, 3} /\ l \in Nat /\ l >= 1
      BY <3>3
    <3> QED BY <3>2, <3>4
  <2>0. /\ o \in Nat /\ a \in Nat /\ Len(c) \in Nat /\ Len(v) \in Nat /\ Len(t) \in Nat
        /\ o + Len(c) <= Len(v) /\ a + Len(v) + 1 <= Len(t)
    BY <1>1, <1>2, <1>4, <2>3, <2>4
  <2>5. \A k \in 1 .. Len(c) : t[a + (o + k)] = c[k] /\ a + (o + k) <= Len(t)
    <3> TAKE k \in 1 .. Len(c)
    <3>2. o + k \in 1 .. Len(v) /\ a + (o + k) <= Len(t)
      BY <2>0
    <3> QED BY <1>1, <2>3, <3>2
  <2> DEFINE q == a + o + 1
  <2>6. q \in a + 1 .. Len(t) + 2 /\ q <= Len(t) /\ t[q] = c[1]
    <3>1. 1 \in 1 .. Len(c) /\ a + (o + 1) = q
      BY <2>0, <2>4
    <3>2. t[q] = c[1] /\ q <= Len(t)
      BY <2>5, <3>1
    <3> QED BY <1>2, <2>3, <3>2
  <2>7. CASE Len(c) = 1 /\ c[1] = "x"
    <3>1. g[q] = g[q + 1]
      <4> HIDE DEF q
      <4> QED BY <1>7, <2>6, <2>7
    <3>2. q + 1 = a + (o + 1) + 1
      BY <2>3
    <3> QED BY <2>1, <2>3, <2>7, <3>1, <3>2
  <2>8. CASE Len(c) = 2 /\ c[1] = "\\"
    <3>1. g[q] = g[q + 2]
      <4> HIDE DEF q
      <4> QED BY <1>7, <2>6, <2>8
    <3>2. q + 2 = a + (o + 2) + 1
      BY <2>3
    <3> QED BY <2>1, <2>3, <2>8, <3>1, <3>2
  <2>9. CASE Len(c) = 3 /\ c[1] = "\\" /\ c[3] \in Hex
    <3>1. g[q] = g[q + 2]
      <4> HIDE DEF q
      <4> QED BY <1>7, <2>6, <2>9
    <3>2. t[q + 2] = c[3] /\ q + 2 <= Len(t)
      <4>1. 3 \in 1 .. Len(c) /\ a + (o + 3) = q + 2
        BY <2>3, <2>9
      <4> QED BY <2>5, <4>1
    <3>3. q + 2 \in a + 1 .. Len(t) + 2
      BY <1>2, <2>6, <3>2
    <3>4. g[q + 2] = g[q + 2 + 1]
      <4>1. t[q + 2] \notin {"quote", "\\"}
        BY <2>9, <3>2 DEF Hex
      <4> HIDE DEF q
      <4> QED BY <1>7, <3>2, <3>3, <4>1
    <3>5. q + 2 + 1 = a + (o + 3) + 1
      BY <2>3
    <3> QED BY <2>1, <2>3, <2>9, <3>1, <3>4, <3>5
  <2> QED BY <2>3, <2>7, <2>8, <2>9, CleanIs
<1> DEFINE Bad == {i \in 1 .. Len(p) + 1 : g[a + Offset(f, i) + 1] # g[a + 1]}
<1>9. Bad = {}
  <2> SUFFICES ASSUME Bad # {} PROVE FALSE
    OBVIOUS
  <2>1. PICK i \in Bad : \A k \in Bad : i <= k
    <3>1. Bad \in SUBSET Nat
      BY <1>2
    <3> HIDE DEF Bad
    <3> QED BY <3>1, LeastElement
  <2>2. i \in 1 .. Len(p) + 1 /\ g[a + Offset(f, i) + 1] # g[a + 1]
    OBVIOUS
  <2>3. i # 1
    BY <1>4, <2>2
  <2>4. PICK j : j = i - 1
    OBVIOUS
  <2>5. j \in 1 .. Len(p) /\ j \in 1 .. Len(p) + 1 /\ ~(i <= j) /\ j + 1 = i
    BY <1>2, <2>2, <2>3, <2>4
  <2>6. g[a + Offset(f, j) + 1] = g[a + 1]
    BY <2>1, <2>5
  <2>7. g[a + Offset(f, j) + 1] = g[a + Offset(f, i) + 1]
    BY <1>8, <2>5
  <2> QED BY <2>2, <2>6, <2>7
<1>10. g[a + Len(v) + 1] = g[a + 1]
  <2>1. Len(p) + 1 \in 1 .. Len(p) + 1
    BY <1>2
  <2>2. Len(p) + 1 \notin Bad
    BY <1>9
  <2> QED BY <1>4, <2>1, <2>2
<1>11. g[a + Len(v) + 1] = a + Len(v) + 1
  <2>1. a + Len(v) + 1 \in a + 1 .. Len(t) + 2 /\ a + Len(v) + 1 <= Len(t)
        /\ t[a + Len(v) + 1] = "quote"
    BY <1>1, <1>2, <1>4
  <2> QED BY <1>7, <2>1
<1> QED BY <1>1, <1>6, <1>10, <1>11

High == <<"\\", "u", "high">>
Low == <<"\\", "u", "low">>
\* A low surrogate that the high one before it has taken along.
Taken(p, i) == i \in 2 .. Len(p) /\ p[i] = Low /\ p[i - 1] = High
\* Meant, of any pieces.
Meaning(p, i) ==
    CASE p[i] = <<"x">> -> <<"x">>
      [] p[i] = <<"\\", "quote">> -> <<"quote">>
      [] p[i] = <<"\\", "\\">> -> <<"\\">>
      [] p[i] = <<"\\", "u", "bmp">> -> <<"letter">>
      [] p[i] = <<"\\", "u", "high">> ->
           IF i < Len(p) /\ p[i + 1] = <<"\\", "u", "low">> THEN <<"emoji">> ELSE <<"?">>
      [] p[i] = <<"\\", "u", "low">> ->
           IF i > 1 /\ p[i - 1] = <<"\\", "u", "high">> THEN <<>> ELSE <<"?">>
Meanings(p) == [i \in 1 .. Len(p) |-> Meaning(p, i)]

LEMMA PlainReads ==
    ASSUME NEW v \in Seq(Symbols), NEW q \in 1 .. Len(v), NEW c \in Clean, c # High, c # Low,
           q + Len(c) <= Len(v) + 1, \A k \in 1 .. Len(c) : v[q + (k - 1)] = c[k]
    PROVE  /\ c = <<"x">> => Character(v, q) = "x" /\ Width(v, q) = 1
           /\ c = <<"\\", "quote">> => Character(v, q) = "quote" /\ Width(v, q) = 2
           /\ c = <<"\\", "\\">> => Character(v, q) = "\\" /\ Width(v, q) = 2
           /\ c = <<"\\", "u", "bmp">> => Character(v, q) = "letter" /\ Width(v, q) = 3
<1>1. Len(v) \in Nat /\ q \in Nat /\ q <= Len(v)
  OBVIOUS
<1>2. CASE c = <<"x">>
  <2>1. Len(c) = 1 /\ c[1] = "x"
    BY <1>2
  <2>2. 1 \in 1 .. Len(c) /\ q + (1 - 1) = q
    BY <1>1, <2>1
  <2>3. v[q] = "x"
    BY <2>1, <2>2
  <2>4. Character(v, q) = "x" /\ Width(v, q) = 1
    BY <2>3 DEF Character, Width
  <2> QED BY <1>2, <2>1, <2>4
<1>3. CASE c = <<"\\", "quote">> \/ c = <<"\\", "\\">>
  <2>1. Len(c) = 2 /\ c[1] = "\\" /\ c[2] \in {"quote", "\\"}
    BY <1>3
  <2>2. /\ 1 \in 1 .. Len(c) /\ q + (1 - 1) = q /\ 2 \in 1 .. Len(c) /\ q + (2 - 1) = q + 1
        /\ q < Len(v) /\ q # Len(v)
    BY <1>1, <2>1
  <2>3. v[q] = "\\" /\ v[q + 1] = c[2]
    BY <2>1, <2>2
  <2>4. Character(v, q) = c[2] /\ Width(v, q) = 2
    BY <2>1, <2>2, <2>3 DEF Character, Width
  <2>5. /\ c = <<"\\", "quote">> => c[2] = "quote"
        /\ c = <<"\\", "\\">> => c[2] = "\\"
    OBVIOUS
  <2>6. /\ c = <<"x">> => Len(c) = 1
        /\ c = <<"\\", "u", "bmp">> => Len(c) = 3
    OBVIOUS
  <2> QED BY <2>1, <2>4, <2>5, <2>6
<1>4. CASE c = <<"\\", "u", "bmp">>
  <2>1. Len(c) = 3 /\ c[1] = "\\" /\ c[2] = "u" /\ c[3] = "bmp"
    BY <1>4
  <2>2. /\ 1 \in 1 .. Len(c) /\ q + (1 - 1) = q /\ 2 \in 1 .. Len(c) /\ q + (2 - 1) = q + 1
        /\ 3 \in 1 .. Len(c) /\ q + (3 - 1) = q + 2
        /\ q # Len(v) /\ q + 1 # Len(v)
    BY <1>1, <2>1
  <2>3. v[q] = "\\" /\ v[q + 1] = "u" /\ v[q + 2] = "bmp"
    BY <2>1, <2>2
  <2>4. Character(v, q) = "letter" /\ Width(v, q) = 3
    BY <2>2, <2>3 DEF Character, Width, Hex
  <2>5. /\ c = <<"x">> => Len(c) = 1
        /\ c = <<"\\", "quote">> => Len(c) = 2
        /\ c = <<"\\", "\\">> => Len(c) = 2
    OBVIOUS
  <2> QED BY <2>1, <2>4, <2>5
<1> QED BY <1>2, <1>3, <1>4 DEF Clean, High, Low

LEMMA HalfReads ==
    ASSUME NEW v \in Seq(Symbols), NEW q \in 1 .. Len(v), q + 2 <= Len(v),
           v[q] = "\\", v[q + 1] = "u", v[q + 2] \in {"high", "low"}
    PROVE  IF v[q + 2] = "high" /\ LowFollows(v, q)
           THEN Character(v, q) = "emoji" /\ Width(v, q) = 6
           ELSE Character(v, q) = "half" /\ Width(v, q) = 3
<1>1. q # Len(v) /\ q + 1 # Len(v)
  OBVIOUS
<1>2. Width(v, q) = IF v[q + 2] = "high" /\ LowFollows(v, q) THEN 6 ELSE 3
  BY DEF Width
<1>3. Character(v, q) = IF Width(v, q) = 6 THEN "emoji" ELSE "half"
  BY <1>1 DEF Character, Hex
<1> QED BY <1>2, <1>3

LEMMA ReplaceCons ==
    ASSUME NEW c \in Characters, NEW x \in Seq(Characters)
    PROVE  ReplaceHalves(<<c>> \o x) = <<IF c = "half" THEN "?" ELSE c>> \o ReplaceHalves(x)
<1>1. PICK r : r = IF c = "half" THEN "?" ELSE c
  OBVIOUS
<1>2. PICK a, b : a = <<c>> /\ b = <<r>>
  OBVIOUS
<1>3. r \in Told
  BY <1>1 DEF Told
<1>4. /\ a \in Seq(Characters) /\ Len(a) = 1 /\ a[1] = c
      /\ b \in Seq(Told) /\ Len(b) = 1 /\ b[1] = r
  BY <1>2, <1>3
<1>5. PICK y : y = ReplaceHalves(x)
  OBVIOUS
<1>6. /\ y \in Seq(Told) /\ Len(y) = Len(x)
      /\ \A k \in 1 .. Len(x) : y[k] = IF x[k] = "half" THEN "?" ELSE x[k]
  BY <1>5, HalvesReplaced DEF Told
<1>7. PICK s : s = a \o x
  OBVIOUS
<1>8. /\ s \in Seq(Characters) /\ Len(s) = Len(a) + Len(x) /\ Len(x) \in Nat
      /\ \A k \in 1 .. Len(a) : s[k] = a[k]
      /\ \A k \in 1 .. Len(x) : s[Len(a) + k] = x[k]
  <2>1. a \in Seq(Characters)
    BY <1>4
  <2> QED BY <1>7, <2>1, TwoParts
<1>9. PICK z : z = b \o y
  OBVIOUS
<1>10. /\ z \in Seq(Told) /\ Len(z) = Len(b) + Len(y)
       /\ \A k \in 1 .. Len(b) : z[k] = b[k]
       /\ \A k \in 1 .. Len(y) : z[Len(b) + k] = y[k]
  <2>1. b \in Seq(Told) /\ y \in Seq(Told)
    BY <1>4, <1>6
  <2> QED BY <1>9, <2>1, TwoParts
<1>11. PICK u : u = ReplaceHalves(s)
  OBVIOUS
<1>12. /\ u \in Seq(Told) /\ Len(u) = Len(s)
       /\ \A k \in 1 .. Len(s) : u[k] = IF s[k] = "half" THEN "?" ELSE s[k]
  BY <1>8, <1>11, HalvesReplaced DEF Told
<1>13. Len(s) = 1 + Len(x) /\ Len(z) = 1 + Len(x) /\ Len(u) = 1 + Len(x)
  BY <1>4, <1>6, <1>8, <1>10, <1>12
<1>14. ASSUME NEW k \in 1 .. Len(u) PROVE u[k] = z[k]
  <2>1. k \in 1 .. Len(s)
    BY <1>12
  <2>2. CASE k = 1
    <3>1. 1 \in 1 .. Len(a) /\ 1 \in 1 .. Len(b)
      BY <1>4
    <3>2. s[1] = c /\ z[1] = r
      BY <1>4, <1>8, <1>10, <3>1
    <3> QED BY <1>1, <1>12, <2>1, <2>2, <3>2
  <2>3. CASE k # 1
    <3>1. PICK j : j = k - 1
      OBVIOUS
    <3>2. j \in 1 .. Len(x) /\ j \in 1 .. Len(y) /\ Len(a) + j = k /\ Len(b) + j = k
      BY <1>4, <1>6, <1>8, <1>13, <2>3, <3>1
    <3>3. s[k] = x[j] /\ z[k] = y[j]
      BY <1>8, <1>10, <3>2
    <3>4. u[k] = IF s[k] = "half" THEN "?" ELSE s[k]
      BY <1>12, <2>1
    <3>5. y[j] = IF x[j] = "half" THEN "?" ELSE x[j]
      BY <1>6, <3>2
    <3> QED BY <3>3, <3>4, <3>5
  <2> QED BY <2>2, <2>3
<1>15. u = z
  BY <1>10, <1>12, <1>13, <1>14, SeqEqual
<1> QED BY <1>1, <1>2, <1>5, <1>7, <1>9, <1>11, <1>15

\* What a client can be told when the model keeps to the format.
Plain == {"x", "quote", "\\", "letter", "emoji", "?"}
Paired(p, i) == p[i] = High /\ i < Len(p) /\ p[i + 1] = Low

LEMMA MeaningIs ==
    ASSUME NEW p, NEW i, p[i] \in Clean
    PROVE  /\ p[i] = <<"x">> => Meaning(p, i) = <<"x">>
           /\ p[i] = <<"\\", "quote">> => Meaning(p, i) = <<"quote">>
           /\ p[i] = <<"\\", "\\">> => Meaning(p, i) = <<"\\">>
           /\ p[i] = <<"\\", "u", "bmp">> => Meaning(p, i) = <<"letter">>
           /\ p[i] = High => Meaning(p, i) = IF Paired(p, i) THEN <<"emoji">> ELSE <<"?">>
           /\ p[i] = Low =>
                Meaning(p, i) = IF i > 1 /\ p[i - 1] = High THEN <<>> ELSE <<"?">>
<1>1. PICK c : c = p[i]
  OBVIOUS
<1>2. CASE c = <<"x">>
  <2>1. Len(c) = 1
    BY <1>2
  <2>2. c # <<"\\", "quote">> /\ c # <<"\\", "\\">> /\ c # <<"\\", "u", "bmp">> /\ c # High /\ c # Low
    BY <2>1 DEF High, Low
  <2> QED BY <1>1, <1>2, <2>2 DEF Meaning, High, Low
<1>3. CASE c = <<"\\", "quote">>
  <2>1. Len(c) = 2 /\ c[2] = "quote"
    BY <1>3
  <2>2. c # <<"x">> /\ c # <<"\\", "\\">> /\ c # <<"\\", "u", "bmp">> /\ c # High /\ c # Low
    BY <2>1 DEF High, Low
  <2> QED BY <1>1, <1>3, <2>2 DEF Meaning, High, Low
<1>4. CASE c = <<"\\", "\\">>
  <2>1. Len(c) = 2 /\ c[2] = "\\"
    BY <1>4
  <2>2. c # <<"x">> /\ c # <<"\\", "quote">> /\ c # <<"\\", "u", "bmp">> /\ c # High /\ c # Low
    BY <2>1 DEF High, Low
  <2> QED BY <1>1, <1>4, <2>2 DEF Meaning, High, Low
<1>5. CASE c = <<"\\", "u", "bmp">>
  <2>1. Len(c) = 3 /\ c[3] = "bmp"
    BY <1>5
  <2>2. c # <<"x">> /\ c # <<"\\", "quote">> /\ c # <<"\\", "\\">> /\ c # High /\ c # Low
    BY <2>1 DEF High, Low
  <2> QED BY <1>1, <1>5, <2>2 DEF Meaning, High, Low
<1>6. CASE c = High
  <2>1. Len(c) = 3 /\ c[3] = "high"
    BY <1>6 DEF High
  <2>2. c # <<"x">> /\ c # <<"\\", "quote">> /\ c # <<"\\", "\\">> /\ c # <<"\\", "u", "bmp">> /\ c # Low
    BY <2>1 DEF Low
  <2> QED BY <1>1, <1>6, <2>2 DEF Meaning, High, Low, Paired
<1>7. CASE c = Low
  <2>1. Len(c) = 3 /\ c[3] = "low"
    BY <1>7 DEF Low
  <2>2. c # <<"x">> /\ c # <<"\\", "quote">> /\ c # <<"\\", "\\">> /\ c # <<"\\", "u", "bmp">> /\ c # High
    BY <2>1 DEF High
  <2> QED BY <1>1, <1>7, <2>2 DEF Meaning, High, Low
<1> QED BY <1>1, <1>2, <1>3, <1>4, <1>5, <1>6, <1>7 DEF Clean, High, Low

LEMMA MeaningType ==
    ASSUME NEW p \in Seq(Clean) PROVE Meanings(p) \in Seq(Seq(Plain))
<1>1. ASSUME NEW i \in 1 .. Len(p) PROVE Meaning(p, i) \in Seq(Plain)
  <2>1. p[i] \in Clean
    BY ElementOfSeq
  <2>2. \/ Meaning(p, i) = <<"x">> \/ Meaning(p, i) = <<"quote">> \/ Meaning(p, i) = <<"\\">>
        \/ Meaning(p, i) = <<"letter">> \/ Meaning(p, i) = <<"emoji">>
        \/ Meaning(p, i) = <<"?">> \/ Meaning(p, i) = <<>>
    BY <2>1, MeaningIs DEF Clean, High, Low
  <2>3. /\ <<"x">> \in Seq(Plain) /\ <<"quote">> \in Seq(Plain) /\ <<"\\">> \in Seq(Plain)
        /\ <<"letter">> \in Seq(Plain) /\ <<"emoji">> \in Seq(Plain)
        /\ <<"?">> \in Seq(Plain) /\ <<>> \in Seq(Plain)
    BY DEF Plain
  <2> QED BY <2>2, <2>3
<1>2. Len(p) \in Nat
  OBVIOUS
<1>3. [i \in 1 .. Len(p) |-> Meaning(p, i)] \in Seq(Seq(Plain))
  BY <1>1, <1>2, IsASeq
<1> QED BY <1>3 DEF Meanings

\* One piece, where the reader of the content comes to it.
LEMMA PieceReads ==
    ASSUME NEW p \in Seq(Clean), NEW f, Flattening(p, f), NEW v \in Seq(Symbols),
           v = f[Len(p)], NEW i \in 1 .. Len(p), ~Taken(p, i), NEW q, q = Offset(f, i) + 1
    PROVE  /\ q \in 1 .. Len(v)
           /\ Character(v, q) # "invalid"
           /\ Meaning(p, i) = <<IF Character(v, q) = "half" THEN "?" ELSE Character(v, q)>>
           /\ Width(v, q) = IF Paired(p, i) THEN 6 ELSE Len(p[i])
<1>1. p \in Seq(Seq(Symbols)) /\ Len(p) \in Nat /\ Len(v) \in Nat
  BY CleanType, SeqMonotonic
<1>2. PICK o : o = Offset(f, i)
  OBVIOUS
<1>3. PICK c : c = p[i]
  OBVIOUS
<1>4. /\ o \in Nat /\ Len(c) \in Nat /\ Offset(f, i + 1) = o + Len(c) /\ o + Len(c) <= Len(v)
      /\ \A k \in 1 .. Len(c) : v[o + k] = c[k]
  BY <1>1, <1>2, <1>3, Laid
<1>5. c \in Clean
  BY <1>3, ElementOfSeq
<1>6. Len(c) = 1 \/ Len(c) = 2 \/ Len(c) = 3
  BY <1>5, CleanIs
<1>10. /\ o \in Nat /\ Len(c) \in Nat /\ Len(v) \in Nat /\ o + Len(c) <= Len(v) /\ q = o + 1
  BY <1>1, <1>2, <1>4
<1>11. Len(c) >= 1
  <2>1. PICK l : l = Len(c)
    OBVIOUS
  <2>2. l >= 1
    BY <1>6, <2>1
  <2> QED BY <2>1, <2>2
<1>7. q = o + 1 /\ q \in 1 .. Len(v) /\ q + Len(c) <= Len(v) + 1 /\ q \in Nat \ {0}
  BY <1>10, <1>11
<1>8. CASE c # High /\ c # Low
  <2>1. \A k \in 1 .. Len(c) : v[q + (k - 1)] = c[k]
    <3> TAKE k \in 1 .. Len(c)
    <3>1. q + (k - 1) = o + k
      BY <1>10
    <3> QED BY <1>4, <3>1
  <2>2. ~Paired(p, i)
    BY <1>3, <1>8 DEF Paired
  <2>3. /\ c = <<"x">> => Len(c) = 1
        /\ c = <<"\\", "quote">> => Len(c) = 2
        /\ c = <<"\\", "\\">> => Len(c) = 2
        /\ c = <<"\\", "u", "bmp">> => Len(c) = 3
    OBVIOUS
  <2>4. /\ c = <<"x">> => Character(v, q) = "x" /\ Width(v, q) = 1
        /\ c = <<"\\", "quote">> => Character(v, q) = "quote" /\ Width(v, q) = 2
        /\ c = <<"\\", "\\">> => Character(v, q) = "\\" /\ Width(v, q) = 2
        /\ c = <<"\\", "u", "bmp">> => Character(v, q) = "letter" /\ Width(v, q) = 3
    BY <1>5, <1>7, <1>8, <2>1, PlainReads
  <2>5. /\ c = <<"x">> => Meaning(p, i) = <<"x">>
        /\ c = <<"\\", "quote">> => Meaning(p, i) = <<"quote">>
        /\ c = <<"\\", "\\">> => Meaning(p, i) = <<"\\">>
        /\ c = <<"\\", "u", "bmp">> => Meaning(p, i) = <<"letter">>
    BY <1>3, <1>5, MeaningIs
  <2>6. \/ c = <<"x">> \/ c = <<"\\", "quote">> \/ c = <<"\\", "\\">> \/ c = <<"\\", "u", "bmp">>
    BY <1>5, <1>8 DEF Clean, High, Low
  <2>7. Width(v, q) = Len(c)
    BY <2>3, <2>4, <2>6
  <2>8. /\ Character(v, q) \in {"x", "quote", "\\", "letter"}
        /\ Meaning(p, i) = <<Character(v, q)>>
    BY <2>4, <2>5, <2>6
  <2>9. Character(v, q) # "half" /\ Character(v, q) # "invalid"
    BY <2>8
  <2> QED BY <1>3, <1>7, <2>2, <2>7, <2>8, <2>9
<1>9. CASE c = High \/ c = Low
  <2>1. Len(c) = 3 /\ c[1] = "\\" /\ c[2] = "u" /\ c[3] = IF c = High THEN "high" ELSE "low"
    <3>1. CASE c = High
      BY <3>1 DEF High
    <3>2. CASE c = Low
      <4>1. Len(c) = 3 /\ c[1] = "\\" /\ c[2] = "u" /\ c[3] = "low"
        BY <3>2 DEF Low
      <4>2. c # High
        BY <4>1 DEF High
      <4> QED BY <4>1, <4>2
    <3> QED BY <1>9, <3>1, <3>2
  <2>2. v[q] = c[1] /\ v[q + 1] = c[2] /\ v[q + 2] = c[3] /\ q + 2 <= Len(v)
    <3>1. 1 \in 1 .. Len(c) /\ 2 \in 1 .. Len(c) /\ 3 \in 1 .. Len(c)
      BY <2>1
    <3>2. v[o + 1] = c[1] /\ v[o + 2] = c[2] /\ v[o + 3] = c[3]
      BY <1>4, <3>1
    <3>3. q + 1 = o + 2 /\ q + 2 = o + 3 /\ q + 2 <= Len(v)
      <4>1. Len(c) = 3
        BY <2>1
      <4> QED BY <1>10, <4>1
    <3> QED BY <1>7, <3>2, <3>3
  <2>3. c = High /\ LowFollows(v, q) <=> Paired(p, i)
    <3>1. CASE c # High
      BY <1>3, <3>1 DEF Paired
    <3>2. CASE c = High /\ i = Len(p)
      <4>1. Len(v) = o + 3
        <5>1. i + 1 # 1 /\ i + 1 - 1 = Len(p)
          BY <1>1, <3>2
        <5> QED BY <1>4, <2>1, <5>1 DEF Offset
      <4>2. ~(q + 5 <= Len(v)) /\ ~(i < Len(p))
        BY <1>1, <1>4, <1>7, <3>2, <4>1
      <4> QED BY <4>2 DEF LowFollows, Paired
    <3>3. CASE c = High /\ i < Len(p)
      <4>1. PICK j : j = i + 1
        OBVIOUS
      <4>2. PICK d : d = p[j]
        OBVIOUS
      <4>3. j \in 1 .. Len(p) /\ Offset(f, j) = o + 3
        BY <1>1, <1>4, <2>1, <3>3, <4>1
      <4>4. d \in Clean /\ Len(d) \in Nat /\ o + 3 + Len(d) <= Len(v)
            /\ \A k \in 1 .. Len(d) : v[o + 3 + k] = d[k]
        <5>1. j \in 1 .. Len(p)
          BY <4>3
        <5>2. /\ d \in Clean /\ Len(p[j]) \in Nat /\ Offset(f, j + 1) <= Len(v)
              /\ Offset(f, j + 1) = Offset(f, j) + Len(p[j])
              /\ \A k \in 1 .. Len(p[j]) : v[Offset(f, j) + k] = p[j][k]
          BY <1>1, <4>2, <5>1, Laid, ElementOfSeq
        <5> QED BY <4>2, <4>3, <5>2
      <4>5. LowFollows(v, q) <=>
              o + 6 <= Len(v) /\ v[o + 4] = "\\" /\ v[o + 5] = "u" /\ v[o + 6] = "low"
        <5>1. /\ q + 5 = o + 6 /\ q + 3 = o + 4 /\ q + 4 = o + 5 /\ q \in Nat \ {0}
          BY <1>10
        <5>2. LowFollows(v, q) <=>
              q + 5 <= Len(v) /\ v[q + 3] = "\\" /\ v[q + 4] = "u" /\ v[q + 5] = "low"
          BY <5>1, LowFollowsIs
        <5> QED BY <5>1, <5>2
      <4>6. o + 3 + 1 = o + 4 /\ o + 3 + 2 = o + 5 /\ o + 3 + 3 = o + 6
        BY <1>4
      <4>7. CASE Len(d) = 1 /\ d[1] = "x"
        <5>1. 1 \in 1 .. Len(d)
          BY <4>7
        <5>2. v[o + 4] = "x"
          BY <4>4, <4>6, <4>7, <5>1
        <5>3. d # Low
          <6>1. Low[1] = "\\"
            BY DEF Low
          <6> QED BY <4>7, <6>1
        <5> QED BY <4>1, <4>2, <4>5, <5>2, <5>3 DEF Paired
      <4>8. CASE Len(d) = 2 /\ d[2] \in {"quote", "\\"}
        <5>1. 2 \in 1 .. Len(d)
          BY <4>8
        <5>2. v[o + 5] = d[2] /\ d[2] # "u"
          BY <4>4, <4>6, <4>8, <5>1
        <5>3. d # Low
          <6>1. Low[2] = "u"
            BY DEF Low
          <6> QED BY <4>8, <6>1
        <5> QED BY <4>1, <4>2, <4>5, <5>2, <5>3 DEF Paired
      <4>9. CASE Len(d) = 3 /\ d[1] = "\\" /\ d[2] = "u" /\ d = <<"\\", "u", d[3]>>
        <5>1. 1 \in 1 .. Len(d) /\ 2 \in 1 .. Len(d) /\ 3 \in 1 .. Len(d) /\ o + 6 <= Len(v)
          BY <1>1, <1>4, <4>4, <4>9
        <5>2. v[o + 4] = "\\" /\ v[o + 5] = "u" /\ v[o + 6] = d[3]
          BY <4>4, <4>6, <4>9, <5>1
        <5>3. d = Low <=> d[3] = "low"
          <6>1. ASSUME d = Low PROVE d[3] = "low"
            BY <6>1 DEF Low
          <6>2. ASSUME d[3] = "low" PROVE d = Low
            BY <4>9, <6>2 DEF Low
          <6> QED BY <6>1, <6>2
        <5> QED BY <1>3, <3>3, <4>1, <4>2, <4>5, <5>1, <5>2, <5>3 DEF Paired
      <4> QED BY <4>4, <4>7, <4>8, <4>9, CleanIs
    <3>4. i < Len(p) \/ i = Len(p)
      BY <1>1
    <3> QED BY <3>1, <3>2, <3>3, <3>4
  <2>4. v[q + 2] \in {"high", "low"} /\ (v[q + 2] = "high" <=> c = High)
    BY <2>1, <2>2
  <2>5. IF Paired(p, i) THEN Character(v, q) = "emoji" /\ Width(v, q) = 6
                        ELSE Character(v, q) = "half" /\ Width(v, q) = 3
    BY <1>7, <2>1, <2>2, <2>3, <2>4, HalfReads
  <2>6. Meaning(p, i) = IF Paired(p, i) THEN <<"emoji">> ELSE <<"?">>
    <3>1. CASE c = High
      BY <1>3, <1>5, <3>1, MeaningIs
    <3>2. CASE c = Low
      <4>1. ~(i > 1 /\ p[i - 1] = High)
        BY <1>1, <1>3, <3>2 DEF Taken
      <4>2. Meaning(p, i) = <<"?">>
        BY <1>3, <1>5, <3>2, <4>1, MeaningIs
      <4>3. c # High
        <5>1. c[3] = "low"
          BY <3>2 DEF Low
        <5> QED BY <5>1 DEF High
      <4>4. ~Paired(p, i)
        BY <1>3, <4>3 DEF Paired
      <4> QED BY <4>2, <4>4
    <3> QED BY <1>9, <3>1, <3>2
  <2> QED BY <1>3, <1>7, <2>1, <2>5, <2>6
<1> QED BY <1>8, <1>9

\* Where the reader goes on once it has passed the pieces before the i-th.
At(p, f, i) == IF Taken(p, i) THEN Offset(f, i + 1) + 1 ELSE Offset(f, i) + 1

LEMMA ReadsOn ==
    ASSUME NEW p \in Seq(Clean), NEW f, Flattening(p, f), NEW v \in Seq(Symbols),
           v = f[Len(p)], NEW d, Decoding(v, d), NEW i \in 1 .. Len(p)
    PROVE  /\ At(p, f, i) \in 1 .. Len(v) + 1 /\ At(p, f, i + 1) \in 1 .. Len(v) + 1
           /\ ReplaceHalves(d[At(p, f, i)]) =
                Meaning(p, i) \o ReplaceHalves(d[At(p, f, i + 1)])
<1>1. p \in Seq(Seq(Symbols)) /\ Len(p) \in Nat /\ Len(v) \in Nat
  BY CleanType, SeqMonotonic
<1>2. ASSUME NEW j \in 1 .. Len(p)
      PROVE  /\ Offset(f, j) \in Nat /\ Len(p[j]) \in Nat /\ p[j] \in Clean
             /\ Offset(f, j + 1) = Offset(f, j) + Len(p[j])
             /\ Offset(f, j + 1) <= Len(v)
  BY <1>1, Laid, ElementOfSeq
<1>3. PICK o, l : o = Offset(f, i) /\ l = Len(p[i])
  OBVIOUS
<1>4. /\ o \in Nat /\ l \in Nat /\ Offset(f, i + 1) = o + l /\ o + l <= Len(v)
      /\ i \in Nat /\ i >= 1 /\ i <= Len(p)
  BY <1>1, <1>2, <1>3
<1>5. High # Low
  <2>1. High[3] = "high" /\ Low[3] = "low"
    BY DEF High, Low
  <2> QED BY <2>1
<1>6. Len(High) = 3 /\ Len(Low) = 3
  BY DEF High, Low
<1>7. ~Taken(p, i + 1) => At(p, f, i + 1) = o + l + 1
  BY <1>4 DEF At
<1>8. Taken(p, i + 1) <=> Paired(p, i)
  <2>1. i + 1 - 1 = i /\ (i + 1 \in 2 .. Len(p) <=> i < Len(p))
    BY <1>1, <1>4
  <2> QED BY <2>1 DEF Taken, Paired
<1>9. ASSUME NEW x \in Seq(Characters) PROVE <<>> \o ReplaceHalves(x) = ReplaceHalves(x)
  <2>1. PICK y : y = ReplaceHalves(x)
    OBVIOUS
  <2>2. y \in Seq(Told)
    BY <2>1, ToldWithoutHalves
  <2> QED BY <2>1, <2>2, ConcatEmptySeq
<1>10. \A j \in 1 .. Len(v) + 1 : d[j] \in Seq(Characters)
  BY DecodingGoesOn
<1>11. CASE Taken(p, i)
  <2>1. p[i] = Low /\ p[i - 1] = High /\ i > 1
    BY <1>4, <1>11 DEF Taken
  <2>2. Meaning(p, i) = <<>>
    BY <1>2, <2>1, MeaningIs
  <2>3. ~Taken(p, i + 1)
    BY <1>5, <1>8, <2>1 DEF Paired
  <2>4. At(p, f, i) = o + l + 1 /\ At(p, f, i + 1) = o + l + 1
    BY <1>4, <1>7, <1>11, <2>3 DEF At
  <2>5. o + l + 1 \in 1 .. Len(v) + 1
    BY <1>1, <1>4
  <2>6. d[o + l + 1] \in Seq(Characters)
    BY <1>10, <2>5
  <2> QED BY <1>9, <2>2, <2>4, <2>5, <2>6
<1>12. CASE ~Taken(p, i)
  <2>1. PICK q : q = o + 1
    OBVIOUS
  <2>2. At(p, f, i) = q /\ q = Offset(f, i) + 1
    BY <1>3, <1>12, <2>1 DEF At
  <2>3. PICK c : c = Character(v, q)
    OBVIOUS
  <2>4. /\ q \in 1 .. Len(v) /\ c # "invalid"
        /\ Meaning(p, i) = <<IF c = "half" THEN "?" ELSE c>>
        /\ Width(v, q) = IF Paired(p, i) THEN 6 ELSE l
    BY <1>3, <1>12, <2>2, <2>3, PieceReads
  <2>5. c \in Characters
    BY <2>3, <2>4, CharacterFits
  <2>6. q + Width(v, q) \in 1 .. Len(v) + 1 /\ d[q] = <<c>> \o d[q + Width(v, q)]
    BY <2>3, <2>4, DecodingGoesOn
  <2>7. q + Width(v, q) = At(p, f, i + 1)
    <3>1. CASE Paired(p, i)
      <4>1. PICK j : j = i + 1
        OBVIOUS
      <4>2. j \in 1 .. Len(p) /\ p[j] = Low /\ p[i] = High
        BY <1>1, <1>4, <3>1, <4>1 DEF Paired
      <4>3. l = 3 /\ Len(p[j]) = 3
        BY <1>3, <1>6, <4>2
      <4>4. Offset(f, j) = o + 3 /\ Offset(f, j + 1) = Offset(f, j) + 3
        BY <1>2, <1>4, <4>1, <4>2, <4>3
      <4>5. At(p, f, j) = o + 3 + 3 + 1
        BY <1>8, <3>1, <4>1, <4>4 DEF At
      <4>6. q + 6 = o + 3 + 3 + 1
        BY <1>4, <2>1
      <4> QED BY <2>4, <3>1, <4>1, <4>5, <4>6
    <3>2. CASE ~Paired(p, i)
      <4>1. q + l = o + l + 1
        BY <1>4, <2>1
      <4> QED BY <1>7, <1>8, <2>4, <3>2, <4>1
    <3> QED BY <3>1, <3>2
  <2>8. PICK n : n = At(p, f, i + 1)
    OBVIOUS
  <2>9. n \in 1 .. Len(v) + 1 /\ d[q] = <<c>> \o d[n]
    BY <2>6, <2>7, <2>8
  <2>10. d[n] \in Seq(Characters)
    BY <1>10, <2>9
  <2>11. ReplaceHalves(d[q]) = Meaning(p, i) \o ReplaceHalves(d[n])
    BY <2>4, <2>5, <2>9, <2>10, ReplaceCons
  <2>12. q \in 1 .. Len(v) + 1
    BY <1>1, <2>4
  <2> QED BY <2>2, <2>8, <2>9, <2>11, <2>12
<1> QED BY <1>11, <1>12

\* json.loads of the whole content.
LEMMA LoadsMeant ==
    ASSUME NEW p \in Seq(Clean), p # <<>>, NEW f, Flattening(p, f), NEW v \in Seq(Symbols),
           v = f[Len(p)]
    PROVE  /\ ReplaceHalves(Loads(v)) = FlattenSeq(Meanings(p))
           /\ FlattenSeq(Meanings(p)) \in Seq(Plain) /\ Decodes(v)
<1>1. PICK m : m = Meanings(p)
  OBVIOUS
<1>2. Len(p) \in Nat /\ Len(p) >= 1 /\ Len(v) \in Nat
  BY EmptySeq
<1>3. /\ m \in Seq(Seq(Plain)) /\ Len(m) = Len(p) /\ m # <<>>
      /\ \A i \in 1 .. Len(p) : m[i] = Meaning(p, i)
  <2>1. m \in Seq(Seq(Plain))
    BY <1>1, MeaningType
  <2>2. m = [i \in 1 .. Len(p) |-> Meaning(p, i)]
    BY <1>1 DEF Meanings
  <2>3. DOMAIN m = 1 .. Len(p) /\ DOMAIN m = 1 .. Len(m) /\ Len(m) \in Nat
    BY <2>1, <2>2
  <2>4. Len(m) = Len(p)
    BY <1>2, <2>3
  <2>5. m # <<>>
    BY <1>2, <2>4
  <2> QED BY <2>1, <2>2, <2>4, <2>5
<1>4. PICK F : Flattening(m, F) /\ FlattenSeq(m) = F[Len(m)]
  BY <1>3, FlattenIs
<1>5. Plain \subseteq Told /\ "invalid" \notin Plain
  BY DEF Plain, Told, Characters, Symbols
<1>6. \A i \in 1 .. Len(p) : F[i] \in Seq(Plain) /\ F[i] \in Seq(Told) /\ m[i] \in Seq(Told)
  <2>1. \A i \in 1 .. Len(m) : F[i] \in Seq(Plain) /\ m[i] \in Seq(Plain)
    BY <1>3, <1>4, FlatteningType, ElementOfSeq
  <2>2. Seq(Plain) \subseteq Seq(Told)
    BY <1>5, SeqMonotonic
  <2> QED BY <1>3, <2>1, <2>2
<1>7. PICK d : Decoding(v, d) /\ Loads(v) = d[1]
  BY LoadsDecoding
<1>8. \A j \in 1 .. Len(v) + 1 : d[j] \in Seq(Characters)
  BY <1>7, DecodingGoesOn
<1>9. ASSUME NEW i \in 1 .. Len(p)
      PROVE  /\ At(p, f, i) \in 1 .. Len(v) + 1 /\ At(p, f, i + 1) \in 1 .. Len(v) + 1
             /\ ReplaceHalves(d[At(p, f, i)]) = m[i] \o ReplaceHalves(d[At(p, f, i + 1)])
  <2>1. /\ At(p, f, i) \in 1 .. Len(v) + 1 /\ At(p, f, i + 1) \in 1 .. Len(v) + 1
        /\ ReplaceHalves(d[At(p, f, i)])
             = Meaning(p, i) \o ReplaceHalves(d[At(p, f, i + 1)])
    BY <1>7, ReadsOn
  <2>2. m[i] = Meaning(p, i)
    BY <1>3
  <2> QED BY <2>1, <2>2
<1> DEFINE Before(i) == IF i = 1 THEN <<>> ELSE F[i - 1]
           After(i) == ReplaceHalves(d[At(p, f, i)])
           Bad == {i \in 1 .. Len(p) + 1 : Before(i) \o After(i) # After(1)}
<1>10. ASSUME NEW j \in 1 .. Len(v) + 1 PROVE ReplaceHalves(d[j]) \in Seq(Told)
  BY <1>8, ToldWithoutHalves
<1>11. ASSUME NEW i \in 1 .. Len(p)
       PROVE  Before(i) \o After(i) = Before(i + 1) \o After(i + 1)
  <2>1. PICK b, a, z : b = Before(i) /\ a = After(i) /\ z = After(i + 1)
    OBVIOUS
  <2>2. PICK w : w = m[i]
    OBVIOUS
  <2>3. a = w \o z
    BY <1>9, <2>1, <2>2
  <2>4. z \in Seq(Told) /\ w \in Seq(Told)
    BY <1>6, <1>9, <1>10, <2>1, <2>2
  <2>5. b \in Seq(Told)
    <3>1. CASE i = 1
      BY <2>1, <3>1
    <3>2. CASE i # 1
      <4>1. i - 1 \in 1 .. Len(p)
        BY <1>2, <3>2
      <4> QED BY <1>6, <2>1, <3>2, <4>1
    <3> QED BY <3>1, <3>2
  <2>6. Before(i + 1) = b \o w
    <3>1. Before(i + 1) = F[i]
      <4>1. i + 1 # 1 /\ i + 1 - 1 = i
        BY <1>2
      <4> QED BY <4>1
    <3>2. F[i] = IF i = 1 THEN m[i] ELSE F[i - 1] \o m[i]
      BY <1>3, <1>4 DEF Flattening
    <3>3. CASE i = 1
      <4>1. <<>> \o w = w
        BY <2>4, ConcatEmptySeq
      <4> QED BY <2>1, <2>2, <3>1, <3>2, <3>3, <4>1
    <3>4. CASE i # 1
      BY <2>1, <2>2, <3>1, <3>2, <3>4
    <3> QED BY <3>3, <3>4
  <2>7. (b \o w) \o z = b \o (w \o z)
    BY <2>4, <2>5, ConcatAssociative
  <2> QED BY <2>1, <2>3, <2>6, <2>7
<1>12. At(p, f, 1) = 1 /\ At(p, f, Len(p) + 1) = Len(v) + 1
  <2>1. ~Taken(p, 1) /\ ~Taken(p, Len(p) + 1)
    BY <1>2 DEF Taken
  <2>2. Len(p) + 1 # 1 /\ Len(p) + 1 - 1 = Len(p)
    BY <1>2
  <2>3. Offset(f, 1) = 0 /\ Offset(f, Len(p) + 1) = Len(v)
    BY <2>2 DEF Offset
  <2> QED BY <1>2, <2>1, <2>3 DEF At
<1>13. Bad = {}
  <2> SUFFICES ASSUME Bad # {} PROVE FALSE
    OBVIOUS
  <2>1. PICK i \in Bad : \A k \in Bad : i <= k
    <3>1. Bad \in SUBSET Nat
      <4>1. Bad \subseteq 1 .. Len(p) + 1
        <5> HIDE DEF Before, After
        <5> QED OBVIOUS
      <4>2. 1 .. Len(p) + 1 \subseteq Nat
        BY <1>2
      <4> HIDE DEF Bad
      <4> QED BY <4>1, <4>2
    <3> HIDE DEF Bad
    <3> QED BY <3>1, LeastElement
  <2>2. i \in 1 .. Len(p) + 1 /\ Before(i) \o After(i) # After(1)
    OBVIOUS
  <2>3. i # 1
    <3>1. After(1) \in Seq(Told)
      <4>1. 1 \in 1 .. Len(v) + 1
        BY <1>2
      <4> QED BY <1>10, <1>12, <4>1
    <3>2. Before(1) \o After(1) = After(1)
      <4>1. PICK a : a = After(1)
        OBVIOUS
      <4>2. a \in Seq(Told) /\ Before(1) = <<>>
        BY <3>1, <4>1
      <4>3. <<>> \o a = a
        BY <4>2, ConcatEmptySeq
      <4> QED BY <4>1, <4>2, <4>3
    <3> QED BY <2>2, <3>2
  <2>4. PICK j : j = i - 1
    OBVIOUS
  <2>5. j \in 1 .. Len(p) /\ j \in 1 .. Len(p) + 1 /\ ~(i <= j) /\ j + 1 = i
    BY <1>2, <2>2, <2>3, <2>4
  <2>6. Before(j) \o After(j) = After(1)
    BY <2>1, <2>5
  <2>7. Before(j) \o After(j) = Before(i) \o After(i)
    BY <1>11, <2>5
  <2> HIDE DEF Before, After
  <2> QED BY <2>2, <2>6, <2>7
<1>14. After(1) = ReplaceHalves(Loads(v))
  BY <1>7, <1>12
<1>15. Before(Len(p) + 1) \o After(Len(p) + 1) = F[Len(p)]
  <2>1. After(Len(p) + 1) = <<>>
    <3>1. d[Len(v) + 1] = <<>>
      BY <1>7, DecodingGoesOn
    <3>2. ReplaceHalves(<<>>) = <<>>
      <4>1. <<>> \in Seq(Characters) /\ Len(<<>>) = 0
        OBVIOUS
      <4>2. ReplaceHalves(<<>>) \in Seq(Told) /\ Len(ReplaceHalves(<<>>)) = 0
        BY <4>1, HalvesReplaced DEF Told
      <4> QED BY <4>2, EmptySeq
    <3> QED BY <1>12, <3>1, <3>2
  <2>2. Before(Len(p) + 1) = F[Len(p)]
    <3>1. Len(p) + 1 # 1 /\ Len(p) + 1 - 1 = Len(p)
      BY <1>2
    <3> QED BY <3>1
  <2>3. F[Len(p)] \in Seq(Told)
    BY <1>2, <1>6
  <2> HIDE DEF Before, After
  <2> QED BY <2>1, <2>2, <2>3, ConcatEmptySeq
<1>16. ReplaceHalves(Loads(v)) = FlattenSeq(m) /\ FlattenSeq(m) \in Seq(Plain)
  <2>1. Len(p) + 1 \in 1 .. Len(p) + 1
    BY <1>2
  <2>2. Len(p) + 1 \notin Bad
    BY <1>13
  <2>3. Before(Len(p) + 1) \o After(Len(p) + 1) = After(1)
    BY <2>1, <2>2
  <2>4. Len(p) \in 1 .. Len(p)
    BY <1>2
  <2> QED BY <1>3, <1>4, <1>6, <1>14, <1>15, <2>3, <2>4
<1>17. Decodes(v)
  <2>1. PICK x : x = Loads(v)
    OBVIOUS
  <2>2. x \in Seq(Characters)
    BY <2>1, LoadsType
  <2>3. PICK y : y = ReplaceHalves(x)
    OBVIOUS
  <2>4. y \in Seq(Plain)
    BY <1>16, <2>1, <2>3
  <2>5. /\ Len(y) = Len(x)
        /\ \A k \in 1 .. Len(x) : y[k] = IF x[k] = "half" THEN "?" ELSE x[k]
    BY <2>2, <2>3, HalvesReplaced
  <2>6. \A k \in 1 .. Len(x) : x[k] # "invalid"
    <3> TAKE k \in 1 .. Len(x)
    <3>1. y[k] \in Plain
      BY <2>4, <2>5, ElementOfSeq
    <3>2. y[k] = IF x[k] = "half" THEN "?" ELSE x[k]
      BY <2>5
    <3> QED BY <1>5, <3>1, <3>2
  <2> QED BY <2>1, <2>2, <2>6 DEF Decodes, Contains
<1> QED BY <1>1, <1>16, <1>17

LEMMA StartAtFrame ==
    ASSUME NEW t \in Seq(Symbols), NEW n \in Nat, n >= 3, n + 1 <= Len(t), KeyAt(t, n - 2),
           \A j \in 1 .. n - 3 : t[j] # "key"
    PROVE  StartOf(t) = n + 1
<1>1. Len(t) \in Nat /\ n - 2 \in 1 .. Len(t) - 2
  OBVIOUS
<1>2. PICK i \in 1 .. Len(t) - 2 :
        /\ KeyAt(t, i) /\ \A j \in 1 .. Len(t) - 2 : KeyAt(t, j) => i <= j
        /\ StartOf(t) = i + 3
  BY <1>1, StartIs
<1>3. i <= n - 2
  BY <1>1, <1>2
<1>4. i \notin 1 .. n - 3
  BY <1>2 DEF KeyAt
<1>5. i = n - 2
  BY <1>1, <1>3, <1>4
<1> QED BY <1>2, <1>5

LEMMA ClosedStays ==
    ASSUME NEW a \in Seq(Symbols), NEW b \in Seq(Symbols), Begins(a, b),
           NEW start \in 1 .. Len(a) + 1, ClosedAt(a, start) # 0
    PROVE  ClosedAt(b, start) = ClosedAt(a, start) /\ ClosedAt(a, start) \in start .. Len(a)
<1>1. Len(a) \in Nat /\ Len(b) \in Nat /\ Len(a) <= Len(b) /\ start \in 1 .. Len(b) + 1
  BY DEF Begins
<1>2. PICK f : Closing(a, start, f) /\ ClosedAt(a, start) = f[start]
  BY ClosedAtScan
<1>3. PICK g : Closing(b, start, g) /\ ClosedAt(b, start) = g[start]
  BY <1>1, ClosedAtScan
<1> DEFINE D == start .. Len(a) + 2
           Bad == {i \in D : f[i] # 0 /\ g[i] # f[i]}
<1>4. \A i \in D :
        /\ f[i] = 0 \/ f[i] \in i .. Len(a)
        /\ i > Len(a) => f[i] = 0
        /\ i <= Len(a) /\ a[i] = "quote" => f[i] = i
        /\ i <= Len(a) /\ a[i] = "\\" => f[i] = f[i + 2]
        /\ i <= Len(a) /\ a[i] \notin {"quote", "\\"} => f[i] = f[i + 1]
  BY <1>2, ClosingGoesOn
<1>5. \A i \in start .. Len(b) + 2 :
        /\ i <= Len(b) /\ b[i] = "quote" => g[i] = i
        /\ i <= Len(b) /\ b[i] = "\\" => g[i] = g[i + 2]
        /\ i <= Len(b) /\ b[i] \notin {"quote", "\\"} => g[i] = g[i + 1]
  BY <1>1, <1>3, ClosingGoesOn
<1>6. Bad = {}
  <2> SUFFICES ASSUME Bad # {} PROVE FALSE
    OBVIOUS
  <2>1. PICK i \in Bad : \A k \in Bad : k <= i
    <3>1. Bad \subseteq 0 .. Len(a) + 2 /\ Len(a) + 2 \in Nat
      BY <1>1
    <3> HIDE DEF Bad
    <3> QED BY <3>1, GreatestElement
  <2>2. i \in D /\ f[i] # 0 /\ g[i] # f[i]
    OBVIOUS
  <2>3. i \in 1 .. Len(a) /\ i \in start .. Len(b) + 2 /\ i <= Len(b) /\ i <= Len(a)
    BY <1>1, <1>4, <2>2
  <2>4. a[i] = b[i]
    BY <2>3 DEF Begins
  <2>5. i + 1 \in D /\ i + 2 \in D /\ ~(i + 1 <= i) /\ ~(i + 2 <= i)
    BY <1>1, <2>2, <2>3
  <2>6. i + 1 \notin Bad /\ i + 2 \notin Bad
    BY <2>1, <2>5
  <2>7. CASE a[i] = "quote"
    BY <1>4, <1>5, <2>2, <2>3, <2>4, <2>7
  <2>8. CASE a[i] = "\\"
    <3>1. f[i] = f[i + 2] /\ g[i] = g[i + 2]
      BY <1>4, <1>5, <2>2, <2>3, <2>4, <2>8
    <3> QED BY <2>2, <2>5, <2>6, <3>1
  <2>9. CASE a[i] \notin {"quote", "\\"}
    <3>1. f[i] = f[i + 1] /\ g[i] = g[i + 1]
      BY <1>4, <1>5, <2>2, <2>3, <2>4, <2>9
    <3> QED BY <2>2, <2>5, <2>6, <3>1
  <2> QED BY <2>7, <2>8, <2>9
<1>7. start \in D
  BY <1>1
<1>8. g[start] = f[start] /\ f[start] \in start .. Len(a)
  BY <1>2, <1>4, <1>6, <1>7
<1> QED BY <1>2, <1>3, <1>8

\* What the program finds in a reply that keeps to the format, whole or broken off.
LEMMA WholeParses ==
    ASSUME NEW f \in Frames, Last(f[2]) = "close", NEW p \in Seq(Clean), p # <<>>,
           NEW t, t = f[1] \o FlattenSeq(p) \o f[2]
    PROVE  /\ t \in Seq(Symbols) /\ Parses(t)
           /\ Parse(t) = [content |-> FlattenSeq(Meanings(p)),
                          reply |-> IF Contains(t, "7") THEN "7" ELSE None]
           /\ FlattenSeq(Meanings(p)) \in Seq(Plain) /\ FlattenSeq(Meanings(p)) # t
           /\ \A raw \in Seq(Symbols) :
                Begins(raw, t) /\ Parses(raw) => Parse(raw).content = FlattenSeq(Meanings(p))
<1>1. PICK F : Flattening(p, F) /\ FlattenSeq(p) = F[Len(p)]
  BY FlattenIs
<1>2. PICK v : v = FlattenSeq(p)
  OBVIOUS
<1>3. p \in Seq(Seq(Symbols)) /\ Len(p) \in Nat /\ Len(p) >= 1
  BY CleanType, SeqMonotonic, EmptySeq
<1>4. v \in Seq(Symbols) /\ v = F[Len(p)]
  BY <1>1, <1>2, <1>3, FlattenType
<1>5. Len(v) \in Nat /\ Len(v) >= 1
  <2>1. Len(p) \in 1 .. Len(p)
    BY <1>3
  <2>2. /\ Offset(F, Len(p)) \in Nat /\ Len(p[Len(p)]) \in Nat
        /\ Offset(F, Len(p) + 1) = Offset(F, Len(p)) + Len(p[Len(p)])
        /\ Offset(F, Len(p) + 1) <= Len(v) /\ Len(v) \in Nat
    BY <1>1, <1>3, <1>4, <2>1, Laid
  <2>3. p[Len(p)] \in Clean
    BY <2>1, ElementOfSeq
  <2>4. PICK l : l = Len(p[Len(p)])
    OBVIOUS
  <2>5. l = 1 \/ l = 2 \/ l = 3
    BY <2>3, <2>4, CleanIs
  <2>6. l >= 1
    BY <2>5
  <2> QED BY <2>2, <2>4, <2>6
<1>6. PICK a, z, n : a = f[1] /\ z = f[2] /\ n = Len(f[1])
  OBVIOUS
<1>7. /\ a \in Seq(Symbols) /\ z \in Seq(Symbols) /\ n = Len(a) /\ n \in Nat /\ n >= 4
      /\ KeyAt(a, n - 2) /\ (\A j \in 1 .. n - 3 : a[j] # "key")
      /\ Len(z) \in Nat /\ Len(z) >= 2 /\ z[1] = "quote"
  BY <1>6, FramesAre
<1>8. PICK rest \in Rests : /\ rest \in Seq(Symbols) /\ Len(z) = 1 + Len(rest)
                           /\ \A k \in 1 .. Len(rest) : z[1 + k] = rest[k]
  BY <1>6, FramesAre
<1>9. /\ t \in Seq(Symbols) /\ Len(t) = n + Len(v) + Len(z)
      /\ \A k \in 1 .. n : t[k] = a[k]
      /\ \A k \in 1 .. Len(v) : t[n + k] = v[k]
      /\ \A k \in 1 .. Len(z) : t[n + Len(v) + k] = z[k]
  <2>1. a \in Seq(Symbols) /\ v \in Seq(Symbols) /\ z \in Seq(Symbols)
    BY <1>4, <1>7
  <2>2. PICK w : w = a \o v \o z
    OBVIOUS
  <2>3. /\ w \in Seq(Symbols) /\ Len(w) = Len(a) + Len(v) + Len(z)
        /\ \A k \in 1 .. Len(a) : w[k] = a[k]
        /\ \A k \in 1 .. Len(v) : w[Len(a) + k] = v[k]
        /\ \A k \in 1 .. Len(z) : w[Len(a) + Len(v) + k] = z[k]
    BY <2>1, <2>2, ThreeParts
  <2>4. t = w
    BY <1>2, <1>6, <2>2
  <2> QED BY <1>7, <2>3, <2>4
<1>10. /\ n \in Nat /\ Len(v) \in Nat /\ Len(z) \in Nat /\ Len(t) \in Nat
       /\ Len(t) = n + Len(v) + Len(z)
       /\ n + Len(v) + 1 <= Len(t) /\ n + Len(v) <= Len(t) /\ n + 1 <= Len(t) /\ n >= 3
  <2>1. /\ n \in Nat /\ Len(v) \in Nat /\ Len(z) \in Nat /\ Len(t) = n + Len(v) + Len(z)
        /\ n >= 4 /\ Len(z) >= 2
    BY <1>5, <1>7, <1>9
  <2> QED BY <2>1
<1>11. StartOf(t) = n + 1
  <2>1. /\ n - 2 \in 1 .. n /\ n - 2 + 1 \in 1 .. n /\ n - 2 + 2 \in 1 .. n
    BY <1>7
  <2>2. KeyAt(t, n - 2)
    BY <1>7, <1>9, <2>1 DEF KeyAt
  <2>3. ASSUME NEW j \in 1 .. n - 3 PROVE t[j] # "key"
    <3>1. j \in 1 .. n
      BY <1>7
    <3> QED BY <1>7, <1>9, <3>1
  <2> QED BY <1>7, <1>9, <1>10, <2>2, <2>3, StartAtFrame
<1>12. ClosedAt(t, n + 1) = n + Len(v) + 1
  <2>1. 1 \in 1 .. Len(z)
    BY <1>7
  <2>2. t[n + Len(v) + 1] = "quote"
    BY <1>7, <1>9, <2>1
  <2>3. F[Len(p)] = v
    BY <1>4
  <2>4. /\ n + Len(F[Len(p)]) + 1 <= Len(t) /\ n \in Nat
        /\ \A k \in 1 .. Len(F[Len(p)]) : t[n + k] = F[Len(p)][k]
        /\ t[n + Len(F[Len(p)]) + 1] = "quote" /\ Flattening(p, F) /\ t \in Seq(Symbols)
    BY <1>1, <1>9, <1>10, <2>2, <2>3
  <2>5. ClosedAt(t, n + 1) = n + Len(F[Len(p)]) + 1
    BY <2>4, CleanIsClosed
  <2> QED BY <2>3, <2>5
<1>13. n + 1 # 0 /\ n + Len(v) + 1 # 0 /\ n + Len(v) + 1 - 1 = n + Len(v)
  BY <1>5, <1>7
<1>14. SubSeq(t, n + 1, n + Len(v)) = v
  <2>1. /\ n + Len(v) <= Len(t) /\ n \in Nat /\ t \in Seq(Symbols) /\ v \in Seq(Symbols)
        /\ \A k \in 1 .. Len(v) : t[n + k] = v[k]
    BY <1>4, <1>9, <1>10
  <2> QED BY <2>1, MiddleIs
<1>15. From(t, n + Len(v) + 1 + 1) = rest
  <2>1. PICK m : m = n + Len(v) + 1
    OBVIOUS
  <2>2. m \in Nat /\ Len(rest) \in Nat /\ m + Len(rest) = Len(t)
    BY <1>5, <1>7, <1>8, <1>9, <2>1
  <2>3. ASSUME NEW k \in 1 .. Len(rest) PROVE t[m + k] = rest[k]
    <3>1. 1 + k \in 1 .. Len(z) /\ n + Len(v) + (1 + k) = m + k
      BY <1>5, <1>7, <1>8, <2>1, <2>2
    <3> QED BY <1>8, <1>9, <3>1
  <2>4. /\ m + Len(rest) <= Len(t) /\ m \in Nat /\ t \in Seq(Symbols) /\ rest \in Seq(Symbols)
    BY <1>8, <1>9, <1>10, <2>2
  <2>5. SubSeq(t, m + 1, m + Len(rest)) = rest
    BY <2>3, <2>4, MiddleIs
  <2> QED BY <2>1, <2>2, <2>5 DEF From
<1>16. /\ ReplaceHalves(Loads(v)) = FlattenSeq(Meanings(p))
       /\ FlattenSeq(Meanings(p)) \in Seq(Plain) /\ Decodes(v)
  BY <1>1, <1>4, LoadsMeant
<1>17. PICK meant : meant = FlattenSeq(Meanings(p))
  OBVIOUS
<1>18. v # <<>>
  BY <1>5
<1>23. PICK s, e : s = n + 1 /\ e = n + Len(v) + 1
  OBVIOUS
<1>24. /\ StartOf(t) = s /\ ClosedAt(t, s) = e /\ s # 0 /\ e # 0
       /\ SubSeq(t, s, e - 1) = v /\ From(t, e + 1) = rest
  <2>1. s # 0 /\ e # 0 /\ e - 1 = n + Len(v) /\ e + 1 = n + Len(v) + 1 + 1
    BY <1>10, <1>23
  <2>2. StartOf(t) = s /\ ClosedAt(t, s) = e
    BY Zenon, <1>11, <1>12, <1>23
  <2>3. SubSeq(t, s, e - 1) = v /\ From(t, e + 1) = rest
    BY Zenon, <1>14, <1>15, <1>23, <2>1
  <2> QED BY <2>1, <2>2, <2>3
<1>19. Parse(t) = [content |-> meant, reply |-> IF Contains(t, "7") THEN "7" ELSE None]
  BY <1>16, <1>17, <1>18, <1>24 DEF Parse
<1>20. Parses(t)
  <2>1. Parse(t).content = meant
    BY <1>19
  <2> QED BY <1>16, <1>17, <1>24, <2>1 DEF Parses
<1>21. meant # t
  <2>1. n - 2 \in 1 .. n /\ n - 2 \in 1 .. Len(t)
    BY <1>10
  <2>2. t[n - 2] = "key"
    BY <1>7, <1>9, <2>1 DEF KeyAt
  <2>3. t \notin Seq(Plain)
    <3>1. "key" \notin Plain
      BY DEF Plain
    <3> QED BY <2>1, <2>2, <3>1, ElementOfSeq
  <2> QED BY <1>16, <1>17, <2>3
<1>22. ASSUME NEW raw \in Seq(Symbols), Begins(raw, t), Parses(raw)
       PROVE  Parse(raw).content = meant
  <2>1. StartOf(raw) = n + 1 /\ n + 1 \in 1 .. Len(raw) + 1 /\ ClosedAt(raw, n + 1) # 0
    BY <1>9, <1>11, <1>22, StartStays DEF Parses
  <2>2. /\ ClosedAt(raw, n + 1) = n + Len(v) + 1
        /\ n + Len(v) + 1 \in n + 1 .. Len(raw)
    BY <1>9, <1>12, <1>22, <2>1, ClosedStays
  <2>3. n + Len(v) <= Len(raw) /\ Len(raw) \in Nat
    BY <1>5, <1>7, <2>2
  <2>4. ASSUME NEW k \in 1 .. Len(v) PROVE raw[n + k] = v[k]
    <3>1. n + k \in 1 .. Len(raw)
      BY <1>5, <1>7, <2>3
    <3>2. raw[n + k] = t[n + k]
      BY <1>22, <3>1 DEF Begins
    <3> QED BY <1>9, <3>2
  <2>5. SubSeq(raw, n + 1, n + Len(v)) = v
    BY <1>4, <1>7, <2>3, <2>4, MiddleIs
  <2>6. StartOf(raw) = s /\ ClosedAt(raw, s) = e /\ SubSeq(raw, s, e - 1) = v
    <3>1. e - 1 = n + Len(v)
      BY <1>10, <1>23
    <3>2. StartOf(raw) = s /\ ClosedAt(raw, s) = e
      BY Zenon, <1>23, <2>1, <2>2
    <3>3. SubSeq(raw, s, e - 1) = v
      BY Zenon, <1>23, <2>5, <3>1
    <3> QED BY <3>2, <3>3
  <2> QED BY <1>16, <1>17, <1>22, <2>6 DEF Parses
<1> QED BY <1>9, <1>16, <1>17, <1>19, <1>20, <1>21, <1>22

-------------------------------------------------------------------------------
\* What is stored is what the part read comes to, with what was shown of it.
AnswerInv ==
    /\ ReplyInv
    /\ stored # None => stored = Content(buffer)

LEMMA NextAnswerInv == AnswerInv /\ [Next]_vars => AnswerInv'
<1> SUFFICES ASSUME AnswerInv, [Next]_vars PROVE AnswerInv'
  OBVIOUS
<1>1. ReplyInv
  BY DEF AnswerInv
<1>2. ReplyInv'
  <2>1. ASSUME NEW n \in 1 .. Len(Text), Delta(n) PROVE ReplyInv'
    BY <1>1, <2>1, DeltaInv
  <2>2. CASE Complete
    BY <1>1, <2>2, CompleteInv
  <2>3. CASE UNCHANGED vars
    BY <1>1, <2>3, StutterInv
  <2> QED BY <2>1, <2>2, <2>3 DEF Next, Over
<1>3. CASE \E n \in 1 .. Len(Text) : Delta(n)
  BY <1>2, <1>3 DEF Delta, AnswerInv
<1>4. CASE Complete
  <2>1. reply' = reply /\ read' = read /\ emitted' = emitted /\ stored' = Content(buffer)
    BY <1>4 DEF Complete
  <2>2. buffer' = buffer
    BY <2>1, TextStays DEF buffer
  <2>3. Content(buffer)' = Content(buffer)
    BY <2>1, <2>2 DEF Content
  <2> QED BY <1>2, <2>1, <2>3 DEF AnswerInv
<1>5. CASE UNCHANGED vars
  <2>1. reply' = reply /\ read' = read /\ emitted' = emitted /\ stored' = stored
    BY <1>5 DEF vars
  <2>2. buffer' = buffer
    BY <2>1, TextStays DEF buffer
  <2>3. Content(buffer)' = Content(buffer)
    BY <2>1, <2>2 DEF Content
  <2> QED BY <1>2, <2>1, <2>3 DEF AnswerInv
<1> QED BY <1>3, <1>4, <1>5 DEF Next, Over

LEMMA WellFormedIsClean ==
    ASSUME Given, WellFormed
    PROVE  /\ pieces \in Seq(Clean) /\ pieces # <<>> /\ Last(frame[2]) = "close"
           /\ [i \in DOMAIN pieces |-> Meant(i)] = Meanings(pieces)
<1>1. pieces \in Seq(Pieces) /\ Len(pieces) \in Nat /\ DOMAIN pieces = 1 .. Len(pieces)
  BY LenProperties DEF Given
<1>2. ASSUME NEW i \in 1 .. Len(pieces) PROVE pieces[i] \in Clean
  <2>1. pieces[i] \in Pieces
    BY <1>1, ElementOfSeq
  <2>2. pieces[i] \notin {<<"newline">>, <<"quote">>, <<"\\", "x">>, <<"\\", "u", "x">>}
    BY <1>1 DEF WellFormed
  <2> QED BY <2>1, <2>2 DEF Pieces, Clean
<1>3. pieces \in Seq(Clean)
  <2>1. pieces = [i \in 1 .. Len(pieces) |-> pieces[i]]
    BY <1>1
  <2>2. [i \in 1 .. Len(pieces) |-> pieces[i]] \in Seq(Clean)
    BY <1>1, <1>2, IsASeq
  <2> QED BY <2>1, <2>2
<1>4. \A i : Meant(i) = Meaning(pieces, i)
  BY DEF Meant, Meaning
<1>5. [i \in DOMAIN pieces |-> Meant(i)] = Meanings(pieces)
  BY <1>1, <1>4 DEF Meanings
<1> QED BY <1>3, <1>5 DEF WellFormed

LEMMA BeginsIsPrefix ==
    ASSUME NEW C, NEW x \in Seq(C), NEW y \in Seq(C), Begins(x, y) PROVE IsPrefix(x, y)
<1>1. Len(x) \in Nat /\ Len(y) \in Nat /\ Len(x) <= Len(y)
  BY DEF Begins
<1>2. \A k \in 1 .. Len(x) : 0 + k = k
  BY <1>1
<1>3. /\ 0 + Len(x) <= Len(x) /\ 0 + Len(x) <= Len(y) /\ 0 \in Nat
      /\ \A k \in 1 .. Len(x) : x[0 + k] = x[k] /\ y[0 + k] = x[k]
  BY <1>1, <1>2 DEF Begins
<1>4. SubSeq(x, 0 + 1, 0 + Len(x)) = x /\ SubSeq(y, 0 + 1, 0 + Len(x)) = x
  BY <1>3, MiddleIs
<1>5. 0 + 1 = 1 /\ 0 + Len(x) = Len(x)
  BY <1>1
<1> QED BY <1>1, <1>4, <1>5 DEF IsPrefix

LEMMA InvKeepsAnswer == AnswerInv => AnswerKept
<1> SUFFICES ASSUME AnswerInv, WellFormed, stored # None
             PROVE  LET meant == FlattenSeq([i \in DOMAIN pieces |-> Meant(i)])
                    IN  IF read = Len(Text)
                        THEN /\ stored.content = meant
                             /\ stored.reply = IF Contains(Text, "7") THEN "7" ELSE None
                        ELSE emitted # <<>> => IsPrefix(stored.content, meant)
  BY DEF AnswerKept
<1>1. Given /\ Text \in Seq(Symbols) /\ frame \in Frames
  BY TextType DEF AnswerInv, ReplyInv, Given
<1>2. /\ pieces \in Seq(Clean) /\ pieces # <<>> /\ Last(frame[2]) = "close"
      /\ [i \in DOMAIN pieces |-> Meant(i)] = Meanings(pieces)
  BY <1>1, WellFormedIsClean
<1>3. PICK meant : meant = FlattenSeq(Meanings(pieces))
  OBVIOUS
<1>4. PICK t : t = Text
  OBVIOUS
<1>5. /\ t \in Seq(Symbols) /\ Parses(t) /\ meant \in Seq(Plain) /\ meant # t
      /\ Parse(t) = [content |-> meant, reply |-> IF Contains(t, "7") THEN "7" ELSE None]
      /\ \A raw \in Seq(Symbols) : Begins(raw, t) /\ Parses(raw) => Parse(raw).content = meant
  BY <1>1, <1>2, <1>3, <1>4, WholeParses DEF Text
<1>6. PICK raw : raw = SubSeq(t, 1, read)
  OBVIOUS
<1>7. stored = IF Parse(raw).content = raw /\ emitted # <<>>
               THEN [content |-> emitted, reply |-> None] ELSE Parse(raw)
  BY <1>4, <1>6 DEF AnswerInv, Content, buffer
<1>8. read \in 0 .. Len(t) /\ Len(t) \in Nat /\ Shown(t, read, emitted)
  BY <1>4, <1>5 DEF AnswerInv, ReplyInv
<1>9. CASE read = Len(t)
  <2>1. raw = t
    <3>1. \A k \in 1 .. Len(t) : 0 + k = k
      BY <1>8
    <3>2. SubSeq(t, 0 + 1, 0 + Len(t)) = t
      <4>1. 0 + Len(t) <= Len(t) /\ 0 \in Nat /\ \A k \in 1 .. Len(t) : t[0 + k] = t[k]
        BY <1>8, <3>1
      <4> QED BY <1>5, <4>1, MiddleIs
    <3>3. 0 + 1 = 1 /\ 0 + Len(t) = Len(t)
      BY <1>8
    <3> QED BY <1>6, <1>9, <3>2, <3>3
  <2>2. Parse(t).content = meant
    BY <1>5
  <2>3. stored = Parse(t)
    BY <1>5, <1>7, <2>1, <2>2
  <2>4. stored.content = meant /\ stored.reply = IF Contains(t, "7") THEN "7" ELSE None
    BY <1>5, <2>3
  <2> QED BY <1>2, <1>3, <1>4, <1>9, <2>4
<1>10. CASE read # Len(t) /\ emitted # <<>>
  <2>1. raw \in Seq(Symbols) /\ Begins(raw, t)
    <3>1. read \in 0 .. Len(t) /\ read \in Nat /\ read <= Len(t)
      BY <1>8
    <3>2. \A i \in 1 .. read : t[i] \in Symbols
      BY <1>5, <1>8, ElementOfSeq
    <3>3. /\ raw \in Seq(Symbols) /\ Len(raw) = read
          /\ \A i \in 1 .. read : raw[i] = t[i]
      BY <1>5, <1>6, <1>8, <3>1, <3>2, SubSeqProperties
    <3> QED BY <3>1, <3>3 DEF Begins
  <2>2. meant \in Seq(Told)
    <3>1. Plain \subseteq Told
      BY DEF Plain, Told, Characters, Symbols
    <3> QED BY <1>5, <3>1, SeqMonotonic
  <2>3. CASE Parse(raw).content = raw
    <3>1. stored.content = emitted
      BY <1>7, <1>10, <2>3
    <3>2. PICK e : e = emitted
      OBVIOUS
    <3>3. PICK n \in 1 .. read : Extract(SubSeq(t, 1, n)) # None /\ e = Extract(SubSeq(t, 1, n))
      BY <1>8, <1>10, <3>2 DEF Shown
    <3>4. n \in 0 .. Len(t)
      BY <1>8
    <3>5. SubSeq(t, 1, n) \in Seq(Symbols) /\ Begins(SubSeq(t, 1, n), t)
      <4>1. \A i \in 1 .. n : t[i] \in Symbols
        BY <1>5, <1>8, <3>4, ElementOfSeq
      <4>2. /\ SubSeq(t, 1, n) \in Seq(Symbols) /\ Len(SubSeq(t, 1, n)) = n
            /\ \A i \in 1 .. n : SubSeq(t, 1, n)[i] = t[i]
        BY <1>8, <3>4, <4>1, SubSeqProperties
      <4> QED BY <1>8, <3>4, <4>2 DEF Begins
    <3>6. Begins(e, Parse(t).content)
      BY <1>5, <3>3, <3>5, ParseBegins
    <3>7. Parse(t).content = meant
      BY <1>5
    <3>8. e \in Seq(Told)
      BY <1>8, <3>2 DEF Shown
    <3>9. IsPrefix(e, meant)
      BY <2>2, <3>6, <3>7, <3>8, BeginsIsPrefix
    <3> QED BY <1>2, <1>3, <1>4, <1>10, <3>1, <3>2, <3>9
  <2>4. CASE Parse(raw).content # raw
    <3>1. Parses(raw)
      BY <2>4, ParseIs
    <3>2. stored.content = meant
      BY <1>5, <1>7, <2>1, <2>4, <3>1
    <3>3. Begins(meant, meant)
      BY <2>2 DEF Begins
    <3>4. IsPrefix(meant, meant)
      BY <2>2, <3>3, BeginsIsPrefix
    <3> QED BY <1>2, <1>3, <1>4, <1>10, <3>2, <3>4
  <2> QED BY <2>3, <2>4
<1>11. CASE read # Len(t) /\ emitted = <<>>
  BY <1>4, <1>11
<1> QED BY <1>9, <1>10, <1>11

(***************************************************************************)
(* parse_completion: a well-formed reply of any length that arrives whole  *)
(* is stored as what the model meant and as the answer to what it named;   *)
(* one that breaks off after something was shown is stored as a beginning  *)
(* of it.                                                                  *)
(***************************************************************************)
THEOREM TheAnswerIsKept == Spec => []AnswerKept
<1>1. Init => AnswerInv
  BY InitInv DEF AnswerInv, Init
<1> QED BY <1>1, NextAnswerInv, InvKeepsAnswer, PTL DEF Spec
===============================================================================
