-------------------------- MODULE TransportProofs --------------------------
(***************************************************************************)
(* Proofs about Channel, with windows of any size and any number of them:  *)
(* it is a queue, and what is acknowledged was received.                   *)
(*                                                                         *)
(* The invariant says where everything is.  Messages follow one another    *)
(* without a gap; k of them are dispatched; the receiver stands at the     *)
(* number of the last command of the k-th, and what it holds are later     *)
(* messages, of the next windows, without the commands that are missing.   *)
(* Every command sent is outstanding or was taken in.  And nothing is so   *)
(* far from anything else that two numbers could be taken for each other:  *)
(* the newest command is at most Free windows after the last dispatched    *)
(* and after every outstanding one, and a datagram of any other command is *)
(* forgotten soon enough.                                                  *)
(***************************************************************************)
EXTENDS MCTransport, TLAPS, FiniteSetTheorems, NaturalsInduction, WellFoundedInduction

-----------------------------------------------------------------------------
(* Steps that are repeated.                                                 *)

\* Numbers have a least one.
LEMMA LeastIn ==
  ASSUME NEW S \in SUBSET Nat, S # {}
  PROVE  \E p \in S : \A q \in S : p <= q
<1> DEFINE R == {pair \in Nat \X Nat : pair[1] < pair[2]}
<1>1. IsWellFoundedOn(R, Nat)
  BY NatLessThanWellFounded DEF OpToRel
<1>2. \A p, q \in S : ~(<<q, p>> \in R) => p <= q
  OBVIOUS
<1> HIDE DEF R
<1>3. \E p \in S : \A q \in S : ~(<<q, p>> \in R)
  BY <1>1, WFMin
<1> QED BY <1>2, <1>3

LEMMA SetInduction ==
  ASSUME NEW S, 0 \in S, \A n \in Nat : n \in S => n + 1 \in S
  PROVE  Nat \subseteq S
<1> SUFFICES ASSUME ~ (Nat \subseteq S) PROVE FALSE
  OBVIOUS
<1> DEFINE T == Nat \ S
<1>1. PICK x \in T : \A y \in T : x <= y
  <2> HIDE DEF T
  <2>1. T \in SUBSET Nat /\ T # {} BY DEF T
  <2> QED BY ONLY <2>1, LeastIn
<1>2. x # 0 BY <1>1
<1>3. x - 1 \in Nat /\ x - 1 \notin T BY <1>1, <1>2
<1> QED BY <1>1, <1>3

\* What is repeated exists: a sequence of results, each made from the one before.
Iterates(g, X, b, N, G) ==
  /\ g \in [0 .. N -> X] /\ g[0] = b
  /\ \A n \in 1 .. N : g[n] = G[<<n, g[n - 1]>>]

LEMMA Iterated ==
  ASSUME NEW X, NEW b \in X, NEW N \in Nat, NEW G \in [(1 .. N) \X X -> X]
  PROVE  \E g : Iterates(g, X, b, N, G)
<1> DEFINE Upto(k) == \E g \in [0 .. k -> X] : g[0] = b /\ \A n \in 1 .. k : g[n] = G[<<n, g[n - 1]>>]
           S == {k \in Nat : k <= N => Upto(k)}
<1>1. 0 \in S
  <2> DEFINE g == [i \in 0 .. 0 |-> b]
  <2>1. g \in [0 .. 0 -> X] /\ g[0] = b OBVIOUS
  <2>2. \A n \in 1 .. 0 : g[n] = G[<<n, g[n - 1]>>] OBVIOUS
  <2> HIDE DEF g
  <2> QED BY <2>1, <2>2
<1>2. \A k \in Nat : k \in S => k + 1 \in S
  <2> SUFFICES ASSUME NEW k \in Nat, Upto(k), k + 1 <= N PROVE Upto(k + 1)
    OBVIOUS
  <2>1. PICK g \in [0 .. k -> X] : g[0] = b /\ \A n \in 1 .. k : g[n] = G[<<n, g[n - 1]>>]
    OBVIOUS
  <2> DEFINE h == [i \in 0 .. k + 1 |-> IF i = k + 1 THEN G[<<k + 1, g[k]>>] ELSE g[i]]
  <2>2. g[k] \in X /\ k + 1 \in 1 .. N OBVIOUS
  <2>3. G[<<k + 1, g[k]>>] \in X BY <2>2
  <2>4. h \in [0 .. k + 1 -> X] /\ h[0] = b BY <2>1, <2>3
  <2>5. ASSUME NEW n \in 1 .. k + 1 PROVE h[n] = G[<<n, h[n - 1]>>]
    <3>1. CASE n = k + 1
      <4>1. h[n] = G[<<n, g[k]>>] BY <3>1
      <4>2. h[n - 1] = g[k] /\ n - 1 = k BY <3>1
      <4> QED BY <4>1, <4>2
    <3>2. CASE n \in 1 .. k
      <4>1. h[n] = g[n] /\ h[n - 1] = g[n - 1] BY <3>2
      <4> QED BY <4>1, <3>2, <2>1
    <3> QED BY <3>1, <3>2
  <2> HIDE DEF h
  <2> QED BY <2>4, <2>5
<1> HIDE DEF S
<1>3. Nat \subseteq S
  <2>1. 0 \in S /\ \A k \in Nat : k \in S => k + 1 \in S BY <1>1, <1>2
  <2> QED BY ONLY <2>1, SetInduction
<1>4. Upto(N) BY <1>3 DEF S
<1> QED BY <1>4 DEF Iterates

\* And what every step keeps, all results have.
LEMMA StepByStep ==
  ASSUME NEW X, NEW N \in Nat, NEW f, f[0] \in X,
         \A n \in 1 .. N : f[n - 1] \in X => f[n] \in X
  PROVE  \A n \in 0 .. N : f[n] \in X
<1> DEFINE S == {n \in Nat : n <= N => f[n] \in X}
<1>1. 0 \in S OBVIOUS
<1>2. \A n \in Nat : n \in S => n + 1 \in S
  <2> SUFFICES ASSUME NEW n \in Nat, n \in S, n + 1 <= N PROVE f[n + 1] \in X
    OBVIOUS
  <2>1. n + 1 \in 1 .. N /\ (n + 1) - 1 = n OBVIOUS
  <2> QED BY <2>1
<1> HIDE DEF S
<1>3. Nat \subseteq S BY ONLY <1>1, <1>2, SetInduction
<1> QED BY <1>3 DEF S

-----------------------------------------------------------------------------
(* Arithmetic of numbers that wrap. *)

LEMMA Euclid ==
  ASSUME NEW a \in Nat, NEW m \in Nat \ {0}
  PROVE  /\ a \div m \in Nat /\ a % m \in 0 .. m - 1
         /\ a = (a \div m) * m + (a % m)
<1>1. a \in Int /\ m \in Int /\ m > 0 /\ a >= 0
  OBVIOUS
<1>2. a \div m \in Int /\ a \div m >= 0
  BY <1>1
<1>3. a % m \in 0 .. m - 1
  BY <1>1
<1> DEFINE q == a \div m
           r == a % m
<1>4. r = a - q * m
  BY <1>1
<1>5. q \in Nat /\ r \in 0 .. m - 1
  BY <1>2, <1>3
<1> HIDE DEF q, r
<1>6. a = q * m + r
  BY <1>4, <1>5
<1> QED BY <1>5, <1>6 DEF q, r

LEMMA Euclid2 ==
  ASSUME NEW m \in Nat \ {0}, NEW q \in Nat, NEW r \in 0 .. m - 1
  PROVE  (q * m + r) \div m = q /\ (q * m + r) % m = r
<1> DEFINE a == q * m + r
<1>1. a \in Nat
  OBVIOUS
<1> DEFINE p == a \div m
           s == a % m
<1>2. p \in Nat /\ s \in 0 .. m - 1 /\ a = p * m + s
  BY <1>1, Euclid
<1> HIDE DEF p, s
<1>3. q * m + r = p * m + s
  BY <1>2
<1>4. ~ (p >= q + 1)
  <2> SUFFICES ASSUME p >= q + 1 PROVE FALSE
    OBVIOUS
  <2>1. PICK d \in Nat : p = q + 1 + d
    <3>1. p - q - 1 \in Nat BY <1>2
    <3> QED BY <3>1, <1>2
  <2>2. p * m = q * m + m + d * m
    BY <2>1, <1>2
  <2>3. d * m >= 0 
    BY <2>1
  <2> QED BY <1>3, <2>2, <2>3, <1>2
<1>5. ~ (q >= p + 1)
  <2> SUFFICES ASSUME q >= p + 1 PROVE FALSE
    OBVIOUS
  <2>1. PICK d \in Nat : q = p + 1 + d
    <3>1. q - p - 1 \in Nat BY <1>2
    <3> QED BY <3>1, <1>2
  <2>2. q * m = p * m + m + d * m
    BY <2>1, <1>2
  <2>3. d * m >= 0 
    BY <2>1
  <2> QED BY <1>3, <2>2, <2>3, <1>2
<1>6. p = q BY <1>2, <1>4, <1>5
<1>7. s = r BY <1>6, <1>3, <1>2
<1> QED BY <1>6, <1>7 DEF p, s

LEMMA Sizes ==
  /\ WindowSize \in Nat \ {0} /\ Windows \in Nat \ {0} /\ Wrap \in Nat \ {0}
  /\ Windows = 2 * Free /\ Wrap = Windows * WindowSize /\ Free \in Nat /\ Free > 2
  /\ Start \in Nat
<1>1. Windows \in Nat \ {0} /\ WindowSize \in Nat \ {0} BY ChannelAssumption DEF Windows
<1>2. \A a, b \in Nat \ {0} : a * b \in Nat \ {0} OBVIOUS
<1>3. Wrap \in Nat \ {0} BY <1>1, <1>2 DEF Wrap
<1> QED BY <1>1, <1>3, ChannelAssumption DEF Wrap, Windows

\* The window of a number that does not wrap.
Round(n) == n \div WindowSize

LEMMA RoundIs ==
  ASSUME NEW n \in Nat
  PROVE  /\ Round(n) \in Nat /\ Round(n) * WindowSize <= n
         /\ n < Round(n) * WindowSize + WindowSize
<1>1. WindowSize \in Nat \ {0} BY Sizes
<1> DEFINE q == n \div WindowSize
           r == n % WindowSize
<1>2. q \in Nat /\ r \in 0 .. WindowSize - 1 /\ n = q * WindowSize + r
  BY <1>1, Euclid
<1> HIDE DEF q, r
<1>3. q * WindowSize \in Nat BY <1>1, <1>2
<1>4. q * WindowSize <= n /\ n < q * WindowSize + WindowSize
  BY <1>1, <1>2, <1>3
<1> QED BY <1>2, <1>4 DEF Round, q

LEMMA RoundOf ==
  ASSUME NEW n \in Nat, NEW q \in Nat, q * WindowSize <= n, n < q * WindowSize + WindowSize
  PROVE  Round(n) = q
<1>1. WindowSize \in Nat \ {0} BY Sizes
<1> DEFINE s == q * WindowSize
           r == n - s
<1>2. s \in Nat BY <1>1
<1> HIDE DEF s
<1>3. s <= n /\ n < s + WindowSize BY DEF s
<1>4. r \in 0 .. WindowSize - 1 /\ n = s + r BY <1>1, <1>2, <1>3
<1> HIDE DEF r
<1>5. n = q * WindowSize + r BY <1>4 DEF s
<1> QED BY <1>1, <1>4, <1>5, Euclid2 DEF Round

\* Numbers in order are in windows in order; and not many windows apart.
LEMMA RoundGrows ==
  ASSUME NEW m \in Nat, NEW n \in Nat, m <= n
  PROVE  Round(m) <= Round(n)
<1> DEFINE a == Round(m)
           b == Round(n)
<1>1. WindowSize \in Nat \ {0} BY Sizes
<1>2. a \in Nat /\ b \in Nat /\ a * WindowSize <= m /\ n < b * WindowSize + WindowSize
  BY RoundIs
<1> HIDE DEF a, b
<1>3. SUFFICES ASSUME ~ (a <= b) PROVE FALSE
  BY DEF a, b
<1>4. PICK d \in Nat : a = b + 1 + d
  <2>1. a - b - 1 \in Nat BY <1>2, <1>3
  <2> QED BY <2>1, <1>2
<1>5. a * WindowSize = b * WindowSize + WindowSize + d * WindowSize
  BY <1>1, <1>2, <1>4
<1>6. d * WindowSize \in Nat /\ a * WindowSize \in Nat /\ b * WindowSize \in Nat BY <1>1, <1>2
<1> QED BY <1>1, <1>2, <1>5, <1>6

LEMMA RoundPlus ==
  ASSUME NEW n \in Nat, NEW k \in Nat
  PROVE  Round(n + k * WindowSize) = Round(n) + k
<1> DEFINE a == Round(n)
           e == k * WindowSize
<1>1. WindowSize \in Nat \ {0} BY Sizes
<1>2. a \in Nat /\ a * WindowSize <= n /\ n < a * WindowSize + WindowSize BY RoundIs
<1>3. e \in Nat /\ a * WindowSize \in Nat /\ (a + k) * WindowSize = a * WindowSize + e BY <1>1, <1>2
<1> HIDE DEF a, e
<1>4. (a + k) * WindowSize <= n + e /\ n + e < (a + k) * WindowSize + WindowSize /\ n + e \in Nat /\ a + k \in Nat
  BY <1>1, <1>2, <1>3
<1>5. Round(n + e) = a + k BY <1>4, RoundOf
<1> QED BY <1>5 DEF a, e

LEMMA RoundsApart ==
  ASSUME NEW m \in Nat, NEW n \in Nat, NEW k \in Nat, n - m <= k * WindowSize
  PROVE  Round(n) <= Round(m) + k
<1> DEFINE e == k * WindowSize
<1>1. e \in Nat BY Sizes
<1>2. Round(m + e) = Round(m) + k BY RoundPlus
<1>3. n - m <= e OBVIOUS
<1> HIDE DEF e
<1>4. n <= m + e /\ m + e \in Nat BY <1>1, <1>3
<1>5. Round(n) <= Round(m + e) BY <1>4, RoundGrows
<1> QED BY <1>2, <1>5

\* The other way round: close windows, close numbers.
LEMMA NumbersApart ==
  ASSUME NEW m \in Nat, NEW n \in Nat, NEW k \in Nat, Round(n) <= Round(m) + k
  PROVE  n - m < k * WindowSize + WindowSize
<1> DEFINE a == Round(m)
           b == Round(n)
           e == k * WindowSize
<1>1. WindowSize \in Nat \ {0} BY Sizes
<1>2. a \in Nat /\ b \in Nat /\ a * WindowSize <= m /\ n < b * WindowSize + WindowSize
  BY RoundIs
<1>3. b <= a + k OBVIOUS
<1> HIDE DEF a, b
<1>4. PICK d \in Nat : b + d = a + k
  <2>1. a + k - b \in Nat BY <1>2, <1>3
  <2> QED BY <2>1, <1>2
<1>5. b * WindowSize + d * WindowSize = a * WindowSize + e
  <2>1. (b + d) * WindowSize = (a + k) * WindowSize BY <1>4
  <2>2. (b + d) * WindowSize = b * WindowSize + d * WindowSize BY <1>1, <1>2
  <2>3. (a + k) * WindowSize = a * WindowSize + k * WindowSize BY <1>1, <1>2
  <2> QED BY <2>1, <2>2, <2>3
<1>6. d * WindowSize \in Nat /\ a * WindowSize \in Nat /\ b * WindowSize \in Nat /\ e \in Nat BY <1>1, <1>2
<1> HIDE DEF e
<1>7. n - m < e + WindowSize BY <1>1, <1>2, <1>5, <1>6
<1> QED BY <1>7 DEF e

LEMMA WireIs ==
  ASSUME NEW n \in Nat
  PROVE  /\ Wire(n) \in 0 .. Wrap - 1
         /\ \E q \in Nat : n = q * Wrap + Wire(n) /\ Round(n) = q * Windows + Window(n)
         /\ Window(n) = Round(Wire(n)) /\ Window(n) \in 0 .. Windows - 1
<1>1. Wrap \in Nat \ {0} /\ WindowSize \in Nat \ {0} /\ Windows \in Nat \ {0} BY Sizes
<1> DEFINE q == n \div Wrap
           r == n % Wrap
<1>2. q \in Nat /\ r \in 0 .. Wrap - 1 /\ n = q * Wrap + r BY <1>1, Euclid
<1>3. Wire(n) = r BY DEF Wire
<1> HIDE DEF q, r
<1>4. q * Wrap = (q * Windows) * WindowSize
  <2>1. Wrap = Windows * WindowSize BY Sizes
  <2> QED BY <1>1, <1>2, <2>1
<1> DEFINE k == q * Windows
<1>5. k \in Nat /\ r \in Nat BY <1>1, <1>2
<1> HIDE DEF k
<1>6. n = r + k * WindowSize BY <1>1, <1>2, <1>4, <1>5 DEF k
<1>7. Round(n) = Round(r) + k BY <1>5, <1>6, RoundPlus
<1>8. Window(n) = Round(r) BY <1>3 DEF Window, Round
<1>9. Round(r) \in 0 .. Windows - 1
  <2> DEFINE a == Round(r)
  <2>1. a \in Nat /\ a * WindowSize <= r BY <1>5, RoundIs
  <2> HIDE DEF a
  <2>2. SUFFICES ASSUME a >= Windows PROVE FALSE BY <1>1, <2>1 DEF a
  <2>3. PICK d \in Nat : a = Windows + d
    <3>1. a - Windows \in Nat BY <1>1, <2>1, <2>2
    <3> QED BY <3>1, <1>1, <2>1
  <2>4. a * WindowSize = Windows * WindowSize + d * WindowSize BY <1>1, <2>3
  <2>5. Wrap = Windows * WindowSize BY Sizes
  <2>6. d * WindowSize \in Nat /\ a * WindowSize \in Nat BY <1>1, <2>1
  <2>7. a * WindowSize >= Wrap BY <1>1, <2>4, <2>5, <2>6
  <2> QED BY <1>1, <1>2, <2>1, <2>6, <2>7
<1>10. n = q * Wrap + Wire(n) /\ Round(n) = q * Windows + Window(n)
  <2>1. Round(r) \in Nat BY <1>9
  <2>2. Round(n) = k + Window(n) BY <1>5, <1>7, <1>8, <2>1
  <2> QED BY <1>2, <1>3, <2>2 DEF k
<1> QED BY <1>2, <1>3, <1>8, <1>9, <1>10

\* What has the same number on the wire is the same, or a round away.
LEMMA SameWire ==
  ASSUME NEW m \in Nat, NEW n \in Nat, Wire(m) = Wire(n), m - n < Wrap, n - m < Wrap
  PROVE  m = n
<1>1. Wrap \in Nat \ {0} BY Sizes
<1> DEFINE w == Wire(n)
<1>2. PICK p \in Nat : m = p * Wrap + w BY WireIs
<1>3. PICK q \in Nat : n = q * Wrap + w BY WireIs
<1>4. w \in Nat BY WireIs
<1> HIDE DEF w
<1>5. ASSUME NEW a \in Nat, NEW b \in Nat, a >= b + 1 PROVE a * Wrap - b * Wrap >= Wrap
  <2>1. PICK d \in Nat : a = b + 1 + d
    <3>1. a - b - 1 \in Nat BY <1>5
    <3> QED BY <3>1
  <2>2. a * Wrap = b * Wrap + Wrap + d * Wrap BY <1>1, <2>1
  <2>3. d * Wrap \in Nat /\ b * Wrap \in Nat BY <1>1
  <2> QED BY <1>1, <2>2, <2>3
<1>6. p * Wrap \in Nat /\ q * Wrap \in Nat BY <1>1
<1>7. ~ (p >= q + 1)
  <2> SUFFICES ASSUME p >= q + 1 PROVE FALSE OBVIOUS
  <2>1. p * Wrap - q * Wrap >= Wrap BY <1>5
  <2> QED BY <1>1, <1>2, <1>3, <1>4, <1>6, <2>1
<1>8. ~ (q >= p + 1)
  <2> SUFFICES ASSUME q >= p + 1 PROVE FALSE OBVIOUS
  <2>1. q * Wrap - p * Wrap >= Wrap BY <1>5
  <2> QED BY <1>1, <1>2, <1>3, <1>4, <1>6, <2>1
<1>9. p = q BY <1>7, <1>8
<1> QED BY <1>2, <1>3, <1>9

LEMMA WirePlus ==
  ASSUME NEW n \in Nat, NEW k \in Nat
  PROVE  /\ (Wire(n) + k) % Wrap = Wire(n + k)
         /\ Wire(n + Wrap) = Wire(n)
<1>1. Wrap \in Nat \ {0} BY Sizes
<1>2. PICK q \in Nat : n = q * Wrap + Wire(n) BY WireIs
<1> DEFINE w == Wire(n)
<1>3. w \in 0 .. Wrap - 1 BY WireIs
<1>4. n = q * Wrap + w BY <1>2
<1> HIDE DEF w
<1> DEFINE p == (w + k) \div Wrap
           r == (w + k) % Wrap
<1>5. w + k \in Nat BY <1>1, <1>3
<1>6. p \in Nat /\ r \in 0 .. Wrap - 1 /\ w + k = p * Wrap + r BY <1>1, <1>5, Euclid
<1>7. r = (w + k) % Wrap OBVIOUS
<1> HIDE DEF p, r
<1>8. n + k = (q + p) * Wrap + r
  <2>1. (q + p) * Wrap = q * Wrap + p * Wrap BY <1>1, <1>6
  <2>2. q * Wrap \in Nat /\ p * Wrap \in Nat BY <1>1, <1>6
  <2> QED BY <1>1, <1>3, <1>4, <1>6, <2>1, <2>2
<1>9. q + p \in Nat BY <1>6
<1>10. Wire(n + k) = r BY <1>1, <1>6, <1>8, <1>9, Euclid2 DEF Wire
<1>11. n + Wrap = (q + 1) * Wrap + w
  <2>1. (q + 1) * Wrap = q * Wrap + Wrap /\ q * Wrap \in Nat BY <1>1
  <2> QED BY <1>1, <1>3, <1>4, <2>1
<1>12. q + 1 \in Nat OBVIOUS
<1>13. Wire(n + Wrap) = w
  <2>1. ((q + 1) * Wrap + w) % Wrap = w BY <1>1, <1>3, <1>12, Euclid2
  <2>2. Wire(n + Wrap) = (n + Wrap) % Wrap BY DEF Wire
  <2> QED BY ONLY <1>11, <2>1, <2>2
<1> QED BY <1>7, <1>10, <1>13 DEF w

\* The windows ahead are those that numbers that do not wrap are ahead.
LEMMA AheadIs ==
  ASSUME NEW m \in Nat, NEW n \in Nat, m <= n, n - m < Wrap
  PROVE  Ahead(Wire(n), Wire(m)) = Round(n) - Round(m)
<1>1. Wrap \in Nat \ {0} /\ Windows \in Nat \ {0} BY Sizes
<1>2. PICK p \in Nat : m = p * Wrap + Wire(m) /\ Round(m) = p * Windows + Window(m) BY WireIs
<1>3. PICK q \in Nat : n = q * Wrap + Wire(n) /\ Round(n) = q * Windows + Window(n) BY WireIs
<1> DEFINE x == Wire(m)
           y == Wire(n)
           u == Window(m)
           v == Window(n)
<1>4. x \in 0 .. Wrap - 1 /\ y \in 0 .. Wrap - 1 /\ u \in Nat /\ v \in Nat BY WireIs
<1>5. Ahead(y, x) = v + (IF y < x THEN Windows ELSE 0) - u BY DEF Ahead, Window
<1>6. m = p * Wrap + x /\ Round(m) = p * Windows + u /\ n = q * Wrap + y /\ Round(n) = q * Windows + v
  BY <1>2, <1>3
<1> HIDE DEF x, y, u, v
<1>7. p * Wrap \in Nat /\ q * Wrap \in Nat /\ p * Windows \in Nat /\ q * Windows \in Nat BY <1>1
<1>8. ASSUME NEW a \in Nat, NEW b \in Nat, a >= b PROVE a * Wrap >= b * Wrap
  <2>1. PICK d \in Nat : a = b + d
    <3>1. a - b \in Nat BY <1>8
    <3> QED BY <3>1
  <2>2. a * Wrap = b * Wrap + d * Wrap /\ d * Wrap \in Nat /\ b * Wrap \in Nat BY <1>1, <2>1
  <2> QED BY <2>2
<1>9. (p + 1) * Wrap = p * Wrap + Wrap /\ (p + 2) * Wrap = p * Wrap + Wrap + Wrap
      /\ (p + 1) * Windows = p * Windows + Windows /\ (q + 1) * Wrap = q * Wrap + Wrap
  BY <1>1
<1>10. q < p + 2
  <2> SUFFICES ASSUME q >= p + 2 PROVE FALSE OBVIOUS
  <2>1. q * Wrap >= (p + 2) * Wrap BY <1>8
  <2> QED BY <2>1, <1>1, <1>4, <1>6, <1>7, <1>9
<1>11. p <= q
  <2> SUFFICES ASSUME p >= q + 1 PROVE FALSE OBVIOUS
  <2>1. p * Wrap >= (q + 1) * Wrap BY <1>8
  <2> QED BY <2>1, <1>1, <1>4, <1>6, <1>7, <1>9
<1>12. CASE q = p
  <2>1. ~ (y < x) BY <1>4, <1>6, <1>7, <1>12
  <2>2. Ahead(y, x) = v - u BY <1>4, <1>5, <2>1
  <2>3. Round(n) - Round(m) = v - u BY <1>4, <1>6, <1>7, <1>12
  <2> QED BY <2>2, <2>3 DEF x, y
<1>13. CASE q = p + 1
  <2>1. y < x BY <1>1, <1>4, <1>6, <1>7, <1>9, <1>13
  <2>2. Ahead(y, x) = v + Windows - u BY <1>4, <1>5, <2>1
  <2>3. q * Windows = p * Windows + Windows BY <1>9, <1>13
  <2>4. Round(n) - Round(m) = v + Windows - u BY <1>1, <1>4, <1>6, <1>7, <2>3
  <2> QED BY <2>2, <2>4 DEF x, y
<1> QED BY <1>10, <1>11, <1>12, <1>13

\* What is behind is taken for what is a round further.
LEMMA AheadOld ==
  ASSUME NEW m \in Nat, NEW n \in Nat, n < m, m - n <= Wrap
  PROVE  Ahead(Wire(n), Wire(m)) = Round(n) + Windows - Round(m)
<1>1. Wrap \in Nat \ {0} /\ Windows \in Nat /\ Wrap = Windows * WindowSize /\ WindowSize \in Nat \ {0}
  BY Sizes
<1>2. n + Wrap \in Nat /\ m <= n + Wrap /\ (n + Wrap) - m < Wrap BY <1>1
<1>3. Ahead(Wire(n + Wrap), Wire(m)) = Round(n + Wrap) - Round(m) BY <1>2, AheadIs
<1>4. Wire(n + Wrap) = Wire(n) BY WirePlus
<1>5. Round(n + Windows * WindowSize) = Round(n) + Windows BY <1>1, RoundPlus
<1>6. Round(n + Wrap) = Round(n) + Windows BY ONLY <1>1, <1>5
<1>7. Ahead(Wire(n), Wire(m)) = Round(n + Wrap) - Round(m) BY ONLY <1>3, <1>4, Zenon
<1>8. Round(n) \in Nat /\ Round(m) \in Nat BY RoundIs
<1> QED BY ONLY <1>1, <1>6, <1>7, <1>8

-----------------------------------------------------------------------------
(* Messages: one after the other, and every command belongs to one.        *)
Sized == Counts \cup {1}

LEMMA SizedIs ==
  ASSUME NEW c \in Sized
  PROVE  /\ c \in Nat \ {0} /\ c <= WindowSize /\ MaxAge + c <= (Free + 1) * WindowSize + 2
         /\ MaxAge \in Nat
BY ChannelAssumption, TransportAssumption DEF Sized

\* The last command of the first k messages.
Reached(s, k) == IF k = 0 THEN Start ELSE s[k].first + s[k].count - 1

Holds(m, n) == m.first <= n /\ n < m.first + m.count

Orderly(s) ==
  /\ s \in Seq([first : Nat, count : Sized])
  /\ \A i \in 1 .. Len(s) : s[i].first = Reached(s, i - 1) + 1
  /\ \A i \in 1 .. Len(s) : \A j \in 0 .. i - 1 : Reached(s, j) < s[i].first
  /\ \A i \in 0 .. Len(s) : Start <= Reached(s, i)
  /\ \A n \in Start + 1 .. Reached(s, Len(s)) : \E i \in 1 .. Len(s) : Holds(s[i], n)

LEMMA OrderlyIs ==
  ASSUME NEW s, Orderly(s)
  PROVE  /\ Len(s) \in Nat
         /\ \A i \in 1 .. Len(s) : s[i] \in [first : Nat, count : Sized] /\ s[i].first \in Nat
                                   /\ s[i].count \in Nat \ {0} /\ s[i].count \in Sized
         /\ \A k \in 0 .. Len(s) : Reached(s, k) \in Nat
         /\ \A k \in 1 .. Len(s) : Reached(s, k) = s[k].first + s[k].count - 1
<1>1. Len(s) \in Nat BY DEF Orderly
<1>2. ASSUME NEW i \in 1 .. Len(s)
      PROVE  s[i] \in [first : Nat, count : Sized] /\ s[i].first \in Nat
             /\ s[i].count \in Nat \ {0} /\ s[i].count \in Sized
  <2> DEFINE M == [first : Nat, count : Sized]
  <2>0. s \in Seq(M) BY DEF Orderly
  <2>1. s[i] \in M
    <3> HIDE DEF M
    <3> QED BY <2>0
  <2>2. s[i].count \in Sized BY <2>1
  <2> QED BY <2>1, <2>2, SizedIs
<1>3. \A k \in 0 .. Len(s) : Reached(s, k) \in Nat
  <2> TAKE k \in 0 .. Len(s)
  <2>1. CASE k = 0 BY <2>1, Sizes DEF Reached
  <2>2. CASE k # 0 BY <2>2, <1>1, <1>2 DEF Reached
  <2> QED BY <2>1, <2>2
<1>4. \A k \in 1 .. Len(s) : Reached(s, k) = s[k].first + s[k].count - 1
  BY <1>1 DEF Reached
<1> QED BY <1>1, <1>2, <1>3, <1>4

\* A message is among the first k, or comes after them.
LEMMA Parted ==
  ASSUME NEW s, Orderly(s), NEW i \in 1 .. Len(s), NEW k \in 0 .. Len(s)
  PROVE  /\ i <= k => s[i].first + s[i].count - 1 <= Reached(s, k)
         /\ i > k => Reached(s, k) < s[i].first
<1>1. Len(s) \in Nat /\ s[i].first \in Nat /\ s[i].count \in Nat BY OrderlyIs
<1>2. CASE i = k
  BY <1>1, <1>2 DEF Reached
<1>3. CASE i < k
  <2>1. k \in 1 .. Len(s) /\ i \in 0 .. k - 1 BY <1>1, <1>3
  <2>2. Reached(s, i) < s[k].first BY <2>1 DEF Orderly
  <2>3. Reached(s, i) = s[i].first + s[i].count - 1 /\ Reached(s, k) = s[k].first + s[k].count - 1
        /\ s[k].first \in Nat /\ s[k].count \in Nat \ {0}
    BY <2>1, OrderlyIs
  <2> QED BY <1>1, <1>3, <2>2, <2>3, SMTT(30)
<1>4. CASE i > k
  <2>1. k \in 0 .. i - 1 BY <1>1, <1>4
  <2> QED BY <2>1, <1>4, <1>1 DEF Orderly
<1> QED BY <1>1, <1>2, <1>3, <1>4

LEMMA ReachedGrows ==
  ASSUME NEW s, Orderly(s), NEW k \in 0 .. Len(s), NEW l \in 0 .. Len(s), k <= l
  PROVE  Reached(s, k) <= Reached(s, l)
<1>1. Len(s) \in Nat /\ Reached(s, k) \in Nat /\ Reached(s, l) \in Nat BY OrderlyIs
<1>2. CASE k = l BY <1>1, <1>2
<1>3. CASE k < l
  <2>1. l \in 1 .. Len(s) BY <1>1, <1>3
  <2>2. Reached(s, k) < s[l].first BY <2>1, <1>3, Parted
  <2>3. Reached(s, l) = s[l].first + s[l].count - 1 /\ s[l].first \in Nat /\ s[l].count \in Nat \ {0}
    BY <2>1, OrderlyIs
  <2> QED BY <1>1, <2>2, <2>3
<1> QED BY <1>1, <1>2, <1>3

LEMMA InOneMessage ==
  ASSUME NEW s, Orderly(s), NEW i \in 1 .. Len(s), NEW j \in 1 .. Len(s), NEW n \in Nat,
         Holds(s[i], n), Holds(s[j], n)
  PROVE  i = j
<1>1. Len(s) \in Nat /\ s[i].first \in Nat /\ s[j].first \in Nat
      /\ s[i].count \in Nat /\ s[j].count \in Nat
  BY OrderlyIs
<1>2. ~ (i < j)
  <2> SUFFICES ASSUME i < j PROVE FALSE OBVIOUS
  <2>1. i \in 0 .. Len(s) /\ Reached(s, i) = s[i].first + s[i].count - 1 BY <1>1, OrderlyIs
  <2>2. Reached(s, i) < s[j].first BY <2>1, Parted
  <2> QED BY <1>1, <2>1, <2>2, SMTT(30) DEF Holds
<1>3. ~ (j < i)
  <2> SUFFICES ASSUME j < i PROVE FALSE OBVIOUS
  <2>1. j \in 0 .. Len(s) /\ Reached(s, j) = s[j].first + s[j].count - 1 BY <1>1, OrderlyIs
  <2>2. Reached(s, j) < s[i].first BY <2>1, Parted
  <2> QED BY <1>1, <2>1, <2>2, SMTT(30) DEF Holds
<1> QED BY <1>1, <1>2, <1>3

LEMMA OrderlyAppend ==
  ASSUME NEW s, Orderly(s), NEW c \in Sized, NEW f, f = Reached(s, Len(s)) + 1
  PROVE  /\ Orderly(Append(s, [first |-> f, count |-> c]))
         /\ Len(Append(s, [first |-> f, count |-> c])) = Len(s) + 1
         /\ \A k \in 0 .. Len(s) : Reached(Append(s, [first |-> f, count |-> c]), k) = Reached(s, k)
         /\ \A k \in 1 .. Len(s) : Append(s, [first |-> f, count |-> c])[k] = s[k]
         /\ Reached(Append(s, [first |-> f, count |-> c]), Len(s) + 1) = f + c - 1
<1> DEFINE m == [first |-> f, count |-> c]
           t == Append(s, m)
           L == Len(s)
<1>1. L \in Nat /\ Reached(s, L) \in Nat /\ c \in Nat \ {0} /\ f \in Nat
  BY OrderlyIs, SizedIs
<1>2. m \in [first : Nat, count : Sized] /\ m.first = f /\ m.count = c BY <1>1
<1> HIDE DEF m
<1>3. t \in Seq([first : Nat, count : Sized]) /\ Len(t) = L + 1 /\ t[L + 1] = m
      /\ \A k \in 1 .. L : t[k] = s[k]
  BY <1>1, <1>2 DEF Orderly
<1> HIDE DEF t
<1>4. ASSUME NEW k \in 0 .. L PROVE Reached(t, k) = Reached(s, k)
  BY <1>1, <1>3 DEF Reached
<1>5. Reached(t, L + 1) = f + c - 1 BY <1>1, <1>2, <1>3 DEF Reached
<1>6. \A i \in 1 .. L + 1 : t[i].first = Reached(t, i - 1) + 1
  <2> TAKE i \in 1 .. L + 1
  <2>1. CASE i = L + 1
    <3>1. i - 1 = L /\ L \in 0 .. L BY <1>1, <2>1
    <3> QED BY <2>1, <3>1, <1>2, <1>3, <1>4
  <2>2. CASE i \in 1 .. L
    <3>1. i - 1 \in 0 .. L BY <1>1, <2>2
    <3>2. s[i].first = Reached(s, i - 1) + 1 BY <2>2 DEF Orderly
    <3> QED BY <2>2, <3>1, <3>2, <1>3, <1>4
  <2> QED BY <1>1, <2>1, <2>2
<1>7. \A i \in 1 .. L + 1 : \A j \in 0 .. i - 1 : Reached(t, j) < t[i].first
  <2> TAKE i \in 1 .. L + 1
  <2> TAKE j \in 0 .. i - 1
  <2>1. CASE i = L + 1
    <3>1. j \in 0 .. L /\ L \in 0 .. L /\ j <= L BY <1>1, <2>1
    <3>2. Reached(s, j) <= Reached(s, L) /\ Reached(s, j) \in Nat BY <3>1, ReachedGrows, OrderlyIs
    <3>3. Reached(t, j) = Reached(s, j) /\ t[i].first = f BY <2>1, <3>1, <1>2, <1>3, <1>4
    <3> QED BY <3>2, <3>3, <1>1
  <2>2. CASE i \in 1 .. L
    <3>1. j \in 0 .. L BY <1>1, <2>2
    <3>2. Reached(s, j) < s[i].first BY <2>2 DEF Orderly
    <3> QED BY <2>2, <3>1, <3>2, <1>3, <1>4
  <2> QED BY <1>1, <2>1, <2>2
<1>8. \A i \in 0 .. L + 1 : Start <= Reached(t, i)
  <2> TAKE i \in 0 .. L + 1
  <2>1. CASE i = L + 1
    <3>1. L \in 0 .. L BY <1>1
    <3>2. Start <= Reached(s, L) BY <3>1 DEF Orderly
    <3> QED BY <2>1, <3>2, <1>1, <1>5, Sizes
  <2>2. CASE i \in 0 .. L BY <2>2, <1>4 DEF Orderly
  <2> QED BY <1>1, <2>1, <2>2
<1>9. \A n \in Start + 1 .. f + c - 1 : \E i \in 1 .. L + 1 : Holds(t[i], n)
  <2> TAKE n \in Start + 1 .. f + c - 1
  <2>1. CASE n \in Start + 1 .. Reached(s, L)
    <3>1. PICK i \in 1 .. L : Holds(s[i], n) BY <2>1 DEF Orderly
    <3>2. i \in 1 .. L + 1 /\ t[i] = s[i] BY <1>1, <1>3
    <3> QED BY <3>1, <3>2
  <2>2. CASE n \in f .. f + c - 1
    <3>1. L + 1 \in 1 .. L + 1 /\ Holds(t[L + 1], n) BY <2>2, <1>1, <1>2, <1>3 DEF Holds
    <3> QED BY <3>1
  <2> QED BY <2>1, <2>2, <1>1, Sizes
<1>10. Orderly(t)
  BY <1>1, <1>3, <1>5, <1>6, <1>7, <1>8, <1>9 DEF Orderly
<1> QED BY <1>3, <1>4, <1>5, <1>10 DEF t, m

LEMMA UpcomingIs ==
  ASSUME Orderly(msgs)
  PROVE  Upcoming = Reached(msgs, Len(msgs)) + 1
<1>1. Len(msgs) \in Nat /\ (Len(msgs) = 0 <=> msgs = <<>>) BY DEF Orderly
<1>2. CASE Len(msgs) = 0 BY <1>1, <1>2 DEF Upcoming, Reached
<1>3. CASE Len(msgs) # 0
  <2>1. Len(msgs) \in 1 .. Len(msgs) BY <1>1, <1>3
  <2>2. msgs[Len(msgs)].first \in Nat /\ msgs[Len(msgs)].count \in Nat BY <2>1, OrderlyIs
  <2> QED BY <1>1, <1>3, <2>2 DEF Upcoming, Reached
<1> QED BY <1>2, <1>3

LEMMA MessageIs ==
  ASSUME Orderly(msgs), NEW n \in Start + 1 .. Reached(msgs, Len(msgs))
  PROVE  \E i \in 1 .. Len(msgs) : MessageOf(n) = msgs[i] /\ Holds(msgs[i], n)
<1>1. PICK j \in 1 .. Len(msgs) : Holds(msgs[j], n) BY DEF Orderly
<1>2. DOMAIN msgs = 1 .. Len(msgs) BY DEF Orderly
<1> DEFINE T == {msgs[i] : i \in DOMAIN msgs}
<1>3. MessageOf(n) = CHOOSE m \in T : Holds(m, n) BY DEF MessageOf, Holds
<1>4. msgs[j] \in T BY <1>2
<1>5. \E m \in T : Holds(m, n) BY <1>1, <1>4
<1>6. MessageOf(n) \in T /\ Holds(MessageOf(n), n) BY ONLY <1>3, <1>5
<1> QED BY <1>2, <1>6

LEMMA Spans ==
  ASSUME NEW k \in Nat, k <= 2 * Free
  PROVE  k * WindowSize \in Nat /\ k * WindowSize <= Wrap
<1>1. WindowSize \in Nat \ {0} /\ Windows = 2 * Free /\ Wrap = Windows * WindowSize /\ Windows \in Nat BY Sizes
<1>2. PICK d \in Nat : Windows = k + d
  <2>0. k <= Windows BY <1>1
  <2>1. Windows - k \in Nat /\ Windows = k + (Windows - k) BY <1>1, <2>0
  <2> DEFINE d == Windows - k
  <2>2. d \in Nat /\ Windows = k + d BY <2>1
  <2> HIDE DEF d
  <2> QED BY ONLY <2>2
<1>3. Wrap = k * WindowSize + d * WindowSize BY <1>1, <1>2
<1>4. k * WindowSize \in Nat /\ d * WindowSize \in Nat BY <1>1
<1> QED BY <1>3, <1>4

-----------------------------------------------------------------------------
(* What is held, and what was taken in.                                     *)
PieceType == [seq : Nat, first : Nat, count : Nat, missing : SUBSET Nat]

\* A message after the first k, not too far ahead, whose commands were sent if
\* they are not missing; no command after new was sent.
Piece(h, s, k, new) ==
  /\ h \in PieceType
  /\ \E i \in k + 1 .. Len(s) : s[i].first = h.first /\ s[i].count = h.count
  /\ h.seq = Wire(h.first)
  /\ \A o \in 0 .. h.count - 1 : o \notin h.missing => h.first + o <= new
  /\ Round(h.first) <= Round(Reached(s, k)) + (Free - 2)

HeldSound(H, s, k, new) ==
  /\ IsFiniteSet(H)
  /\ \A h \in H : Piece(h, s, k, new)
  /\ \A h, g \in H : h.first = g.first => h = g

Taken(n, a, H) == n <= a \/ \E h \in H : Holds(h, n) /\ n - h.first \notin h.missing

LEMMA PieceIs ==
  ASSUME NEW s, Orderly(s), NEW k \in 0 .. Len(s), NEW new \in Nat, NEW h, Piece(h, s, k, new)
  PROVE  /\ h.first \in Nat /\ h.count \in Nat \ {0} /\ h.count \in Sized /\ h.missing \subseteq Nat
         /\ Reached(s, k) \in Nat /\ Reached(s, k) < h.first /\ h.first - Reached(s, k) < Wrap
         /\ h.first + h.count - 1 <= Reached(s, Len(s))
<1>1. PICK i \in k + 1 .. Len(s) : s[i].first = h.first /\ s[i].count = h.count BY DEF Piece
<1>2. Len(s) \in Nat /\ Reached(s, k) \in Nat BY OrderlyIs
<1>3. i \in 1 .. Len(s) /\ i > k /\ Len(s) \in 0 .. Len(s) /\ i <= Len(s) BY <1>2
<1>4. h.first \in Nat /\ h.count \in Nat \ {0} /\ h.count \in Sized BY <1>1, <1>3, OrderlyIs
<1>5. Reached(s, k) < h.first BY <1>1, <1>3, Parted
<1>6. h.first + h.count - 1 <= Reached(s, Len(s)) BY <1>1, <1>3, Parted
<1>7. h.first - Reached(s, k) < Wrap
  <2>1. Free - 2 \in Nat /\ Free - 1 \in Nat /\ Free - 1 <= 2 * Free /\ WindowSize \in Nat BY Sizes
  <2>2. Round(h.first) <= Round(Reached(s, k)) + (Free - 2) BY DEF Piece
  <2>3. h.first - Reached(s, k) < (Free - 2) * WindowSize + WindowSize
    BY <1>2, <1>4, <2>1, <2>2, NumbersApart
  <2>4. (Free - 1) * WindowSize \in Nat /\ (Free - 1) * WindowSize <= Wrap BY <2>1, Spans
  <2> DEFINE d == Free - 2
  <2>5. d \in Nat /\ Free - 1 = d + 1 BY <2>1, Sizes
  <2>6. h.first - Reached(s, k) < d * WindowSize + WindowSize /\ (d + 1) * WindowSize <= Wrap
    BY <2>3, <2>4, <2>5
  <2> HIDE DEF d
  <2>7. (d + 1) * WindowSize = d * WindowSize + WindowSize /\ d * WindowSize \in Nat BY <2>1, <2>5
  <2>8. Wrap \in Nat BY Sizes
  <2> QED BY <1>2, <1>4, <2>1, <2>6, <2>7, <2>8, SMTT(30)
<1>8. h.missing \subseteq Nat BY DEF Piece, PieceType
<1> QED BY <1>2, <1>4, <1>5, <1>6, <1>7, <1>8

\* After k messages.
Good(p, s, new) ==
  /\ Len(p.got) <= Len(s) /\ \A i \in 1 .. Len(p.got) : p.got[i] = s[i].first
  /\ p.at = Wire(Reached(s, Len(p.got)))
  /\ Reached(s, Len(p.got)) <= new
  /\ HeldSound(p.held, s, Len(p.got), new)

Dispatches(H) == [held : SUBSET H, at : Nat, got : Seq(Nat)]

LEMMA OneMore ==
  ASSUME NEW s, Orderly(s), NEW new \in Nat, NEW H, NEW p \in Dispatches(H), Good(p, s, new),
         NEW m \in p.held, Ready(m, p.at), NEW g, g = Append(p.got, m.first)
  PROVE  /\ [held |-> p.held \ {m}, at |-> LastOf(m), got |-> g] \in Dispatches(H)
         /\ Good([held |-> p.held \ {m}, at |-> LastOf(m), got |-> g], s, new)
         /\ Len(g) = Len(p.got) + 1 /\ \A i \in 1 .. Len(p.got) : g[i] = p.got[i]
         /\ \A n \in Nat : Taken(n, Reached(s, Len(p.got)), p.held)
                             => Taken(n, Reached(s, Len(g)), p.held \ {m})
<1> DEFINE k == Len(p.got)
           a == Reached(s, k)
           b == Reached(s, k + 1)
           q == [held |-> p.held \ {m}, at |-> LastOf(m), got |-> g]
<1>1. p.got \in Seq(Nat) /\ k \in Nat /\ k \in 0 .. Len(s) /\ Len(s) \in Nat
  BY OrderlyIs DEF Dispatches, Good
<1>2. HeldSound(p.held, s, k, new) /\ p.at = Wire(a) /\ a <= new BY DEF Good
<1>3. Piece(m, s, k, new) BY <1>2 DEF HeldSound
<1>4. m.first \in Nat /\ m.count \in Nat \ {0} /\ a \in Nat /\ a < m.first /\ m.first - a < Wrap
  BY <1>1, <1>3, PieceIs
<1>5. m.missing = {} /\ m.seq = (p.at + 1) % Wrap BY DEF Ready
<1>6. m.seq = Wire(m.first) BY <1>3 DEF Piece
<1>7. m.first = a + 1
  <2>1. (Wire(a) + 1) % Wrap = Wire(a + 1) BY <1>4, WirePlus
  <2>2. Wire(m.first) = Wire(a + 1) BY <1>2, <1>5, <1>6, <2>1
  <2>3. a + 1 \in Nat /\ m.first - (a + 1) < Wrap /\ (a + 1) - m.first < Wrap /\ Wrap \in Nat BY <1>4, Sizes
  <2> QED BY <1>4, <2>2, <2>3, SameWire
<1>8. PICK i \in k + 1 .. Len(s) : s[i].first = m.first /\ s[i].count = m.count BY <1>3 DEF Piece
<1>9. i = k + 1
  <2>1. k + 1 \in 1 .. Len(s) /\ i \in 1 .. Len(s) BY <1>1
  <2>2. s[k + 1].first = a + 1 /\ s[k + 1].count \in Nat \ {0}
    <3>1. (k + 1) - 1 = k BY <1>1
    <3> QED BY <2>1, <3>1, OrderlyIs DEF Orderly
  <2>3. Holds(s[k + 1], a + 1) BY <1>4, <2>2, SMTT(30) DEF Holds
  <2>4. Holds(s[i], a + 1) BY <1>4, <1>7, <1>8 DEF Holds
  <2>5. a + 1 \in Nat BY <1>4
  <2> QED BY <2>1, <2>3, <2>4, <2>5, InOneMessage
<1>10. k + 1 \in 1 .. Len(s) /\ k + 1 \in 0 .. Len(s) /\ b = m.first + m.count - 1 /\ b \in Nat
  BY <1>1, <1>8, <1>9, OrderlyIs
<1>11. LastOf(m) = Wire(b) /\ LastOf(m) \in Nat
  <2>1. m.count - 1 \in Nat BY <1>4
  <2>2. (Wire(m.first) + (m.count - 1)) % Wrap = Wire(m.first + (m.count - 1)) BY <1>4, <2>1, WirePlus
  <2>3. LastOf(m) = (Wire(m.first) + (m.count - 1)) % Wrap BY <1>6 DEF LastOf
  <2>4. b = m.first + (m.count - 1) BY <1>4, <1>10
  <2>5. Wire(b) \in Nat BY <1>10, WireIs, SMTT(30)
  <2> HIDE DEF b
  <2> QED BY ONLY <2>2, <2>3, <2>4, <2>5
<1>12. b <= new
  <2>1. m.count - 1 \in 0 .. m.count - 1 /\ m.count - 1 \notin m.missing BY <1>4, <1>5
  <2>2. m.first + (m.count - 1) <= new BY <1>3, <2>1 DEF Piece
  <2> QED BY <1>4, <1>10, <2>2
<1>13. Len(g) = k + 1 /\ (\A j \in 1 .. k : g[j] = p.got[j]) /\ g[k + 1] = m.first /\ g \in Seq(Nat)
  BY <1>1, <1>4
<1>14. \A j \in 1 .. k + 1 : g[j] = s[j].first
  <2> TAKE j \in 1 .. k + 1
  <2>1. CASE j = k + 1 BY <2>1, <1>8, <1>9, <1>13
  <2>2. CASE j \in 1 .. k BY <2>2, <1>13 DEF Good
  <2> QED BY <2>1, <2>2, <1>1
<1>15. HeldSound(p.held \ {m}, s, k + 1, new)
  <2>1. IsFiniteSet(p.held \ {m}) BY <1>2, FS_Subset DEF HeldSound
  <2>2. \A h, e \in p.held \ {m} : h.first = e.first => h = e BY <1>2 DEF HeldSound
  <2>3. ASSUME NEW h \in p.held \ {m} PROVE Piece(h, s, k + 1, new)
    <3>1. Piece(h, s, k, new) BY <1>2 DEF HeldSound
    <3>2. PICK j \in k + 1 .. Len(s) : s[j].first = h.first /\ s[j].count = h.count BY <3>1 DEF Piece
    <3>3. j # k + 1 BY <3>2, <1>2, <1>8, <1>9 DEF HeldSound
    <3>4. j \in (k + 1) + 1 .. Len(s) BY <3>3, <1>1
    <3>5. h.first \in Nat BY <1>1, <3>1, PieceIs
    <3>6. Round(a) <= Round(b)
      <4>1. a <= b BY <1>4, <1>10
      <4> QED BY <1>4, <1>10, <4>1, RoundGrows
    <3>7. Round(h.first) \in Nat /\ Round(a) \in Nat /\ Round(b) \in Nat
      BY <3>5, <1>4, <1>10, RoundIs
    <3>8. Round(h.first) <= Round(a) + (Free - 2) BY <3>1 DEF Piece
    <3> DEFINE x == Round(h.first)
               y == Round(a)
               z == Round(b)
               d == Free - 2
    <3> HIDE DEF x, y, z, d
    <3>9. x <= z + d
      <4>1. x \in Nat /\ y \in Nat /\ z \in Nat /\ d \in Nat /\ x <= y + d /\ y <= z
        BY <3>6, <3>7, <3>8, Sizes DEF x, y, z, d
      <4> QED BY ONLY <4>1
    <3>10. Round(h.first) <= Round(b) + (Free - 2) BY <3>9 DEF x, z, d
    <3> HIDE DEF b
    <3> QED BY <3>1, <3>2, <3>4, <3>10 DEF Piece, b
  <2> QED BY <2>1, <2>2, <2>3 DEF HeldSound
<1>16. q.held = p.held \ {m} /\ q.at = LastOf(m) /\ q.got = g OBVIOUS
<1>17. q \in Dispatches(H)
  <2>1. p.held \ {m} \in SUBSET H BY DEF Dispatches
  <2> QED BY <2>1, <1>11, <1>13 DEF Dispatches
<1>18. Good(q, s, new)
  <2> HIDE DEF q
  <2>1. Len(q.got) = k + 1 /\ q.held = p.held \ {m} /\ q.at = Wire(b) BY <1>11, <1>13, <1>16
  <2>2. k + 1 <= Len(s) BY <1>10, <1>1
  <2> QED BY <1>12, <1>13, <1>14, <1>15, <1>16, <2>1, <2>2 DEF Good
<1>19. ASSUME NEW n \in Nat, Taken(n, a, p.held) PROVE Taken(n, b, p.held \ {m})
  <2>1. CASE n <= a BY <2>1, <1>4, <1>10, <1>7, SMTT(30) DEF Taken
  <2>2. CASE \E h \in p.held : Holds(h, n) /\ n - h.first \notin h.missing
    <3>1. PICK h \in p.held : Holds(h, n) /\ n - h.first \notin h.missing BY <2>2
    <3>2. CASE h = m
      <4>1. n <= b BY <3>1, <3>2, <1>4, <1>10, SMTT(30) DEF Holds
      <4> QED BY <4>1 DEF Taken
    <3>3. CASE h # m BY <3>1, <3>3 DEF Taken
    <3> QED BY <3>2, <3>3
  <2> QED BY <1>19, <2>1, <2>2 DEF Taken
<1> QED BY <1>13, <1>17, <1>18, <1>19

\* Dispatching: as many of the messages that come next as are complete.
LEMMA DispatchedIs ==
  ASSUME NEW s, Orderly(s), NEW new \in Nat, NEW H, IsFiniteSet(H),
         [held |-> H, at |-> at, got |-> got] \in Dispatches(H),
         Good([held |-> H, at |-> at, got |-> got], s, new)
  PROVE  /\ Dispatched(H) \in Dispatches(H) /\ Good(Dispatched(H), s, new)
         /\ Len(got) <= Len(Dispatched(H).got)
         /\ \A n \in Nat : Taken(n, Reached(s, Len(got)), H)
                             => Taken(n, Reached(s, Len(Dispatched(H).got)), Dispatched(H).held)
<1> DEFINE b == [held |-> H, at |-> at, got |-> got]
           Step(p) == IF \A m \in p.held : ~Ready(m, p.at) THEN p
                      ELSE LET m == CHOOSE m \in p.held : Ready(m, p.at)
                           IN  [held |-> p.held \ {m}, at |-> LastOf(m),
                                got |-> Append(p.got, m.first)]
           N == Cardinality(H)
           f[k \in 0 .. N] == IF k = 0 THEN b ELSE Step(f[k - 1])
           Kept(p) == /\ Good(p, s, new) /\ Len(got) <= Len(p.got)
                      /\ \A n \in Nat : Taken(n, Reached(s, Len(got)), H)
                                          => Taken(n, Reached(s, Len(p.got)), p.held)
           X == {p \in Dispatches(H) : Kept(p)}
           G == [q \in (1 .. N) \X X |-> Step(q[2])]
<1>1. Dispatched(H) = f[N]
  BY DEF Dispatched
<1>2. N \in Nat BY FS_CardinalityType
<1>3. b \in X
  <2>1. b.held = H /\ b.got = got /\ Len(got) \in Nat BY DEF Dispatches
  <2>2. Kept(b) BY <2>1
  <2> HIDE DEF Kept
  <2> QED BY <2>2
<1>4. ASSUME NEW p \in X PROVE Step(p) \in X
  <2>1. CASE \A m \in p.held : ~Ready(m, p.at) BY <2>1
  <2>2. CASE ~ \A m \in p.held : ~Ready(m, p.at)
    <3> DEFINE m == CHOOSE m \in p.held : Ready(m, p.at)
               g == Append(p.got, m.first)
               q == [held |-> p.held \ {m}, at |-> LastOf(m), got |-> g]
    <3>1. \E e \in p.held : Ready(e, p.at) BY <2>2
    <3>2. m \in p.held /\ Ready(m, p.at) BY ONLY <3>1
    <3>3. Step(p) = q BY <2>2
    <3>4. p \in Dispatches(H) /\ Good(p, s, new) /\ Len(got) <= Len(p.got) /\ Kept(p) OBVIOUS
    <3> HIDE DEF m, Step
    <3>5. /\ q \in Dispatches(H) /\ Good(q, s, new)
          /\ Len(g) = Len(p.got) + 1
          /\ \A n \in Nat : Taken(n, Reached(s, Len(p.got)), p.held)
                             => Taken(n, Reached(s, Len(g)), p.held \ {m})
      <4> HIDE DEF g
      <4>1. g = Append(p.got, m.first) BY DEF g
      <4> HIDE DEF Kept
      <4>2. Orderly(s) /\ new \in Nat /\ p \in Dispatches(H) /\ Good(p, s, new) BY <3>4
      <4> QED BY ONLY <3>2, <4>1, <4>2, OneMore, SMTT(30)
    <3>6. q.got = g /\ q.held = p.held \ {m} OBVIOUS
    <3>7. Len(got) \in Nat /\ Len(p.got) \in Nat BY <3>4 DEF Dispatches
    <3> HIDE DEF g, q
    <3>8. Len(got) <= Len(q.got) BY <3>4, <3>5, <3>6, <3>7
    <3>9. \A n \in Nat : Taken(n, Reached(s, Len(got)), H)
                          => Taken(n, Reached(s, Len(q.got)), q.held)
      BY <3>4, <3>5, <3>6, Zenon
    <3>10. Kept(q) BY <3>5, <3>8, <3>9
    <3> HIDE DEF Kept
    <3> QED BY <3>3, <3>5, <3>10
  <2> QED BY <2>1, <2>2
<1> HIDE DEF b, N, X, Step
<1>5. G \in [(1 .. N) \X X -> X] BY <1>4
<1> HIDE DEF G
<1>6. PICK g : Iterates(g, X, b, N, G)
  BY ONLY <1>2, <1>3, <1>5, Iterated
<1>7. \A n \in 0 .. N : g[n] = IF n = 0 THEN b ELSE Step(g[n - 1])
  <2> TAKE n \in 0 .. N
  <2>1. CASE n = 0 BY <2>1, <1>6 DEF Iterates
  <2>2. CASE n # 0
    <3>1. n \in 1 .. N /\ n - 1 \in 0 .. N BY <2>2, <1>2
    <3>2. <<n, g[n - 1]>> \in (1 .. N) \X X BY <3>1, <1>6 DEF Iterates
    <3>3. G[<<n, g[n - 1]>>] = Step(g[n - 1]) BY <3>2 DEF G
    <3> QED BY <2>2, <3>1, <3>3, <1>6 DEF Iterates
  <2> QED BY <2>1, <2>2
<1>8. g = [n \in 0 .. N |-> IF n = 0 THEN b ELSE Step(g[n - 1])]
  BY <1>7, <1>6 DEF Iterates
<1>9. f = [n \in 0 .. N |-> IF n = 0 THEN b ELSE Step(f[n - 1])]
  BY <1>8, Zenon
<1> HIDE DEF f
<1>10. f[0] \in X
  <2>1. 0 \in 0 .. N BY <1>2
  <2>2. f[0] = b BY <1>9, <2>1
  <2> QED BY <2>2, <1>3
<1>11. \A n \in 1 .. N : f[n - 1] \in X => f[n] \in X
  <2> TAKE n \in 1 .. N
  <2>1. n \in 0 .. N /\ n # 0 BY <1>2
  <2>2. f[n] = Step(f[n - 1]) BY <1>9, <2>1
  <2> QED BY <2>2, <1>4
<1>12. \A n \in 0 .. N : f[n] \in X
  BY ONLY <1>2, <1>10, <1>11, StepByStep
<1>13. Dispatched(H) \in X BY <1>1, <1>2, <1>12
<1> DEFINE d == Dispatched(H)
<1>14. d \in X BY <1>13
<1> HIDE DEF d
<1>15. d \in Dispatches(H) /\ Kept(d) BY <1>14 DEF X
<1> QED BY <1>15 DEF d

-----------------------------------------------------------------------------
(* A command that arrives.                                                  *)

\* Young enough to be told from another: not much behind the newest number, or
\* not many windows.
Young(n, new) == new - n < MaxAge \/ Round(new) <= Round(n) + Free

\* The state of the receiver, with everything up to command new sent.
Receiving(new) ==
  /\ Orderly(msgs) /\ new \in Nat /\ new <= Reached(msgs, Len(msgs))
  /\ held \subseteq PieceType /\ got \in Seq(Nat)
  /\ Good([held |-> held, at |-> at, got |-> got], msgs, new)
  /\ Round(new) <= Round(Reached(msgs, Len(got))) + Free

LEMMA ReceivingIs ==
  ASSUME NEW new, Receiving(new)
  PROVE  /\ new \in Nat /\ Len(got) \in Nat /\ Len(got) \in 0 .. Len(msgs) /\ Len(msgs) \in Nat
         /\ at = Wire(Reached(msgs, Len(got))) /\ Reached(msgs, Len(got)) \in Nat
         /\ Reached(msgs, Len(got)) <= new /\ Start <= Reached(msgs, Len(got))
         /\ HeldSound(held, msgs, Len(got), new)
         /\ new - Reached(msgs, Len(got)) < Wrap
<1> DEFINE p == [held |-> held, at |-> at, got |-> got]
           a == Reached(msgs, Len(got))
<1>1. Good(p, msgs, new) /\ p.held = held /\ p.at = at /\ p.got = got BY DEF Receiving
<1> HIDE DEF p
<1>2. Orderly(msgs) /\ got \in Seq(Nat) /\ new \in Nat BY DEF Receiving
<1>3. Len(msgs) \in Nat /\ Len(got) \in Nat /\ Len(got) \in 0 .. Len(msgs)
  BY <1>1, <1>2, OrderlyIs DEF Good
<1>4. at = Wire(a) /\ a <= new /\ HeldSound(held, msgs, Len(got), new) BY <1>1 DEF Good
<1>5. a \in Nat /\ Start <= a BY <1>2, <1>3, OrderlyIs DEF Orderly
<1>6. new - a < Wrap
  <2>1. Free \in Nat /\ Free + 1 \in Nat /\ Free + 1 <= 2 * Free BY Sizes
  <2>2. Round(new) <= Round(a) + Free BY DEF Receiving
  <2>3. new - a < Free * WindowSize + WindowSize BY <1>2, <1>5, <2>1, <2>2, NumbersApart
  <2>4. (Free + 1) * WindowSize <= Wrap BY <2>1, Spans
  <2>5. (Free + 1) * WindowSize = Free * WindowSize + WindowSize /\ Free * WindowSize \in Nat
        /\ WindowSize \in Nat /\ Wrap \in Nat
    BY Sizes
  <2> HIDE DEF a
  <2> QED BY <1>2, <1>5, <2>3, <2>4, <2>5
<1> QED BY <1>2, <1>3, <1>4, <1>5, <1>6

\* A command of a message that was dispatched is not taken for one that comes.
LEMMA OldRefused ==
  ASSUME NEW new, Receiving(new), NEW n \in Start + 1 .. new, Young(n, new),
         NEW i \in 1 .. Len(got), Holds(msgs[i], n), Acceptable(Wire(msgs[i].first))
  PROVE  msgs[i].first = Reached(msgs, Len(got))
<1> DEFINE k == Len(got)
           a == Reached(msgs, k)
           f == msgs[i].first
           c == msgs[i].count
<1>0. Orderly(msgs) BY DEF Receiving
<1>1. new \in Nat /\ k \in 0 .. Len(msgs) /\ Len(msgs) \in Nat /\ at = Wire(a) /\ a \in Nat /\ a <= new
  BY ReceivingIs
<1>2. i \in 1 .. Len(msgs) /\ i <= k BY <1>1
<1>3. f \in Nat /\ c \in Nat \ {0} /\ c \in Sized BY <1>0, <1>2, OrderlyIs
<1>4. f + c - 1 <= a BY <1>0, <1>1, <1>2, Parted
<1>5. n \in Nat /\ f <= n /\ n < f + c BY Sizes DEF Holds
<1>6. c <= WindowSize /\ MaxAge + c <= (Free + 1) * WindowSize + 2 /\ MaxAge \in Nat BY <1>3, SizedIs
<1>7. Free \in Nat /\ WindowSize \in Nat \ {0} /\ (Free + 1) * WindowSize \in Nat BY Sizes
<1> HIDE DEF f, c
<1>8. Round(a) <= Round(f) + (Free + 1)
  <2> DEFINE e == (Free + 1) * WindowSize
  <2>0. e \in Nat /\ MaxAge + c <= e + 2 BY <1>6, <1>7
  <2> HIDE DEF a, e
  <2>1. CASE new - n < MaxAge
    <3>1. a - f <= e BY <1>1, <1>3, <1>5, <1>6, <2>0, <2>1
    <3>2. Free + 1 \in Nat /\ a - f <= (Free + 1) * WindowSize BY <3>1, <1>7 DEF e
    <3> QED BY <1>1, <1>3, <3>2, RoundsApart
  <2>2. CASE Round(new) <= Round(n) + Free
    <3>1. Round(a) <= Round(new) BY <1>1, RoundGrows
    <3>2. n - f <= 1 * WindowSize BY <1>3, <1>5, <1>6, <1>7
    <3>3. Round(n) <= Round(f) + 1 BY <1>3, <1>5, <3>2, RoundsApart
    <3>4. Round(a) \in Nat /\ Round(new) \in Nat /\ Round(n) \in Nat /\ Round(f) \in Nat
      BY <1>1, <1>3, <1>5, RoundIs
    <3> QED BY <3>1, <3>3, <3>4, <2>2, <1>7
  <2> QED BY <2>1, <2>2 DEF Young
<1>9. SUFFICES ASSUME f < a PROVE FALSE
  <2>1. f <= a BY <1>1, <1>3, <1>4
  <2> QED BY <2>1, <1>1, <1>3 DEF f
<1>10. a - f <= Wrap
  <2>1. Free + 1 \in Nat /\ Free + 2 \in Nat /\ Free + 2 <= 2 * Free BY Sizes
  <2>2. a - f < (Free + 1) * WindowSize + WindowSize BY <1>1, <1>3, <1>8, <2>1, NumbersApart
  <2>3. (Free + 2) * WindowSize <= Wrap BY <2>1, Spans
  <2>4. (Free + 2) * WindowSize = (Free + 1) * WindowSize + WindowSize /\ Wrap \in Nat BY <1>7, Sizes
  <2> HIDE DEF a
  <2> QED BY <1>1, <1>3, <1>7, <2>2, <2>3, <2>4
<1>11. Ahead(Wire(f), Wire(a)) = Round(f) + Windows - Round(a)
  BY <1>1, <1>3, <1>9, <1>10, AheadOld
<1>12. Round(f) \in Nat /\ Round(a) \in Nat BY <1>1, <1>3, RoundIs
<1>13. Windows = 2 * Free /\ Free > 2 BY Sizes
<1> DEFINE x == Round(f)
           y == Round(a)
           z == Ahead(Wire(f), Wire(a))
<1>14. z \in 0 .. Free - 2 BY <1>1 DEF Acceptable, f
<1>15. x \in Nat /\ y \in Nat /\ y <= x + (Free + 1) /\ z = x + Windows - y BY <1>8, <1>11, <1>12
<1> HIDE DEF x, y, z
<1> QED BY <1>7, <1>13, <1>14, <1>15

\* A command of a message that was not dispatched is seen as far ahead as it is;
\* if its message is not acceptable it is not acknowledged.
LEMMA NewPlaced ==
  ASSUME NEW new, Receiving(new), NEW n \in Start + 1 .. new, 
         NEW i \in Len(got) + 1 .. Len(msgs), Holds(msgs[i], n)
  PROVE  /\ Reached(msgs, Len(got)) < msgs[i].first /\ msgs[i].first - Reached(msgs, Len(got)) < Wrap
         /\ Acceptable(Wire(msgs[i].first))
              => Round(msgs[i].first) <= Round(Reached(msgs, Len(got))) + (Free - 2)
         /\ ~ Acceptable(Wire(msgs[i].first)) => ~ AckDue(Wire(n), at)
<1> DEFINE k == Len(got)
           a == Reached(msgs, k)
           f == msgs[i].first
           c == msgs[i].count
<1>0. Orderly(msgs) BY DEF Receiving
<1>1. new \in Nat /\ k \in 0 .. Len(msgs) /\ Len(msgs) \in Nat /\ at = Wire(a) /\ a \in Nat /\ a <= new
      /\ new - a < Wrap
  BY ReceivingIs
<1>2. i \in 1 .. Len(msgs) /\ i > k BY <1>1
<1>3. f \in Nat /\ c \in Nat \ {0} BY <1>0, <1>2, OrderlyIs
<1>4. a < f BY <1>0, <1>1, <1>2, Parted
<1>5. n \in Nat /\ f <= n /\ n <= new BY <1>1, Sizes DEF Holds
<1>6. Free \in Nat /\ Free > 2 /\ Wrap \in Nat BY Sizes
<1> HIDE DEF f, c
<1>7. a <= f /\ a <= n /\ f - a < Wrap /\ n - a < Wrap
  <2> HIDE DEF a
  <2> QED BY <1>1, <1>3, <1>4, <1>5, <1>6
<1>8. Ahead(Wire(f), at) = Round(f) - Round(a) /\ Ahead(Wire(n), at) = Round(n) - Round(a)
  BY <1>1, <1>3, <1>5, <1>7, AheadIs
<1>9. Round(a) <= Round(f) /\ Round(f) <= Round(n) /\ Round(n) <= Round(new)
  BY <1>1, <1>3, <1>5, <1>7, RoundGrows
<1>10. Round(a) \in Nat /\ Round(f) \in Nat /\ Round(n) \in Nat /\ Round(new) \in Nat
  BY <1>1, <1>3, <1>5, RoundIs
<1>11. Round(new) <= Round(a) + Free BY DEF Receiving
<1> DEFINE x == Round(a)
           y == Round(f)
           z == Round(n)
           w == Round(new)
<1>12. x \in Nat /\ y \in Nat /\ z \in Nat /\ w \in Nat /\ x <= y /\ y <= z /\ z <= w /\ w <= x + Free
  BY <1>9, <1>10, <1>11
<1>13. Ahead(Wire(f), at) = y - x /\ Ahead(Wire(n), at) = z - x BY <1>8
<1> HIDE DEF x, y, z, w
<1>14. Acceptable(Wire(f)) => y <= x + (Free - 2) BY <1>6, <1>12, <1>13 DEF Acceptable
<1>15. ~ Acceptable(Wire(f)) => ~ AckDue(Wire(n), at)
  <2>1. Acceptable(Wire(f)) <=> (y - x) \in 0 .. Free - 2 BY <1>13 DEF Acceptable
  <2>2. AckDue(Wire(n), at) <=> (z - x) \notin Free - 1 .. Free BY <1>13 DEF AckDue
  <2> QED BY <1>6, <1>12, <2>1, <2>2
<1> QED BY <1>4, <1>7, <1>14, <1>15 DEF f, x, y

\* What is held has other numbers on the wire than what was dispatched last, and
\* than each other.
LEMMA HeldNumbers ==
  ASSUME NEW new, Receiving(new), NEW h \in held
  PROVE  /\ h.seq = Wire(h.first) /\ h.seq # at
         /\ \A f \in Nat : Reached(msgs, Len(got)) < f /\ f - Reached(msgs, Len(got)) < Wrap
                             /\ h.seq = Wire(f) => h.first = f
<1> DEFINE k == Len(got)
           a == Reached(msgs, k)
<1>0. Orderly(msgs) BY DEF Receiving
<1>1. new \in Nat /\ k \in 0 .. Len(msgs) /\ at = Wire(a) /\ a \in Nat /\ HeldSound(held, msgs, k, new)
  BY ReceivingIs
<1>2. Piece(h, msgs, k, new) BY <1>1 DEF HeldSound
<1>3. h.seq = Wire(h.first) BY <1>2 DEF Piece
<1>4. h.first \in Nat /\ a < h.first /\ h.first - a < Wrap BY <1>0, <1>1, <1>2, PieceIs
<1>5. Wrap \in Nat BY Sizes
<1> HIDE DEF a
<1>6. h.seq # at
  <2> SUFFICES ASSUME Wire(h.first) = Wire(a) PROVE FALSE BY <1>1, <1>3
  <2>1. a - h.first < Wrap BY <1>1, <1>4, <1>5
  <2>2. h.first = a BY <1>1, <1>4, <2>1, SameWire
  <2> QED BY <1>1, <1>4, <2>2
<1>7. ASSUME NEW f \in Nat, a < f, f - a < Wrap, h.seq = Wire(f) PROVE h.first = f
  <2>1. h.first - f < Wrap /\ f - h.first < Wrap BY <1>1, <1>4, <1>5, <1>7
  <2>2. Wire(h.first) = Wire(f) BY <1>3, <1>7
  <2> QED BY <1>4, <2>1, <2>2, SameWire
<1> QED BY <1>3, <1>6, <1>7 DEF a

LEMMA WithIs ==
  ASSUME NEW new, Receiving(new), NEW n \in Start + 1 .. new, Young(n, new),
         Acceptable(Wire(MessageOf(n).first))
  PROVE  /\ With(n) \subseteq PieceType /\ HeldSound(With(n), msgs, Len(got), new)
         /\ \A x \in Nat : Taken(x, Reached(msgs, Len(got)), held)
                             => Taken(x, Reached(msgs, Len(got)), With(n))
         /\ Taken(n, Reached(msgs, Len(got)), With(n))
<1> DEFINE k == Len(got)
           a == Reached(msgs, k)
<1>0. Orderly(msgs) /\ held \subseteq PieceType /\ new <= Reached(msgs, Len(msgs)) BY DEF Receiving
<1>1. new \in Nat /\ k \in 0 .. Len(msgs) /\ at = Wire(a) /\ a \in Nat /\ Len(msgs) \in Nat
      /\ HeldSound(held, msgs, k, new) /\ k \in Nat
  BY ReceivingIs
<1>2. n \in Start + 1 .. Reached(msgs, Len(msgs)) /\ n \in Nat
  <2>1. Len(msgs) \in 0 .. Len(msgs) BY <1>1
  <2>2. Reached(msgs, Len(msgs)) \in Nat BY <1>0, <2>1, OrderlyIs
  <2> QED BY <1>0, <1>1, <2>2, Sizes
<1>3. PICK i \in 1 .. Len(msgs) : MessageOf(n) = msgs[i] /\ Holds(msgs[i], n)
  BY <1>0, <1>2, MessageIs
<1> DEFINE m == msgs[i]
           f == m.first
           c == m.count
           seq == Wire(f)
           same == {h \in held : h.seq = seq}
           piece == [seq |-> seq, first |-> f, count |-> c, missing |-> (0 .. c - 1) \ {n - f}]
           Less(h) == IF h.seq = seq THEN [h EXCEPT !.missing = @ \ {n - f}] ELSE h
<1>4. With(n) = IF same # {} THEN {Less(h) : h \in held}
                ELSE IF seq = at THEN held ELSE held \cup {piece}
  <2>1. MessageOf(n) = m BY <1>3
  <2> QED BY <2>1 DEF With
<1>5. f \in Nat /\ c \in Nat \ {0} /\ f <= n /\ n < f + c /\ n <= new /\ seq \in Nat
  <2>1. f \in Nat /\ c \in Nat \ {0} BY <1>0, OrderlyIs
  <2>2. seq \in Nat BY <2>1, WireIs
  <2> QED BY <1>2, <1>3, <2>1, <2>2 DEF Holds
<1>6. CASE i \in 1 .. k
  <2>1. f = a BY <1>3, <1>6, OldRefused
  <2>2. seq = at BY <1>1, <2>1
  <2>3. same = {} BY <2>2, HeldNumbers
  <2>4. With(n) = held BY <1>4, <2>2, <2>3
  <2>5. n <= a
    <3>1. f + c - 1 <= a BY <1>0, <1>1, <1>6, Parted
    <3> HIDE DEF a, f, c
    <3> QED BY <1>1, <1>5, <1>2, <3>1
  <2> QED BY <1>0, <1>1, <2>4, <2>5 DEF Taken
<1>7. CASE i \in k + 1 .. Len(msgs)
  <2>1. a < f /\ f - a < Wrap /\ Round(f) <= Round(a) + (Free - 2)
    BY <1>3, <1>7, NewPlaced
  <2>2. seq # at
    <3> SUFFICES ASSUME Wire(f) = Wire(a) PROVE FALSE BY <1>1
    <3>1. Wrap \in Nat /\ a - f < Wrap
      <4> HIDE DEF a, f
      <4> QED BY <1>1, <1>5, <2>1, Sizes
    <3>2. f = a BY <1>1, <1>5, <2>1, <3>1, SameWire
    <3> QED BY <1>1, <2>1, <3>2
  <2>3. \A h \in held : h.seq = seq => h.first = f /\ h.count = c
    <3> SUFFICES ASSUME NEW h \in held, h.seq = seq PROVE h.first = f /\ h.count = c
      OBVIOUS
    <3>1. h.first = f BY <1>5, <2>1, HeldNumbers
    <3>2. Piece(h, msgs, k, new) BY <1>1 DEF HeldSound
    <3>3. PICK j \in k + 1 .. Len(msgs) : msgs[j].first = h.first /\ msgs[j].count = h.count BY <3>2 DEF Piece
    <3>4. j \in 1 .. Len(msgs) BY <1>1
    <3>5. Holds(msgs[j], f)
      <4>1. msgs[j].count \in Nat \ {0} BY <1>0, <3>4, OrderlyIs
      <4> QED BY <1>5, <3>1, <3>3, <4>1 DEF Holds
    <3>6. Holds(msgs[i], f) BY <1>5 DEF Holds
    <3>7. i = j BY <1>0, <1>5, <3>4, <3>5, <3>6, InOneMessage
    <3> QED BY <3>1, <3>3, <3>7
  <2>4. CASE same # {}
    <3>1. With(n) = {Less(h) : h \in held} BY <1>4, <2>4
    <3>2. \A h \in held : /\ Less(h) \in PieceType /\ Less(h).seq = h.seq /\ Less(h).first = h.first
                          /\ Less(h).count = h.count
                          /\ Less(h).missing = IF h.seq = seq THEN h.missing \ {n - f} ELSE h.missing
      <4> TAKE h \in held
      <4>1. h \in PieceType BY <1>0
      <4> HIDE DEF seq, f
      <4> QED BY <4>1 DEF PieceType
    <3> HIDE DEF Less
    <3>3. With(n) \subseteq PieceType BY <3>1, <3>2
    <3>4. IsFiniteSet(With(n))
      <4> DEFINE shrink == [h \in held |-> Less(h)]
      <4>1. shrink \in Surjection(held, With(n)) BY <3>1 DEF Surjection
      <4>2. IsFiniteSet(held) BY <1>1 DEF HeldSound
      <4> HIDE DEF shrink
      <4> QED BY ONLY <4>1, <4>2, FS_Surjection
    <3>5. \A g, h \in With(n) : g.first = h.first => g = h
      <4> SUFFICES ASSUME NEW g \in With(n), NEW h \in With(n), g.first = h.first PROVE g = h
        OBVIOUS
      <4>1. PICK x \in held : g = Less(x) BY <3>1
      <4>2. PICK y \in held : h = Less(y) BY <3>1
      <4>3. x = y BY <4>1, <4>2, <3>2, <1>1, ZenonT(40) DEF HeldSound
      <4> QED BY <4>1, <4>2, <4>3
    <3>6. ASSUME NEW h \in With(n) PROVE Piece(h, msgs, k, new)
      <4>1. PICK x \in held : h = Less(x) BY <3>1
      <4>2. Piece(x, msgs, k, new) BY <1>1 DEF HeldSound
      <4>3. h \in PieceType /\ h.seq = x.seq /\ h.first = x.first /\ h.count = x.count
            /\ h.missing = IF x.seq = seq THEN x.missing \ {n - f} ELSE x.missing
        BY <3>2, <4>1
      <4>4. \A o \in 0 .. h.count - 1 : o \notin h.missing => h.first + o <= new
        <5> SUFFICES ASSUME NEW o \in 0 .. x.count - 1, o \notin h.missing PROVE x.first + o <= new
          BY <4>3
        <5>1. CASE o \notin x.missing BY <5>1, <4>2 DEF Piece
        <5>2. CASE o \in x.missing
          <6>1. x.seq = seq /\ o = n - f BY <5>2, <4>3
          <6>2. x.first = f BY <6>1, <2>3
          <6>3. x.first + o = n
            <7> HIDE DEF f
            <7> QED BY <6>1, <6>2, <1>2, <1>5
          <6> QED BY <6>3, <1>5
        <5> QED BY <5>1, <5>2
      <4> QED BY <4>2, <4>3, <4>4 DEF Piece
    <3>7. HeldSound(With(n), msgs, k, new) BY <3>4, <3>5, <3>6 DEF HeldSound
    <3>8. ASSUME NEW x \in Nat, Taken(x, a, held) PROVE Taken(x, a, With(n))
      <4>1. CASE x <= a BY <4>1 DEF Taken
      <4>2. CASE \E h \in held : Holds(h, x) /\ x - h.first \notin h.missing
        <5>1. PICK h \in held : Holds(h, x) /\ x - h.first \notin h.missing BY <4>2
        <5>2. Less(h) \in With(n) BY <3>1
        <5>3. Holds(Less(h), x) /\ x - Less(h).first \notin Less(h).missing
          BY <5>1, <3>2 DEF Holds
        <5> QED BY <5>2, <5>3 DEF Taken
      <4> QED BY <3>8, <4>1, <4>2 DEF Taken
    <3>9. Taken(n, a, With(n))
      <4>1. PICK h \in held : h.seq = seq BY <2>4
      <4>2. h.first = f /\ h.count = c BY <4>1, <2>3
      <4>3. Less(h) \in With(n) BY <3>1
      <4>4. Holds(Less(h), n) /\ n - Less(h).first \notin Less(h).missing
        BY <4>1, <4>2, <3>2, <1>5 DEF Holds
      <4> QED BY <4>3, <4>4 DEF Taken
    <3> QED BY <3>3, <3>7, <3>8, <3>9
  <2>5. CASE same = {}
    <3>1. With(n) = held \cup {piece} BY <1>4, <2>2, <2>5
    <3>2. piece \in PieceType /\ piece.first = f /\ piece.count = c /\ piece.seq = seq
          /\ piece.missing = (0 .. c - 1) \ {n - f}
      <4> DEFINE x == (0 .. c - 1) \ {n - f}
      <4>1. x \in SUBSET Nat BY <1>5
      <4> HIDE DEF x, f, c, seq
      <4> QED BY <1>5, <4>1 DEF PieceType
    <3>3. Piece(piece, msgs, k, new)
      <4>1. \A o \in 0 .. c - 1 : o \notin piece.missing => f + o <= new
        <5> SUFFICES ASSUME NEW o \in 0 .. c - 1, o \notin piece.missing PROVE f + o <= new
          OBVIOUS
        <5>1. o = n - f BY <3>2
        <5> HIDE DEF f
        <5> QED BY <5>1, <1>2, <1>5
      <4>2. \E j \in k + 1 .. Len(msgs) : msgs[j].first = f /\ msgs[j].count = c BY <1>7
      <4>3. Wire(piece.first) = seq BY <3>2
      <4> HIDE DEF f, c, seq, piece
      <4> QED BY <3>2, <4>1, <4>2, <4>3, <2>1 DEF Piece
    <3>4. \A h \in held : h.first # f
      <4> TAKE h \in held
      <4>1. h.seq = Wire(h.first) BY HeldNumbers
      <4> QED BY <2>5, <4>1
    <3> HIDE DEF piece
    <3>5. IsFiniteSet(With(n)) BY <3>1, <1>1, FS_AddElement DEF HeldSound
    <3>6. \A g, h \in With(n) : g.first = h.first => g = h BY <3>1, <3>2, <3>4, <1>1 DEF HeldSound
    <3>7. HeldSound(With(n), msgs, k, new) BY <3>1, <3>3, <3>5, <3>6, <1>1 DEF HeldSound
    <3>8. \A x \in Nat : Taken(x, a, held) => Taken(x, a, With(n)) BY <3>1 DEF Taken
    <3>9. Holds(piece, n) /\ n - piece.first \notin piece.missing BY <3>2, <1>5 DEF Holds
    <3>10. Taken(n, a, With(n)) BY <3>1, <3>9 DEF Taken
    <3> QED BY <1>0, <3>1, <3>2, <3>7, <3>8, <3>10
  <2> QED BY <2>4, <2>5
<1> QED BY <1>1, <1>6, <1>7

-----------------------------------------------------------------------------
(* A command that is sent for the first time.                               *)

LEMMA WindowShift ==
  ASSUME NEW n \in Nat, NEW x \in Nat, NEW e \in Nat, Round(n) + e = Round(x) + Windows
  PROVE  (Window(n) + e) % Windows = Window(x)
<1>1. Windows \in Nat \ {0} BY Sizes
<1>2. PICK q \in Nat : Round(n) = q * Windows + Window(n) BY WireIs
<1>3. PICK p \in Nat : Round(x) = p * Windows + Window(x) BY WireIs
<1> DEFINE u == Window(n)
           v == Window(x)
<1>4. u \in 0 .. Windows - 1 /\ v \in 0 .. Windows - 1 BY WireIs
<1>5. q * Windows + u + e = p * Windows + v + Windows
  <2>1. Round(n) \in Nat /\ Round(x) \in Nat BY RoundIs
  <2>2. q * Windows \in Nat /\ p * Windows \in Nat BY <1>1
  <2> QED BY <1>1, <1>2, <1>3, <1>4, <2>1, <2>2
<1> HIDE DEF u, v
<1>6. q <= p + 1
  <2> SUFFICES ASSUME q >= p + 2 PROVE FALSE OBVIOUS
  <2>1. PICK d \in Nat : q = p + 2 + d
    <3>1. q - p - 2 \in Nat OBVIOUS
    <3> QED BY <3>1
  <2>2. q * Windows = p * Windows + Windows + Windows + d * Windows BY <1>1, <2>1
  <2>3. d * Windows \in Nat /\ p * Windows \in Nat BY <1>1
  <2> QED BY <1>1, <1>4, <1>5, <2>2, <2>3
<1> DEFINE d == p + 1 - q
<1>7. d \in Nat /\ p + 1 = q + d BY <1>6
<1> HIDE DEF d
<1>8. p * Windows + Windows = q * Windows + d * Windows
  <2>1. (p + 1) * Windows = p * Windows + Windows BY <1>1
  <2>2. (q + d) * Windows = q * Windows + d * Windows BY <1>1, <1>7
  <2> QED BY <1>7, <2>1, <2>2
<1>9. u + e = d * Windows + v
  <2>1. q * Windows \in Nat /\ p * Windows \in Nat /\ d * Windows \in Nat BY <1>1, <1>7
  <2> QED BY <1>1, <1>4, <1>5, <1>8, <2>1
<1>10. (d * Windows + v) % Windows = v BY <1>1, <1>4, <1>7, Euclid2
<1>11. (u + e) % Windows = v BY ONLY <1>9, <1>10
<1> QED BY <1>11 DEF u, v

\* The first command of a window.
LEMMA WindowBegins ==
  ASSUME NEW n \in Nat \ {0}
  PROVE  \/ Round(n) = Round(n - 1)
         \/ Round(n) = Round(n - 1) + 1 /\ n = Round(n) * WindowSize /\ Wire(n) % WindowSize = 0
<1> DEFINE a == Round(n)
           b == Round(n - 1)
<1>1. n - 1 \in Nat /\ n - 1 <= n /\ WindowSize \in Nat \ {0} BY Sizes
<1>2. a \in Nat /\ a * WindowSize <= n /\ n < a * WindowSize + WindowSize BY RoundIs
<1>3. b \in Nat /\ b * WindowSize <= n - 1 /\ n - 1 < b * WindowSize + WindowSize BY <1>1, RoundIs
<1>4. b <= a BY <1>1, RoundGrows
<1>5. a <= b + 1
  <2>1. n - (n - 1) <= 1 * WindowSize BY <1>1
  <2> QED BY <1>1, <2>1, RoundsApart
<1>6. SUFFICES ASSUME a # b PROVE a = b + 1 /\ n = a * WindowSize /\ Wire(n) % WindowSize = 0
  OBVIOUS
<1>7. a = b + 1
  <2> HIDE DEF a, b
  <2> QED BY <1>2, <1>3, <1>4, <1>5, <1>6
<1>8. n = a * WindowSize
  <2> HIDE DEF a, b
  <2>1. a * WindowSize = b * WindowSize + WindowSize BY <1>1, <1>3, <1>7
  <2>2. a * WindowSize \in Nat /\ b * WindowSize \in Nat BY <1>1, <1>2, <1>3
  <2> QED BY <1>1, <1>2, <1>3, <2>1, <2>2
<1>9. Wire(n) % WindowSize = 0
  <2> DEFINE u == Window(n)
  <2>1. PICK q \in Nat : n = q * Wrap + Wire(n) /\ a = q * Windows + u BY WireIs
  <2>2. u \in Nat /\ Wire(n) \in Nat BY WireIs
  <2> HIDE DEF a, u
  <2>3. Wrap = Windows * WindowSize /\ Windows \in Nat BY Sizes
  <2>4. a * WindowSize = (q * Windows) * WindowSize + u * WindowSize
    <3> DEFINE k == q * Windows
    <3>1. k \in Nat /\ a = k + u BY <2>1, <2>3
    <3> HIDE DEF k
    <3>2. a * WindowSize = k * WindowSize + u * WindowSize BY <3>1, <1>1, <2>2
    <3> QED BY <3>2 DEF k
  <2>5. (q * Windows) * WindowSize = q * Wrap BY <2>3, <1>1
  <2>6. q * Wrap \in Nat /\ u * WindowSize \in Nat BY <2>2, <1>1, Sizes
  <2>7. Wire(n) = u * WindowSize + 0 BY <1>8, <2>1, <2>2, <2>4, <2>5, <2>6
  <2>8. (u * WindowSize + 0) % WindowSize = 0 BY <1>1, <2>2, Euclid2
  <2> QED BY ONLY <2>7, <2>8
<1> QED BY <1>7, <1>8, <1>9

\* Commands sent and not acknowledged.
Out == sent \cup late

\* Everything that is under way.
Coming ==
  /\ Out \cup data \cup acks \subseteq Start + 1 .. newest
  /\ \A n \in data \cup acks : Young(n, newest)
  /\ \A n \in Out : Round(newest) <= Round(n) + Free
  /\ \A n \in acks : Taken(n, Reached(msgs, Len(got)), held)
  /\ \A n \in Start + 1 .. newest : n \in Out \/ Taken(n, Reached(msgs, Len(got)), held)

ChannelInv == Receiving(newest) /\ Coming

\* No window is entered while one is in use that is Free windows behind, or while
\* the one before it is too far ahead for the receiver.
LEMMA FirstSent ==
  ASSUME ChannelInv, NEW n, n = newest + 1, ~ Blocked(n)
  PROVE  /\ \A m \in Out : Round(n) <= Round(m) + Free
         /\ Round(n) <= Round(Reached(msgs, Len(got))) + Free
<1> DEFINE a == Reached(msgs, Len(got))
           w == Round(newest)
<1>1. newest \in Nat /\ n \in Nat \ {0} /\ n - 1 = newest /\ a \in Nat /\ a <= newest /\ Start <= a
  BY ReceivingIs DEF ChannelInv
<1>2. Out \subseteq Start + 1 .. newest /\ \A m \in Out : w <= Round(m) + Free
  BY DEF ChannelInv, Coming
<1>3. w <= Round(a) + Free BY DEF ChannelInv, Receiving
<1>4. WindowSize \in Nat \ {0} /\ Free \in Nat /\ Free > 2 /\ Windows = 2 * Free /\ Start \in Nat BY Sizes
<1>5. w \in Nat /\ Round(a) \in Nat BY <1>1, RoundIs
<1>6. \A m \in Out : m \in Nat /\ Round(m) \in Nat BY <1>2, <1>4, RoundIs
<1>7. CASE Round(n) = w BY <1>2, <1>3, <1>7
<1>8. CASE Round(n) = w + 1 /\ n = Round(n) * WindowSize /\ Wire(n) % WindowSize = 0
  <2> DEFINE Used(v) == {m \in Out : Window(m) = v}
  <2>1. \A v : IsFiniteSet(Used(v)) /\ Cardinality(Used(v)) = InUse(v)
    <3> TAKE v
    <3>1. IsFiniteSet(Start + 1 .. newest) BY <1>1, <1>4, FS_Interval
    <3>2. Used(v) \subseteq Start + 1 .. newest BY <1>2
    <3>3. IsFiniteSet(Used(v)) BY ONLY <3>1, <3>2, FS_Subset
    <3> QED BY <3>3 DEF InUse, Out
  <2>2. \A m \in Out : Round(n) <= Round(m) + Free
    <3> SUFFICES ASSUME NEW m \in Out, ~ (Round(n) <= Round(m) + Free) PROVE FALSE
      OBVIOUS
    <3>1. Round(m) \in Nat /\ w <= Round(m) + Free /\ m \in Nat BY <1>2, <1>6
    <3>2. Round(n) + (Free - 1) = Round(m) + Windows
      <4> DEFINE x == Round(n)
                 y == Round(m)
      <4>1. x = w + 1 /\ ~ (x <= y + Free) /\ w <= y + Free /\ y \in Nat BY <1>8, <3>1
      <4> HIDE DEF w, x, y
      <4>2. x + (Free - 1) = y + Windows BY <1>4, <1>5, <4>1
      <4> QED BY <4>2 DEF x, y
    <3>3. Free - 1 \in Nat /\ Free - 1 \in 0 .. Free - 1 BY <1>4
    <3> DEFINE v == (Window(n) + (Free - 1)) % Windows
    <3>4. v = Window(m) BY <1>1, <3>1, <3>2, <3>3, WindowShift
    <3>5. m \in Used(v) BY <3>4
    <3>6. InUse(v) \in Nat /\ InUse(v) # 0
      <4> HIDE DEF v, Used
      <4>1. IsFiniteSet(Used(v)) /\ Cardinality(Used(v)) = InUse(v) /\ Used(v) # {} BY <2>1, <3>5
      <4> QED BY ONLY <4>1, FS_EmptySet, FS_CardinalityType
    <3>7. InUse(v) > 0
      <4> HIDE DEF v
      <4> QED BY <3>6
    <3>8. BlockedByUse(n) BY <1>8, <3>3, <3>7 DEF BlockedByUse
    <3> QED BY <3>8 DEF Blocked
  <2>3. Round(n) <= Round(a) + Free
    <3> SUFFICES ASSUME ~ (Round(n) <= Round(a) + Free) PROVE FALSE
      OBVIOUS
    <3>1. w = Round(a) + Free
      <4> DEFINE x == Round(n)
                 y == Round(a)
      <4>1. x = w + 1 /\ ~ (x <= y + Free) /\ w <= y + Free /\ y \in Nat BY <1>3, <1>5, <1>8
      <4> HIDE DEF w, x, y
      <4>2. w = y + Free BY <1>4, <1>5, <4>1
      <4> QED BY <4>2 DEF x, y
    <3> DEFINE S == n - WindowSize .. n - 1
               v == (Window(n) + (Windows - 1)) % Windows
    <3>2. n - WindowSize = w * WindowSize /\ w * WindowSize \in Nat
      <4> HIDE DEF w
      <4>1. (w + 1) * WindowSize = w * WindowSize + WindowSize /\ w * WindowSize \in Nat BY <1>4, <1>5
      <4>2. n = (w + 1) * WindowSize BY ONLY <1>8
      <4> QED BY <1>1, <1>4, <4>1, <4>2
    <3>3. ASSUME NEW x \in S PROVE x \in Nat /\ x \in Start + 1 .. newest /\ Round(x) = w
      <4> DEFINE e == w * WindowSize
      <4>1. x \in Nat /\ e <= x /\ x < e + WindowSize /\ x <= newest
        <5> HIDE DEF e, w
        <5>1. n - WindowSize = e /\ e \in Nat BY <3>2 DEF e
        <5> QED BY <1>1, <1>4, <5>1
      <4>2. Round(x) = w BY <1>5, <4>1, RoundOf
      <4>3. ~ (x <= a)
        <5> SUFFICES ASSUME x <= a PROVE FALSE OBVIOUS
        <5>1. Round(x) <= Round(a) BY <1>1, <4>1, RoundGrows
        <5> QED BY <1>4, <1>5, <3>1, <4>2, <5>1
      <4> QED BY <1>1, <1>4, <4>1, <4>2, <4>3
    <3>4. ASSUME NEW x \in S PROVE x \in Out
      <4>1. x \in Nat /\ x \in Start + 1 .. newest /\ Round(x) = w BY <3>3
      <4>2. SUFFICES ASSUME Taken(x, a, held) PROVE FALSE BY <4>1 DEF ChannelInv, Coming
      <4>3. CASE x <= a
        <5>1. Round(x) <= Round(a) BY <1>1, <4>1, <4>3, RoundGrows
        <5> QED BY <1>4, <1>5, <3>1, <4>1, <5>1
      <4>4. CASE \E h \in held : Holds(h, x) /\ x - h.first \notin h.missing
        <5>1. PICK h \in held : Holds(h, x) BY <4>4
        <5>2. Orderly(msgs) /\ Len(got) \in 0 .. Len(msgs) /\ Piece(h, msgs, Len(got), newest)
          <6>1. HeldSound(held, msgs, Len(got), newest) BY ReceivingIs DEF ChannelInv
          <6> QED BY <6>1, ReceivingIs DEF ChannelInv, Receiving, HeldSound
        <5>3. h.first \in Nat /\ h.count \in Sized BY <1>1, <5>2, PieceIs
        <5>4. h.count \in Nat /\ h.count <= WindowSize BY <5>3, SizedIs
        <5>5. x - h.first <= 1 * WindowSize BY <1>4, <4>1, <5>1, <5>3, <5>4 DEF Holds
        <5>6. Round(x) <= Round(h.first) + 1 BY <4>1, <5>3, <5>5, RoundsApart
        <5>7. Round(h.first) <= Round(a) + (Free - 2) BY <5>2 DEF Piece
        <5>8. Round(h.first) \in Nat BY <5>3, RoundIs
        <5> DEFINE y == Round(h.first)
                   z == Round(a)
        <5>9. y \in Nat /\ z \in Nat /\ w <= y + 1 /\ y <= z + (Free - 2) /\ w = z + Free
          BY <1>5, <3>1, <4>1, <5>6, <5>7, <5>8
        <5> HIDE DEF y, z, w
        <5> QED BY <1>4, <5>9
      <4> QED BY <4>2, <4>3, <4>4 DEF Taken
    <3>5. ASSUME NEW x \in S PROVE Window(x) = v
      <4>1. x \in Nat /\ Round(x) = w BY <3>3
      <4>2. Windows - 1 \in Nat /\ Round(n) + (Windows - 1) = Round(x) + Windows
        BY <1>4, <1>5, <1>8, <4>1
      <4> QED BY <1>1, <4>1, <4>2, WindowShift
    <3>6. S \subseteq Used(v) BY <3>4, <3>5
    <3>7. Cardinality(S) = WindowSize
      <4> DEFINE p == n - WindowSize
                 q == n - 1
      <4>1. p \in Int /\ q \in Int /\ p <= q /\ q - p + 1 = WindowSize BY <1>1, <1>4
      <4>2. S = p .. q OBVIOUS
      <4> HIDE DEF p, q, S
      <4> QED BY <4>1, <4>2, FS_Interval
    <3>8. InUse(v) >= WindowSize
      <4> HIDE DEF v, Used, S
      <4>1. Cardinality(S) <= Cardinality(Used(v)) BY <2>1, <3>6, FS_Subset
      <4>2. Cardinality(Used(v)) = InUse(v) /\ InUse(v) \in Nat BY <2>1, FS_CardinalityType
      <4> QED BY <3>7, <4>1, <4>2, <1>4
    <3>9. (Window(n) + Windows - 1) % Windows = v
      <4>1. Window(n) \in Nat BY <1>1, WireIs
      <4>2. Window(n) + Windows - 1 = Window(n) + (Windows - 1) BY <1>4, <4>1
      <4> QED BY <4>2
    <3>10. InUse((Window(n) + Windows - 1) % Windows) >= WindowSize BY ONLY <3>8, <3>9
    <3> QED BY <1>8, <3>10 DEF Blocked
  <2> QED BY <2>2, <2>3
<1> QED BY <1>1, <1>7, <1>8, WindowBegins

-----------------------------------------------------------------------------
(* Each step of either side and of the network keeps the invariant.         *)

LEMMA Starting == Init => ChannelInv
<1> SUFFICES ASSUME Init PROVE ChannelInv
  OBVIOUS
<1>1. msgs = <<>> /\ newest = Start /\ Out = {} /\ data = {} /\ acks = {} /\ at = Wire(Start)
      /\ held = {} /\ got = <<>> /\ Start \in Nat
  BY Sizes DEF Init, Out
<1>2. Orderly(msgs)
  <2>1. Len(msgs) = 0 /\ msgs \in Seq([first : Nat, count : Sized]) BY <1>1
  <2>2. Reached(msgs, 0) = Start BY DEF Reached
  <2> QED BY <1>1, <2>1, <2>2 DEF Orderly
<1>3. Len(got) = 0 /\ Len(msgs) = 0 /\ Reached(msgs, Len(got)) = Start /\ Reached(msgs, Len(msgs)) = Start
  BY <1>1 DEF Reached
<1>4. HeldSound(held, msgs, Len(got), newest) BY <1>1, FS_EmptySet DEF HeldSound
<1> DEFINE p == [held |-> held, at |-> at, got |-> got]
<1>5. Good(p, msgs, newest)
  <2>1. p.held = held /\ p.at = at /\ p.got = got OBVIOUS
  <2> HIDE DEF p
  <2> QED BY <1>1, <1>3, <1>4, <2>1 DEF Good
<1>6. Free \in Nat /\ Round(Start) \in Nat BY <1>1, Sizes, RoundIs
<1>7. Receiving(newest)
  <2>1. got \in Seq(Nat) /\ held \subseteq PieceType BY <1>1
  <2>2. Round(newest) <= Round(Reached(msgs, Len(got))) + Free BY <1>1, <1>3, <1>6
  <2> QED BY <1>1, <1>2, <1>3, <1>5, <2>1, <2>2 DEF Receiving
<1>8. Start + 1 .. newest = {} BY <1>1
<1>9. Coming BY <1>1, <1>8 DEF Coming
<1> QED BY <1>7, <1>9 DEF ChannelInv

\* Datagrams are lost, commands time out, the sender gives up.
LEMMA Quiet ==
  ASSUME ChannelInv, Out' = Out, data' \subseteq data, acks' \subseteq acks,
         UNCHANGED <<msgs, newest, at, held, got>>
  PROVE  ChannelInv'
<1>1. Receiving(newest)' BY DEF ChannelInv, Receiving
<1>2. Coming'
  <2>1. PICK o, d, c : o = Out' /\ d = data' /\ c = acks' OBVIOUS
  <2>2. o = Out /\ d \subseteq data /\ c \subseteq acks BY <2>1
  <2> DEFINE T(n) == Taken(n, Reached(msgs, Len(got)), held)
  <2>3. /\ o \cup d \cup c \subseteq Start + 1 .. newest
        /\ \A n \in d \cup c : Young(n, newest)
        /\ \A n \in o : Round(newest) <= Round(n) + Free
        /\ \A n \in c : T(n)
        /\ \A n \in Start + 1 .. newest : n \in o \/ T(n)
    <3>1. Coming BY DEF ChannelInv
    <3> HIDE DEF T
    <3> QED BY <2>2, <3>1 DEF Coming, T
  <2> QED BY <2>1, <2>3 DEF Coming
<1> QED BY <1>1, <1>2 DEF ChannelInv

\* A message is given to the channel.
LEMMA Putting ==
  ASSUME ChannelInv, NEW c \in Sized, msgs' = Append(msgs, [first |-> Upcoming, count |-> c]),
         UNCHANGED <<newest, sent, late, data, acks, at, held, got>>
  PROVE  ChannelInv'
<1> DEFINE k == Len(got)
           L == Len(msgs)
<1>1. Orderly(msgs) /\ newest <= Reached(msgs, L) /\ held \subseteq PieceType /\ got \in Seq(Nat)
      /\ Round(newest) <= Round(Reached(msgs, k)) + Free
  BY DEF ChannelInv, Receiving
<1>2. newest \in Nat /\ k \in Nat /\ k \in 0 .. L /\ L \in Nat /\ Reached(msgs, k) <= newest
      /\ at = Wire(Reached(msgs, k)) /\ HeldSound(held, msgs, k, newest)
  BY ReceivingIs DEF ChannelInv
<1>3. PICK s : s = msgs' OBVIOUS
<1>4. /\ Orderly(s) /\ Len(s) = L + 1
      /\ \A j \in 0 .. L : Reached(s, j) = Reached(msgs, j)
      /\ \A j \in 1 .. L : s[j] = msgs[j]
      /\ Reached(s, L + 1) = Upcoming + c - 1
  <2> DEFINE f == Upcoming
  <2>1. f = Reached(msgs, L) + 1 BY <1>1, UpcomingIs
  <2>2. s = Append(msgs, [first |-> f, count |-> c]) BY <1>3
  <2> HIDE DEF f
  <2>3. /\ Orderly(s) /\ Len(s) = L + 1
        /\ \A j \in 0 .. L : Reached(s, j) = Reached(msgs, j)
        /\ \A j \in 1 .. L : s[j] = msgs[j]
        /\ Reached(s, L + 1) = f + c - 1
    BY <1>1, <2>1, <2>2, OrderlyAppend
  <2> QED BY <2>3 DEF f
<1>5. Reached(s, k) = Reached(msgs, k) BY <1>2, <1>4
<1>6. newest <= Reached(s, Len(s))
  <2>1. Reached(msgs, L) \in Nat /\ c \in Nat \ {0} /\ Upcoming = Reached(msgs, L) + 1
    BY <1>1, <1>2, OrderlyIs, UpcomingIs, SizedIs
  <2> QED BY <1>1, <1>2, <1>4, <2>1
<1>7. HeldSound(held, s, k, newest)
  <2>1. ASSUME NEW h \in held PROVE Piece(h, s, k, newest)
    <3>1. Piece(h, msgs, k, newest) BY <1>2 DEF HeldSound
    <3>2. PICK i \in k + 1 .. L : msgs[i].first = h.first /\ msgs[i].count = h.count BY <3>1 DEF Piece
    <3>3. i \in k + 1 .. Len(s) /\ s[i] = msgs[i] BY <1>2, <1>4
    <3> QED BY <1>5, <3>1, <3>2, <3>3 DEF Piece
  <2> QED BY <2>1, <1>2 DEF HeldSound
<1> DEFINE p == [held |-> held, at |-> at, got |-> got]
<1>8. Good(p, s, newest)
  <2>1. p.held = held /\ p.at = at /\ p.got = got OBVIOUS
  <2> HIDE DEF p
  <2>2. \A i \in 1 .. k : got[i] = s[i].first
    <3>1. Good(p, msgs, newest) BY DEF ChannelInv, Receiving, p
    <3> QED BY <3>1, <2>1, <1>2, <1>4 DEF Good
  <2>3. k <= Len(s) BY <1>2, <1>4
  <2> QED BY <1>2, <1>5, <1>7, <2>1, <2>2, <2>3 DEF Good
<1>9. Receiving(newest)'
  <2> HIDE DEF p
  <2>1. p = [held |-> held', at |-> at', got |-> got'] BY DEF p
  <2> QED BY <1>1, <1>2, <1>3, <1>4, <1>5, <1>6, <1>8, <2>1 DEF Receiving
<1>10. Coming'
  <2>1. Out' = Out /\ Coming BY DEF Out, ChannelInv
  <2> QED BY <1>3, <1>5, <2>1 DEF Coming
<1> QED BY <1>9, <1>10 DEF ChannelInv

\* An acknowledgement is of the command it names and of no other.
LEMMA AckOf ==
  ASSUME ChannelInv, NEW n \in acks
  PROVE  Acked(Wire(n)) \subseteq {n}
<1>1. ChannelInv /\ newest \in Nat BY ReceivingIs DEF ChannelInv
<1>2. n \in Start + 1 .. newest /\ Young(n, newest) /\ n \in Nat /\ n <= newest
  BY <1>1, Sizes DEF ChannelInv, Coming
<1>3. newest - n < Wrap
  <2>1. Free + 1 \in Nat /\ Free + 1 <= 2 * Free /\ Free \in Nat /\ Wrap \in Nat /\ WindowSize \in Nat
    BY Sizes
  <2>2. (Free + 1) * WindowSize <= Wrap /\ (Free + 1) * WindowSize \in Nat BY <2>1, Spans
  <2>3. CASE newest - n < MaxAge
    <3>1. 1 \in Sized BY DEF Sized
    <3>2. MaxAge + 1 <= (Free + 1) * WindowSize + 2 /\ MaxAge \in Nat BY <3>1, SizedIs
    <3>3. MaxAge <= (Free + 1) * WindowSize + 1
      <4> DEFINE e == (Free + 1) * WindowSize
      <4> HIDE DEF e
      <4>1. e \in Nat /\ MaxAge + 1 <= e + 2 BY <2>2, <3>2 DEF e
      <4>2. MaxAge <= e + 1 BY <3>2, <4>1
      <4> QED BY <4>2 DEF e
    <3>4. (Free + 2) * WindowSize <= Wrap
      <4>1. Free + 2 \in Nat /\ Free + 2 <= 2 * Free BY Sizes
      <4> QED BY <4>1, Spans
    <3>5. (Free + 2) * WindowSize = (Free + 1) * WindowSize + WindowSize /\ WindowSize >= 1 BY <2>1, Sizes
    <3> DEFINE e == (Free + 1) * WindowSize
    <3>6. e \in Nat /\ MaxAge <= e + 1 /\ e + WindowSize <= Wrap BY <2>2, <3>3, <3>4, <3>5
    <3> HIDE DEF e
    <3> QED BY <1>1, <1>2, <2>1, <2>3, <3>2, <3>5, <3>6
  <2>4. CASE Round(newest) <= Round(n) + Free
    <3>1. newest - n < Free * WindowSize + WindowSize BY <1>1, <1>2, <2>1, <2>4, NumbersApart
    <3>2. (Free + 1) * WindowSize = Free * WindowSize + WindowSize /\ Free * WindowSize \in Nat BY <2>1
    <3> QED BY <1>1, <1>2, <2>1, <2>2, <3>1, <3>2
  <2> QED BY <1>2, <2>3, <2>4 DEF Young
<1>4. ASSUME NEW m \in Out, Wire(m) = Wire(n) PROVE m = n
  <2>1. m \in Start + 1 .. newest /\ Round(newest) <= Round(m) + Free BY <1>1 DEF ChannelInv, Coming
  <2>2. m \in Nat /\ m <= newest BY <1>1, <2>1, Sizes
  <2>3. Free + 1 \in Nat /\ Free + 1 <= 2 * Free /\ Free \in Nat /\ Wrap \in Nat /\ WindowSize \in Nat
    BY Sizes
  <2>4. (Free + 1) * WindowSize <= Wrap BY <2>3, Spans
  <2>5. newest - m < Free * WindowSize + WindowSize BY <1>1, <2>1, <2>2, <2>3, NumbersApart
  <2>6. (Free + 1) * WindowSize = Free * WindowSize + WindowSize /\ Free * WindowSize \in Nat BY <2>3
  <2>7. m - n < Wrap /\ n - m < Wrap BY <1>1, <1>2, <1>3, <2>2, <2>3, <2>4, <2>5, <2>6
  <2> QED BY <1>2, <1>4, <2>2, <2>7, SameWire
<1>5. Acked(Wire(n)) \subseteq {m \in Out : Wire(m) = Wire(n)} BY DEF Acked, Out
<1> QED BY <1>4, <1>5

LEMMA Acknowledged ==
  ASSUME ChannelInv, NEW n \in acks, acks' \subseteq acks,
         sent' = sent \ Acked(Wire(n)), late' = late \ Acked(Wire(n)),
         UNCHANGED <<msgs, newest, data, at, held, got>>
  PROVE  ChannelInv'
<1>1. Receiving(newest)' BY DEF ChannelInv, Receiving
<1>2. Coming'
  <2>1. PICK o, c : o = Out' /\ c = acks' OBVIOUS
  <2>2. o \subseteq Out /\ c \subseteq acks /\ \A m \in Out : m \in o \/ m = n
    BY <2>1, AckOf DEF Out
  <2> DEFINE T(m) == Taken(m, Reached(msgs, Len(got)), held)
  <2>3. /\ o \cup data \cup c \subseteq Start + 1 .. newest
        /\ \A m \in data \cup c : Young(m, newest)
        /\ \A m \in o : Round(newest) <= Round(m) + Free
        /\ \A m \in c : T(m)
        /\ \A m \in Start + 1 .. newest : m \in o \/ T(m)
    <3>1. Coming BY DEF ChannelInv
    <3> HIDE DEF T
    <3> QED BY <2>2, <3>1 DEF Coming, T
  <2> QED BY <2>1, <2>3 DEF Coming
<1> QED BY <1>1, <1>2 DEF ChannelInv

LEMMA Transmitted ==
  ASSUME ChannelInv, NEW n, n \in late \/ (n = newest + 1 /\ n < Upcoming /\ ~ Blocked(n)),
         newest' = IF n > newest THEN n ELSE newest,
         sent' = sent \cup {n}, late' = late \ {n},
         data' \subseteq {m \in data \cup {n} : m \in sent' \cup late' \/ m > newest' - MaxAge},
         acks' \subseteq {m \in acks : m \in sent' \cup late' \/ m > newest' - MaxAge},
         UNCHANGED <<msgs, at, held, got>>
  PROVE  ChannelInv'
<1> DEFINE k == Len(got)
           a == Reached(msgs, k)
           T(m) == Taken(m, a, held)
<1>1. newest \in Nat /\ a \in Nat /\ a <= newest /\ HeldSound(held, msgs, k, newest) /\ at = Wire(a)
      /\ Start <= a
  BY ReceivingIs DEF ChannelInv
<1>2. Orderly(msgs) /\ newest <= Reached(msgs, Len(msgs)) /\ held \subseteq PieceType /\ got \in Seq(Nat)
      /\ Round(newest) <= Round(a) + Free
  BY DEF ChannelInv, Receiving
<1>3. /\ Out \cup data \cup acks \subseteq Start + 1 .. newest
      /\ \A m \in data \cup acks : Young(m, newest)
      /\ \A m \in Out : Round(newest) <= Round(m) + Free
      /\ \A m \in acks : T(m)
      /\ \A m \in Start + 1 .. newest : m \in Out \/ T(m)
  BY DEF ChannelInv, Coming
<1>4. PICK o, d, c, w : o = Out' /\ d = data' /\ c = acks' /\ w = newest' OBVIOUS
<1>5. o = Out \cup {n} BY <1>4 DEF Out
<1>6. /\ d \subseteq {m \in data \cup {n} : m \in o \/ m > w - MaxAge}
      /\ c \subseteq {m \in acks : m \in o \/ m > w - MaxAge}
  BY <1>4 DEF Out
<1>7. Start \in Nat /\ MaxAge \in Nat /\ Free \in Nat BY Sizes, ChannelAssumption
<1>8. CASE n \in late
  <2>1. n \in Out BY <1>8 DEF Out
  <2>2. n \in Start + 1 .. newest /\ n <= newest BY <1>3, <1>7, <2>1, <1>1
  <2>3. w = newest BY <1>1, <1>4, <1>7, <2>2
  <2>4. o = Out BY <1>5, <2>1
  <2>5. Young(n, newest) BY <1>3, <2>1 DEF Young
  <2>6. Receiving(newest)' BY <1>4, <2>3 DEF ChannelInv, Receiving
  <2>7. /\ o \cup d \cup c \subseteq Start + 1 .. newest
        /\ \A m \in d \cup c : Young(m, newest)
        /\ \A m \in o : Round(newest) <= Round(m) + Free
        /\ \A m \in c : T(m)
        /\ \A m \in Start + 1 .. newest : m \in o \/ T(m)
    <3> HIDE DEF T
    <3> QED BY <1>3, <1>6, <2>1, <2>4, <2>5
  <2>8. Coming' BY <1>4, <2>3, <2>7 DEF Coming
  <2> QED BY <2>6, <2>8 DEF ChannelInv
<1>9. CASE n = newest + 1 /\ n < Upcoming /\ ~ Blocked(n)
  <2>1. w = n /\ n \in Nat /\ n > newest BY <1>1, <1>4, <1>9
  <2>2. /\ \A m \in Out : Round(n) <= Round(m) + Free
        /\ Round(n) <= Round(a) + Free
    BY <1>9, FirstSent
  <2>3. Round(n) \in Nat BY <2>1, RoundIs
  <2>4. \A m \in o : Round(n) <= Round(m) + Free BY <1>5, <1>7, <2>2, <2>3
  <2>5. HeldSound(held, msgs, k, n)
    <3>1. ASSUME NEW h \in held PROVE Piece(h, msgs, k, n)
      <4>1. Piece(h, msgs, k, newest) BY <1>1 DEF HeldSound
      <4>2. h.first \in Nat
        <5>1. k \in 0 .. Len(msgs) BY ReceivingIs DEF ChannelInv
        <5> QED BY <1>1, <1>2, <4>1, <5>1, PieceIs
      <4>3. ASSUME NEW i \in 0 .. h.count - 1, i \notin h.missing PROVE h.first + i <= n
        <5>1. h.first + i <= newest BY <4>1, <4>3 DEF Piece
        <5>2. i \in Nat BY DEF PieceType
        <5> QED BY <1>1, <2>1, <4>2, <5>1, <5>2
      <4> QED BY <4>1, <4>3 DEF Piece
    <3> QED BY <3>1, <1>1 DEF HeldSound
  <2> DEFINE p == [held |-> held, at |-> at, got |-> got]
  <2>6. Good(p, msgs, n)
    <3>1. p.held = held /\ p.at = at /\ p.got = got /\ Good(p, msgs, newest)
      BY DEF ChannelInv, Receiving
    <3> HIDE DEF p, a
    <3>2. a <= n BY <1>1, <2>1
    <3> QED BY <2>5, <3>1, <3>2 DEF Good, a
  <2>7. n <= Reached(msgs, Len(msgs))
    <3>1. Upcoming = Reached(msgs, Len(msgs)) + 1 BY <1>2, UpcomingIs
    <3>2. Reached(msgs, Len(msgs)) \in Nat
      <4>1. Len(msgs) \in 0 .. Len(msgs) BY ReceivingIs DEF ChannelInv
      <4> QED BY <1>2, <4>1, OrderlyIs
    <3> QED BY <1>9, <2>1, <3>1, <3>2
  <2>8. Receiving(newest)'
    <3> HIDE DEF p
    <3>1. p = [held |-> held', at |-> at', got |-> got'] /\ newest' = n BY <1>4, <2>1 DEF p
    <3> QED BY <1>2, <2>1, <2>2, <2>6, <2>7, <3>1 DEF Receiving
  <2>9. /\ o \cup d \cup c \subseteq Start + 1 .. n
        /\ \A m \in c : T(m)
        /\ \A m \in Start + 1 .. n : m \in o \/ T(m)
    <3>1. n \in Start + 1 .. n /\ Start + 1 .. newest \subseteq Start + 1 .. n BY <1>1, <1>7, <2>1
    <3>2. \A m \in Start + 1 .. n : m \in Start + 1 .. newest \/ m = n BY <1>1, <1>7, <1>9
    <3> HIDE DEF T
    <3> QED BY <1>3, <1>5, <1>6, <3>1, <3>2
  <2>10. \A m \in d \cup c : Young(m, n)
    <3> SUFFICES ASSUME NEW m \in d \cup c PROVE Young(m, n)
      OBVIOUS
    <3>1. CASE m \in o BY <2>4, <3>1 DEF Young
    <3>2. CASE m > n - MaxAge
      <4>1. m \in Nat BY <1>7, <2>9, <2>1
      <4> QED BY <1>7, <2>1, <3>2, <4>1 DEF Young
    <3> QED BY <1>6, <2>1, <3>1, <3>2
  <2>11. Coming' BY <1>4, <2>1, <2>4, <2>9, <2>10 DEF Coming
  <2> QED BY <2>8, <2>11 DEF ChannelInv
<1> QED BY <1>8, <1>9

LEMMA Received ==
  ASSUME ChannelInv, NEW n \in data,
         \E now : /\ now = IF Acceptable(Wire(MessageOf(n).first)) THEN Dispatched(With(n))
                           ELSE [held |-> held, at |-> at, got |-> got]
                  /\ held' = now.held /\ at' = now.at /\ got' = now.got,
         acks' = IF AckDue(Wire(n), at') THEN acks \cup {n} ELSE acks, data' \subseteq data,
         UNCHANGED <<msgs, newest, sent, late>>
  PROVE  ChannelInv' /\ Len(got) <= Len(got')
<1> DEFINE k == Len(got)
           a == Reached(msgs, k)
           ok == Acceptable(Wire(MessageOf(n).first))
           b == [held |-> held, at |-> at, got |-> got]
           T(m) == Taken(m, a, held)
<1>1. newest \in Nat /\ a \in Nat /\ a <= newest /\ HeldSound(held, msgs, k, newest) /\ at = Wire(a)
      /\ k \in Nat /\ k \in 0 .. Len(msgs) /\ Len(msgs) \in Nat
  BY ReceivingIs DEF ChannelInv
<1>2. Orderly(msgs) /\ newest <= Reached(msgs, Len(msgs)) /\ held \subseteq PieceType /\ got \in Seq(Nat)
      /\ Round(newest) <= Round(a) + Free /\ Good(b, msgs, newest) /\ Receiving(newest)
  BY DEF ChannelInv, Receiving
<1>3. /\ Out \cup data \cup acks \subseteq Start + 1 .. newest
      /\ \A m \in data \cup acks : Young(m, newest)
      /\ \A m \in Out : Round(newest) <= Round(m) + Free
      /\ \A m \in acks : T(m)
      /\ \A m \in Start + 1 .. newest : m \in Out \/ T(m)
  BY DEF ChannelInv, Coming
<1>4. PICK now : /\ now = IF ok THEN Dispatched(With(n)) ELSE b
                 /\ held' = now.held /\ at' = now.at /\ got' = now.got
  OBVIOUS
<1>5. n \in Start + 1 .. newest /\ Young(n, newest) BY <1>3
<1> DEFINE z == Reached(msgs, Len(now.got))
           U(m) == Taken(m, z, now.held)
<1>6. /\ now \in [held : SUBSET PieceType, at : Nat, got : Seq(Nat)] /\ Good(now, msgs, newest)
      /\ k <= Len(now.got)
      /\ \A m \in Nat : T(m) => U(m)
      /\ AckDue(Wire(n), now.at) => U(n)
  <2>1. CASE ok
    <3> DEFINE H == With(n)
               q == [held |-> H, at |-> at, got |-> got]
               e == Dispatched(H)
    <3>1. /\ H \subseteq PieceType /\ HeldSound(H, msgs, k, newest)
          /\ \A m \in Nat : T(m) => Taken(m, a, H)
          /\ Taken(n, a, H)
      BY <1>2, <1>5, <2>1, WithIs
    <3> HIDE DEF H, T, a
    <3>2. IsFiniteSet(H) BY <3>1 DEF HeldSound
    <3>3. q \in Dispatches(H)
      <4>1. at \in Nat BY <1>1, WireIs
      <4> QED BY <1>2, <4>1 DEF Dispatches
    <3>4. Good(q, msgs, newest)
      <4>1. q.held = H /\ q.at = at /\ q.got = got /\ b.got = got OBVIOUS
      <4> HIDE DEF q, b
      <4> QED BY <1>1, <1>2, <3>1, <4>1 DEF Good, a
    <3>5. /\ e \in Dispatches(H) /\ Good(e, msgs, newest) /\ k <= Len(e.got)
          /\ \A m \in Nat : Taken(m, a, H) => Taken(m, Reached(msgs, Len(e.got)), e.held)
      BY <1>1, <1>2, <3>2, <3>3, <3>4, DispatchedIs DEF a
    <3>6. now = e BY <1>4, <2>1 DEF H
    <3> HIDE DEF e
    <3>7. n \in Nat BY <1>5, <1>1, Sizes
    <3>8. now \in [held : SUBSET PieceType, at : Nat, got : Seq(Nat)]
      BY <3>1, <3>5, <3>6 DEF Dispatches
    <3>9. (\A m \in Nat : T(m) => U(m)) /\ U(n) BY <3>1, <3>5, <3>6, <3>7
    <3> HIDE DEF U
    <3> QED BY <3>5, <3>6, <3>8, <3>9
  <2>2. CASE ~ ok
    <3>1. now = b /\ now.held = held /\ now.at = at /\ now.got = got BY <1>4, <2>2
    <3>2. at \in Nat BY <1>1, WireIs, SMTT(30)
    <3>3. b \in [held : SUBSET PieceType, at : Nat, got : Seq(Nat)] BY <1>2, <3>2
    <3>4. \A m \in Nat : T(m) => U(m) BY <3>1
    <3>5. AckDue(Wire(n), at) => T(n)
      <4>0. n \in Nat /\ n \in Start + 1 .. Reached(msgs, Len(msgs))
        <5>1. Reached(msgs, Len(msgs)) \in Nat
          <6>1. Len(msgs) \in 0 .. Len(msgs) BY <1>1
          <6> QED BY <1>2, <6>1, OrderlyIs
        <5> QED BY <1>1, <1>2, <1>5, <5>1, Sizes
      <4>1. PICK i \in 1 .. Len(msgs) : MessageOf(n) = msgs[i] /\ Holds(msgs[i], n)
        BY <1>2, <4>0, MessageIs
      <4>2. CASE i <= k
        <5>1. msgs[i].first + msgs[i].count - 1 <= a BY <1>1, <1>2, <4>2, Parted
        <5>2. msgs[i].first \in Nat /\ msgs[i].count \in Nat BY <1>2, OrderlyIs
        <5>3. n <= a BY <1>1, <4>0, <4>1, <5>1, <5>2 DEF Holds
        <5> QED BY <5>3 DEF Taken
      <4>3. CASE i > k
        <5>1. i \in k + 1 .. Len(msgs) BY <1>1, <4>3
        <5>2. ~ Acceptable(Wire(msgs[i].first)) BY <2>2, <4>1
        <5> QED BY <1>2, <1>5, <4>1, <5>1, <5>2, NewPlaced
      <4> QED BY <1>1, <4>2, <4>3
    <3>6. AckDue(Wire(n), now.at) => U(n) BY <3>1, <3>5
    <3>7. k <= Len(now.got) BY <1>1, <3>1
    <3> HIDE DEF T, U, b
    <3> QED BY <1>2, <3>1, <3>3, <3>4, <3>6, <3>7
  <2> QED BY <2>1, <2>2
<1>7. now = [held |-> held', at |-> at', got |-> got'] BY <1>4, <1>6
<1>8. Round(newest) <= Round(z) + Free
  <2>1. Len(now.got) \in Nat /\ Len(now.got) \in 0 .. Len(msgs) BY <1>1, <1>6 DEF Good
  <2>2. a <= z /\ z \in Nat BY <1>1, <1>2, <1>6, <2>1, ReachedGrows, OrderlyIs
  <2>3. Round(a) <= Round(z) BY <1>1, <2>2, RoundGrows
  <2>4. Round(a) \in Nat /\ Round(z) \in Nat /\ Round(newest) \in Nat BY <1>1, <2>2, RoundIs
  <2> DEFINE x == Round(a)
             y == Round(z)
             w == Round(newest)
  <2>5. x \in Nat /\ y \in Nat /\ w \in Nat /\ x <= y /\ w <= x + Free BY <1>2, <2>3, <2>4
  <2> HIDE DEF x, y, w
  <2>6. w <= y + Free BY <2>5, Sizes
  <2> QED BY <2>6 DEF y, w
<1>9. Receiving(newest)'
  <2>1. held' \subseteq PieceType /\ got' \in Seq(Nat) /\ got' = now.got BY <1>4, <1>6
  <2> HIDE DEF z
  <2>2. Round(newest) <= Round(Reached(msgs, Len(got'))) + Free BY <1>8, <2>1 DEF z
  <2>3. Good([held |-> held', at |-> at', got |-> got'], msgs, newest) BY <1>6, <1>7
  <2> QED BY <1>1, <1>2, <2>1, <2>2, <2>3 DEF Receiving
<1>10. Coming'
  <2>1. PICK d, c : d = data' /\ c = acks' OBVIOUS
  <2>2. d \subseteq data /\ c = (IF AckDue(Wire(n), now.at) THEN acks \cup {n} ELSE acks) BY <2>1, <1>4
  <2>3. \A m \in Start + 1 .. newest : m \in Nat BY <1>1, Sizes
  <2>4. /\ Out \cup d \cup c \subseteq Start + 1 .. newest
        /\ \A m \in d \cup c : Young(m, newest)
        /\ \A m \in Out : Round(newest) <= Round(m) + Free
        /\ \A m \in c : U(m)
        /\ \A m \in Start + 1 .. newest : m \in Out \/ U(m)
    <3> HIDE DEF T, U
    <3> QED BY <1>3, <1>5, <1>6, <2>2, <2>3
  <2>5. Out' = Out BY DEF Out
  <2>6. Reached(msgs', Len(got')) = z /\ held' = now.held BY <1>4
  <2> QED BY <2>1, <2>4, <2>5, <2>6 DEF Coming
<1>11. Len(got) <= Len(got') BY <1>4, <1>6
<1> QED BY <1>9, <1>10, <1>11 DEF ChannelInv

-----------------------------------------------------------------------------
(* The steps of a channel with at most mc commands in messages of sizes cs. *)

NextMessage(mc, cs) ==
  \E c \in cs : /\ up /\ Upcoming + c <= Start + mc + 1
                /\ msgs' = Append(msgs, [first |-> Upcoming, count |-> c])
                /\ UNCHANGED <<newest, sent, late, data, acks, at, held, got, up>>

Sending(n) ==
  /\ n \in late \/ (n = newest + 1 /\ n < Upcoming /\ ~ Blocked(n))
  /\ newest' = (IF n > newest THEN n ELSE newest)
  /\ sent' = sent \cup {n} /\ late' = late \ {n}
  /\ data' \subseteq {m \in data \cup {n} : m \in sent' \cup late' \/ m > newest' - MaxAge}
  /\ acks' \subseteq {m \in acks : m \in sent' \cup late' \/ m > newest' - MaxAge}
  /\ UNCHANGED <<msgs, at, held, got, up>>

Resting ==
  /\ Out' = Out /\ (sent \cap late = {} => sent' \cap late' = {})
  /\ data' \subseteq data /\ acks' \subseteq acks
  /\ up' \in {up, FALSE} /\ (up' # up => up)
  /\ UNCHANGED <<msgs, newest, at, held, got>>

Acknowledging(n) ==
  /\ n \in acks /\ acks' \subseteq acks
  /\ sent' = sent \ Acked(Wire(n)) /\ late' = late \ Acked(Wire(n))
  /\ UNCHANGED <<msgs, newest, data, at, held, got, up>>

Taking(n) ==
  /\ n \in data /\ data' \subseteq data
  /\ \E now : /\ now = IF Acceptable(Wire(MessageOf(n).first)) THEN Dispatched(With(n))
                       ELSE [held |-> held, at |-> at, got |-> got]
              /\ held' = now.held /\ at' = now.at /\ got' = now.got
  /\ acks' = IF AckDue(Wire(n), at') THEN acks \cup {n} ELSE acks
  /\ UNCHANGED <<msgs, newest, sent, late, up>>

ChannelStep(mc, cs) ==
  \/ NextMessage(mc, cs) \/ Resting
  \/ \E n : Sending(n) \/ Acknowledging(n) \/ Taking(n)

LEMMA OwnSteps == Next => ChannelStep(MaxCommands, Counts)
<1> SUFFICES ASSUME Next PROVE ChannelStep(MaxCommands, Counts)
  OBVIOUS
<1>1. ASSUME NEW c \in Counts, Send(c) PROVE NextMessage(MaxCommands, Counts)
  BY <1>1 DEF Send, NextMessage
<1>2. ASSUME NEW n, Transmit(n) PROVE Sending(n)
  BY <1>2 DEF Transmit, Sending, Recent
<1>3. ASSUME NEW n, Timeout(n) PROVE Resting
  BY <1>3 DEF Timeout, Resting, Out
<1>4. ASSUME NEW n, Receive(n) PROVE Taking(n)
  BY <1>4 DEF Receive, Taking
<1>5. ASSUME NEW n, ReceiveAck(n) PROVE Acknowledging(n)
  BY <1>5 DEF ReceiveAck, Acknowledging
<1>6. GiveUp => Resting
  BY DEF GiveUp, Resting, Out
<1>7. Lose => Resting
  BY DEF Lose, Resting, Out
<1> QED BY <1>1, <1>2, <1>3, <1>4, <1>5, <1>6, <1>7 DEF Next, ChannelStep

\* The channel with other bounds is the same channel.
LEMMA SameChannel ==
  /\ W!Upcoming = Upcoming
  /\ \A n : W!Wire(n) = Wire(n) /\ W!Blocked(n) = Blocked(n) /\ W!MessageOf(n) = MessageOf(n)
            /\ W!With(n) = With(n) /\ W!Acked(n) = Acked(n) /\ W!Acceptable(n) = Acceptable(n)
  /\ \A n, m : W!AckDue(n, m) = AckDue(n, m)
  /\ \A h : W!Dispatched(h) = Dispatched(h)
<1> USE DEF W!Wrap, W!Windows, Wrap, Windows, W!Wire, Wire
<1>1. W!Upcoming = Upcoming BY DEF W!Upcoming, Upcoming
<1>2. \A n : W!Wire(n) = Wire(n) OBVIOUS
<1>3. \A n : W!Window(n) = Window(n) BY DEF W!Window, Window
<1>4. \A v : W!InUse(v) = InUse(v)
  <2> TAKE v
  <2>1. {n \in sent \cup late : W!Window(n) = v} = {n \in sent \cup late : Window(n) = v} BY <1>3
  <2> QED BY <2>1 DEF W!InUse, InUse, W!Cardinality, Cardinality
<1>5. \A n : W!Blocked(n) = Blocked(n)
  BY <1>3, <1>4 DEF W!Blocked, Blocked, W!BlockedByUse, BlockedByUse
<1>6. \A n : W!MessageOf(n) = MessageOf(n) BY DEF W!MessageOf, MessageOf
<1>7. \A n : W!With(n) = With(n) BY <1>6 DEF W!With, With
<1>8. \A n : W!Acked(n) = Acked(n) BY DEF W!Acked, Acked
<1>9. \A n, m : W!Ahead(n, m) = Ahead(n, m) BY DEF W!Ahead, Ahead
<1>10. \A n : W!Acceptable(n) = Acceptable(n) BY <1>9 DEF W!Acceptable, Acceptable
<1>11. \A n, m : W!AckDue(n, m) = AckDue(n, m) BY <1>9 DEF W!AckDue, AckDue
<1>12. \A h : W!Dispatched(h) = Dispatched(h)
  <2> TAKE h
  <2> QED BY DEF W!Dispatched, Dispatched, W!Ready, Ready, W!LastOf, LastOf, W!Cardinality, Cardinality
<1> QED BY <1>1, <1>2, <1>5, <1>6, <1>7, <1>8, <1>10, <1>11, <1>12

LEMMA WrappingSteps == W!Next => ChannelStep(8, {1})
<1> SUFFICES ASSUME W!Next PROVE ChannelStep(8, {1})
  OBVIOUS
<1>1. ASSUME NEW c \in {1}, W!Send(c) PROVE NextMessage(8, {1})
  BY <1>1, SameChannel DEF W!Send, NextMessage
<1>2. ASSUME NEW n, W!Transmit(n) PROVE Sending(n)
  BY <1>2, SameChannel DEF W!Transmit, Sending, W!Recent
<1>3. ASSUME NEW n, W!Timeout(n) PROVE Resting
  BY <1>3 DEF W!Timeout, Resting, Out
<1>4. ASSUME NEW n, W!Receive(n) PROVE Taking(n)
  BY <1>4, SameChannel DEF W!Receive, Taking
<1>5. ASSUME NEW n, W!ReceiveAck(n) PROVE Acknowledging(n)
  BY <1>5, SameChannel DEF W!ReceiveAck, Acknowledging
<1>6. W!GiveUp => Resting
  BY DEF W!GiveUp, Resting, Out
<1>7. W!Lose => Resting
  BY DEF W!Lose, Resting, Out
<1> QED BY <1>1, <1>2, <1>3, <1>4, <1>5, <1>6, <1>7 DEF W!Next, ChannelStep

LEMMA StepKeeps ==
  ASSUME NEW mc, NEW cs \in SUBSET Sized, ChannelInv, ChannelStep(mc, cs)
  PROVE  ChannelInv'
<1>1. CASE NextMessage(mc, cs) BY <1>1, Putting DEF NextMessage
<1>2. CASE Resting BY <1>2, Quiet DEF Resting
<1>3. ASSUME NEW n, Sending(n) PROVE ChannelInv' BY <1>3, Transmitted DEF Sending
<1>4. ASSUME NEW n, Acknowledging(n) PROVE ChannelInv' BY <1>4, Acknowledged DEF Acknowledging
<1>5. ASSUME NEW n, Taking(n) PROVE ChannelInv' BY <1>5, Received DEF Taking
<1> QED BY <1>1, <1>2, <1>3, <1>4, <1>5 DEF ChannelStep

-----------------------------------------------------------------------------
(* What is bounded: at most mc commands, in messages of sizes cs.           *)

Bounded(mc, cs) ==
  /\ Reached(msgs, Len(msgs)) <= Start + mc
  /\ \A i \in 1 .. Len(msgs) : msgs[i].count \in cs
  /\ sent \cap late = {} /\ up \in BOOLEAN

LEMMA StartsBounded ==
  ASSUME NEW mc \in Nat, NEW cs
  PROVE  Init => Bounded(mc, cs)
<1>1. Start \in Nat /\ Start <= Start + mc BY Sizes
<1> QED BY <1>1 DEF Init, Bounded, Reached

LEMMA StaysBounded ==
  ASSUME NEW mc \in Nat, NEW cs \in SUBSET Sized, ChannelInv, Bounded(mc, cs), ChannelStep(mc, cs)
  PROVE  Bounded(mc, cs)'
<1>0. Orderly(msgs) /\ Out \subseteq Start + 1 .. newest /\ Start \in Nat
  BY Sizes DEF ChannelInv, Receiving, Coming
<1>1. CASE NextMessage(mc, cs)
  <2>1. PICK c \in cs : /\ up /\ Upcoming + c <= Start + mc + 1
                        /\ msgs' = Append(msgs, [first |-> Upcoming, count |-> c])
    BY <1>1 DEF NextMessage
  <2>2. PICK s : s = msgs' OBVIOUS
  <2> DEFINE f == Upcoming
  <2>3. f = Reached(msgs, Len(msgs)) + 1 BY <1>0, UpcomingIs
  <2>4. c \in Sized /\ c \in Nat \ {0} BY SizedIs
  <2>5. Len(msgs) \in Nat BY <1>0, OrderlyIs
  <2> DEFINE m == [first |-> f, count |-> c]
  <2>6. s = Append(msgs, m) BY <2>1, <2>2
  <2>7. m.count = c OBVIOUS
  <2>8. Len(s) = Len(msgs) + 1 /\ \A k \in 1 .. Len(msgs) : s[k] = msgs[k]
    <3> HIDE DEF f
    <3> QED BY <1>0, <2>3, <2>4, <2>6, OrderlyAppend
  <2>9. Reached(s, Len(msgs) + 1) = f + c - 1
    <3> HIDE DEF f
    <3> QED BY <1>0, <2>3, <2>4, <2>6, OrderlyAppend
  <2>10. s[Len(msgs) + 1] = m
    <3> HIDE DEF m
    <3>1. msgs \in Seq([first : Nat, count : Sized]) BY <1>0 DEF Orderly
    <3> QED BY <2>6, <3>1
  <2>11. f \in Nat
    <3>1. Len(msgs) \in 0 .. Len(msgs) BY <2>5
    <3> QED BY <2>3, <3>1, <1>0, OrderlyIs
  <2>12. Reached(s, Len(s)) <= Start + mc
    <3>1. f + c <= Start + mc + 1 BY <2>1
    <3> HIDE DEF f, m
    <3> QED BY <3>1, <2>4, <2>8, <2>9, <2>11, <1>0
  <2>13. \A i \in 1 .. Len(s) : s[i].count \in cs
    <3> TAKE i \in 1 .. Len(s)
    <3>1. CASE i = Len(msgs) + 1 BY <3>1, <2>7, <2>10
    <3>2. CASE i \in 1 .. Len(msgs) BY <3>2, <2>8 DEF Bounded
    <3> QED BY <3>1, <3>2, <2>5, <2>8
  <2>14. UNCHANGED <<sent, late, up>> BY <1>1 DEF NextMessage
  <2> QED BY <2>2, <2>12, <2>13, <2>14 DEF Bounded
<1>2. CASE Resting
  BY <1>2 DEF Resting, Bounded
<1>3. ASSUME NEW n, Sending(n) PROVE Bounded(mc, cs)'
  <2>1. sent' = sent \cup {n} /\ late' = late \ {n} /\ UNCHANGED <<msgs, up>> BY <1>3 DEF Sending
  <2>2. sent' \cap late' = {} BY <2>1 DEF Bounded
  <2> QED BY <2>1, <2>2 DEF Bounded
<1>4. ASSUME NEW n, Acknowledging(n) PROVE Bounded(mc, cs)'
  <2>1. sent' \subseteq sent /\ late' \subseteq late /\ UNCHANGED <<msgs, up>> BY <1>4 DEF Acknowledging
  <2>2. sent' \cap late' = {} BY <2>1 DEF Bounded
  <2> QED BY <2>1, <2>2 DEF Bounded
<1>5. ASSUME NEW n, Taking(n) PROVE Bounded(mc, cs)'
  BY <1>5 DEF Taking, Bounded
<1> QED BY <1>1, <1>2, <1>3, <1>4, <1>5 DEF ChannelStep

\* The type invariant, of commands N and sizes cs.
Typed(N, cs) ==
  /\ msgs \in Seq([first : N, count : cs])
  /\ newest \in N \cup {Start}
  /\ sent \subseteq N /\ late \subseteq N /\ sent \cap late = {}
  /\ data \subseteq N /\ acks \subseteq N
  /\ at \in 0 .. Wrap - 1
  /\ \A h \in held : h.seq \in 0 .. Wrap - 1 /\ h.first \in N
  /\ got \in Seq(N)
  /\ up \in BOOLEAN

LEMMA TypedIs ==
  ASSUME NEW mc \in Nat, NEW cs \in SUBSET Sized, ChannelInv, Bounded(mc, cs)
  PROVE  Typed(Start + 1 .. Start + mc, cs)
<1> DEFINE N == Start + 1 .. Start + mc
           k == Len(got)
           L == Len(msgs)
           a == Reached(msgs, k)
<1>1. Orderly(msgs) /\ got \in Seq(Nat) /\ newest <= Reached(msgs, L) /\ Reached(msgs, L) <= Start + mc
  BY DEF ChannelInv, Receiving, Bounded
<1>2. /\ newest \in Nat /\ k \in Nat /\ k \in 0 .. L /\ L \in Nat
      /\ at = Wire(a) /\ a \in Nat /\ a <= newest /\ Start <= a
      /\ HeldSound(held, msgs, k, newest)
  BY ReceivingIs DEF ChannelInv
<1>3. Start \in Nat /\ Wrap \in Nat BY Sizes
<1>4. L \in 0 .. L /\ Reached(msgs, L) \in Nat BY <1>1, <1>2, OrderlyIs
<1>5. \A i \in 1 .. L : msgs[i].first \in N
  <2> TAKE i \in 1 .. L
  <2>1. msgs[i].first \in Nat /\ msgs[i].count \in Nat \ {0} BY <1>1, OrderlyIs
  <2>2. i - 1 \in 0 .. L BY <1>2
  <2>3. msgs[i].first = Reached(msgs, i - 1) + 1 /\ Start <= Reached(msgs, i - 1)
    BY <1>1, <2>2 DEF Orderly
  <2>4. Reached(msgs, i - 1) \in Nat BY <1>1, <2>2, OrderlyIs
  <2>5. i <= L BY <1>2
  <2>6. msgs[i].first + msgs[i].count - 1 <= Reached(msgs, L) BY <1>1, <1>4, <2>5, Parted
  <2> DEFINE f == msgs[i].first
             c == msgs[i].count
             b == Reached(msgs, i - 1)
             e == Reached(msgs, L)
  <2>7. f \in Nat /\ c \in Nat \ {0} /\ f = b + 1 /\ Start <= b /\ b \in Nat /\ f + c - 1 <= e
        /\ e \in Nat /\ e <= Start + mc
    BY <1>1, <1>4, <2>1, <2>3, <2>4, <2>6
  <2> HIDE DEF f, c, b, e
  <2>8. f \in Start + 1 .. Start + mc BY ONLY <2>7, <1>3, mc \in Nat
  <2> QED BY <2>8 DEF f
<1>6. msgs \in Seq([first : N, count : cs])
  <2> DEFINE M == [first : N, count : cs]
  <2>1. ASSUME NEW i \in 1 .. L PROVE msgs[i] \in M
    <3>1. msgs[i] \in [first : Nat, count : Sized] BY <1>1, OrderlyIs
    <3>2. msgs[i].first \in N /\ msgs[i].count \in cs BY <1>5 DEF Bounded
    <3> HIDE DEF N
    <3> QED BY <3>1, <3>2
  <2> DEFINE O == [first : Nat, count : Sized]
  <2>2. msgs \in Seq(O) BY <1>1 DEF Orderly
  <2> HIDE DEF M, O
  <2>3. \A i \in 1 .. Len(msgs) : msgs[i] \in M BY ONLY <2>1
  <2>4. PICK s : s = msgs OBVIOUS
  <2>5. s \in Seq(O) /\ \A i \in 1 .. Len(s) : s[i] \in M BY ONLY <2>2, <2>3, <2>4
  <2>6. s \in Seq(M) BY ONLY <2>5
  <2> QED BY ONLY <2>4, <2>6 DEF M
<1>7. newest \in N \cup {Start} BY <1>1, <1>2, <1>3, <1>4
<1>8. Out \subseteq N /\ data \subseteq N /\ acks \subseteq N
  <2>1. Out \cup data \cup acks \subseteq Start + 1 .. newest BY DEF ChannelInv, Coming
  <2>2. Start + 1 .. newest \subseteq N BY <1>1, <1>2, <1>3, <1>4
  <2> HIDE DEF N
  <2> QED BY <2>1, <2>2
<1>9. at \in 0 .. Wrap - 1 BY <1>2, WireIs
<1>10. \A h \in held : h.seq \in 0 .. Wrap - 1 /\ h.first \in N
  <2> TAKE h \in held
  <2>1. Piece(h, msgs, k, newest) BY <1>2 DEF HeldSound
  <2>2. PICK i \in k + 1 .. L : msgs[i].first = h.first BY <2>1 DEF Piece
  <2>3. i \in 1 .. L BY <1>2
  <2>4. h.first \in N BY <1>5, <2>2, <2>3
  <2>5. h.first \in Nat BY <2>4, <1>3
  <2>6. h.seq = Wire(h.first) BY <2>1 DEF Piece
  <2>7. Wire(h.first) \in 0 .. Wrap - 1 BY <2>5, WireIs
  <2> HIDE DEF N
  <2> QED BY <2>4, <2>6, <2>7
<1>11. got \in Seq(N)
  <2>1. ASSUME NEW i \in 1 .. k PROVE got[i] \in N
    <3> DEFINE p == [held |-> held, at |-> at, got |-> got]
    <3>1. Good(p, msgs, newest) /\ p.got = got BY DEF ChannelInv, Receiving
    <3> HIDE DEF p, N
    <3>2. got[i] = msgs[i].first BY <3>1 DEF Good
    <3>3. i \in 1 .. L BY <1>2
    <3> QED BY <1>5, <3>2, <3>3
  <2> HIDE DEF N
  <2> QED BY <1>1, <2>1, SMTT(30)
<1> HIDE DEF N
<1>12. sent \subseteq N /\ late \subseteq N BY <1>8 DEF Out
<1> QED BY <1>6, <1>7, <1>8, <1>9, <1>10, <1>11, <1>12 DEF Typed, Bounded, N

LEMMA TypesAre ==
  /\ TypeOK <=> Typed(Start + 1 .. Start + MaxCommands, Counts)
  /\ W!TypeOK <=> Typed(Start + 1 .. Start + 8, {1})
<1>1. TypeOK <=> Typed(Start + 1 .. Start + MaxCommands, Counts)
  BY DEF TypeOK, Typed, Numbers
<1>2. W!Wrap = Wrap BY DEF W!Wrap, Wrap, W!Windows, Windows
<1>3. W!TypeOK <=> Typed(Start + 1 .. Start + 8, {1})
  BY <1>2 DEF W!TypeOK, Typed, W!Numbers
<1> QED BY <1>1, <1>3

-----------------------------------------------------------------------------
(* The queue: every step puts a message in, takes messages out in order,    *)
(* breaks the channel, or does nothing that shows.                          *)

Firsts == [i \in DOMAIN msgs |-> msgs[i].first]

LEMMA FirstsAre ==
  ASSUME NEW s, Orderly(s), NEW F1, F1 = [i \in DOMAIN s |-> s[i].first]
  PROVE  F1 \in Seq(Nat) /\ Len(F1) = Len(s) /\ \A i \in 1 .. Len(s) : F1[i] = s[i].first
<1>1. DOMAIN s = 1 .. Len(s) /\ Len(s) \in Nat BY DEF Orderly
<1>2. F1 = [i \in 1 .. Len(s) |-> s[i].first] BY <1>1
<1>3. \A i \in 1 .. Len(s) : s[i].first \in Nat BY OrderlyIs
<1>4. F1 \in [1 .. Len(s) -> Nat] BY <1>2, <1>3
<1>5. F1 \in Seq(Nat) /\ Len(F1) = Len(s) BY <1>1, <1>4
<1> QED BY <1>2, <1>5

LEMMA BeginsWith ==
  ASSUME NEW s \in Seq(Nat), NEW t \in Seq(Nat), Len(t) <= Len(s),
         \A i \in 1 .. Len(t) : t[i] = s[i]
  PROVE  t = SubSeq(s, 1, Len(t))
<1>1. Len(t) \in Nat /\ Len(s) \in Nat OBVIOUS
<1> DEFINE u == SubSeq(s, 1, Len(t))
<1>2. u \in Seq(Nat) /\ Len(u) = Len(t)
  BY <1>1
<1>3. \A i \in 1 .. Len(t) : u[i] = s[i]
  <2> TAKE i \in 1 .. Len(t)
  <2>1. 1 + i - 1 = i BY <1>1
  <2>2. u[i] = s[1 + i - 1] BY <1>1
  <2> QED BY <2>1, <2>2
<1> HIDE DEF u
<1>4. \A i \in 1 .. Len(t) : u[i] = t[i] BY <1>3
<1>5. u = t
  <2>1. DOMAIN u = 1 .. Len(t) /\ DOMAIN t = 1 .. Len(t) BY <1>2
  <2>2. u = [i \in 1 .. Len(t) |-> u[i]] /\ t = [i \in 1 .. Len(t) |-> t[i]] BY <1>2, <2>1
  <2> QED BY <1>4, <2>2
<1> QED BY <1>5 DEF u

LEMMA QueueStep ==
  ASSUME NEW mc \in Nat, NEW cs \in SUBSET Sized,
         ChannelInv, Bounded(mc, cs), ChannelStep(mc, cs), ChannelInv', Bounded(mc, cs)'
  PROVE  \/ \E m \in Start + 1 .. Start + mc :
               up /\ Firsts' = Append(Firsts, m) /\ UNCHANGED <<got, up>>
         \/ \E k \in Len(got) + 1 .. Len(Firsts) :
               got' = SubSeq(Firsts, 1, k) /\ UNCHANGED <<Firsts, up>>
         \/ up /\ up' = FALSE /\ UNCHANGED <<Firsts, got>>
         \/ UNCHANGED <<Firsts, got, up>>
<1>0. Orderly(msgs) /\ got \in Seq(Nat) BY DEF ChannelInv, Receiving
<1>1. CASE NextMessage(mc, cs)
  <2>1. PICK c \in cs : /\ up /\ Upcoming + c <= Start + mc + 1
                        /\ msgs' = Append(msgs, [first |-> Upcoming, count |-> c])
    BY <1>1 DEF NextMessage
  <2>2. PICK s, t, u : s = msgs' /\ t = Firsts /\ u = Firsts' OBVIOUS
  <2>3. Orderly(s) /\ u = [i \in DOMAIN s |-> s[i].first] BY <2>2 DEF ChannelInv, Receiving, Firsts
  <2> DEFINE f == Upcoming
             L == Len(msgs)
             m == [first |-> f, count |-> c]
  <2>4. f = Reached(msgs, L) + 1 /\ c \in Nat \ {0} /\ L \in Nat /\ Reached(msgs, L) \in Nat
        /\ Start <= Reached(msgs, L) /\ Start \in Nat
    <3>1. L \in Nat BY <1>0, OrderlyIs
    <3>2. L \in 0 .. L BY <3>1
    <3>3. Reached(msgs, L) \in Nat /\ Start <= Reached(msgs, L) BY <1>0, <3>2, OrderlyIs DEF Orderly
    <3> QED BY <1>0, <3>1, <3>3, UpcomingIs, SizedIs, Sizes
  <2>5. f \in Start + 1 .. Start + mc
    <3>1. f + c <= Start + mc + 1 BY <2>1
    <3> HIDE DEF f, L
    <3> QED BY <2>4, <3>1
  <2>6. s = Append(msgs, m) /\ m.first = f BY <2>1, <2>2
  <2>7. Len(s) = L + 1 /\ s[L + 1] = m /\ \A i \in 1 .. L : s[i] = msgs[i]
    <3>1. msgs \in Seq([first : Nat, count : Sized]) BY <1>0 DEF Orderly
    <3> HIDE DEF m
    <3> QED BY <3>1, <2>6
  <2>8. u \in Seq(Nat) /\ Len(u) = Len(s) /\ \A i \in 1 .. Len(s) : u[i] = s[i].first
    BY <2>3, FirstsAre
  <2>9. t \in Seq(Nat) /\ Len(t) = L /\ \A i \in 1 .. L : t[i] = msgs[i].first
    BY <1>0, <2>2, FirstsAre DEF Firsts
  <2>10. u = Append(t, f)
    <3>1. f \in Nat BY <2>4, <2>5
    <3> DEFINE v == Append(t, f)
    <3> HIDE DEF m, f, L
    <3>2. v \in Seq(Nat) /\ Len(v) = L + 1 /\ v[L + 1] = f /\ \A i \in 1 .. L : v[i] = t[i]
      BY <2>4, <2>9, <3>1
    <3> HIDE DEF v
    <3>3. \A i \in 1 .. L + 1 : u[i] = v[i]
      <4> TAKE i \in 1 .. L + 1
      <4>1. CASE i = L + 1 BY <4>1, <2>6, <2>7, <2>8, <3>2
      <4>2. CASE i \in 1 .. L BY <4>2, <2>4, <2>7, <2>8, <2>9, <3>2
      <4> QED BY <4>1, <4>2, <2>4
    <3>4. u = v BY <3>2, <3>3, <2>7, <2>8
    <3> QED BY <3>4 DEF v
  <2>11. UNCHANGED <<got, up>> BY <1>1 DEF NextMessage
  <2> HIDE DEF f
  <2> QED BY <2>1, <2>2, <2>5, <2>10, <2>11
<1>2. CASE Resting
  <2>1. UNCHANGED <<Firsts, got>> BY <1>2 DEF Resting, Firsts
  <2>2. up' = up \/ (up' = FALSE /\ up) BY <1>2 DEF Resting, Bounded
  <2> QED BY <2>1, <2>2
<1>3. ASSUME NEW n, Sending(n) PROVE UNCHANGED <<Firsts, got, up>>
  BY <1>3 DEF Sending, Firsts
<1>4. ASSUME NEW n, Acknowledging(n) PROVE UNCHANGED <<Firsts, got, up>>
  BY <1>4 DEF Acknowledging, Firsts
<1>5. ASSUME NEW n, Taking(n)
      PROVE  \/ \E k \in Len(got) + 1 .. Len(Firsts) :
                   got' = SubSeq(Firsts, 1, k) /\ UNCHANGED <<Firsts, up>>
             \/ UNCHANGED <<Firsts, got, up>>
  <2>1. UNCHANGED <<Firsts, up, msgs>> BY <1>5 DEF Taking, Firsts
  <2>2. Len(got) <= Len(got') BY <1>5, Received DEF Taking
  <2>3. PICK g, h, a : g = got' /\ h = held' /\ a = at' OBVIOUS
  <2>4. g \in Seq(Nat) /\ Good([held |-> h, at |-> a, got |-> g], msgs, newest')
    BY <2>1, <2>3 DEF ChannelInv, Receiving
  <2> DEFINE p == [held |-> h, at |-> a, got |-> g]
             b == [held |-> held, at |-> at, got |-> got]
  <2>5. Good(p, msgs, newest') /\ p.got = g BY <2>4
  <2>6. Good(b, msgs, newest) /\ b.got = got BY DEF ChannelInv, Receiving
  <2> HIDE DEF p, b
  <2>7. Len(g) <= Len(msgs) /\ \A i \in 1 .. Len(g) : g[i] = msgs[i].first BY <2>5 DEF Good
  <2>8. \A i \in 1 .. Len(got) : got[i] = msgs[i].first BY <2>6 DEF Good
  <2>9. PICK t : t = Firsts OBVIOUS
  <2>10. t \in Seq(Nat) /\ Len(t) = Len(msgs) /\ \A i \in 1 .. Len(msgs) : t[i] = msgs[i].first
    BY <1>0, <2>9, FirstsAre DEF Firsts
  <2>11. Len(g) \in Nat /\ Len(got) \in Nat /\ Len(msgs) \in Nat BY <1>0, <2>4, OrderlyIs
  <2>12. CASE Len(g) = Len(got)
    <3>1. g = got
      <4>1. \A i \in 1 .. Len(got) : g[i] = got[i] BY <2>7, <2>8, <2>12
      <4> QED BY <4>1, <2>4, <1>0, <2>12
    <3> QED BY <2>1, <2>3, <3>1
  <2>13. CASE Len(g) # Len(got)
    <3>1. Len(g) \in Len(got) + 1 .. Len(t) BY <2>2, <2>3, <2>7, <2>10, <2>11, <2>13
    <3>2. \A i \in 1 .. Len(g) : g[i] = t[i] BY <2>7, <2>10, <2>11
    <3>3. g = SubSeq(t, 1, Len(g)) BY <2>4, <2>7, <2>10, <3>2, BeginsWith
    <3> QED BY <2>1, <2>3, <2>9, <3>1, <3>3
  <2> QED BY <2>12, <2>13
<1> QED BY <1>1, <1>2, <1>3, <1>4, <1>5 DEF ChannelStep

-----------------------------------------------------------------------------
(* A command that was acknowledged was taken in.                            *)

TookIn(n) ==
  \/ \E i \in DOMAIN got : got[i] = MessageOf(n).first
  \/ \E h \in held : h.first = MessageOf(n).first /\ n - h.first \notin h.missing

LEMMA TakenIn ==
  ASSUME ChannelInv, NEW n \in Start + 1 .. newest, n \notin sent \cup late
  PROVE  TookIn(n)
<1> DEFINE k == Len(got)
           a == Reached(msgs, k)
<1>1. Taken(n, a, held) BY DEF ChannelInv, Coming, Out
<1>2. Orderly(msgs) /\ newest <= Reached(msgs, Len(msgs)) /\ got \in Seq(Nat)
      /\ Good([held |-> held, at |-> at, got |-> got], msgs, newest)
  BY DEF ChannelInv, Receiving
<1>3. newest \in Nat /\ k \in Nat /\ k \in 0 .. Len(msgs) /\ Len(msgs) \in Nat /\ a \in Nat
      /\ HeldSound(held, msgs, k, newest)
  BY ReceivingIs DEF ChannelInv
<1>4. n \in Nat /\ n \in Start + 1 .. Reached(msgs, Len(msgs))
  <2>1. Len(msgs) \in 0 .. Len(msgs) BY <1>3
  <2>2. Reached(msgs, Len(msgs)) \in Nat BY <1>2, <2>1, OrderlyIs
  <2> QED BY <2>2, <1>2, <1>3, Sizes
<1>5. PICK i \in 1 .. Len(msgs) : MessageOf(n) = msgs[i] /\ Holds(msgs[i], n)
  BY <1>2, <1>4, MessageIs
<1>6. CASE n <= a
  <2>1. i <= k
    <3>1. i > k => a < msgs[i].first BY <1>2, <1>3, Parted
    <3>2. msgs[i].first \in Nat /\ msgs[i].first <= n BY <1>2, <1>5, OrderlyIs DEF Holds
    <3> HIDE DEF a, k
    <3> QED BY <3>1, <3>2, <1>3, <1>4, <1>6
  <2>2. got[i] = msgs[i].first
    <3> DEFINE b == [held |-> held, at |-> at, got |-> got]
    <3>1. Good(b, msgs, newest) /\ b.got = got BY <1>2
    <3> HIDE DEF b
    <3> QED BY <3>1, <2>1, <1>3 DEF Good
  <2>3. i \in DOMAIN got BY <1>2, <1>3, <2>1
  <2> QED BY <2>2, <2>3, <1>5 DEF TookIn
<1>7. CASE \E h \in held : Holds(h, n) /\ n - h.first \notin h.missing
  <2>1. PICK h \in held : Holds(h, n) /\ n - h.first \notin h.missing BY <1>7
  <2>2. PICK j \in k + 1 .. Len(msgs) : msgs[j].first = h.first /\ msgs[j].count = h.count
    BY <1>3 DEF HeldSound, Piece
  <2>3. j \in 1 .. Len(msgs) /\ Holds(msgs[j], n) BY <1>3, <2>1, <2>2 DEF Holds
  <2>4. i = j BY <1>2, <1>4, <1>5, <2>3, InOneMessage
  <2> QED BY <2>1, <2>2, <2>4, <1>5 DEF TookIn
<1> QED BY <1>1, <1>6, <1>7 DEF Taken

LEMMA AckedAre == ChannelInv => AckedReceived /\ W!AckedReceived
<1> SUFFICES ASSUME ChannelInv PROVE AckedReceived /\ W!AckedReceived
  OBVIOUS
<1>1. AckedReceived BY TakenIn DEF AckedReceived, TookIn
<1>2. W!AckedReceived BY TakenIn, SameChannel DEF W!AckedReceived, TookIn
<1> QED BY <1>1, <1>2

-----------------------------------------------------------------------------
(* What the channel promises.                                               *)

\* The channel by itself.
OwnInv == ChannelInv /\ Bounded(MaxCommands, Counts)

LEMMA OwnSizes == MaxCommands \in Nat /\ Counts \in SUBSET Sized /\ {1} \in SUBSET Sized /\ 8 \in Nat
BY ChannelAssumption DEF Sized

LEMMA OwnKept == OwnInv /\ [Next]_vars => OwnInv'
<1> SUFFICES ASSUME OwnInv, [Next]_vars PROVE OwnInv'
  OBVIOUS
<1>1. CASE Next
  <2>1. ChannelStep(MaxCommands, Counts) BY <1>1, OwnSteps
  <2> QED BY <2>1, OwnSizes, StepKeeps, StaysBounded DEF OwnInv
<1>2. CASE UNCHANGED vars
  <2>1. Out' = Out BY <1>2 DEF vars, Out
  <2>2. ChannelInv' BY <1>2, <2>1, Quiet DEF vars, OwnInv
  <2>3. Bounded(MaxCommands, Counts)' BY <1>2 DEF vars, Bounded, OwnInv
  <2> QED BY <2>2, <2>3 DEF OwnInv
<1> QED BY <1>1, <1>2

(* enet_peer_send, the protocol and the dispatcher of one channel: messages *)
(* come out in the order in which they went in, each once, whatever the     *)
(* network loses, delays, repeats or reorders and however often the 16 bits *)
(* of the sequence numbers wrap.                                            *)
THEOREM Delivers == Spec => InOrder
<1>1. Init => OwnInv BY Starting, StartsBounded, OwnSizes DEF OwnInv
<1>2. OwnInv /\ [Next]_vars => OwnInv' BY OwnKept
<1>3. Init => F!Init
  <2> SUFFICES ASSUME Init PROVE F!Init
    OBVIOUS
  <2>1. msgs = <<>> /\ got = <<>> /\ up = TRUE BY DEF Init
  <2> QED BY <2>1 DEF F!Init
<1>4. OwnInv /\ OwnInv' /\ [Next]_vars => [F!Next]_(F!vars)
  <2> SUFFICES ASSUME OwnInv, OwnInv', [Next]_vars PROVE [F!Next]_(F!vars)
    OBVIOUS
  <2>1. CASE UNCHANGED vars BY <2>1 DEF vars, F!vars
  <2>2. CASE Next
    <3> DEFINE N == Start + 1 .. Start + MaxCommands
    <3>1. ChannelStep(MaxCommands, Counts) BY <2>2, OwnSteps
    <3>2. \/ \E m \in N : up /\ Firsts' = Append(Firsts, m) /\ UNCHANGED <<got, up>>
          \/ \E k \in Len(got) + 1 .. Len(Firsts) :
               got' = SubSeq(Firsts, 1, k) /\ UNCHANGED <<Firsts, up>>
          \/ up /\ up' = FALSE /\ UNCHANGED <<Firsts, got>>
          \/ UNCHANGED <<Firsts, got, up>>
      BY <3>1, OwnSizes, QueueStep DEF OwnInv
    <3>3. Numbers = N BY DEF Numbers
    <3> HIDE DEF N
    <3> QED BY <3>2, <3>3 DEF F!Next, F!Put, F!Get, F!Break, F!vars, Firsts
  <2> QED BY <2>1, <2>2
<1> QED BY <1>1, <1>2, <1>3, <1>4, PTL DEF Spec, InOrder, F!Spec

(* enet_protocol_remove_sent_reliable_command: only what was received is    *)
(* forgotten by the sender.                                                 *)
THEOREM AckedWasReceived == Spec => []AckedReceived
<1>1. Init => OwnInv BY Starting, StartsBounded, OwnSizes DEF OwnInv
<1>2. OwnInv /\ [Next]_vars => OwnInv' BY OwnKept
<1>3. OwnInv => AckedReceived BY AckedAre DEF OwnInv
<1> QED BY <1>1, <1>2, <1>3, PTL DEF Spec

\* The two channels of the run.
TransportInv ==
  /\ ChannelInv
  /\ IF part = "wrapping" THEN Bounded(8, {1}) ELSE Bounded(MaxCommands, Counts)

LEMMA TransportStarts == MCInit => TransportInv
BY Starting, StartsBounded, OwnSizes DEF MCInit, TransportInv

LEMMA TransportStep ==
  MCNext => /\ part' = part
            /\ \/ part = "wrapping" /\ ChannelStep(8, {1})
               \/ part = "losses" /\ ChannelStep(MaxCommands, Counts)
               \/ UNCHANGED vars
BY WrappingSteps, OwnSteps DEF MCNext, Wrapping, Losses, Connected

LEMMA TransportKept == TransportInv /\ [MCNext]_allVars => TransportInv'
<1> SUFFICES ASSUME TransportInv, [MCNext]_allVars PROVE TransportInv'
  OBVIOUS
<1>1. part' = part BY TransportStep DEF allVars
<1>2. CASE part = "wrapping" /\ ChannelStep(8, {1})
  <2>1. ChannelInv' /\ Bounded(8, {1})'
    BY <1>2, OwnSizes, StepKeeps, StaysBounded DEF TransportInv
  <2> QED BY <1>1, <1>2, <2>1 DEF TransportInv
<1>3. CASE part = "losses" /\ ChannelStep(MaxCommands, Counts)
  <2>1. ChannelInv' /\ Bounded(MaxCommands, Counts)'
    BY <1>3, OwnSizes, StepKeeps, StaysBounded DEF TransportInv
  <2> QED BY <1>1, <1>3, <2>1 DEF TransportInv
<1>4. CASE UNCHANGED vars
  <2>1. Out' = Out BY <1>4 DEF vars, Out
  <2>2. ChannelInv' BY <1>4, <2>1, Quiet DEF vars, TransportInv
  <2>3. Bounded(8, {1})' = Bounded(8, {1}) /\ Bounded(MaxCommands, Counts)' = Bounded(MaxCommands, Counts)
    BY <1>4 DEF vars, Bounded
  <2> QED BY <1>1, <2>2, <2>3 DEF TransportInv
<1> QED BY <1>2, <1>3, <1>4, TransportStep DEF allVars

LEMMA TransportQueue ==
  TransportInv /\ TransportInv' /\ [MCNext]_allVars => [B!Next]_(B!vars)
<1> SUFFICES ASSUME TransportInv, TransportInv', [MCNext]_allVars PROVE [B!Next]_(B!vars)
  OBVIOUS
<1>1. part' = part BY TransportStep DEF allVars
<1> DEFINE Queued(N) ==
      \/ \E m \in N : up /\ Firsts' = Append(Firsts, m) /\ UNCHANGED <<got, up>>
      \/ \E k \in Len(got) + 1 .. Len(Firsts) :
           got' = SubSeq(Firsts, 1, k) /\ UNCHANGED <<Firsts, up>>
      \/ up /\ up' = FALSE /\ UNCHANGED <<Firsts, got>>
      \/ UNCHANGED <<Firsts, got, up>>
<1>2. CASE part = "wrapping" /\ ChannelStep(8, {1})
  <2> DEFINE N == Start + 1 .. Start + 8
  <2>1. Queued(N) BY <1>1, <1>2, OwnSizes, QueueStep DEF TransportInv
  <2>2. W!Numbers = N BY DEF W!Numbers
  <2> HIDE DEF N
  <2> QED BY <2>1, <2>2 DEF B!Next, B!Put, B!Get, B!Break, B!vars, Firsts
<1>3. CASE part = "losses" /\ ChannelStep(MaxCommands, Counts)
  <2> DEFINE N == Start + 1 .. Start + MaxCommands
  <2>1. Queued(N) BY <1>1, <1>3, OwnSizes, QueueStep DEF TransportInv
  <2>2. Numbers = N BY DEF Numbers
  <2> HIDE DEF N
  <2> QED BY <2>1, <2>2 DEF B!Next, B!Put, B!Get, B!Break, B!vars, Firsts
<1>4. CASE UNCHANGED vars BY <1>4 DEF vars, B!vars
<1> QED BY <1>2, <1>3, <1>4, TransportStep DEF allVars

LEMMA TransportTyped == TransportInv => IF part = "wrapping" THEN W!TypeOK ELSE TypeOK
<1> SUFFICES ASSUME TransportInv PROVE IF part = "wrapping" THEN W!TypeOK ELSE TypeOK
  OBVIOUS
<1>1. CASE part = "wrapping"
  <2>1. Typed(Start + 1 .. Start + 8, {1}) BY <1>1, OwnSizes, TypedIs DEF TransportInv
  <2> QED BY <1>1, <2>1, TypesAre
<1>2. CASE part # "wrapping"
  <2>1. Typed(Start + 1 .. Start + MaxCommands, Counts) BY <1>2, OwnSizes, TypedIs DEF TransportInv
  <2> QED BY <1>2, <2>1, TypesAre
<1> QED BY <1>1, <1>2

(* The queue of a channel, for either of the channels that are run: the     *)
(* variables keep their types, and every step is one of the queue.          *)
THEOREM ChannelsDeliver == MCSpec => ChannelIsFifo
<1>1. MCSpec => MCInit /\ [][MCNext]_allVars BY PTL DEF MCSpec
<1>2. MCInit => TransportInv BY TransportStarts
<1>3. TransportInv /\ [MCNext]_allVars => TransportInv' BY TransportKept
<1>4. MCInit => B!Init
  <2> SUFFICES ASSUME MCInit PROVE B!Init
    OBVIOUS
  <2>1. msgs = <<>> /\ got = <<>> /\ up = TRUE BY DEF MCInit, Init
  <2> QED BY <2>1 DEF B!Init
<1>5. TransportInv /\ TransportInv' /\ [MCNext]_allVars => [B!Next]_(B!vars) BY TransportQueue
<1>6. TransportInv => IF part = "wrapping" THEN W!TypeOK ELSE TypeOK BY TransportTyped
<1> QED BY <1>1, <1>2, <1>3, <1>4, <1>5, <1>6, PTL DEF ChannelIsFifo, B!Spec

(* In either channel the sender forgets only what was received.             *)
THEOREM ChannelsKeep == MCSpec => []AckedIsReceived
<1>1. MCSpec => MCInit /\ [][MCNext]_allVars BY PTL DEF MCSpec
<1>2. MCInit => TransportInv BY TransportStarts
<1>3. TransportInv /\ [MCNext]_allVars => TransportInv' BY TransportKept
<1>4. TransportInv => AckedIsReceived BY AckedAre DEF TransportInv, AckedIsReceived
<1> QED BY <1>1, <1>2, <1>3, <1>4, PTL
=============================================================================
