------------------------------- MODULE Store_proofs -------------------------------
(***************************************************************************)
(* Theorems about the data-file, for all that may be saved, every base and *)
(* any number of runs, some killed and some with a stream that fails.      *)
(***************************************************************************)
EXTENDS Store, SuffixOrder_proofs, SequenceTheorems

\* A sequence of length m, given by its elements.
List(s, m) == m \in Nat /\ s = [p \in 1 .. m |-> s[p]]

\* A list is a sequence of that length.
LEMMA ListFacts ==
  ASSUME NEW s, NEW m, List(s, m)
  PROVE  s \in Seq({s[p] : p \in 1 .. m}) /\ Len(s) = m /\ DOMAIN s = 1 .. m
<1> DEFINE T == {s[p] : p \in 1 .. m}
<1>1. m \in Nat /\ s \in [1 .. m -> T]
  BY DEF List
<1>2. s \in Seq(T)
  BY <1>1
<1> QED BY <1>1, <1>2

Joined(u, s, t) == u = s \o t
Front(u, m, s) == \A p \in 1 .. m : u[p] = s[p]
Behind(u, m, k, t) == \A p \in 1 .. k : u[m + p] = t[p]

\* The parts of a file one behind the other: where each of them is.
LEMMA ListConcat ==
  \A s, m, t, k, u :
    List(s, m) /\ List(t, k) /\ Joined(u, s, t) =>
      List(u, m + k) /\ Front(u, m, s) /\ Behind(u, m, k, t)
<1> SUFFICES ASSUME NEW s, NEW m, List(s, m), NEW t, NEW k, List(t, k), NEW u, Joined(u, s, t)
             PROVE  /\ List(u, m + k)
                    /\ \A p \in 1 .. m : u[p] = s[p]
                    /\ \A p \in 1 .. k : u[m + p] = t[p]
  BY DEF Front, Behind
<1>1. m \in Nat /\ k \in Nat
  BY DEF List
<1> DEFINE T == {s[p] : p \in 1 .. m} \cup {t[p] : p \in 1 .. k}
<1>2. s \in Seq(T) /\ Len(s) = m /\ t \in Seq(T) /\ Len(t) = k
  <2>1. s \in [1 .. m -> T] /\ t \in [1 .. k -> T]
    BY DEF List
  <2>2. s \in Seq(T) /\ t \in Seq(T)
    BY <1>1, <2>1, SMTT(30)
  <2> QED BY <2>2, ListFacts
<1> HIDE DEF T
<1>3. u = [p \in 1 .. m + k |-> IF p <= m THEN s[p] ELSE t[p - m]]
  <2>1. /\ u \in Seq(T) /\ Len(u) = m + k
        /\ \A p \in 1 .. m + k : u[p] = IF p <= m THEN s[p] ELSE t[p - m]
    BY <1>2, ConcatProperties DEF Joined
  <2>2. u = [p \in 1 .. m + k |-> u[p]]
    BY <2>1
  <2> QED BY <2>1, <2>2
<1>4. \A p \in 1 .. k : m + p \in 1 .. m + k /\ ~ (m + p <= m) /\ (m + p) - m = p
  BY <1>1
<1>5. \A p \in 1 .. m : p \in 1 .. m + k /\ p <= m
  BY <1>1
<1> QED BY <1>1, <1>3, <1>4, <1>5 DEF List
-----------------------------------------------------------------------------

\* The powers are what their recursion says.
OnePower(f, m) == f \in [0 .. m -> Nat] /\ f[0] = 1 /\ \A k \in 1 .. m : f[k] = Base * f[k - 1]

\* Powers up to m exist: the least m without them would have them from m - 1.
LEMMA PowersExist == \A m \in Nat : \E f : OnePower(f, m)
<1> DEFINE T == {m \in Nat : ~ \E f : OnePower(f, m)}
<1> SUFFICES ASSUME T # {} PROVE FALSE
  OBVIOUS
<1>1. PICK m \in T : \A k \in T : m <= k
  BY LeastElement
<1>2. m # 0
  <2>1. OnePower([p \in 0 .. 0 |-> 1], 0)
    BY DEF OnePower
  <2> QED BY <1>1, <2>1
<1>3. m - 1 \in Nat /\ m \in Nat /\ m - 1 \notin T
  BY <1>1, <1>2
<1>4. PICK f : OnePower(f, m - 1)
  BY <1>3
<1> DEFINE g == [k \in 0 .. m |-> IF k = m THEN Base * f[m - 1] ELSE f[k]]
<1>5. Base * f[m - 1] \in Nat
  <2>1. f[m - 1] \in Nat /\ Base \in Nat
    BY <1>3, <1>4, BaseAssumption DEF OnePower
  <2> QED BY <2>1
<1>6. \A k \in 0 .. m - 1 : g[k] = f[k] /\ f[k] \in Nat
  BY <1>3, <1>4 DEF OnePower
<1>7. g[m] = Base * f[m - 1] /\ g[m - 1] = f[m - 1]
  BY <1>3
<1>8. g \in [0 .. m -> Nat]
  <2>1. ASSUME NEW k \in 0 .. m PROVE (IF k = m THEN Base * f[m - 1] ELSE f[k]) \in Nat
    <3>1. k # m => k \in 0 .. m - 1
      BY <1>3
    <3> QED BY <1>5, <1>6, <3>1
  <2> QED BY <2>1
<1> HIDE DEF g
<1>9. g[0] = 1
  BY <1>2, <1>3, <1>4, <1>6 DEF OnePower
<1>10. ASSUME NEW k \in 1 .. m PROVE g[k] = Base * g[k - 1]
  <2>1. CASE k = m
    BY <1>7, <2>1
  <2>2. CASE k # m
    <3>1. k \in 1 .. m - 1 /\ k \in 0 .. m - 1 /\ k - 1 \in 0 .. m - 1
      BY <1>3, <2>2
    <3> QED BY <1>4, <1>6, <3>1 DEF OnePower
  <2> QED BY <2>1, <2>2
<1>11. OnePower(g, m)
  BY <1>8, <1>9, <1>10 DEF OnePower
<1> QED BY <1>1, <1>11

\* Two tables of powers agree where both are defined.
LEMMA PowersAgree ==
  ASSUME NEW m \in Nat, NEW f, OnePower(f, m), NEW k \in Nat, NEW g, OnePower(g, k)
  PROVE  \A p \in 0 .. m : p <= k => f[p] = g[p]
<1> DEFINE T == {p \in 0 .. m : p <= k /\ f[p] # g[p]}
<1> SUFFICES ASSUME T # {} PROVE FALSE
  OBVIOUS
<1>1. PICK p \in T : \A q \in T : p <= q
  <2>1. T \in SUBSET Nat
    OBVIOUS
  <2> QED BY <2>1, LeastElement
<1>2. p \in 0 .. m /\ p <= k /\ f[p] # g[p] /\ p # 0
  BY <1>1 DEF OnePower
<1>3. p \in 1 .. m /\ p \in 1 .. k /\ p - 1 \in 0 .. m /\ p - 1 <= k /\ ~ (p <= p - 1)
  BY <1>2
<1>4. f[p - 1] = g[p - 1]
  BY <1>1, <1>3
<1> QED BY <1>2, <1>3, <1>4 DEF OnePower

\* So there is a function that satisfies the recursion of Power.
LEMMA PowerIs == Power = [w \in Nat |-> IF w = 0 THEN 1 ELSE Base * Power[w - 1]]
<1> DEFINE F(m) == CHOOSE f : OnePower(f, m)
           P == [m \in Nat |-> F(m)[m]]
<1>1. \A m \in Nat : OnePower(F(m), m)
  BY PowersExist
<1> HIDE DEF F
<1>2. ASSUME NEW m \in Nat PROVE P[m] = IF m = 0 THEN 1 ELSE Base * P[m - 1]
  <2>1. CASE m = 0
    BY <1>1, <2>1 DEF OnePower
  <2>2. CASE m # 0
    <3>1. m - 1 \in Nat /\ m \in 1 .. m /\ m - 1 \in 0 .. m - 1 /\ m - 1 <= m
      BY <2>2
    <3>2. OnePower(F(m), m) /\ OnePower(F(m - 1), m - 1)
      BY <1>1, <3>1
    <3>3. F(m)[m] = Base * F(m)[m - 1]
      BY <3>1, <3>2 DEF OnePower
    <3>4. F(m - 1)[m - 1] = F(m)[m - 1]
      BY <3>1, <3>2, PowersAgree
    <3> QED BY <2>2, <3>1, <3>3, <3>4
  <2> QED BY <2>1, <2>2
<1>3. P = [m \in Nat |-> IF m = 0 THEN 1 ELSE Base * P[m - 1]]
  BY <1>2
<1> HIDE DEF P
<1> DEFINE Q(f) == f = [m \in Nat |-> IF m = 0 THEN 1 ELSE Base * f[m - 1]]
<1>4. Q(CHOOSE f : Q(f))
  BY <1>3
<1>5. Power = CHOOSE f : Q(f)
  BY DEF Power
<1> QED BY <1>4, <1>5

\* Powers are positive, and grow faster than their exponents.
LEMMA PowerFacts ==
  /\ Power[0] = 1
  /\ \A w \in Nat : Power[w] \in Nat /\ Power[w + 1] = Base * Power[w]
  /\ \A w \in Nat : w < Power[w] /\ Power[w] # 0
<1>1. Power[0] = 1
  BY PowerIs
<1>2. ASSUME NEW w \in Nat PROVE Power[w + 1] = Base * Power[w]
  <2>1. w + 1 \in Nat /\ w + 1 # 0 /\ (w + 1) - 1 = w
    OBVIOUS
  <2> QED BY <2>1, PowerIs
<1> DEFINE T == {w \in Nat : ~ (Power[w] \in Nat /\ w < Power[w])}
<1>3. T = {}
  <2> SUFFICES ASSUME T # {} PROVE FALSE
    OBVIOUS
  <2>1. PICK w \in T : \A k \in T : w <= k
    BY LeastElement
  <2>2. w # 0
    BY <1>1, <2>1
  <2>3. PICK v \in Nat : w = v + 1
    <3>1. w - 1 \in Nat /\ w = (w - 1) + 1
      BY <2>1, <2>2
    <3> QED BY <3>1
  <2>4. v \notin T
    BY <2>1, <2>3
  <2>5. PICK x : x = Power[v]
    OBVIOUS
  <2>6. x \in Nat /\ v < x /\ Power[v + 1] = Base * x
    BY <1>2, <2>4, <2>5
  <2>7. Base * x \in Nat /\ Base * x >= 2 * x
    BY <2>6, BaseAssumption
  <2>8. v + 1 < Base * x
    BY <2>6, <2>7
  <2> QED BY <2>1, <2>3, <2>6, <2>7, <2>8
<1> QED BY <1>1, <1>2, <1>3
-----------------------------------------------------------------------------

\* Division of natural numbers, by uniqueness of quotient and remainder.
LEMMA Multiple ==
  ASSUME NEW b \in Nat, NEW x \in Int, x >= 1 PROVE x * b \in Int /\ x * b >= b
<1>1. (x - 1) * b \in Int /\ (x - 1) * b >= 0
  BY SMT
<1>2. x * b = (x - 1) * b + b
  BY SMT
<1> QED BY <1>1, <1>2

\* Quotient and remainder give the number back.
LEMMA DivMod ==
  ASSUME NEW a \in Nat, NEW b \in Nat \ {0}
  PROVE a \div b \in Nat /\ a % b \in 0 .. b - 1 /\ a = (a \div b) * b + (a % b)
 BY SMT

\* No other quotient and remainder do.
LEMMA Unique ==
  ASSUME NEW b \in Nat \ {0}, NEW q \in Nat, NEW r \in 0 .. b - 1, NEW p \in Nat, NEW s \in 0 .. b - 1, q * b + r = p * b + s
  PROVE  q = p /\ r = s
<1>1. (q - p) * b = s - r
  BY SMT
<1>2. ~ (q - p >= 1)
  BY <1>1, Multiple, SMT
<1>3. (p - q) * b = r - s
  BY SMT
<1>4. ~ (p - q >= 1)
  BY <1>3, Multiple, SMT
<1> QED BY <1>1, <1>2, <1>4, SMT

\* So a number written as a multiple and a rest has these as quotient and remainder.
LEMMA Quotient ==
  ASSUME NEW b \in Nat \ {0}, NEW q \in Nat, NEW r \in 0 .. b - 1
  PROVE  (q * b + r) \div b = q /\ (q * b + r) % b = r
<1>1. q * b + r \in Nat
  BY SMT
<1> QED BY <1>1, DivMod, Unique

\* Division by a product is division by its factors.
LEMMA DivDiv ==
  \A a, b, c, d :
    a \in Nat /\ b \in Nat \ {0} /\ c \in Nat \ {0} /\ d = c * b =>
      a \div d = (a \div b) \div c
<1> SUFFICES ASSUME NEW a \in Nat, NEW b \in Nat \ {0}, NEW c \in Nat \ {0}, NEW d, d = c * b
             PROVE  a \div d = (a \div b) \div c
  OBVIOUS
<1>1. PICK q \in Nat : q = a \div b
  BY DivMod, ZenonT(40)
<1>2. PICK r \in 0 .. b - 1 : a = q * b + r
  BY <1>1, DivMod, ZenonT(40)
<1>3. PICK p \in Nat : p = q \div c
  BY DivMod, ZenonT(40)
<1>4. PICK s \in 0 .. c - 1 : q = p * c + s
  BY <1>3, DivMod, ZenonT(40)
<1>5. c * b \in Nat \ {0} /\ s * b + r \in Nat /\ s * b + r < c * b
  <2>1. c * b \in Nat /\ s * b \in Nat /\ c * b = (c - s) * b + s * b
    BY SMT
  <2>2. (c - s) * b \in Int /\ (c - s) * b >= b
    BY Multiple
  <2> QED BY <2>1, <2>2
<1>6. a = p * (c * b) + (s * b + r)
  BY <1>2, <1>4, SMT
<1>7. a \div (c * b) = p
  <2>1. d \in Nat \ {0} /\ d = c * b
    BY <1>5
  <2>2. PICK t \in 0 .. d - 1 : t = s * b + r
    BY <1>5, <2>1
  <2>3. a = p * d + t
    BY <1>6, <2>1, <2>2
  <2> QED BY <2>1, <2>3, Quotient
<1> QED BY <1>1, <1>3, <1>5, <1>7

\* An index has a width, and digits that give it back.
LEMMA WidthFacts ==
  ASSUME NEW i \in Nat \ {0}
  PROVE  Width(i) \in Nat \ {0} /\ i < Power[Width(i)]
<1> DEFINE T == {w \in 1 .. i + 1 : i < Power[w]}
<1>1. i + 1 \in T
  BY PowerFacts
<1>2. PICK w \in T : \A k \in T : w <= k
  <2>1. T \in SUBSET Nat /\ T # {}
    BY <1>1
  <2> QED BY <2>1, LeastElement
<1>3. w = 1 \/ Power[w - 1] <= i
  <2> SUFFICES ASSUME w # 1 PROVE Power[w - 1] <= i
    OBVIOUS
  <2>1. w - 1 \in 1 .. i + 1 /\ w - 1 \in Nat /\ ~ (w <= w - 1)
    OBVIOUS
  <2>2. Power[w - 1] \in Nat /\ ~ (i < Power[w - 1])
    BY <1>2, <2>1, PowerFacts
  <2> QED BY <2>2
<1>4. \E u \in 1 .. i + 1 : i < Power[u] /\ (u = 1 \/ Power[u - 1] <= i)
  BY <1>2, <1>3
<1>5. Width(i) \in 1 .. i + 1 /\ i < Power[Width(i)]
  BY <1>4 DEF Width
<1> QED BY <1>5

\* Which index a cell of the strings belongs to, and which digit it is (write pads the
\* strings to the same width).
LEMMA DigitOfIndex ==
  ASSUME NEW sa, NEW w \in Nat \ {0}, NEW p \in Nat, NEW e \in 1 .. w
  PROVE  DigitAt(sa, w, p * w + e) = (sa[p] \div Power[w - e]) % Base
<1>1. PICK r \in 0 .. w - 1 : r = e - 1
  OBVIOUS
<1>2. (p * w + e) - 1 = p * w + r
  <2>1. p * w \in Nat
    OBVIOUS
  <2> QED BY <1>1, <2>1
<1>3. ((p * w + e) - 1) \div w = p /\ ((p * w + e) - 1) % w = r
  BY <1>2, Quotient
<1>4. w - 1 - r = w - e
  BY <1>1
<1> QED BY <1>3, <1>4 DEF DigitAt

\* One digit more of v.
LEMMA NextDigit ==
  ASSUME NEW v \in Nat, NEW w \in Nat, NEW c \in 1 .. w
  PROVE  /\ v \div Power[w - (c - 1)] \in Nat /\ v \div Power[w - c] \in Nat
         /\ v \div Power[w - c]
              = WithDigit(v \div Power[w - (c - 1)], (v \div Power[w - c]) % Base)
<1>1. PICK b \in Nat \ {0} : b = Power[w - c]
  BY PowerFacts
<1>2. Power[w - (c - 1)] = Base * b
  <2>1. w - c \in Nat /\ w - (c - 1) = (w - c) + 1
    OBVIOUS
  <2> QED BY <1>1, <2>1, PowerFacts
<1>3. Base \in Nat \ {0}
  BY BaseAssumption
<1>4. PICK d : d = Base * b
  OBVIOUS
<1>5. v \div d = (v \div b) \div Base
  BY <1>3, <1>4, DivDiv
<1>6. PICK q \in Nat : q = v \div b
  BY DivMod
<1>7. q = (q \div Base) * Base + (q % Base) /\ q \div Base \in Nat
  BY <1>3, DivMod
<1> QED BY <1>1, <1>2, <1>4, <1>5, <1>6, <1>7 DEF WithDigit

\* The string of v, read digit by digit up to its width, has the value v.
LEMMA StringGivesBack ==
  ASSUME NEW v \in Nat, NEW w \in Nat \ {0}, v < Power[w], NEW p \in Nat \ {0},
         Len(disk) \in Nat, p + w - 1 <= Len(disk),
         \A e \in 1 .. w : disk[p + e - 1] = Cell("digit", (v \div Power[w - e]) % Base)
  PROVE  StringValue(p, w) = v
<1> DEFINE last == IF p + w - 1 < Len(disk) THEN p + w - 1 ELSE Len(disk)
           Fits(c) == /\ \A e \in p .. p + c - 1 : disk[e].kind = "digit"
                      /\ p + c > last \/ disk[p + c].kind # "digit"
           digits == CHOOSE c \in 0 .. last - p + 1 : Fits(c)
           Q(f) == f = [c \in 0 .. digits |->
                         IF c = 0 THEN 0 ELSE WithDigit(f[c - 1], disk[p + c - 1].v)]
<1>1. StringValue(p, w) = (CHOOSE f : Q(f))[digits]
  BY DEF StringValue
<1>2. last = p + w - 1
  OBVIOUS
<1> HIDE DEF last
<1>3. \A e \in p .. p + w - 1 : disk[e].kind = "digit"
  <2> SUFFICES ASSUME NEW e \in p .. p + w - 1 PROVE disk[e].kind = "digit"
    OBVIOUS
  <2>1. e - p + 1 \in 1 .. w /\ p + (e - p + 1) - 1 = e
    OBVIOUS
  <2>2. disk[e] = Cell("digit", (v \div Power[w - (e - p + 1)]) % Base)
    BY <2>1
  <2> QED BY <2>2 DEF Cell
<1>4. w \in 0 .. last - p + 1 /\ Fits(w)
  BY <1>2, <1>3
<1>5. ASSUME NEW c \in 0 .. last - p + 1, Fits(c) PROVE c = w
  <2>1. c <= w
    BY <1>2
  <2>2. c < w => p + c \in p .. p + w - 1 /\ ~ (p + c > last)
    BY <1>2
  <2> QED BY <1>3, <1>5, <2>1, <2>2
<1> HIDE DEF Fits
<1>6. digits = w
  BY <1>4, <1>5
<1> HIDE DEF digits
<1> DEFINE g == [c \in 0 .. w |-> v \div Power[w - c]]
<1>7. \A c \in 1 .. w : disk[p + c - 1].v = (v \div Power[w - c]) % Base
  <2> SUFFICES ASSUME NEW c \in 1 .. w
               PROVE  disk[p + c - 1].v = (v \div Power[w - c]) % Base
    OBVIOUS
  <2>1. disk[p + c - 1] = Cell("digit", (v \div Power[w - c]) % Base)
    OBVIOUS
  <2> QED BY <2>1 DEF Cell
<1>8. v \div Power[w] = 0 /\ v \div Power[0] = v
  <2>1. PICK b \in Nat \ {0} : b = Power[w]
    BY PowerFacts
  <2>2. v \in 0 .. b - 1 /\ v = 0 * b + v
    BY <2>1
  <2>3. v \div b = 0
    BY <2>2, Quotient
  <2>4. v = v * 1 + 0 /\ 0 \in 0 .. 1 - 1 /\ 1 \in Nat \ {0}
    OBVIOUS
  <2>5. v \div 1 = v
    BY <2>4, Quotient
  <2> QED BY <2>1, <2>3, <2>5, PowerFacts
<1>9. ASSUME NEW c \in 0 .. w
      PROVE  g[c] = IF c = 0 THEN 0 ELSE WithDigit(g[c - 1], disk[p + c - 1].v)
  <2>1. CASE c = 0
    BY <1>8, <2>1
  <2>2. CASE c # 0
    <3>1. c \in 1 .. w /\ c - 1 \in 0 .. w
      BY <2>2
    <3>2. g[c] = v \div Power[w - c] /\ g[c - 1] = v \div Power[w - (c - 1)]
      BY <3>1
    <3>3. v \div Power[w - c]
            = WithDigit(v \div Power[w - (c - 1)], (v \div Power[w - c]) % Base)
      BY <3>1, NextDigit
    <3>4. disk[p + c - 1].v = (v \div Power[w - c]) % Base
      BY <1>7, <3>1
    <3> HIDE DEF g
    <3> QED BY ONLY <2>2, <3>2, <3>3, <3>4
  <2> QED BY <2>1, <2>2
<1>10. Q(g)
  BY <1>6, <1>9
<1>11. Q(CHOOSE f : Q(f))
  BY <1>10
<1> HIDE DEF Q
<1>12. PICK f : f = (CHOOSE h : Q(h)) /\ Q(f)
  BY ONLY <1>11
<1>13. \A c \in 0 .. w : f[c] = IF c = 0 THEN 0 ELSE WithDigit(f[c - 1], disk[p + c - 1].v)
  <2>1. f = [c \in 0 .. digits |->
              IF c = 0 THEN 0 ELSE WithDigit(f[c - 1], disk[p + c - 1].v)]
    BY ONLY <1>12 DEF Q
  <2> HIDE DEF g
  <2> QED BY ONLY <1>6, <2>1
<1> DEFINE T == {c \in 0 .. w : f[c] # g[c]}
<1> HIDE DEF g
<1>14. T = {}
  <2> SUFFICES ASSUME T # {} PROVE FALSE
    OBVIOUS
  <2>1. PICK c \in T : \A k \in T : c <= k
    <3>1. T \in SUBSET Nat
      OBVIOUS
    <3> QED BY <3>1, LeastElement
  <2>2. c \in 0 .. w /\ f[c] # g[c] /\ c # 0
    BY <1>9, <1>13, <2>1
  <2>3. c - 1 \in 0 .. w /\ ~ (c <= c - 1)
    BY <2>2
  <2>4. f[c - 1] = g[c - 1]
    BY <2>1, <2>3
  <2> QED BY <1>9, <1>13, <2>2, <2>4
<1>15. g[w] = v
  BY <1>8 DEF g
<1> QED BY <1>1, <1>6, <1>12, <1>14, <1>15
-----------------------------------------------------------------------------

\* Where the fields are in the file.
ArraySize(x) == IF x.cmpr THEN 1 + Width(x.size) * EntryCount(x) ELSE EntryCount(x)
RowCount(x) == IF x.lcp THEN x.size + 1 ELSE 0
FlagAt(x) == 3 + x.size + ArraySize(x)

\* What is known of anything that is saved.
LEMMA SaveFacts ==
  ASSUME NEW x \in Saves
  PROVE  /\ x.cmpr \in BOOLEAN /\ x.lcp \in BOOLEAN /\ x.size \in Nat \ {0}
         /\ x.data = [p \in 0 .. x.size - 1 |-> x.data[p]]
         /\ x.sa = [p \in 0 .. x.size |-> x.sa[p]]
         /\ \A p \in 0 .. x.size : x.sa[p] \in 0 .. x.size
         /\ EntryCount(x) = x.size + 1 /\ RowCount(x) \in Nat
<1>1. /\ x.cmpr \in BOOLEAN /\ x.lcp \in BOOLEAN /\ x.size \in Numbers \ {0, 1}
      /\ x.data \in [0 .. x.size - 1 -> Numbers] /\ x.sa \in [0 .. x.size -> 0 .. x.size]
  BY SavesAssumption
<1>2. x.size \in Nat \ {0}
  BY <1>1 DEF Numbers
<1>3. EntryCount(x) = x.size + 1 /\ RowCount(x) \in Nat
  BY <1>1, <1>2 DEF EntryCount, RowCount
<1> QED BY <1>1, <1>2, <1>3

\* The cells of the suffix array, as numbers or as a width and strings.
LEMMA ArrayLayout ==
  ASSUME NEW x \in Saves
  PROVE  /\ List(ArrayCells(x), ArraySize(x)) /\ ArraySize(x) \in Nat \ {0}
         /\ ~ x.cmpr => \A p \in 0 .. x.size : ArrayCells(x)[1 + p] = Cell("num", x.sa[p])
         /\ x.cmpr =>
              /\ Width(x.size) \in Nat \ {0} /\ x.size < Power[Width(x.size)]
              /\ ArrayCells(x)[1] = Cell("num", Width(x.size))
              /\ \A c \in 1 .. Width(x.size) * (x.size + 1) :
                   ArrayCells(x)[1 + c] = Cell("digit", DigitAt(x.sa, Width(x.size), c))
<1>1. x.size \in Nat \ {0} /\ EntryCount(x) = x.size + 1
  BY SaveFacts
<1>2. CASE ~ x.cmpr
  <2>1. ArrayCells(x) = [p \in 1 .. x.size + 1 |-> Cell("num", x.sa[p - 1])]
    BY <1>1, <1>2 DEF ArrayCells
  <2>2. ArraySize(x) = x.size + 1
    BY <1>1, <1>2 DEF ArraySize
  <2>3. \A p \in 0 .. x.size : 1 + p \in 1 .. x.size + 1 /\ (1 + p) - 1 = p
    BY <1>1
  <2> QED BY <1>1, <1>2, <2>1, <2>2, <2>3 DEF List
<1>3. CASE x.cmpr
  <2>1. PICK w \in Nat \ {0} : w = Width(x.size)
    BY <1>1, WidthFacts
  <2>2. x.size < Power[w]
    BY <1>1, <2>1, WidthFacts
  <2>3. PICK k \in Nat : k = w * (x.size + 1)
    <3>1. w * (x.size + 1) \in Nat
      BY <1>1, <2>1
    <3> QED BY <3>1
  <2> DEFINE s == <<Cell("num", w)>>
             t == [c \in 1 .. k |-> Cell("digit", DigitAt(x.sa, w, c))]
  <2>4. PICK u : Joined(u, s, t) /\ ArrayCells(x) = u
    BY <1>1, <1>3, <2>1, <2>3 DEF ArrayCells, Joined
  <2>5. ArraySize(x) = 1 + k
    BY <1>1, <1>3, <2>1, <2>3 DEF ArraySize
  <2>6. List(s, 1) /\ List(t, k) /\ s[1] = Cell("num", w)
    BY DEF List
  <2>7. \A c \in 1 .. k : t[c] = Cell("digit", DigitAt(x.sa, w, c))
    OBVIOUS
  <2> HIDE DEF s, t
  <2>8. List(u, 1 + k) /\ Front(u, 1, s) /\ Behind(u, 1, k, t)
    BY ONLY <2>4, <2>6, ListConcat
  <2>9. PICK a : a = ArrayCells(x)
    OBVIOUS
  <2>10. a = u /\ 1 + k \in Nat \ {0}
    BY <2>4, <2>9
  <2> HIDE <2>4
  <2> QED BY <1>3, <2>1, <2>2, <2>3, <2>5, <2>6, <2>7, <2>8, <2>9, <2>10 DEF Front, Behind
<1> QED BY <1>2, <1>3

\* The position of each field in a complete file.
LEMMA ImageLayout ==
  ASSUME NEW x \in Saves, NEW I, I = Image(x)
  PROVE  /\ List(I, FlagAt(x) + RowCount(x)) /\ FlagAt(x) \in Nat
         /\ I[1] = Cell("flag", x.cmpr) /\ I[2] = Cell("num", x.size)
         /\ \A p \in 0 .. x.size - 1 : I[3 + p] = Cell("sym", x.data[p])
         /\ \A p \in 1 .. ArraySize(x) : I[2 + x.size + p] = ArrayCells(x)[p]
         /\ I[FlagAt(x)] = Cell("flag", x.lcp)
         /\ x.lcp => \A p \in 1 .. x.size + 1 : I[FlagAt(x) + p] = Cell("row", p)
<1> DEFINE a == <<Cell("flag", x.cmpr), Cell("num", x.size)>>
           b == [p \in 1 .. x.size |-> Cell("sym", x.data[p - 1])]
           c == ArrayCells(x)
           d == <<Cell("flag", x.lcp)>>
           e == IF x.lcp THEN [p \in 1 .. x.size + 1 |-> Cell("row", p)] ELSE << >>
           m == x.size
           k == ArraySize(x)
           r == RowCount(x)
<1>1. I = (((a \o b) \o c) \o d) \o e
  BY DEF Image
<1>2. m \in Nat /\ k \in Nat /\ r \in Nat /\ List(c, k) /\ FlagAt(x) = 3 + m + k
  BY SaveFacts, ArrayLayout DEF FlagAt
<1>3. List(a, 2) /\ a[1] = Cell("flag", x.cmpr) /\ a[2] = Cell("num", x.size)
  BY DEF List
<1>4. List(b, m) /\ \A p \in 1 .. m : b[p] = Cell("sym", x.data[p - 1])
  BY <1>2 DEF List
<1>5. List(d, 1) /\ d[1] = Cell("flag", x.lcp)
  BY DEF List
<1>6. List(e, r) /\ (x.lcp => r = m + 1 /\ \A p \in 1 .. m + 1 : e[p] = Cell("row", p))
  <2>1. CASE x.lcp
    BY <1>2, <2>1 DEF List, RowCount
  <2>2. CASE ~ x.lcp
    BY <2>2 DEF List, RowCount
  <2> QED BY <2>1, <2>2
<1> HIDE DEF a, b, c, d, e, m, k, r
<1>7. PICK u : u = a \o b /\ Joined(u, a, b)
  BY DEF Joined
<1>8. List(u, 2 + m) /\ Front(u, 2, a) /\ Behind(u, 2, m, b)
  BY ONLY <1>3, <1>4, <1>7, ListConcat
<1>9. PICK v : v = u \o c /\ Joined(v, u, c)
  BY DEF Joined
<1>10. List(v, 2 + m + k) /\ Front(v, 2 + m, u) /\ Behind(v, 2 + m, k, c)
  BY ONLY <1>2, <1>8, <1>9, ListConcat
<1>11. PICK w : w = v \o d /\ Joined(w, v, d)
  BY DEF Joined
<1>12. List(w, 2 + m + k + 1) /\ Front(w, 2 + m + k, v) /\ Behind(w, 2 + m + k, 1, d)
  BY ONLY <1>5, <1>10, <1>11, ListConcat
<1>13. 2 + m + k + 1 = 3 + m + k
  BY <1>2
<1>14. Joined(I, w, e)
  BY <1>1, <1>7, <1>9, <1>11 DEF Joined
<1>15. List(I, 2 + m + k + 1 + r) /\ Front(I, 2 + m + k + 1, w) /\ Behind(I, 2 + m + k + 1, r, e)
  BY ONLY <1>6, <1>12, <1>14, ListConcat
<1>16. \A p \in 1 .. 2 + m : I[p] = u[p]
  <2> SUFFICES ASSUME NEW p \in 1 .. 2 + m PROVE I[p] = u[p]
    OBVIOUS
  <2>1. p \in 1 .. 2 + m + k /\ p \in 1 .. 2 + m + k + 1
    BY <1>2
  <2> QED BY <1>10, <1>12, <1>15, <2>1 DEF Front, Behind
<1>17. I[1] = Cell("flag", x.cmpr) /\ I[2] = Cell("num", x.size)
  <2>1. 1 \in 1 .. 2 + m /\ 2 \in 1 .. 2 + m /\ 1 \in 1 .. 2 /\ 2 \in 1 .. 2
    BY <1>2
  <2> QED BY <1>3, <1>8, <1>16, <2>1 DEF Front
<1>18. ASSUME NEW p \in 0 .. m - 1 PROVE I[3 + p] = Cell("sym", x.data[p])
  <2>1. 3 + p \in 1 .. 2 + m /\ 3 + p = 2 + (p + 1) /\ p + 1 \in 1 .. m /\ (p + 1) - 1 = p
    BY <1>2
  <2>2. I[3 + p] = u[2 + (p + 1)] /\ u[2 + (p + 1)] = b[p + 1]
    BY <1>8, <1>16, <2>1 DEF Front, Behind
  <2> QED BY <1>4, <2>1, <2>2
<1>19. ASSUME NEW p \in 1 .. k PROVE I[2 + m + p] = c[p]
  <2>1. 2 + m + p \in 1 .. 2 + m + k /\ 2 + m + p \in 1 .. 2 + m + k + 1
    BY <1>2
  <2> QED BY <1>10, <1>12, <1>15, <2>1 DEF Front, Behind
<1>20. I[3 + m + k] = Cell("flag", x.lcp)
  <2>1. 3 + m + k \in 1 .. 2 + m + k + 1 /\ 1 \in 1 .. 1
    BY <1>2
  <2> QED BY <1>5, <1>12, <1>13, <1>15, <2>1 DEF Front, Behind
<1>21. x.lcp => \A p \in 1 .. m + 1 : I[3 + m + k + p] = Cell("row", p)
  BY <1>6, <1>13, <1>15 DEF Front, Behind
<1>22. List(I, FlagAt(x) + r) /\ FlagAt(x) \in Nat
  BY <1>2, <1>13, <1>15
<1> HIDE <1>1, <1>7, <1>9, <1>11, <1>14
<1> USE DEF m, k, c, r
<1> QED BY <1>2, <1>17, <1>18, <1>19, <1>20, <1>21, <1>22
-----------------------------------------------------------------------------

\* The file is what the last write that opened it has got to.
Written ==
  /\ saved \in Saves
  /\ wpc = "writing" => owner = saved
  /\ List(disk, Len(disk))
  /\ owner # NoSave =>
       /\ owner \in Saves
       /\ \A p \in 1 .. Len(disk) : disk[p] = Image(owner)[p]

GotFields ==
  got = [cmpr |-> got.cmpr, size |-> got.size, data |-> got.data,
         width |-> got.width, sa |-> got.sa, rows |-> got.rows]

\* What a good stream has got so far, and where it stands.
GotSoFar ==
  /\ at \in Nat /\ at - 1 <= Len(disk)
  /\ rpc = "flag" => at = 1
  /\ rpc = "size" => at = 2
  /\ rpc = "data" => at = 3
  /\ rpc \in {"width", "array"} => at = 3 + owner.size
  /\ rpc = "strings" => at = 4 + owner.size /\ got.width = Width(owner.size)
  /\ rpc = "lcp" => at = FlagAt(owner)
  /\ rpc # "flag" => got.cmpr = owner.cmpr
  /\ rpc \notin {"flag", "size"} => got.size = owner.size
  /\ rpc \in {"array", "lcp", "done"} => ~ got.cmpr /\ got.data = owner.data
  /\ rpc \in {"width", "strings"} => got.cmpr
  /\ rpc \in {"lcp", "done"} => got.sa = owner.sa
  /\ rpc = "done" => got.rows = IF owner.lcp THEN [p \in 1 .. owner.size + 1 |-> p] ELSE << >>

\* A whole file keeps the stream good, but for the loop over the index strings.
AllRead ==
  disk = Image(owner) => good \/ (rpc \in {"lcp", "done"} /\ owner.cmpr /\ got.cmpr)

Undisturbed ==
  /\ quiet /\ rpc \notin {"ready", "refused", "thrown"} =>
       /\ owner # NoSave
       /\ good => GotSoFar
       /\ AllRead
       /\ rpc = "lcp" /\ got.cmpr /\ disk = Image(owner) =>
            \A p \in 0 .. owner.size : got.sa[p] = owner.sa[p]
  /\ quiet /\ rpc = "thrown" => ~ (disk = Image(owner) /\ ~ owner.cmpr)

IInv == Written /\ GotFields /\ Undisturbed
-----------------------------------------------------------------------------
\* No file, and no read.
LEMMA InitIInv == Init => IInv
<1> SUFFICES ASSUME Init PROVE IInv
  OBVIOUS
<1>1. saved \in Saves /\ wpc = "ready" /\ disk = << >> /\ owner = NoSave /\ rpc = "ready"
  BY DEF Init
<1>2. List(disk, Len(disk))
  BY <1>1 DEF List
<1>3. GotFields
  BY DEF Init, Nothing, GotFields
<1> QED BY <1>1, <1>2, <1>3 DEF IInv, Written, Undisturbed

\* A step of the writer that leaves the file alone.
LEMMA WriterIInv == IInv /\ (Report \/ StreamFails \/ Crash \/ RunAgain) => IInv'
<1> SUFFICES ASSUME IInv, Report \/ StreamFails \/ Crash \/ RunAgain PROVE IInv'
  OBVIOUS
<1>1. /\ disk' = disk /\ owner' = owner /\ saved' \in Saves
      /\ rpc' = rpc /\ at' = at /\ good' = good /\ quiet' = quiet /\ got' = got
      /\ wpc' = "writing" => wpc = "writing" /\ saved' = saved
  BY DEF Report, StreamFails, Crash, RunAgain, reader, IInv, Written
<1>2. Written'
  BY <1>1 DEF IInv, Written
<1>3. GotFields' /\ Undisturbed'
  BY <1>1 DEF IInv, GotFields, Undisturbed, GotSoFar, AllRead
<1> QED BY <1>2, <1>3 DEF IInv

\* The file is emptied; a read that is under way is disturbed.
LEMMA OpenToWriteIInv == IInv /\ OpenToWrite => IInv'
<1> SUFFICES ASSUME IInv, OpenToWrite PROVE IInv'
  OBVIOUS
<1>1. /\ disk' = << >> /\ owner' = saved /\ saved' = saved /\ saved \in Saves
      /\ quiet' = FALSE /\ got' = got
  BY DEF OpenToWrite, IInv, Written
<1>2. Len(disk') = 0 /\ List(disk', Len(disk'))
  BY <1>1 DEF List
<1>3. Written'
  BY <1>1, <1>2 DEF Written
<1> QED BY <1>1, <1>3 DEF IInv, GotFields, Undisturbed

\* The file grows by the next cell of its image.
LEMMA WriteCellIInv == IInv /\ WriteCell => IInv'
<1> SUFFICES ASSUME IInv, WriteCell PROVE IInv'
  OBVIOUS
<1>1. /\ wpc = "writing" /\ wpc' = wpc /\ owner' = owner /\ saved' = saved /\ owner = saved
      /\ quiet' = FALSE /\ got' = got /\ saved \in Saves
  BY DEF WriteCell, IInv, Written, writer
<1>2. PICK m : m = Len(disk) /\ List(disk, m)
  BY DEF IInv, Written
<1>3. PICK c : c = Image(owner)[m + 1] /\ disk' = Append(disk, c)
  BY <1>1, <1>2 DEF WriteCell
<1>4. /\ List(disk', m + 1) /\ disk'[m + 1] = c /\ Len(disk') = m + 1
      /\ \A p \in 1 .. m : disk'[p] = disk[p]
  <2> DEFINE T == {disk[p] : p \in 1 .. m} \cup {c}
  <2>1. m \in Nat /\ disk \in [1 .. m -> T] /\ c \in T
    BY <1>2 DEF List
  <2>2. disk \in Seq(T) /\ Len(disk) = m
    BY <1>2, <2>1
  <2> HIDE DEF T
  <2>3. PICK d : d = Append(disk, c)
    OBVIOUS
  <2>4. /\ d \in Seq(T) /\ Len(d) = m + 1 /\ d[m + 1] = c
        /\ \A p \in 1 .. m : d[p] = disk[p]
    BY <2>1, <2>2, <2>3, AppendProperties
  <2>5. d = [p \in 1 .. m + 1 |-> d[p]]
    BY ONLY <2>4
  <2> QED BY <1>3, <2>1, <2>3, <2>4, <2>5 DEF List
<1>5. owner' # NoSave =>
        owner' \in Saves /\ \A p \in 1 .. m + 1 : disk'[p] = Image(owner')[p]
  <2> SUFFICES ASSUME owner # NoSave, NEW p \in 1 .. m + 1 PROVE disk'[p] = Image(owner)[p]
    BY <1>1
  <2>1. m \in Nat /\ (p # m + 1 => p \in 1 .. m)
    BY <1>2 DEF List
  <2>2. p # m + 1 => disk[p] = Image(owner)[p]
    BY <1>2, <2>1 DEF IInv, Written
  <2> QED BY <1>3, <1>4, <2>1, <2>2
<1>6. Written'
  BY <1>1, <1>4, <1>5 DEF Written
<1> QED BY <1>1, <1>6 DEF IInv, GotFields, Undisturbed

\* The cells that have been written are where the reader looks for them.
LEMMA DiskFields ==
  ASSUME Written, owner # NoSave
  PROVE  /\ owner \in Saves /\ Len(disk) \in Nat
         /\ 1 <= Len(disk) => disk[1] = Cell("flag", owner.cmpr)
         /\ 2 <= Len(disk) => disk[2] = Cell("num", owner.size)
         /\ \A p \in 0 .. owner.size - 1 :
              3 + p <= Len(disk) => disk[3 + p] = Cell("sym", owner.data[p])
         /\ \A p \in 1 .. ArraySize(owner) :
              2 + owner.size + p <= Len(disk) => disk[2 + owner.size + p] = ArrayCells(owner)[p]
         /\ FlagAt(owner) <= Len(disk) => disk[FlagAt(owner)] = Cell("flag", owner.lcp)
         /\ owner.lcp =>
              \A p \in 1 .. owner.size + 1 :
                FlagAt(owner) + p <= Len(disk) => disk[FlagAt(owner) + p] = Cell("row", p)
         /\ disk = Image(owner) => Len(disk) = FlagAt(owner) + RowCount(owner)
<1>1. owner \in Saves /\ Len(disk) \in Nat /\ \A p \in 1 .. Len(disk) : disk[p] = Image(owner)[p]
  BY DEF Written, List
<1>2. PICK I : I = Image(owner)
  OBVIOUS
<1>3. /\ owner.size \in Nat \ {0} /\ ArraySize(owner) \in Nat /\ RowCount(owner) \in Nat
      /\ FlagAt(owner) = 3 + owner.size + ArraySize(owner)
  BY <1>1, SaveFacts, ArrayLayout DEF FlagAt
<1>4. /\ List(I, FlagAt(owner) + RowCount(owner)) /\ FlagAt(owner) \in Nat
      /\ I[1] = Cell("flag", owner.cmpr) /\ I[2] = Cell("num", owner.size)
      /\ \A p \in 0 .. owner.size - 1 : I[3 + p] = Cell("sym", owner.data[p])
      /\ \A p \in 1 .. ArraySize(owner) : I[2 + owner.size + p] = ArrayCells(owner)[p]
      /\ I[FlagAt(owner)] = Cell("flag", owner.lcp)
      /\ owner.lcp => \A p \in 1 .. owner.size + 1 : I[FlagAt(owner) + p] = Cell("row", p)
  BY <1>1, <1>2, ImageLayout
<1>5. \A p \in Nat \ {0} : p <= Len(disk) => disk[p] = I[p]
  BY <1>1, <1>2
<1>6. disk = Image(owner) => Len(disk) = FlagAt(owner) + RowCount(owner)
  BY <1>2, <1>4, ListFacts
<1>7. /\ \A p \in 0 .. owner.size - 1 : 3 + p \in Nat \ {0}
      /\ \A p \in 1 .. ArraySize(owner) : 2 + owner.size + p \in Nat \ {0}
      /\ FlagAt(owner) \in Nat \ {0}
      /\ \A p \in 1 .. owner.size + 1 : FlagAt(owner) + p \in Nat \ {0}
  BY <1>3
<1> QED BY ONLY <1>1, <1>4, <1>5, <1>6, <1>7

\* A read of one cell that is there and of the right kind gets its value.
LEMMA OneCell ==
  ASSUME NEW p, NEW kind, NEW any, NEW held, NEW b \in Stored(p, kind, any, held),
         good, p <= Len(disk), p \in Nat, Len(disk) \in Nat, NEW v, disk[p] = Cell(kind, v)
  PROVE  b = v
<1>1. disk[p].kind = kind /\ disk[p].v = v
  BY DEF Cell
<1>2. Stored(p, kind, any, held) = {v}
  BY <1>1 DEF Stored
<1> QED BY <1>2

\* A read of m such cells gets them in order.
LEMMA ManyCells ==
  ASSUME NEW m \in Nat, NEW kind, NEW any, NEW u \in Vectors(m, kind, any),
         good, at \in Nat, Len(disk) \in Nat, at + m - 1 <= Len(disk),
         NEW f, f = [p \in 0 .. m - 1 |-> f[p]],
         \A p \in 0 .. m - 1 : disk[at + p] = Cell(kind, f[p])
  PROVE  u = f
<1>1. /\ u \in [0 .. m - 1 -> any \cup {0}]
      /\ \A p \in 0 .. m - 1 : u[p] \in Stored(at + p, kind, any, {0})
  BY DEF Vectors
<1>2. ASSUME NEW p \in 0 .. m - 1 PROVE u[p] = f[p]
  <2>1. PICK q : q = at + p
    OBVIOUS
  <2>2. q \in Nat /\ q <= Len(disk) /\ disk[q] = Cell(kind, f[p])
    BY <2>1
  <2>3. u[p] \in Stored(q, kind, any, {0})
    BY <1>1, <2>1
  <2> QED BY <2>2, <2>3, OneCell
<1> QED BY <1>1, <1>2
-----------------------------------------------------------------------------
\* What a step of the reader has to keep.
LEMMA ReaderFrame ==
  ASSUME IInv, UNCHANGED <<disk, owner, writer, quiet>>, GotFields',
         quiet /\ rpc \notin {"ready", "refused", "thrown"} => Undisturbed'
  PROVE  rpc \notin {"ready", "refused", "thrown"} => IInv'
<1>1. Written'
  BY DEF IInv, Written, writer
<1>2. ~ quiet => Undisturbed'
  BY DEF Undisturbed
<1> QED BY <1>1, <1>2 DEF IInv

\* A process begins to read, or another one does.
LEMMA OpenIInv == IInv /\ (OpenToRead \/ Refuse \/ ReadAgain) => IInv'
<1> SUFFICES ASSUME IInv, OpenToRead \/ Refuse \/ ReadAgain PROVE IInv'
  OBVIOUS
<1>1. disk' = disk /\ owner' = owner /\ saved' = saved /\ wpc' = wpc
  BY DEF OpenToRead, Refuse, ReadAgain, writer
<1>2. Written'
  BY <1>1 DEF IInv, Written
<1>3. got' \in {got, Nothing}
  BY DEF OpenToRead, Refuse, ReadAgain
<1>4. GotFields'
  BY <1>3 DEF IInv, GotFields, Nothing
<1>5. Undisturbed'
  <2>1. CASE OpenToRead
    <3>1. owner # NoSave /\ rpc' = "flag" /\ at' = 1 /\ good' = TRUE
      BY <2>1 DEF OpenToRead
    <3>2. Len(disk) \in Nat
      BY DEF IInv, Written, List
    <3> QED BY <1>1, <3>1, <3>2 DEF Undisturbed, GotSoFar, AllRead
  <2>2. CASE Refuse \/ ReadAgain
    BY <2>2 DEF Refuse, ReadAgain, Undisturbed
  <2> QED BY <2>1, <2>2
<1> QED BY <1>2, <1>4, <1>5 DEF IInv

\* What the reader knows when nobody has written.
LEMMA Undisturbedly ==
  ASSUME IInv, quiet, rpc \notin {"ready", "refused", "thrown"}
  PROVE  /\ owner # NoSave /\ owner \in Saves /\ Len(disk) \in Nat
         /\ good => GotSoFar
         /\ disk = Image(owner) /\ rpc \notin {"lcp", "done"} => good
         /\ owner.size \in Nat \ {0} /\ ArraySize(owner) \in Nat \ {0}
         /\ FlagAt(owner) = 3 + owner.size + ArraySize(owner)
         /\ disk = Image(owner) => FlagAt(owner) <= Len(disk)
<1>1. owner # NoSave /\ Written /\ (good => GotSoFar) /\ AllRead
  BY DEF IInv, Undisturbed
<1>2. owner \in Saves /\ Len(disk) \in Nat
  BY <1>1, DiskFields
<1>3. /\ owner.size \in Nat \ {0} /\ ArraySize(owner) \in Nat \ {0} /\ RowCount(owner) \in Nat
      /\ FlagAt(owner) = 3 + owner.size + ArraySize(owner)
  BY <1>2, SaveFacts, ArrayLayout DEF FlagAt
<1>4. disk = Image(owner) => Len(disk) = FlagAt(owner) + RowCount(owner)
  BY <1>1, DiskFields
<1> QED BY <1>1, <1>2, <1>3, <1>4 DEF AllRead

\* cmpr is the flag that was written.
LEMMA ReadFlagIInv == IInv /\ ReadFlag => IInv'
<1> SUFFICES ASSUME IInv, ReadFlag PROVE IInv'
  OBVIOUS
<1>1. /\ UNCHANGED <<disk, owner, writer, quiet>> /\ rpc = "flag" /\ rpc' = "size"
      /\ at' = at + 1 /\ (good' <=> good /\ at + 1 - 1 <= Len(disk))
  BY DEF ReadFlag, Advance, AllAreThere
<1>2. PICK b \in Stored(at, "flag", BOOLEAN, BOOLEAN) : got' = [got EXCEPT !.cmpr = b]
  BY DEF ReadFlag
<1>3. GotFields' /\ got'.cmpr = b
  BY <1>2 DEF IInv, GotFields
<1>4. ASSUME quiet PROVE Undisturbed'
  <2>1. good' => at = 1 /\ good /\ 1 <= Len(disk)
    BY <1>1, <1>4, Undisturbedly DEF GotSoFar
  <2>2. good' => b = owner.cmpr
    <3> SUFFICES ASSUME good' PROVE b = owner.cmpr
      OBVIOUS
    <3>1. disk[at] = Cell("flag", owner.cmpr) /\ Len(disk) \in Nat
      BY <1>1, <1>4, <2>1, Undisturbedly, DiskFields DEF IInv
    <3> QED BY <2>1, <3>1, OneCell
  <2>3. good' => GotSoFar'
    BY <1>1, <1>3, <2>1, <2>2 DEF GotSoFar
  <2>4. AllRead'
    <3> SUFFICES ASSUME disk = Image(owner) PROVE good'
      BY <1>1 DEF AllRead
    <3>1. good /\ 3 <= Len(disk)
      BY <1>1, <1>4, Undisturbedly
    <3>2. at = 1
      BY <1>1, <1>4, <3>1, Undisturbedly DEF GotSoFar
    <3> QED BY <1>1, <3>1, <3>2
  <2> QED BY <1>1, <1>4, <2>3, <2>4, Undisturbedly DEF Undisturbed
<1> QED BY <1>1, <1>3, <1>4, ReaderFrame

\* data_size is the size that was written.
LEMMA ReadSizeIInv == IInv /\ ReadSize => IInv'
<1> SUFFICES ASSUME IInv, ReadSize PROVE IInv'
  OBVIOUS
<1>1. /\ UNCHANGED <<disk, owner, writer, quiet>> /\ rpc = "size" /\ rpc' = "data"
      /\ at' = at + 1 /\ (good' <=> good /\ at + 1 - 1 <= Len(disk))
  BY DEF ReadSize, Advance, AllAreThere
<1>2. PICK s \in Stored(at, "num", Numbers, Numbers) : got' = [got EXCEPT !.size = s]
  BY DEF ReadSize
<1>3. GotFields' /\ got'.size = s /\ got'.cmpr = got.cmpr
  BY <1>2 DEF IInv, GotFields
<1>4. ASSUME quiet PROVE Undisturbed'
  <2>1. good' => at = 2 /\ good /\ 2 <= Len(disk) /\ got.cmpr = owner.cmpr
    BY <1>1, <1>4, Undisturbedly DEF GotSoFar
  <2>2. good' => s = owner.size
    <3> SUFFICES ASSUME good' PROVE s = owner.size
      OBVIOUS
    <3>1. disk[at] = Cell("num", owner.size) /\ Len(disk) \in Nat
      BY <1>1, <1>4, <2>1, Undisturbedly, DiskFields DEF IInv
    <3> QED BY <2>1, <3>1, OneCell
  <2>3. good' => GotSoFar'
    BY <1>1, <1>3, <2>1, <2>2 DEF GotSoFar
  <2>4. AllRead'
    <3> SUFFICES ASSUME disk = Image(owner) PROVE good'
      BY <1>1 DEF AllRead
    <3>1. good /\ 3 <= Len(disk)
      BY <1>1, <1>4, Undisturbedly
    <3>2. at = 2
      BY <1>1, <1>4, <3>1, Undisturbedly DEF GotSoFar
    <3> QED BY <1>1, <3>1, <3>2
  <2> QED BY <1>1, <1>4, <2>3, <2>4, Undisturbedly DEF Undisturbed
<1> QED BY <1>1, <1>3, <1>4, ReaderFrame

\* The corpus, and the branch that cmpr decides.
LEMMA ReadDataIInv == IInv /\ ReadData => IInv'
<1> SUFFICES ASSUME IInv, ReadData PROVE IInv'
  OBVIOUS
<1>1. /\ UNCHANGED <<disk, owner, writer, quiet>> /\ rpc = "data"
      /\ rpc' = IF got.cmpr THEN "width" ELSE "array"
      /\ at' = at + got.size /\ (good' <=> good /\ at + got.size - 1 <= Len(disk))
  BY DEF ReadData, Advance, AllAreThere
<1>2. PICK v \in Vectors(got.size, "sym", Numbers) : got' = [got EXCEPT !.data = v]
  BY DEF ReadData
<1>3. GotFields' /\ got'.data = v /\ got'.cmpr = got.cmpr /\ got'.size = got.size
  BY <1>2 DEF IInv, GotFields
<1>4. ASSUME quiet PROVE Undisturbed'
  <2>1. good => at = 3 /\ got.size = owner.size /\ got.cmpr = owner.cmpr
    BY <1>1, <1>4, Undisturbedly DEF GotSoFar
  <2>2. good' => v = owner.data
    <3> SUFFICES ASSUME good' PROVE v = owner.data
      OBVIOUS
    <3>1. PICK m \in Nat : m = owner.size /\ m = got.size
      BY <1>1, <1>4, <2>1, Undisturbedly
    <3>2. /\ at = 3 /\ good /\ at + m - 1 <= Len(disk) /\ Len(disk) \in Nat
      BY <1>1, <1>4, <2>1, <3>1, Undisturbedly
    <3>3. ASSUME NEW p \in 0 .. m - 1 PROVE disk[at + p] = Cell("sym", owner.data[p])
      <4>1. 3 + p <= Len(disk) /\ p \in 0 .. owner.size - 1
        BY <3>1, <3>2
      <4> QED BY <1>1, <1>4, <3>2, <4>1, Undisturbedly, DiskFields DEF IInv
    <3>4. owner.data = [p \in 0 .. m - 1 |-> owner.data[p]]
      BY <1>1, <1>4, <3>1, Undisturbedly, SaveFacts
    <3>5. v \in Vectors(m, "sym", Numbers) /\ at \in Nat
      BY <3>1, <3>2
    <3> QED BY <3>2, <3>3, <3>4, <3>5, ManyCells
  <2>3. good' => GotSoFar'
    <3>1. owner.size \in Nat
      BY <1>1, <1>4, Undisturbedly
    <3> QED BY <1>1, <1>3, <2>1, <2>2, <3>1 DEF GotSoFar
  <2>4. AllRead'
    <3> SUFFICES ASSUME disk = Image(owner) PROVE good'
      BY <1>1 DEF AllRead
    <3>1. good /\ 3 + owner.size <= Len(disk) /\ owner.size \in Nat /\ Len(disk) \in Nat
      BY <1>1, <1>4, Undisturbedly
    <3> QED BY <1>1, <2>1, <3>1
  <2> QED BY <1>1, <1>4, <2>3, <2>4, Undisturbedly DEF Undisturbed
<1> QED BY <1>1, <1>3, <1>4, ReaderFrame

\* The suffix array in the binary form.
LEMMA ReadArrayIInv == IInv /\ ReadArray => IInv'
<1> SUFFICES ASSUME IInv, ReadArray PROVE IInv'
  OBVIOUS
<1>1. /\ UNCHANGED <<disk, owner, writer, quiet>> /\ rpc = "array" /\ rpc' = "lcp"
      /\ at' = at + (got.size + 1) /\ (good' <=> good /\ at + (got.size + 1) - 1 <= Len(disk))
  BY DEF ReadArray, Advance, AllAreThere
<1>2. PICK v \in Vectors(got.size + 1, "num", Numbers) : got' = [got EXCEPT !.sa = v]
  BY DEF ReadArray
<1>3. /\ GotFields' /\ got'.sa = v /\ got'.cmpr = got.cmpr /\ got'.size = got.size
      /\ got'.data = got.data
  BY <1>2 DEF IInv, GotFields
<1>4. ASSUME quiet PROVE Undisturbed'
  <2>1. good => /\ at = 3 + owner.size /\ got.size = owner.size /\ got.cmpr = owner.cmpr
                /\ ~ got.cmpr /\ got.data = owner.data
    BY <1>1, <1>4, Undisturbedly DEF GotSoFar
  <2>2. good => ArraySize(owner) = owner.size + 1
    BY <1>1, <1>4, <2>1, Undisturbedly, SaveFacts DEF ArraySize
  <2>3. good' => v = owner.sa
    <3> SUFFICES ASSUME good' PROVE v = owner.sa
      OBVIOUS
    <3>1. PICK z \in Nat : z = owner.size
      BY <1>1, <1>4, Undisturbedly
    <3>2. PICK m \in Nat : m = z + 1 /\ m - 1 = z
      OBVIOUS
    <3>3. /\ good /\ at + m - 1 <= Len(disk) /\ Len(disk) \in Nat /\ at = 3 + z
          /\ ArraySize(owner) = m /\ got.size + 1 = m
      BY <1>1, <1>4, <2>1, <2>2, <3>1, <3>2, Undisturbedly
    <3>4. ASSUME NEW p \in 0 .. m - 1 PROVE disk[at + p] = Cell("num", owner.sa[p])
      <4>1. /\ p + 1 \in 1 .. m /\ p \in 0 .. z /\ 2 + z + (p + 1) <= Len(disk)
            /\ 2 + z + (p + 1) = at + p /\ 1 + p = p + 1
        BY <3>2, <3>3
      <4>2. disk[at + p] = ArrayCells(owner)[p + 1]
        BY <1>1, <1>4, <3>1, <3>3, <4>1, Undisturbedly, DiskFields DEF IInv
      <4>3. ArrayCells(owner)[1 + p] = Cell("num", owner.sa[p])
        BY <1>1, <1>4, <2>1, <3>1, <3>3, <4>1, Undisturbedly, ArrayLayout
      <4> QED BY <4>1, <4>2, <4>3
    <3>5. owner.sa = [p \in 0 .. z |-> owner.sa[p]]
      BY <1>1, <1>4, <3>1, Undisturbedly, SaveFacts
    <3>6. v \in Vectors(m, "num", Numbers) /\ at \in Nat
      BY <3>3
    <3>7. owner.sa = [p \in 0 .. m - 1 |-> owner.sa[p]]
      BY <3>2, <3>5
    <3> QED BY <3>3, <3>4, <3>6, <3>7, ManyCells
  <2>4. good' => GotSoFar'
    <3>1. owner.size \in Nat /\ FlagAt(owner) = 3 + owner.size + ArraySize(owner)
      BY <1>1, <1>4, Undisturbedly
    <3> QED BY <1>1, <1>3, <2>1, <2>2, <2>3, <3>1 DEF GotSoFar
  <2>5. AllRead' /\ (disk = Image(owner) => good')
    <3> SUFFICES ASSUME disk = Image(owner) PROVE good'
      BY <1>1 DEF AllRead
    <3>1. /\ good /\ 3 + owner.size + ArraySize(owner) <= Len(disk) /\ owner.size \in Nat
          /\ Len(disk) \in Nat
      BY <1>1, <1>4, Undisturbedly
    <3> QED BY <1>1, <2>1, <2>2, <3>1
  <2>6. disk = Image(owner) => ~ got'.cmpr
    BY <1>3, <2>1, <2>5, <1>1
  <2> QED BY <1>1, <1>4, <2>4, <2>5, <2>6, Undisturbedly DEF Undisturbed
<1> QED BY <1>1, <1>3, <1>4, ReaderFrame

\* max_idx_size is the width of the strings that follow.
LEMMA ReadWidthIInv == IInv /\ ReadWidth => IInv'
<1> SUFFICES ASSUME IInv, ReadWidth PROVE IInv'
  OBVIOUS
<1>1. /\ UNCHANGED <<disk, owner, writer, quiet>> /\ rpc = "width" /\ rpc' = "strings"
      /\ at' = at + 1 /\ (good' <=> good /\ at + 1 - 1 <= Len(disk))
  BY DEF ReadWidth, Advance, AllAreThere
<1>2. PICK w \in Stored(at, "num", Numbers, Numbers) : got' = [got EXCEPT !.width = w]
  BY DEF ReadWidth
<1>3. /\ GotFields' /\ got'.width = w /\ got'.cmpr = got.cmpr /\ got'.size = got.size
      /\ got'.data = got.data
  BY <1>2 DEF IInv, GotFields
<1>4. ASSUME quiet PROVE Undisturbed'
  <2>1. good => /\ at = 3 + owner.size /\ got.size = owner.size /\ got.cmpr = owner.cmpr
                /\ got.cmpr
    BY <1>1, <1>4, Undisturbedly DEF GotSoFar
  <2>2. owner.size \in Nat /\ ArraySize(owner) \in Nat \ {0} /\ Len(disk) \in Nat
    BY <1>1, <1>4, Undisturbedly
  <2>3. good' => w = Width(owner.size)
    <3> SUFFICES ASSUME good' PROVE w = Width(owner.size)
      OBVIOUS
    <3>1. good /\ at = 3 + owner.size /\ at <= Len(disk) /\ at \in Nat /\ owner.cmpr
      BY <1>1, <2>1, <2>2
    <3>2. 1 \in 1 .. ArraySize(owner) /\ 2 + owner.size + 1 = at
      BY <2>2, <3>1
    <3>3. disk[at] = ArrayCells(owner)[1]
      BY <1>1, <1>4, <3>1, <3>2, Undisturbedly, DiskFields DEF IInv
    <3>4. ArrayCells(owner)[1] = Cell("num", Width(owner.size))
      BY <1>1, <1>4, <3>1, Undisturbedly, ArrayLayout
    <3> QED BY <2>2, <3>1, <3>3, <3>4, OneCell
  <2>4. good' => GotSoFar'
    BY <1>1, <1>3, <2>1, <2>2, <2>3 DEF GotSoFar
  <2>5. AllRead'
    <3> SUFFICES ASSUME disk = Image(owner) PROVE good'
      BY <1>1 DEF AllRead
    <3>1. good /\ 3 + owner.size + ArraySize(owner) <= Len(disk)
      BY <1>1, <1>4, Undisturbedly
    <3> QED BY <1>1, <2>1, <2>2, <3>1
  <2> QED BY <1>1, <1>4, <2>4, <2>5, Undisturbedly DEF Undisturbed
<1> QED BY <1>1, <1>3, <1>4, ReaderFrame

\* All strings of a whole file give their indices back.
LEMMA StringsOfFile ==
  ASSUME IInv, quiet, rpc = "strings", disk = Image(owner), NEW p \in 0 .. owner.size
  PROVE  /\ good /\ got.cmpr /\ owner.cmpr /\ at = 4 + owner.size
         /\ got.width \in Nat \ {0} /\ Len(disk) >= at + got.width * (owner.size + 1)
         /\ StringValue(at + p * got.width, got.width) = owner.sa[p]
<1>1. /\ owner # NoSave /\ owner \in Saves /\ Len(disk) \in Nat /\ good /\ GotSoFar
      /\ owner.size \in Nat \ {0} /\ ArraySize(owner) \in Nat \ {0}
      /\ FlagAt(owner) = 3 + owner.size + ArraySize(owner) /\ FlagAt(owner) <= Len(disk)
  BY Undisturbedly
<1>2. PICK w : w = got.width
  OBVIOUS
<1>3. at = 4 + owner.size /\ w = Width(owner.size) /\ got.cmpr /\ owner.cmpr
  BY <1>1, <1>2 DEF GotSoFar
<1>4. /\ w \in Nat \ {0} /\ owner.size < Power[w]
      /\ \A c \in 1 .. w * (owner.size + 1) :
           ArrayCells(owner)[1 + c] = Cell("digit", DigitAt(owner.sa, w, c))
  BY <1>1, <1>3, ArrayLayout
<1>5. ArraySize(owner) = 1 + w * (owner.size + 1) /\ w * (owner.size + 1) \in Nat
  <2>1. ArraySize(owner) = 1 + w * EntryCount(owner) /\ EntryCount(owner) = owner.size + 1
    BY <1>1, <1>3, SaveFacts DEF ArraySize
  <2> QED BY <1>1, <1>4, <2>1
<1>6. PICK z \in Nat : z = owner.size
  BY <1>1
<1>7. PICK v \in Nat : v = owner.sa[p] /\ v < Power[w]
  <2>1. owner.sa[p] \in 0 .. z
    BY <1>1, <1>6, SaveFacts
  <2>2. Power[w] \in Nat /\ z < Power[w]
    BY <1>4, <1>6, PowerFacts
  <2> QED BY <2>1, <2>2
<1>8. p * w \in Nat /\ p * w + w <= w * (z + 1)
  <2>1. PICK q \in Nat : z = p + q
    <3>1. z - p \in Nat /\ z = p + (z - p)
      BY <1>6
    <3> QED BY <3>1
  <2>2. p \in Nat /\ w \in Nat
    BY <1>4, <1>6
  <2>3. p * w \in Nat /\ q * w \in Nat /\ w * (p + q + 1) = p * w + w + q * w
    BY ONLY <2>1, <2>2, SMT
  <2> QED BY ONLY <2>1, <2>2, <2>3
<1>9. PICK s : s = p * w
  OBVIOUS
<1>10. PICK t : t = w * (z + 1)
  OBVIOUS
<1>11. /\ s \in Nat /\ t \in Nat /\ s + w <= t /\ ArraySize(owner) = 1 + t
       /\ 4 + z + t <= Len(disk) /\ at = 4 + z
  <2>1. t \in Nat /\ ArraySize(owner) = 1 + t /\ FlagAt(owner) = 3 + z + (1 + t)
    BY <1>1, <1>5, <1>6, <1>10
  <2>2. s \in Nat /\ s + w <= t
    BY <1>8, <1>9, <1>10
  <2>3. at = 4 + z /\ FlagAt(owner) <= Len(disk)
    BY <1>1, <1>3, <1>6
  <2> QED BY <1>1, <2>1, <2>2, <2>3
<1>12. ASSUME NEW e \in 1 .. w
       PROVE  disk[at + s + e - 1] = Cell("digit", (v \div Power[w - e]) % Base)
  <2>1. PICK c : c = s + e
    OBVIOUS
  <2>2. /\ c \in 1 .. t /\ 1 + c \in 1 .. 1 + t
        /\ 2 + z + (1 + c) <= Len(disk) /\ at + s + e - 1 = 2 + z + (1 + c)
    BY <1>1, <1>4, <1>11, <2>1
  <2>3. disk[2 + z + (1 + c)] = ArrayCells(owner)[1 + c]
    BY <1>1, <1>6, <1>11, <2>2, DiskFields DEF IInv
  <2>4. ArrayCells(owner)[1 + c] = Cell("digit", DigitAt(owner.sa, w, c))
    BY <1>4, <1>6, <1>10, <2>2
  <2>5. p \in Nat
    OBVIOUS
  <2>6. DigitAt(owner.sa, w, p * w + e) = (owner.sa[p] \div Power[w - e]) % Base
    BY ONLY <1>4, <2>5, e \in 1 .. w, DigitOfIndex
  <2>7. DigitAt(owner.sa, w, c) = (v \div Power[w - e]) % Base
    BY <1>7, <1>9, <2>1, <2>6
  <2> QED BY <2>2, <2>3, <2>4, <2>7
<1>13. PICK b : b = at + s
  OBVIOUS
<1>14. b \in Nat \ {0} /\ b + w - 1 <= Len(disk)
  BY <1>1, <1>4, <1>11, <1>13
<1>15. \A e \in 1 .. w : disk[b + e - 1] = Cell("digit", (v \div Power[w - e]) % Base)
  BY <1>12, <1>13
<1>16. StringValue(b, w) = v
  BY <1>1, <1>4, <1>7, <1>14, <1>15, StringGivesBack
<1>17. at + w * (owner.size + 1) <= Len(disk)
  BY <1>6, <1>10, <1>11
<1> QED BY <1>1, <1>2, <1>3, <1>4, <1>7, <1>9, <1>13, <1>16, <1>17

\* So many strings of width w are in x cells.
LEMMA QuotientReaches ==
  \A x \in Nat, w \in Nat \ {0}, m \in Nat : w * m <= x => m <= x \div w
<1> SUFFICES ASSUME NEW x \in Nat, NEW w \in Nat \ {0}, NEW m \in Nat, w * m <= x
    PROVE m <= x \div w
  OBVIOUS
<1>1. PICK q \in Nat : q = x \div w
  BY DivMod
<1>2. PICK r \in 0 .. w - 1 : x = q * w + r
  BY <1>1, DivMod
<1>3. ASSUME q < m PROVE FALSE
  <2>1. PICK d \in Nat : m = q + 1 + d
    <3>1. m - q - 1 \in Nat /\ m = q + 1 + (m - q - 1)
      BY <1>3
    <3> QED BY <3>1
  <2>2. w * (q + 1 + d) = q * w + w + w * d /\ w * d \in Nat /\ q * w \in Nat
    BY ONLY <2>1, <1>1, w \in Nat \ {0}, d \in Nat, q \in Nat
  <2> QED BY <1>2, <2>1, <2>2
<1> QED BY <1>1, <1>3

\* The loop over the strings ends with a stream that is not good, and with all indices.
LEMMA ReadStringsIInv == IInv /\ ReadStrings => IInv'
<1> SUFFICES ASSUME IInv, ReadStrings PROVE IInv'
  OBVIOUS
<1>1. /\ UNCHANGED <<disk, owner, writer, quiet>> /\ rpc = "strings" /\ rpc' = "lcp"
      /\ good' = FALSE
  BY DEF ReadStrings
<1> DEFINE rest == IF good /\ at <= Len(disk) THEN Len(disk) - at + 1 ELSE 0
           w == IF got.width = 0 THEN rest ELSE got.width
           strings == IF rest = 0 THEN 0 ELSE (rest + w - 1) \div w
           read == [p \in 0 .. strings - 1 |-> StringValue(at + p * w, w)]
<1>2. got' = [got EXCEPT !.sa = read]
  BY DEF ReadStrings
<1>3. read = [p \in 0 .. strings - 1 |-> StringValue(at + p * w, w)]
  OBVIOUS
<1> HIDE DEF read
<1>4. GotFields' /\ got'.sa = read /\ got'.cmpr = got.cmpr
  BY <1>2 DEF IInv, GotFields
<1>5. ASSUME quiet PROVE Undisturbed'
  <2>1. ASSUME disk = Image(owner)
        PROVE  owner.cmpr /\ got.cmpr /\ \A p \in 0 .. owner.size : read[p] = owner.sa[p]
    <3>1. PICK z \in Nat : z = owner.size
      BY <1>1, <1>5, Undisturbedly
    <3>2. 0 \in 0 .. z
      BY <3>1
    <3>3. /\ good /\ got.cmpr /\ owner.cmpr /\ at = 4 + z
          /\ got.width \in Nat \ {0} /\ Len(disk) >= at + got.width * (z + 1)
      BY <1>1, <1>5, <2>1, <3>1, <3>2, StringsOfFile
    <3>4. Len(disk) \in Nat
      BY <1>1, <1>5, Undisturbedly
    <3>5. PICK t \in Nat : t = got.width * (z + 1)
      BY <3>1, <3>3
    <3>6. rest = Len(disk) - at + 1 /\ rest \in Nat \ {0} /\ t <= rest /\ w = got.width
      <4>1. Len(disk) >= at + t
        BY <3>3, <3>5
      <4>2. rest = Len(disk) - at + 1
        <5>1. good /\ at <= Len(disk)
          BY <3>3, <3>4, <4>1
        <5> QED BY ONLY <5>1
      <4>3. w = got.width
        BY <3>3
      <4>4. at \in Nat
        BY <3>3
      <4> HIDE DEF rest, w
      <4>5. rest \in Nat \ {0} /\ t <= rest
        BY <3>4, <4>1, <4>2, <4>4
      <4> QED BY <4>2, <4>3, <4>5
    <3> HIDE DEF w, rest
    <3>7. PICK x \in Nat : x = rest + w - 1 /\ t <= x
      <4>1. rest \in Nat \ {0} /\ w \in Nat \ {0} /\ t <= rest
        BY <3>3, <3>6
      <4>2. rest + w - 1 \in Nat /\ t <= rest + w - 1
        BY <4>1
      <4> QED BY <4>2
    <3>8. strings = x \div w
      BY <3>6, <3>7
    <3> HIDE DEF strings
    <3>9. z + 1 <= strings /\ strings \in Nat
      <4>1. PICK m \in Nat : m = z + 1
        OBVIOUS
      <4>2. PICK b \in Nat \ {0} : b = w /\ b * m = t
        BY <3>3, <3>5, <3>6, <4>1
      <4>3. b * m <= x /\ strings = x \div b
        BY <3>7, <3>8, <4>2
      <4>4. m <= x \div b /\ x \div b \in Nat
        BY ONLY <4>1, <4>2, <4>3, x \in Nat, QuotientReaches, DivMod
      <4> QED BY <4>1, <4>3, <4>4
    <3>10. ASSUME NEW p \in 0 .. z PROVE read[p] = owner.sa[p]
      <4>1. p \in 0 .. strings - 1
        BY <3>1, <3>9
      <4>2. StringValue(at + p * w, w) = owner.sa[p]
        BY <1>1, <1>5, <2>1, <3>1, <3>6, StringsOfFile
      <4> QED BY <1>3, <4>1, <4>2
    <3> QED BY <3>1, <3>3, <3>10
  <2>2. AllRead'
    BY <1>1, <1>4, <2>1 DEF AllRead
  <2>3. owner' # NoSave
    BY <1>1, <1>5, Undisturbedly
  <2> QED BY <1>1, <1>4, <2>1, <2>2, <2>3 DEF Undisturbed
<1> QED BY <1>1, <1>4, <1>5, ReaderFrame

\* The last field, with the rows or without.
LEMMA ReadLcpIInv == IInv /\ ReadLcp => IInv'
<1> SUFFICES ASSUME IInv, ReadLcp PROVE IInv'
  OBVIOUS
<1>1. UNCHANGED <<disk, owner, writer, quiet>> /\ rpc = "lcp" /\ rpc' = "done"
  BY DEF ReadLcp
<1>2. PICK use \in Stored(at, "flag", BOOLEAN, BOOLEAN) :
        IF use
          THEN /\ got' = [got EXCEPT !.rows =
                            [p \in 1 .. got.size + 1 |->
                               IF good /\ at + p <= Len(disk) THEN disk[at + p].v ELSE 0]]
               /\ Advance(got.size + 2)
          ELSE got' = [got EXCEPT !.rows = << >>] /\ Advance(1)
  BY DEF ReadLcp
<1>3. PICK rows :
        /\ got' = [got EXCEPT !.rows = rows]
        /\ rows = IF use
                    THEN [p \in 1 .. got.size + 1 |->
                            IF good /\ at + p <= Len(disk) THEN disk[at + p].v ELSE 0]
                    ELSE << >>
  BY <1>2
<1>4. PICK m : /\ m = IF use THEN got.size + 2 ELSE 1
               /\ at' = at + m /\ (good' <=> good /\ at + m - 1 <= Len(disk))
  BY <1>2 DEF Advance, AllAreThere
<1>5. /\ GotFields' /\ got'.rows = rows /\ got'.cmpr = got.cmpr /\ got'.size = got.size
      /\ got'.data = got.data /\ got'.sa = got.sa
  BY <1>3 DEF IInv, GotFields
<1>6. ASSUME quiet PROVE Undisturbed'
  <2>1. good => /\ at = FlagAt(owner) /\ got.size = owner.size /\ got.cmpr = owner.cmpr
                /\ ~ got.cmpr /\ got.data = owner.data /\ got.sa = owner.sa
    BY <1>1, <1>6, Undisturbedly DEF GotSoFar
  <2>2. PICK z \in Nat \ {0} : z = owner.size
    BY <1>1, <1>6, Undisturbedly
  <2>3. /\ Len(disk) \in Nat /\ FlagAt(owner) \in Nat \ {0}
        /\ disk = Image(owner) => FlagAt(owner) <= Len(disk)
    BY <1>1, <1>6, Undisturbedly
  <2>4. /\ FlagAt(owner) <= Len(disk) => disk[FlagAt(owner)] = Cell("flag", owner.lcp)
        /\ owner.lcp =>
             \A p \in 1 .. owner.size + 1 :
               FlagAt(owner) + p <= Len(disk) => disk[FlagAt(owner) + p] = Cell("row", p)
        /\ disk = Image(owner) => Len(disk) = FlagAt(owner) + RowCount(owner)
    BY <1>1, <1>6, Undisturbedly, DiskFields DEF IInv
  <2>5. ASSUME good, at <= Len(disk) PROVE use = owner.lcp
    BY <2>1, <2>3, <2>4, <2>5, OneCell
  <2>6. ASSUME good'
        PROVE  rows = IF owner.lcp THEN [p \in 1 .. owner.size + 1 |-> p] ELSE << >>
    <3>1. good /\ at + m - 1 <= Len(disk) /\ m \in Nat \ {0} /\ at = FlagAt(owner)
      BY <1>4, <2>1, <2>2, <2>6
    <3>2. at <= Len(disk) /\ use = owner.lcp
      BY <2>3, <2>5, <3>1
    <3>3. CASE owner.lcp
      <4>1. m = z + 2 /\ got.size = z
        BY <1>4, <2>1, <2>2, <3>1, <3>2, <3>3
      <4>2. ASSUME NEW p \in 1 .. z + 1 PROVE at + p <= Len(disk) /\ disk[at + p].v = p
        <5>1. at + p <= Len(disk)
          BY <2>3, <3>1, <4>1
        <5>2. disk[at + p] = Cell("row", p)
          BY <2>2, <2>4, <3>1, <3>3, <5>1
        <5> QED BY <5>1, <5>2 DEF Cell
      <4>3. rows = [p \in 1 .. z + 1 |->
                      IF good /\ at + p <= Len(disk) THEN disk[at + p].v ELSE 0]
        BY <1>3, <3>2, <3>3, <4>1
      <4>4. rows = [p \in 1 .. z + 1 |-> p]
        BY <3>1, <4>2, <4>3
      <4> QED BY <2>2, <3>3, <4>4
    <3>4. CASE ~ owner.lcp
      BY <1>3, <3>2, <3>4
    <3> QED BY <3>3, <3>4
  <2>7. good' => GotSoFar'
    <3>1. good' => at' \in Nat /\ at' - 1 <= Len(disk)
      <4>1. PICK l \in Nat : l = Len(disk) /\ l = Len(disk')
        BY <1>1, <2>3
      <4>2. good => at \in Nat /\ m \in Nat
        BY <1>4, <2>1, <2>2, <2>3
      <4>3. at' = at + m /\ (good' => good /\ at + m - 1 <= l)
        BY <1>4, <4>1
      <4> QED BY ONLY <4>1, <4>2, <4>3
    <3>2. good' => good
      BY <1>4
    <3> QED BY <1>1, <1>5, <2>1, <2>6, <3>1, <3>2 DEF GotSoFar
  <2>8. AllRead'
    <3> SUFFICES ASSUME disk = Image(owner)
                 PROVE  good' \/ (owner.cmpr /\ got.cmpr)
      BY <1>1, <1>5 DEF AllRead
    <3>1. good \/ (owner.cmpr /\ got.cmpr)
      BY <1>1, <1>6 DEF IInv, Undisturbed, AllRead
    <3>2. ASSUME good PROVE good'
      <4>1. at = FlagAt(owner) /\ at <= Len(disk) /\ use = owner.lcp
        BY <2>1, <2>3, <2>5, <3>2
      <4>2. Len(disk) = at + RowCount(owner) /\ got.size = z
        BY <2>1, <2>2, <2>4, <3>2, <4>1
      <4>3. RowCount(owner) = IF owner.lcp THEN z + 1 ELSE 0
        BY <2>2 DEF RowCount
      <4> QED BY <1>4, <2>3, <3>2, <4>1, <4>2, <4>3
    <3> QED BY <3>1, <3>2
  <2> QED BY <1>1, <1>6, <2>7, <2>8, Undisturbedly DEF Undisturbed
<1> QED BY <1>1, <1>5, <1>6, ReaderFrame
-----------------------------------------------------------------------------
\* A size that was not read: not in a whole file in the binary form.
LEMMA ThrowIInv == IInv /\ Throw => IInv'
<1> SUFFICES ASSUME IInv, Throw PROVE IInv'
  OBVIOUS
<1>1. /\ UNCHANGED <<disk, owner, writer, quiet, at, good, got>>
      /\ SizeUnread /\ rpc \in {"data", "lcp"} /\ rpc' = "thrown"
  BY DEF Throw, SizeUnread
<1>2. Written' /\ GotFields'
  BY <1>1 DEF IInv, Written, GotFields, writer
<1>3. ASSUME quiet, disk = Image(owner), ~ owner.cmpr PROVE FALSE
  <2>1. /\ good => GotSoFar
        /\ AllRead /\ owner \in Saves
        /\ owner.size \in Nat \ {0} /\ FlagAt(owner) \in Nat
    BY <1>1, <1>3, Undisturbedly DEF IInv, Undisturbed
  <2>2. good
    BY <1>3, <2>1 DEF AllRead
  <2>3. rpc = "lcp" /\ at = FlagAt(owner)
    BY <1>1, <1>3, <2>1, <2>2 DEF SizeUnread, GotSoFar
  <2>4. /\ Len(disk) = FlagAt(owner) + RowCount(owner)
        /\ FlagAt(owner) <= Len(disk) => disk[FlagAt(owner)] = Cell("flag", owner.lcp)
    BY <1>1, <1>3, Undisturbedly, DiskFields DEF IInv
  <2>5. RowCount(owner) = IF owner.lcp THEN owner.size + 1 ELSE 0
    BY DEF RowCount
  <2>6. CASE owner.lcp
    <3>1. at < Len(disk)
      BY <2>1, <2>3, <2>4, <2>5, <2>6
    <3> QED BY <1>1, <1>3, <2>1, <2>2, <2>3, <2>4, <3>1 DEF SizeUnread
  <2>7. CASE ~ owner.lcp
    <3>1. at = Len(disk)
      BY <2>1, <2>3, <2>4, <2>5, <2>7
    <3>2. disk[at].v = owner.lcp
      BY <2>1, <2>3, <2>4, <3>1 DEF Cell
    <3> QED BY <1>1, <1>3, <2>1, <2>2, <2>3, <2>7, <3>1, <3>2 DEF SizeUnread
  <2> QED BY <2>6, <2>7
<1>4. Undisturbed'
  BY <1>1, <1>3 DEF Undisturbed
<1> QED BY <1>2, <1>4 DEF IInv
-----------------------------------------------------------------------------
\* The invariant is inductive: every step of the writer, of the reader and of a crash
\* keeps it.
THEOREM Inductive == Spec => []IInv
<1>1. ASSUME IInv, [Next]_vars PROVE IInv'
  <2>1. CASE Next
    BY <1>1, <2>1, WriterIInv, OpenToWriteIInv, WriteCellIInv, OpenIInv, ReadFlagIInv,
       ReadSizeIInv, ReadDataIInv, ReadArrayIInv, ReadWidthIInv, ReadStringsIInv, ReadLcpIInv,
       ThrowIInv
    DEF Next
  <2>2. CASE UNCHANGED vars
    <3>1. /\ UNCHANGED <<disk, owner, saved, wpc, rpc, at, good, quiet, got>>
      BY <2>2 DEF vars, writer, reader
    <3> QED BY <1>1, <3>1 DEF IInv, Written, GotFields, Undisturbed, GotSoFar, AllRead
  <2> QED BY <1>1, <2>1, <2>2
<1> QED BY InitIInv, <1>1, PTL DEF Spec

\* A read that no write disturbed and that ends with a good stream has got exactly what
\* was saved in the binary form, also when the writer was killed, or its stream failed,
\* before the file was complete (read, bin_readSA, read_lcp_lr).
THEOREM GoodReadsAreExact == Spec => []GoodReadIsExact
<1>1. IInv => GoodReadIsExact
  BY DEF IInv, Undisturbed, GotSoFar, GoodReadIsExact, Is
<1> QED BY <1>1, Inductive, PTL

\* A file in the binary form that write has completed gives back the corpus, the suffix
\* array and the LCP rows; no field of it makes the stream of read fail, and no vector
\* gets a size that was not read.
THEOREM WholeFilesReadBack == Spec => []RoundTrip
<1>1. IInv => RoundTrip
  BY DEF IInv, Undisturbed, GotSoFar, AllRead, RoundTrip, Is
<1> QED BY <1>1, Inductive, PTL

\* The fixed-width index strings of writeCompSA, filled with zeros, are taken apart by
\* readCompSA into the indices they were made from, for every corpus size and base.
THEOREM StringsAreExact == Spec => []StringsKeepIndices
<1>1. IInv => StringsKeepIndices
  BY DEF IInv, Undisturbed, StringsKeepIndices
<1> QED BY <1>1, Inductive, PTL
=============================================================================
