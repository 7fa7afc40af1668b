--------------------------- MODULE Drawing_proofs ---------------------------
(***************************************************************************)
(* The picture.  First what is drawn: whatever the screen, the pictures,   *)
(* the font and the width of a byte are, every call of the frame buffer,   *)
(* the writer and the library does what it is to do.  A call is one step,  *)
(* so that the invariant only says that a call that has returned returned  *)
(* what the functions compute; the work is in the lemmas about them.  The  *)
(* recursive ones are opened by showing that a function with their         *)
(* equation exists, and induction is a lemma about sets of numbers.  Then  *)
(* when it is drawn: the handshakes between the render loop and the        *)
(* interrupt handlers lose nothing.  The two share no state.               *)
(***************************************************************************)
EXTENDS Drawing, Render, FiniteSetTheorems, WellFoundedInduction, TLAPS

\* A call is legal, and what it has returned is what it computes.
IInv ==
  /\ Legal(call)
  /\ done \in BOOLEAN
  /\ done => memory = Effect(call, call.memory) /\ value = Value(call)
  /\ ~done => memory = call.memory

\* It is kept.
LEMMA IInvHolds == Spec => []IInv
<1>1. Init => IInv
  BY CallsAssumption DEF Init, IInv
<1>2. IInv /\ [Next]_vars => IInv'
  <2> SUFFICES ASSUME IInv, [Next]_vars PROVE IInv'
    OBVIOUS
  <2>1. CASE Return
    BY <2>1 DEF Return, IInv
  <2>2. CASE UNCHANGED vars
    BY <2>2 DEF vars, IInv
  <2>3. QED BY <2>1, <2>2 DEF Next, Finished
<1>3. QED BY <1>1, <1>2, PTL DEF Spec

-----------------------------------------------------------------------------
(* Numbers and their sets *)

\* Every set of numbers has a least one.
LEMMA LeastElement ==
  ASSUME NEW S \in SUBSET Nat, S # {}
  PROVE  \E m \in S : \A n \in S : m <= n
<1>1. PICK m \in S : \A n \in S : <<n, m>> \notin OpToRel(<, Nat)
  BY WFMin, NatLessThanWellFounded, Zenon
<1>2. m \in Nat /\ \A n \in S : n \in Nat /\ ~(n < m)
  BY <1>1, Zenon DEF OpToRel
<1>3. \A n \in S : m <= n
  BY <1>2
<1>4. QED BY <1>3

\* Hence induction, for sets.
LEMMA Induction ==
  ASSUME NEW S, 0 \in S, \A k \in Nat : k \in S => k + 1 \in S
  PROVE  Nat \subseteq S
<1> SUFFICES ASSUME ~(Nat \subseteq S) PROVE FALSE
  OBVIOUS
<1>1. PICK m \in Nat \ S : \A n \in Nat \ S : m <= n
  <2>1. Nat \ S \in SUBSET Nat /\ Nat \ S # {}
    OBVIOUS
  <2>2. QED BY <2>1, LeastElement
<1>2. m # 0
  BY <1>1
<1>3. m - 1 \in Nat /\ m - 1 \in S
  BY <1>1, <1>2
<1>4. QED BY <1>1, <1>3

\* The least element.
LEMMA MinIs ==
  ASSUME NEW S \in SUBSET Nat, S # {}
  PROVE  Min(S) \in S /\ \A n \in S : Min(S) <= n
<1>1. \E m \in S : \A n \in S : m <= n
  BY LeastElement
<1>2. QED BY <1>1, Zenon DEF Min

\* The greatest element of a set that is bounded.
LEMMA MaxIs ==
  ASSUME NEW k \in Nat, NEW S \in SUBSET (0 .. k), S # {}
  PROVE  Max(S) \in S /\ \A n \in S : n <= Max(S)
<1> DEFINE T == {k - n : n \in S}
<1>1. T \in SUBSET Nat /\ T # {}
  <2>1. \A n \in S : n \in Int /\ n <= k /\ k - n \in Nat
    OBVIOUS
  <2>2. QED BY <2>1
<1>2. PICK t \in T : \A u \in T : t <= u
  BY <1>1, LeastElement
<1>3. PICK m \in S : t = k - m
  BY <1>2
<1>4. \A n \in S : m >= n
  <2>1. SUFFICES ASSUME NEW n \in S PROVE m >= n
    OBVIOUS
  <2>2. k - n \in T
    OBVIOUS
  <2>3. k - m <= k - n
    BY <1>2, <1>3, <2>2
  <2>4. n \in 0 .. k /\ m \in 0 .. k
    OBVIOUS
  <2>5. QED BY <2>3, <2>4
<1>5. \E x \in S : \A y \in S : x >= y
  BY <1>3, <1>4
<1>6. Max(S) \in S /\ \A n \in S : Max(S) >= n
  BY <1>5, Zenon DEF Max
<1>7. QED BY <1>6

\* Division.
LEMMA DivFacts ==
  ASSUME NEW a \in Int, NEW b \in Nat \ {0}
  PROVE  /\ a \div b \in Int /\ a % b \in 0 .. b - 1
         /\ a = b * (a \div b) + (a % b)
OBVIOUS

\* Multiples are a whole factor apart.
LEMMA Less ==
  ASSUME NEW x \in Int, NEW y \in Int, NEW b \in Nat \ {0}, x < y
  PROVE  b * x + b <= b * y
<1>1. x + 1 <= y
  OBVIOUS
<1>2. b * (x + 1) <= b * y
  BY <1>1
<1>3. b * (x + 1) = b * x + b
  OBVIOUS
<1>4. QED BY <1>2, <1>3

\* There is only one quotient and one remainder.
LEMMA DivMod ==
  ASSUME NEW b \in Nat \ {0}, NEW q \in Int, NEW r \in 0 .. b - 1, NEW a \in Int,
         a = b * q + r
  PROVE  a \div b = q /\ a % b = r
<1> DEFINE x == a \div b
           y == a % b
<1>1. x \in Int /\ y \in 0 .. b - 1 /\ a = b * x + y
  BY DivFacts
<1> HIDE DEF x, y
<1>2. b * x \in Int /\ b * q \in Int
  BY <1>1
<1>3. ~(x < q)
  <2>1. ASSUME x < q PROVE b * x + b <= b * q
    BY <1>1, <2>1, Less
  <2>2. QED BY <1>1, <1>2, <2>1
<1>4. ~(q < x)
  <2>1. ASSUME q < x PROVE b * q + b <= b * x
    BY <1>1, <2>1, Less
  <2>2. QED BY <1>1, <1>2, <2>1
<1>5. x = q
  BY <1>1, <1>3, <1>4
<1>6. y = r
  BY <1>1, <1>2, <1>5
<1>7. QED BY <1>5, <1>6 DEF x, y

\* A quotient between two bounds.
LEMMA DivBounds ==
  ASSUME NEW a \in Int, NEW b \in Nat \ {0}, NEW lo \in Int, NEW hi \in Int,
         b * lo <= a, a < b * hi + b
  PROVE  lo <= a \div b /\ a \div b <= hi
<1> DEFINE x == a \div b
           y == a % b
<1>1. x \in Int /\ y \in 0 .. b - 1 /\ a = b * x + y
  BY DivFacts
<1> HIDE DEF x, y
<1>2. b * x \in Int /\ b * lo \in Int /\ b * hi \in Int
  BY <1>1
<1>3. ~(x < lo)
  <2>1. ASSUME x < lo PROVE b * x + b <= b * lo
    BY <1>1, <2>1, Less
  <2>2. QED BY <1>1, <1>2, <2>1
<1>4. ~(hi < x)
  <2>1. ASSUME hi < x PROVE b * hi + b <= b * x
    BY <1>1, <2>1, Less
  <2>2. QED BY <1>1, <1>2, <2>1
<1>5. QED BY <1>1, <1>3, <1>4 DEF x

\* Words of two, three and four bytes.

-----------------------------------------------------------------------------
(* The memory functions *)

\* m with the elements at the addresses R replaced, by those as far from s as they are from d.
Partly(m, d, s, R) == [a \in DOMAIN m |-> IF a \in R THEN m[s + a - d] ELSE m[a]]

Movable(m, d, s, n) ==
  /\ m = [a \in DOMAIN m |-> m[a]] /\ DOMAIN m \subseteq Int
  /\ d \in Int /\ s \in Int /\ n \in Nat
  /\ \A a \in d .. d + n - 1 : a \in DOMAIN m /\ s + a - d \in DOMAIN m

Put(f, x, y) == [f EXCEPT ![x] = f[y]]

\* One more element, that was not replaced before it is read.
LEMMA OneMore ==
  ASSUME NEW m, NEW d, NEW s, NEW n, Movable(m, d, s, n),
         NEW R, NEW x \in d .. d + n - 1, NEW y, y = s + x - d, y \notin R
  PROVE  Put(Partly(m, d, s, R), x, y) = Partly(m, d, s, R \cup {x})
<1> DEFINE p == Partly(m, d, s, R)
<1>1. x \in DOMAIN m /\ y \in DOMAIN m
  BY DEF Movable
<1>2. p = [a \in DOMAIN m |-> IF a \in R THEN m[s + a - d] ELSE m[a]]
  BY DEF Partly
<1>3. p[y] = m[y]
  BY <1>1, <1>2
<1> HIDE DEF p
<1>4. [p EXCEPT ![x] = m[y]] = [a \in DOMAIN m |-> IF a = x THEN m[y] ELSE p[a]]
  BY <1>1, <1>2
<1>5. ASSUME NEW a \in DOMAIN m
      PROVE  (IF a = x THEN m[y] ELSE p[a]) = IF a \in R \cup {x} THEN m[s + a - d] ELSE m[a]
  BY <1>2
<1>6. [a \in DOMAIN m |-> IF a = x THEN m[y] ELSE p[a]]
        = [a \in DOMAIN m |-> IF a \in R \cup {x} THEN m[s + a - d] ELSE m[a]]
  BY <1>5
<1>7. QED BY <1>3, <1>4, <1>6 DEF p, Partly, Put

\* Nothing is replaced at first.
LEMMA NothingYet ==
  ASSUME NEW m, NEW d, NEW s, NEW n, Movable(m, d, s, n)
  PROVE  Partly(m, d, s, {}) = m
BY DEF Partly, Movable

\* The loop from the first element on.
LEMMA CopyUpIs ==
  ASSUME NEW m, NEW d, NEW s, NEW n, Movable(m, d, s, n), s >= d \/ s + n <= d
  PROVE  CopyUp(m, d, s, n) = Partly(m, d, s, d .. d + n - 1)
<1> DEFINE Iter(f, i) == IF i = 0 THEN m ELSE [f[i - 1] EXCEPT ![d + i - 1] = f[i - 1][s + i - 1]]
           R(i) == d .. d + i - 1
           P(i) == Partly(m, d, s, R(i))
<1>0. d \in Int /\ s \in Int /\ n \in Nat
  BY DEF Movable
<1>1. ASSUME NEW i \in 1 .. n
      PROVE  [P(i - 1) EXCEPT ![d + i - 1] = P(i - 1)[s + i - 1]] = P(i)
  <2>1. d + i - 1 \in d .. d + n - 1 /\ s + i - 1 = s + (d + i - 1) - d
    BY <1>0
  <2>2. s + i - 1 \notin R(i - 1) /\ R(i - 1) \cup {d + i - 1} = R(i)
    BY <1>0
  <2> HIDE DEF R
  <2>3. Put(P(i - 1), d + i - 1, s + i - 1) = Partly(m, d, s, R(i - 1) \cup {d + i - 1})
    BY <2>1, <2>2, OneMore
  <2>4. QED BY <2>2, <2>3, Zenon DEF Put
<1>2. P(0) = m
  <2>1. R(0) = {}
    BY <1>0
  <2>2. QED BY <2>1, NothingYet
<1> HIDE DEF P
<1>3. ASSUME NEW f, f = [i \in 0 .. n |-> Iter(f, i)]
      PROVE  f[n] = P(n)
  <2> DEFINE S == {i \in Nat : i <= n => f[i] = P(i)}
  <2>1. 0 \in S
    BY <1>0, <1>2, <1>3
  <2>2. ASSUME NEW k \in Nat, k \in S PROVE k + 1 \in S
    <3>1. CASE k + 1 <= n
      <4>1. k + 1 \in 1 .. n /\ (k + 1) - 1 = k /\ k <= n /\ k + 1 \in 0 .. n /\ k + 1 # 0
        BY <1>0, <3>1
      <4>2. f[k] = P(k)
        BY <2>2, <4>1
      <4>3. f[k + 1] = Iter(f, k + 1)
        BY <1>3, <4>1
      <4>4. QED BY <1>1, <4>1, <4>2, <4>3
    <3>2. CASE ~(k + 1 <= n)
      BY <3>2
    <3>3. QED BY <3>1, <3>2
  <2> HIDE DEF S
  <2>3. n \in S
    BY <1>0, <2>1, <2>2, Induction
  <2>4. QED BY <1>0, <2>3 DEF S
<1>4. \E f : f = [i \in 0 .. n |-> Iter(f, i)]
  <2> DEFINE g == [i \in 0 .. n |-> P(i)]
  <2>1. ASSUME NEW i \in 0 .. n PROVE P(i) = Iter(g, i)
    <3>1. CASE i = 0
      BY <1>2, <3>1
    <3>2. CASE i # 0
      <4>1. i \in 1 .. n /\ i - 1 \in 0 .. n
        BY <1>0, <3>2
      <4>2. QED BY <1>1, <3>2, <4>1
    <3>3. QED BY <3>1, <3>2
  <2>2. g = [i \in 0 .. n |-> Iter(g, i)]
    BY <2>1
  <2>3. QED BY <2>2
<1>5. CopyUp(m, d, s, n) = (CHOOSE f : f = [i \in 0 .. n |-> Iter(f, i)])[n]
  BY Zenon DEF CopyUp
<1> HIDE DEF Iter
<1>6. QED BY <1>3, <1>4, <1>5, Zenon DEF P
\* The loop from the last element down.
LEMMA CopyDownIs ==
  ASSUME NEW m, NEW d, NEW s, NEW n, Movable(m, d, s, n), s < d
  PROVE  CopyDown(m, d, s, n) = Partly(m, d, s, d .. d + n - 1)
<1> DEFINE Iter(f, i) == IF i = 0 THEN m ELSE [f[i - 1] EXCEPT ![d + n - i] = f[i - 1][s + n - i]]
           R(i) == d + n - i .. d + n - 1
           P(i) == Partly(m, d, s, R(i))
<1>0. d \in Int /\ s \in Int /\ n \in Nat
  BY DEF Movable
<1>1. ASSUME NEW i \in 1 .. n
      PROVE  [P(i - 1) EXCEPT ![d + n - i] = P(i - 1)[s + n - i]] = P(i)
  <2>1. d + n - i \in d .. d + n - 1 /\ s + n - i = s + (d + n - i) - d
    BY <1>0
  <2>2. s + n - i \notin R(i - 1) /\ R(i - 1) \cup {d + n - i} = R(i)
    BY <1>0
  <2> HIDE DEF R
  <2>3. Put(P(i - 1), d + n - i, s + n - i) = Partly(m, d, s, R(i - 1) \cup {d + n - i})
    BY <2>1, <2>2, OneMore
  <2>4. QED BY <2>2, <2>3, Zenon DEF Put
<1>2. P(0) = m /\ P(n) = Partly(m, d, s, d .. d + n - 1)
  <2>1. R(0) = {} /\ R(n) = d .. d + n - 1
    BY <1>0
  <2>2. QED BY <2>1, NothingYet
<1> HIDE DEF P
<1>3. ASSUME NEW f, f = [i \in 0 .. n |-> Iter(f, i)]
      PROVE  f[n] = P(n)
  <2> DEFINE S == {i \in Nat : i <= n => f[i] = P(i)}
  <2>1. 0 \in S
    BY <1>0, <1>2, <1>3
  <2>2. ASSUME NEW k \in Nat, k \in S PROVE k + 1 \in S
    <3>1. CASE k + 1 <= n
      <4>1. k + 1 \in 1 .. n /\ (k + 1) - 1 = k /\ k <= n /\ k + 1 \in 0 .. n /\ k + 1 # 0
        BY <1>0, <3>1
      <4>2. f[k] = P(k)
        BY <2>2, <4>1
      <4>3. f[k + 1] = Iter(f, k + 1)
        BY <1>3, <4>1
      <4>4. QED BY <1>1, <4>1, <4>2, <4>3
    <3>2. CASE ~(k + 1 <= n)
      BY <3>2
    <3>3. QED BY <3>1, <3>2
  <2> HIDE DEF S
  <2>3. n \in S
    BY <1>0, <2>1, <2>2, Induction
  <2>4. QED BY <1>0, <2>3 DEF S
<1>4. \E f : f = [i \in 0 .. n |-> Iter(f, i)]
  <2> DEFINE g == [i \in 0 .. n |-> P(i)]
  <2>1. ASSUME NEW i \in 0 .. n PROVE P(i) = Iter(g, i)
    <3>1. CASE i = 0
      BY <1>2, <3>1
    <3>2. CASE i # 0
      <4>1. i \in 1 .. n /\ i - 1 \in 0 .. n
        BY <1>0, <3>2
      <4>2. QED BY <1>1, <3>2, <4>1
    <3>3. QED BY <3>1, <3>2
  <2>2. g = [i \in 0 .. n |-> Iter(g, i)]
    BY <2>1
  <2>3. QED BY <2>2
<1>5. CopyDown(m, d, s, n) = (CHOOSE f : f = [i \in 0 .. n |-> Iter(f, i)])[n]
  BY Zenon DEF CopyDown
<1> HIDE DEF Iter
<1>6. QED BY <1>2, <1>3, <1>4, <1>5, Zenon

-----------------------------------------------------------------------------

\* memcmp() finds the first difference, if there is one.
LEMMA FirstDifference ==
  ASSUME NEW m, NEW p, NEW q, NEW n \in Nat
  PROVE  \/ memcmp(m, p, q, n) = 0 /\ \A i \in 0 .. n - 1 : m[p + i] = m[q + i]
         \/ \E i \in 0 .. n - 1 :
              /\ \A j \in 0 .. i - 1 : m[p + j] = m[q + j]
              /\ m[p + i] # m[q + i]
              /\ memcmp(m, p, q, n) = IF m[p + i] < m[q + i] THEN -1 ELSE 1
<1> DEFINE differ == {i \in 0 .. n - 1 : m[p + i] # m[q + i]}
<1>1. CASE differ = {}
  BY <1>1 DEF memcmp
<1>2. CASE differ # {}
  <2>1. differ \in SUBSET Nat
    OBVIOUS
  <2>2. Min(differ) \in differ /\ \A i \in differ : Min(differ) <= i
    BY <1>2, <2>1, MinIs
  <2>3. memcmp(m, p, q, n) = IF m[p + Min(differ)] < m[q + Min(differ)] THEN -1 ELSE 1
    BY <1>2, Zenon DEF memcmp
  <2> DEFINE i == Min(differ)
  <2> HIDE DEF i
  <2>4. i \in 0 .. n - 1 /\ m[p + i] # m[q + i] /\ \A j \in differ : i <= j
    BY <2>2 DEF i
  <2>5. \A j \in 0 .. i - 1 : m[p + j] = m[q + j]
    <3>1. \A j \in 0 .. i - 1 : j \in 0 .. n - 1 /\ ~(i <= j)
      BY <2>4
    <3>2. QED BY <2>4, <3>1
  <2>6. QED BY <2>3, <2>4, <2>5 DEF i
<1>3. QED BY <1>1, <1>2

\* memmove() is right whichever of its ranges is the higher.
LEMMA MemmoveIs ==
  ASSUME NEW m, NEW d, NEW s, NEW n, Movable(m, d, s, n)
  PROVE  memmove(m, d, s, n) = Partly(m, d, s, d .. d + n - 1)
<1>1. d \in Int /\ s \in Int
  BY DEF Movable
<1>2. CASE s > d
  BY <1>1, <1>2, CopyUpIs DEF memmove
<1>3. CASE s < d
  BY <1>1, <1>3, CopyDownIs DEF memmove
<1>4. CASE s = d
  <2>1. \A a \in DOMAIN m : s + a - d = a
    BY <1>1, <1>4 DEF Movable
  <2>2. Partly(m, d, s, d .. d + n - 1) = [a \in DOMAIN m |-> m[a]]
    BY <2>1 DEF Partly
  <2>3. QED BY <1>1, <1>4, <2>2 DEF memmove, Movable
<1>5. QED BY <1>1, <1>2, <1>3, <1>4

\* The memory functions do what their names say, for every memory and all ranges,
\* memmove() for overlapping ones too.
THEOREM MemoryIsExact == Spec => []MemoryExact
<1> SUFFICES IInv => MemoryExact
  BY IInvHolds, PTL
<1> SUFFICES ASSUME IInv PROVE MemoryExact
  OBVIOUS
<1> DEFINE m == call.memory
           to == call.d .. call.d + call.n - 1
<1>0. ASSUME done
      PROVE  Legal(call) /\ memory = Effect(call, m) /\ value = Value(call)
  BY <1>0 DEF IInv
<1>1. ASSUME Returned({"memcpy", "memmove"})
      PROVE  memory = [a \in DOMAIN m |-> IF a \in to THEN m[call.s + a - call.d] ELSE m[a]]
  <2>1. call.op \in {"memcpy", "memmove"} /\ Legal(call) /\ memory = Effect(call, m)
    BY <1>0, <1>1 DEF Returned
  <2>2. Movable(m, call.d, call.s, call.n)
    <3>1. /\ m = [k \in DOMAIN m |-> m[k]] /\ DOMAIN m \subseteq Nat /\ call.n \in Nat
          /\ call.d \in Nat /\ call.d .. call.d + call.n - 1 \subseteq DOMAIN m
          /\ call.s \in Nat /\ call.s .. call.s + call.n - 1 \subseteq DOMAIN m
      <4>1. call.n \in Nat /\ Holds(m, 0 .. BYTE - 1) /\ LegalRange(call, call.d)
        BY <2>1 DEF Legal
      <4>2. LegalRange(call, call.s)
        BY <2>1 DEF Legal
      <4>3. QED BY <4>1, <4>2 DEF Holds, LegalRange
    <3>2. \A a \in to : call.s + a - call.d \in call.s .. call.s + call.n - 1
      BY <3>1
    <3>3. \A a \in to : a \in DOMAIN m /\ call.s + a - call.d \in DOMAIN m
      BY <3>1, <3>2
    <3>4. QED BY <3>1, <3>3 DEF Movable
  <2>3. CASE call.op = "memmove"
    <3>1. memory = memmove(m, call.d, call.s, call.n)
      BY <2>1, <2>3 DEF Effect
    <3>2. QED BY <2>2, <3>1, MemmoveIs DEF Partly
  <2>4. CASE call.op = "memcpy"
    <3>1. memory = CopyUp(m, call.d, call.s, call.n)
      BY <2>1, <2>4 DEF Effect, memcpy
    <3>2. call.s >= call.d \/ call.s + call.n <= call.d
      BY <2>1, <2>4, <2>2 DEF Legal, Movable
    <3>3. QED BY <2>2, <3>1, <3>2, CopyUpIs DEF Partly
  <2>5. QED BY <2>1, <2>3, <2>4
<1>2. ASSUME Returned({"memset"})
      PROVE  \A a \in DOMAIN m : memory[a] = IF a \in to THEN call.c % BYTE ELSE m[a]
  <2>1. call.op = "memset" /\ memory = Effect(call, m)
    BY <1>0, <1>2 DEF Returned
  <2>2. memory = memset(m, call.d, call.c, call.n)
    BY <2>1 DEF Effect
  <2>3. QED BY <2>2 DEF memset
<1>3. ASSUME Returned({"memcmp"})
      PROVE  \/ value = <<0>> /\ \A i \in 0 .. call.n - 1 : m[call.d + i] = m[call.s + i]
             \/ \E i \in 0 .. call.n - 1 :
                  /\ \A j \in 0 .. i - 1 : m[call.d + j] = m[call.s + j]
                  /\ m[call.d + i] # m[call.s + i]
                  /\ value = IF m[call.d + i] < m[call.s + i] THEN <<-1>> ELSE <<1>>
  <2>1. call.op = "memcmp" /\ Legal(call) /\ value = Value(call)
    BY <1>0, <1>3 DEF Returned
  <2>2. value = <<memcmp(m, call.d, call.s, call.n)>> /\ call.n \in Nat
    BY <2>1 DEF Value, Legal
  <2> HIDE DEF m
  <2>3. QED BY <2>2, FirstDifference
<1>4. QED BY <1>1, <1>2, <1>3 DEF MemoryExact

-----------------------------------------------------------------------------
(* Digits *)

\* The number of a string of digits, digit by digit.
LEMMA NumberIs ==
  ASSUME NEW digits, NEW base, Len(digits) \in Nat
  PROVE  \E f : /\ f[0] = 0
                /\ \A k \in 1 .. Len(digits) : f[k] = f[k - 1] * base + digits[k]
                /\ Number(digits, base) = f[Len(digits)]
<1> DEFINE n == Len(digits)
           Iter(f, k) == IF k = 0 THEN 0 ELSE f[k - 1] * base + digits[k]
           S == {m \in Nat : \E f : f = [k \in 0 .. m |-> Iter(f, k)]}
<1>1. 0 \in S
  <2> DEFINE f == [k \in 0 .. 0 |-> 0]
  <2>1. f = [k \in 0 .. 0 |-> Iter(f, k)]
    OBVIOUS
  <2>2. QED BY <2>1
<1>2. ASSUME NEW m \in Nat, m \in S PROVE m + 1 \in S
  <2>1. PICK f : f = [k \in 0 .. m |-> Iter(f, k)]
    BY <1>2
  <2> DEFINE g == [k \in 0 .. m + 1 |-> IF k <= m THEN f[k] ELSE Iter(f, m + 1)]
  <2>2. ASSUME NEW k \in 0 .. m + 1 PROVE g[k] = Iter(g, k)
    <3>1. CASE k = 0
      <4>1. g[0] = f[0] /\ f[0] = 0
        BY <2>1
      <4>2. QED BY <3>1, <4>1
    <3>2. CASE k # 0
      <4>1. k - 1 \in 0 .. m
        BY <3>2
      <4>2. g[k - 1] = f[k - 1]
        BY <4>1
      <4> HIDE DEF g
      <4>3. g[k] = Iter(f, k)
        <5>1. CASE k <= m
          <6>1. g[k] = f[k] /\ k \in 0 .. m
            BY <5>1 DEF g
          <6> HIDE DEF Iter
          <6>2. f[k] = Iter(f, k)
            BY <2>1, <6>1
          <6>3. QED BY <6>1, <6>2
        <5>2. CASE ~(k <= m)
          <6>1. k = m + 1
            BY <5>2
          <6>2. QED BY <5>2, <6>1 DEF g
        <5>3. QED BY <5>1, <5>2
      <4>4. QED BY <3>2, <4>2, <4>3
    <3>3. QED BY <3>1, <3>2
  <2>3. g = [k \in 0 .. m + 1 |-> Iter(g, k)]
    <3>1. g = [k \in 0 .. m + 1 |-> g[k]]
      OBVIOUS
    <3> HIDE DEF g, Iter
    <3>2. QED BY <2>2, <3>1
  <2>4. \E h : h = [k \in 0 .. m + 1 |-> Iter(h, k)]
    <3> HIDE DEF g, Iter
    <3>1. QED BY <2>3
  <2>5. QED BY <2>4
<1>3. \E f : f = [k \in 0 .. n |-> Iter(f, k)]
  <2> HIDE DEF S
  <2>1. Nat \subseteq S
    BY <1>1, <1>2, Induction
  <2>2. n \in S
    BY <2>1
  <2>3. QED BY <2>2 DEF S
<1> DEFINE u == CHOOSE f : f = [k \in 0 .. n |-> Iter(f, k)]
<1>4. Number(digits, base) = u[n]
  BY Zenon DEF Number
<1>5. u = [k \in 0 .. n |-> Iter(u, k)]
  <2> HIDE DEF Iter, n
  <2>1. QED BY <1>3, Zenon
<1> HIDE DEF u
<1>6. u[0] = 0 /\ \A k \in 1 .. n : u[k] = u[k - 1] * base + digits[k]
  <2>1. 0 \in 0 .. n /\ \A k \in 1 .. n : k \in 0 .. n /\ k # 0
    OBVIOUS
  <2> HIDE DEF n
  <2>2. QED BY <1>5, <2>1
<1>7. QED BY <1>4, <1>6

\* One more digit.
LEMMA NumberAppends ==
  ASSUME NEW base \in Nat, NEW t \in Seq(Nat), NEW x \in Nat
  PROVE  Number(Append(t, x), base) = Number(t, base) * base + x
<1> DEFINE L == Len(t)
           t2 == Append(t, x)
<1>1. L \in Nat /\ Len(t2) = L + 1 /\ t2[L + 1] = x /\ \A k \in 1 .. L : t2[k] = t[k]
  OBVIOUS
<1> HIDE DEF t2, L
<1>2. PICK f : /\ f[0] = 0 /\ \A k \in 1 .. L : f[k] = f[k - 1] * base + t[k]
               /\ Number(t, base) = f[L]
  <2>1. Len(t) \in Nat
    OBVIOUS
  <2>2. QED BY <2>1, NumberIs, Zenon DEF L
<1>3. PICK g : /\ g[0] = 0 /\ \A k \in 1 .. L + 1 : g[k] = g[k - 1] * base + t2[k]
               /\ Number(t2, base) = g[L + 1]
  <2>1. Len(t2) \in Nat
    BY <1>1
  <2>2. PICK h : /\ h[0] = 0 /\ \A k \in 1 .. Len(t2) : h[k] = h[k - 1] * base + t2[k]
                 /\ Number(t2, base) = h[Len(t2)]
    BY <2>1, NumberIs, Zenon
  <2>3. QED BY <1>1, <2>2
<1> DEFINE S == {m \in Nat : m <= L => f[m] = g[m]}
<1>4. 0 \in S
  BY <1>2, <1>3
<1>5. ASSUME NEW m \in Nat, m \in S PROVE m + 1 \in S
  <2>1. CASE m + 1 <= L
    <3>1. m + 1 \in 1 .. L /\ m + 1 \in 1 .. L + 1 /\ (m + 1) - 1 = m /\ m <= L
      BY <1>1, <2>1
    <3>2. f[m + 1] = f[m] * base + t[m + 1] /\ g[m + 1] = g[m] * base + t2[m + 1]
      BY <1>2, <1>3, <3>1
    <3>3. f[m] = g[m] /\ t2[m + 1] = t[m + 1]
      BY <1>1, <1>5, <3>1
    <3>4. f[m + 1] = g[m + 1]
      BY <3>2, <3>3, Zenon
    <3>5. QED BY <3>4
  <2>2. CASE ~(m + 1 <= L)
    BY <2>2
  <2>3. QED BY <2>1, <2>2
<1>6. f[L] = g[L]
  <2> HIDE DEF S
  <2>1. Nat \subseteq S
    BY <1>4, <1>5, Induction
  <2>2. L \in S /\ L <= L
    BY <1>1, <2>1
  <2>3. QED BY <2>2 DEF S
<1>7. g[L + 1] = g[L] * base + x
  <2>1. L + 1 \in 1 .. L + 1 /\ (L + 1) - 1 = L
    BY <1>1
  <2>2. QED BY <1>1, <1>3, <2>1
<1>8. QED BY <1>2, <1>3, <1>6, <1>7, Zenon DEF t2

\* Swapping the halves of a sequence turns it round.
LEMMA Turned ==
  ASSUME NEW s \in Seq(Nat)
  PROVE  Exchange(s) = [j \in 1 .. Len(s) |-> s[Len(s) + 1 - j]]
<1> DEFINE L == Len(s)
           h == L \div 2
<1>1. L \in Nat /\ h \in Int /\ (L = 2 * h \/ L = 2 * h + 1)
  OBVIOUS
<1> HIDE DEF h
<1>2. ASSUME NEW j \in 1 .. L, ~(j <= h \/ L + 1 - j <= h) PROVE L + 1 - j = j
  BY <1>1, <1>2
<1>3. Exchange(s) = [j \in 1 .. L |-> IF j <= h \/ L + 1 - j <= h THEN s[L + 1 - j] ELSE s[j]]
  BY DEF Exchange, h
<1> HIDE DEF L
<1>4. QED BY <1>2, <1>3 DEF L

\* The digits itoa() finds, last first.
LEMMA DigitsIs ==
  ASSUME NEW n \in Nat
  PROVE  \E d : /\ \A r \in 0 .. n : d[r] = IF r < 10 THEN <<r>> ELSE <<r % 10>> \o d[r \div 10]
                /\ Decimal(n) = Exchange(d[n])
<1> DEFINE Iter(d, r) == IF r < 10 THEN <<r>> ELSE <<r % 10>> \o d[r \div 10]
           S == {m \in Nat : \E d : d = [r \in 0 .. m |-> Iter(d, r)]}
<1>1. 0 \in S
  <2> DEFINE d == [r \in 0 .. 0 |-> <<r>>]
  <2>1. d = [r \in 0 .. 0 |-> Iter(d, r)]
    <3>1. \A r \in 0 .. 0 : Iter(d, r) = <<r>>
      OBVIOUS
    <3> HIDE DEF Iter
    <3>2. QED BY <3>1
  <2>2. QED BY <2>1
<1>2. ASSUME NEW m \in Nat, m \in S PROVE m + 1 \in S
  <2>1. PICK d : d = [r \in 0 .. m |-> Iter(d, r)]
    BY <1>2
  <2> DEFINE e == [r \in 0 .. m + 1 |-> IF r <= m THEN d[r] ELSE Iter(d, m + 1)]
  <2>2. ASSUME NEW r \in 0 .. m + 1 PROVE e[r] = Iter(e, r)
    <3>1. e[r] = Iter(d, r)
      <4>1. CASE r <= m
        <5>1. e[r] = d[r] /\ r \in 0 .. m
          BY <4>1
        <5> HIDE DEF Iter
        <5>2. d[r] = Iter(d, r)
          BY <2>1, <5>1
        <5>3. QED BY <5>1, <5>2
      <4>2. CASE ~(r <= m)
        <5>1. r = m + 1
          BY <4>2
        <5> HIDE DEF Iter
        <5>2. QED BY <4>2, <5>1
      <4>3. QED BY <4>1, <4>2
    <3>2. ASSUME r >= 10 PROVE e[r \div 10] = d[r \div 10]
      <4>1. r \div 10 \in 0 .. m
        BY <3>2
      <4> DEFINE q == r \div 10
      <4> HIDE DEF q
      <4>2. q \in 0 .. m + 1 /\ q <= m
        BY <4>1 DEF q
      <4>3. e[q] = d[q]
        BY <4>2
      <4>4. QED BY <4>3 DEF q
    <3>3. Iter(e, r) = Iter(d, r)
      <4> HIDE DEF e
      <4>1. CASE r < 10
        BY <4>1
      <4>2. CASE ~(r < 10)
        <5>1. e[r \div 10] = d[r \div 10]
          BY <3>2, <4>2
        <5>2. Iter(e, r) = <<r % 10>> \o e[r \div 10] /\ Iter(d, r) = <<r % 10>> \o d[r \div 10]
          BY <4>2
        <5>3. QED BY <5>1, <5>2, Zenon
      <4>3. QED BY <4>1, <4>2
    <3>4. QED BY <3>1, <3>3, Zenon
  <2>3. e = [r \in 0 .. m + 1 |-> Iter(e, r)]
    <3>1. e = [r \in 0 .. m + 1 |-> e[r]]
      OBVIOUS
    <3> HIDE DEF e, Iter
    <3>2. QED BY <2>2, <3>1
  <2>4. \E h : h = [r \in 0 .. m + 1 |-> Iter(h, r)]
    <3> HIDE DEF e, Iter
    <3>1. QED BY <2>3
  <2> HIDE DEF e, Iter
  <2>5. QED BY <2>4
<1>3. \E d : d = [r \in 0 .. n |-> Iter(d, r)]
  <2> HIDE DEF S
  <2>1. Nat \subseteq S
    BY <1>1, <1>2, Induction
  <2>2. n \in S
    BY <2>1
  <2>3. QED BY <2>2 DEF S
<1> DEFINE u == CHOOSE d : d = [r \in 0 .. n |-> Iter(d, r)]
<1>4. Decimal(n) = Exchange(u[n])
  BY Zenon DEF Decimal
<1>5. u = [r \in 0 .. n |-> Iter(u, r)]
  <2> HIDE DEF Iter
  <2>1. QED BY <1>3, Zenon
<1> HIDE DEF u
<1>6. \A r \in 0 .. n : u[r] = Iter(u, r)
  <2> HIDE DEF Iter
  <2>1. QED BY <1>5
<1>7. QED BY <1>4, <1>6

\* A string of digits, last first, is that of r.
DigitsOf(s, r) ==
  /\ s \in Seq(0 .. 9) /\ Len(s) \in Nat \ {0}
  /\ s[Len(s)] = 0 => Len(s) = 1 /\ r = 0
  /\ Number(Exchange(s), 10) = r

\* A single digit is its own number.
LEMMA OneDigit ==
  ASSUME NEW r \in 0 .. 9
  PROVE  DigitsOf(<<r>>, r)
<1> DEFINE s == <<r>>
<1>1. s \in Seq(0 .. 9) /\ s \in Seq(Nat) /\ Len(s) = 1 /\ s[1] = r
  OBVIOUS
<1>2. Exchange(s) = [j \in 1 .. 1 |-> r]
  <2>1. Exchange(s) = [j \in 1 .. Len(s) |-> s[Len(s) + 1 - j]]
    BY <1>1, Turned
  <2>2. \A j \in 1 .. 1 : s[1 + 1 - j] = r
    BY <1>1
  <2> HIDE DEF s
  <2>3. QED BY <1>1, <2>1, <2>2
<1> DEFINE t == Exchange(s)
<1>3. Len(t) = 1 /\ t[1] = r
  <2>1. [j \in 1 .. 1 |-> r] = <<r>>
    OBVIOUS
  <2>2. t = <<r>>
    BY <1>2, <2>1
  <2> HIDE DEF t
  <2>3. QED BY <2>2
<1>4. Number(t, 10) = r
  <2> HIDE DEF t
  <2>1. PICK f : /\ f[0] = 0 /\ \A k \in 1 .. Len(t) : f[k] = f[k - 1] * 10 + t[k]
                 /\ Number(t, 10) = f[Len(t)]
    <3>1. Len(t) \in Nat
      BY <1>3
    <3>2. QED BY <3>1, NumberIs, Zenon
  <2>2. f[1] = f[1 - 1] * 10 + t[1] /\ 1 - 1 = 0
    BY <1>3, <2>1
  <2>3. f[1] = 0 * 10 + r
    BY <1>3, <2>1, <2>2
  <2>4. QED BY <1>3, <2>1, <2>3
<1>5. QED BY <1>1, <1>4 DEF DigitsOf

\* The digits of r are its last one behind those of r / 10.
LEMMA NextDigit ==
  ASSUME NEW r \in Nat, r >= 10, NEW s, DigitsOf(s, r \div 10)
  PROVE  DigitsOf(<<r % 10>> \o s, r)
<1> DEFINE x == r % 10
           q == r \div 10
           L == Len(s)
           t == <<x>> \o s
<1>1. x \in 0 .. 9 /\ q \in Nat \ {0} /\ r = q * 10 + x
  OBVIOUS
<1>2. /\ s \in Seq(0 .. 9) /\ L \in Nat \ {0} /\ (s[L] = 0 => L = 1 /\ q = 0)
      /\ Number(Exchange(s), 10) = q
  BY DEF DigitsOf
<1> HIDE DEF x, q
<1>3. /\ t \in Seq(0 .. 9) /\ Len(t) = L + 1 /\ t[1] = x
      /\ \A k \in 2 .. L + 1 : t[k] = s[k - 1]
  BY <1>1, <1>2
<1>4. s \in Seq(Nat) /\ t \in Seq(Nat)
  <2> HIDE DEF t, L
  <2>1. \A w \in Seq(0 .. 9) : w \in Seq(Nat)
    OBVIOUS
  <2>2. QED BY <1>2, <1>3, <2>1
<1>5. t[Len(t)] # 0
  BY <1>1, <1>2, <1>3
<1> HIDE DEF t, L
<1>6. Exchange(s) = [j \in 1 .. L |-> s[L + 1 - j]]
  BY <1>4, Turned DEF L
<1>7. Exchange(t) = [j \in 1 .. L + 1 |-> t[(L + 1) + 1 - j]]
  BY <1>3, <1>4, Turned
<1>8. Exchange(s) \in Seq(Nat) /\ Len(Exchange(s)) = L
  <2>1. \A j \in 1 .. L : s[L + 1 - j] \in Nat
    BY <1>2, <1>4 DEF L
  <2>2. QED BY <1>2, <1>6, <2>1
<1>9. Exchange(t) = Append(Exchange(s), x)
  <2> DEFINE a == Exchange(s)
             b == Append(a, x)
             c == Exchange(t)
  <2>1. b = [j \in 1 .. L + 1 |-> IF j <= L THEN a[j] ELSE x]
    <3>1. a \in Seq(Nat) /\ Len(a) = L /\ x \in Nat /\ L \in Nat
      BY <1>1, <1>2, <1>8
    <3> HIDE DEF a, b
    <3>2. \A j \in 1 .. L + 1 : b[j] = IF j <= L THEN a[j] ELSE x
      BY <3>1 DEF b
    <3>3. b \in Seq(Nat) /\ Len(b) = L + 1
      BY <3>1 DEF b
    <3>4. b = [j \in 1 .. L + 1 |-> b[j]]
      BY <3>1, <3>3
    <3>5. QED BY <3>2, <3>4
  <2>2. ASSUME NEW j \in 1 .. L + 1 PROVE t[(L + 1) + 1 - j] = IF j <= L THEN a[j] ELSE x
    <3>1. CASE j <= L
      <4>1. a[j] = s[L + 1 - j]
        BY <1>6, <3>1
      <4>2. (L + 1) + 1 - j \in 2 .. L + 1 /\ ((L + 1) + 1 - j) - 1 = L + 1 - j
        BY <1>2, <3>1
      <4>3. t[(L + 1) + 1 - j] = s[L + 1 - j]
        BY <1>3, <4>2
      <4>4. QED BY <3>1, <4>1, <4>3
    <3>2. CASE ~(j <= L)
      <4>1. (L + 1) + 1 - j = 1
        BY <1>2, <3>2
      <4>2. QED BY <1>3, <3>2, <4>1
    <3>3. QED BY <3>1, <3>2
  <2> HIDE DEF a, b
  <2>3. QED BY <1>7, <2>1, <2>2 DEF a, b
<1>10. Number(Exchange(t), 10) = q * 10 + x
  <2>1. x \in Nat /\ 10 \in Nat
    BY <1>1
  <2>2. Number(Append(Exchange(s), x), 10) = Number(Exchange(s), 10) * 10 + x
    BY <1>8, <2>1, NumberAppends
  <2>3. QED BY <1>2, <1>9, <2>2, Zenon
<1>11. Len(t) \in Nat \ {0}
  BY <1>2, <1>3
<1>12. DigitsOf(t, r)
  BY <1>1, <1>3, <1>5, <1>10, <1>11 DEF DigitsOf
<1>13. QED BY <1>12 DEF t, x

\* These are the digits of the number, highest first, without leading zeros.
LEMMA DecimalIs ==
  ASSUME NEW n \in Nat
  PROVE  /\ Number(Decimal(n), 10) = n
         /\ \A i \in DOMAIN Decimal(n) : Decimal(n)[i] \in 0 .. 9
         /\ Decimal(n)[1] = 0 => Len(Decimal(n)) = 1
<1>1. PICK d : /\ \A r \in 0 .. n : d[r] = IF r < 10 THEN <<r>> ELSE <<r % 10>> \o d[r \div 10]
               /\ Decimal(n) = Exchange(d[n])
  BY DigitsIs
<1> DEFINE S == {k \in Nat : \A r \in 0 .. k : r <= n => DigitsOf(d[r], r)}
<1>2. ASSUME NEW r \in 0 .. n, r >= 10 => DigitsOf(d[r \div 10], r \div 10)
      PROVE  DigitsOf(d[r], r)
  <2>1. CASE r < 10
    <3>1. d[r] = <<r>>
      BY <1>1, <2>1, Zenon
    <3>2. r \in 0 .. 9
      BY <2>1
    <3>3. QED BY <3>1, <3>2, OneDigit
  <2>2. CASE ~(r < 10)
    <3>1. r \in Nat /\ r >= 10 /\ DigitsOf(d[r \div 10], r \div 10)
      BY <1>2, <2>2
    <3>2. DigitsOf(<<r % 10>> \o d[r \div 10], r)
      BY <3>1, NextDigit
    <3>3. d[r] = <<r % 10>> \o d[r \div 10]
      BY <1>1, <2>2, Zenon
    <3>4. QED BY <3>2, <3>3
  <2>3. QED BY <2>1, <2>2
<1>3. 0 \in S
  <2>1. 0 \in 0 .. n /\ ~(0 >= 10)
    OBVIOUS
  <2>2. DigitsOf(d[0], 0)
    BY <1>2, <2>1
  <2>3. QED BY <2>2
<1>4. ASSUME NEW k \in Nat, k \in S PROVE k + 1 \in S
  <2>1. SUFFICES ASSUME k + 1 <= n PROVE DigitsOf(d[k + 1], k + 1)
    BY <1>4
  <2> DEFINE q == (k + 1) \div 10
  <2>2. q \in 0 .. k
    OBVIOUS
  <2> HIDE DEF q
  <2>3. DigitsOf(d[q], q)
    BY <1>4, <2>1, <2>2
  <2>4. k + 1 \in 0 .. n
    BY <2>1
  <2>5. QED BY <1>2, <2>3, <2>4 DEF q
<1>5. DigitsOf(d[n], n)
  <2> HIDE DEF S
  <2>1. Nat \subseteq S
    BY <1>3, <1>4, Induction
  <2>2. n \in S /\ n \in 0 .. n /\ n <= n
    BY <2>1
  <2>3. QED BY <2>2 DEF S
<1> DEFINE s == d[n]
           L == Len(s)
<1>6. /\ s \in Seq(0 .. 9) /\ L \in Nat \ {0} /\ (s[L] = 0 => L = 1)
      /\ Number(Exchange(s), 10) = n
  BY <1>5 DEF DigitsOf
<1> HIDE DEF s
<1>7. s \in Seq(Nat)
  BY <1>6
<1>8. Exchange(s) = [j \in 1 .. L |-> s[L + 1 - j]]
  BY <1>7, Turned
<1>9. \A j \in 1 .. L : s[L + 1 - j] \in 0 .. 9
  BY <1>6
<1>10. Len(Exchange(s)) = L /\ DOMAIN Exchange(s) = 1 .. L /\ Exchange(s)[1] = s[L]
       /\ \A j \in 1 .. L : Exchange(s)[j] \in 0 .. 9
  <2>1. Exchange(s) \in Seq(0 .. 9)
    BY <1>6, <1>8, <1>9
  <2>2. L + 1 - 1 = L /\ 1 \in 1 .. L
    BY <1>6
  <2> HIDE DEF L
  <2>3. DOMAIN Exchange(s) = 1 .. L /\ Exchange(s)[1] = s[L]
        /\ \A j \in 1 .. L : Exchange(s)[j] \in 0 .. 9
    BY <1>8, <1>9, <2>2
  <2>4. Len(Exchange(s)) = L
    BY <1>6, <1>8, <2>1
  <2>5. QED BY <2>3, <2>4
<1>11. QED BY <1>1, <1>6, <1>10 DEF s

\* What is left of a number after two, four, eight and sixteen digits.
Left2(a) == (a \div NIBBLE) \div NIBBLE
Left4(a) == Left2(Left2(a))
Left8(a) == Left4(Left4(a))
Left16(a) == Left8(Left8(a))

\* A number of so many digits has none left after as many.
LEMMA LeftBounds ==
  ASSUME NEW q \in Nat
  PROVE  /\ \A a \in 0 .. q * BYTE - 1 : Left2(a) \in 0 .. q - 1
         /\ \A a \in 0 .. q * UINT16 - 1 : Left4(a) \in 0 .. q - 1
         /\ \A a \in 0 .. q * UINT32 - 1 : Left8(a) \in 0 .. q - 1
         /\ \A a \in 0 .. q * (UINT32 * UINT32) - 1 : Left16(a) \in 0 .. q - 1
<1>0. NIBBLE \in Nat \ {0}
  BY NibbleAssumption
<1>1. BYTE \in Nat /\ UINT16 \in Nat /\ UINT32 \in Nat
  BY <1>0 DEF BYTE, UINT16, UINT32
<1>2. ASSUME NEW p \in Nat, NEW a \in 0 .. p * NIBBLE - 1 PROVE a \div NIBBLE \in 0 .. p - 1
  <2> DEFINE b == a \div NIBBLE
             r == a % NIBBLE
  <2>1. p * NIBBLE \in Nat
    BY <1>0
  <2>2. a \in Nat /\ a < p * NIBBLE
    BY <2>1
  <2>3. b \in Int /\ r \in 0 .. NIBBLE - 1 /\ a = NIBBLE * b + r
    BY <1>0, <2>2, DivFacts
  <2> HIDE DEF b, r
  <2>4. b >= 0
    <3>1. ASSUME b < 0 PROVE NIBBLE * b + NIBBLE <= NIBBLE * 0
      BY <1>0, <2>3, <3>1, Less
    <3>2. NIBBLE * b \in Int /\ NIBBLE * 0 = 0
      BY <1>0, <2>3
    <3>3. QED BY <1>0, <2>2, <2>3, <3>1, <3>2
  <2>5. b < p
    <3>1. ASSUME p <= b PROVE NIBBLE * p <= NIBBLE * b
      BY <1>0, <2>3, <3>1
    <3>2. NIBBLE * b \in Int /\ NIBBLE * p = p * NIBBLE
      BY <1>0, <2>3
    <3>3. QED BY <1>0, <2>1, <2>2, <2>3, <3>1, <3>2
  <2>6. QED BY <2>3, <2>4, <2>5 DEF b
<1>3. ASSUME NEW p \in Nat, NEW a \in 0 .. p * BYTE - 1 PROVE Left2(a) \in 0 .. p - 1
  <2>1. p * BYTE = (p * NIBBLE) * NIBBLE /\ p * NIBBLE \in Nat
    BY <1>0 DEF BYTE
  <2> DEFINE b == a \div NIBBLE
             n == p * NIBBLE
  <2>2. n \in Nat /\ a \in 0 .. n * NIBBLE - 1
    BY <2>1
  <2> HIDE DEF n
  <2>3. b \in 0 .. n - 1
    BY <1>2, <2>2
  <2> HIDE DEF b
  <2>4. b \div NIBBLE \in 0 .. p - 1
    BY <1>2, <2>3 DEF n
  <2>5. QED BY <2>4 DEF Left2, b
<1>4. ASSUME NEW p \in Nat, NEW a \in 0 .. p * UINT16 - 1 PROVE Left4(a) \in 0 .. p - 1
  <2>1. p * UINT16 = (p * BYTE) * BYTE /\ p * BYTE \in Nat
    BY <1>1 DEF UINT16
  <2>2. Left2(a) \in 0 .. p * BYTE - 1
    BY <1>3, <2>1
  <2>3. QED BY <1>3, <2>2 DEF Left4
<1>5. ASSUME NEW p \in Nat, NEW a \in 0 .. p * UINT32 - 1 PROVE Left8(a) \in 0 .. p - 1
  <2>1. p * UINT32 = (p * UINT16) * UINT16 /\ p * UINT16 \in Nat
    BY <1>1 DEF UINT32
  <2>2. Left4(a) \in 0 .. p * UINT16 - 1
    BY <1>4, <2>1
  <2>3. QED BY <1>4, <2>2 DEF Left8
<1>6. ASSUME NEW a \in 0 .. q * (UINT32 * UINT32) - 1 PROVE Left16(a) \in 0 .. q - 1
  <2>1. q * (UINT32 * UINT32) = (q * UINT32) * UINT32 /\ q * UINT32 \in Nat
    BY <1>1
  <2>2. Left8(a) \in 0 .. q * UINT32 - 1
    BY <1>5, <2>1
  <2>3. QED BY <1>5, <2>2 DEF Left16
<1>7. QED BY <1>3, <1>4, <1>5, <1>6

\* What is left of the number before the i-th digit from behind.
LEMMA HexIs ==
  ASSUME NEW n
  PROVE  \E left : /\ left[0] = n
                   /\ \A i \in 1 .. 15 : left[i] = left[i - 1] \div NIBBLE
                   /\ itoa_hex(n) = [j \in 1 .. 16 |-> left[16 - j] % NIBBLE]
<1> DEFINE Iter(f, i) == IF i = 0 THEN n ELSE f[i - 1] \div NIBBLE
           S == {m \in Nat : \E f : f = [k \in 0 .. m |-> Iter(f, k)]}
<1>1. 0 \in S
  <2> DEFINE f == [k \in 0 .. 0 |-> n]
  <2>1. f = [k \in 0 .. 0 |-> Iter(f, k)]
    OBVIOUS
  <2>2. QED BY <2>1
<1>2. ASSUME NEW m \in Nat, m \in S PROVE m + 1 \in S
  <2>1. PICK f : f = [k \in 0 .. m |-> Iter(f, k)]
    BY <1>2
  <2> DEFINE g == [k \in 0 .. m + 1 |-> IF k <= m THEN f[k] ELSE Iter(f, m + 1)]
  <2>2. ASSUME NEW k \in 0 .. m + 1 PROVE g[k] = Iter(g, k)
    <3>1. CASE k = 0
      <4>1. g[0] = f[0] /\ f[0] = n
        BY <2>1
      <4>2. QED BY <3>1, <4>1
    <3>2. CASE k # 0
      <4>1. k - 1 \in 0 .. m
        BY <3>2
      <4>2. g[k - 1] = f[k - 1]
        BY <4>1
      <4> HIDE DEF g
      <4>3. g[k] = Iter(f, k)
        <5>1. CASE k <= m
          <6>1. g[k] = f[k] /\ k \in 0 .. m
            BY <5>1 DEF g
          <6> HIDE DEF Iter
          <6>2. f[k] = Iter(f, k)
            BY <2>1, <6>1
          <6>3. QED BY <6>1, <6>2
        <5>2. CASE ~(k <= m)
          <6>1. k = m + 1
            BY <5>2
          <6>2. QED BY <5>2, <6>1 DEF g
        <5>3. QED BY <5>1, <5>2
      <4>4. QED BY <3>2, <4>2, <4>3
    <3>3. QED BY <3>1, <3>2
  <2>3. g = [k \in 0 .. m + 1 |-> Iter(g, k)]
    <3>1. g = [k \in 0 .. m + 1 |-> g[k]]
      OBVIOUS
    <3> HIDE DEF g, Iter
    <3>2. QED BY <2>2, <3>1
  <2>4. \E h : h = [k \in 0 .. m + 1 |-> Iter(h, k)]
    <3> HIDE DEF g, Iter
    <3>1. QED BY <2>3
  <2> HIDE DEF g, Iter
  <2>5. QED BY <2>4
<1>3. \E f : f = [k \in 0 .. 15 |-> Iter(f, k)]
  <2> HIDE DEF S
  <2>1. Nat \subseteq S
    BY <1>1, <1>2, Induction
  <2>2. 15 \in S
    BY <2>1
  <2> HIDE DEF Iter
  <2>3. QED BY <2>2 DEF S
<1> DEFINE u == CHOOSE f : f = [i \in 0 .. 15 |-> Iter(f, i)]
<1>4. itoa_hex(n) = [j \in 1 .. 16 |-> u[16 - j] % NIBBLE]
  BY Zenon DEF itoa_hex
<1>5. u = [k \in 0 .. 15 |-> Iter(u, k)]
  <2> HIDE DEF Iter
  <2>1. QED BY <1>3, Zenon
<1> HIDE DEF u
<1>6. u[0] = n /\ \A i \in 1 .. 15 : u[i] = u[i - 1] \div NIBBLE
  <2>1. 0 \in 0 .. 15 /\ \A i \in 1 .. 15 : i \in 0 .. 15 /\ i # 0
    OBVIOUS
  <2>2. QED BY <1>5, <2>1
<1>7. QED BY <1>4, <1>6

\* itoa_hex() writes all sixteen digits of its number, highest first.
LEMMA ItoaHexIs ==
  ASSUME NEW n \in 0 .. UINT32 * UINT32 - 1
  PROVE  /\ Number(itoa_hex(n), NIBBLE) = n
         /\ \A i \in DOMAIN itoa_hex(n) : itoa_hex(n)[i] \in 0 .. NIBBLE - 1
<1> DEFINE t == itoa_hex(n)
<1>0. NIBBLE \in Nat \ {0} /\ UINT32 * UINT32 \in Nat
  BY NibbleAssumption DEF UINT32, UINT16, BYTE
<1>1. PICK left : /\ left[0] = n /\ \A i \in 1 .. 15 : left[i] = left[i - 1] \div NIBBLE
                  /\ t = [j \in 1 .. 16 |-> left[16 - j] % NIBBLE]
  BY HexIs
<1> HIDE DEF t
<1>2. \A i \in 0 .. 15 : left[i] \in Int
  <2> DEFINE S == {i \in Nat : i <= 15 => left[i] \in Int}
  <2>1. 0 \in S
    BY <1>0, <1>1
  <2>2. ASSUME NEW i \in Nat, i \in S PROVE i + 1 \in S
    <3>1. SUFFICES ASSUME i + 1 <= 15 PROVE left[i + 1] \in Int
      OBVIOUS
    <3>2. left[i + 1] = left[i] \div NIBBLE
      <4>1. i + 1 \in 1 .. 15 /\ (i + 1) - 1 = i
        BY <3>1
      <4>2. QED BY <1>1, <4>1
    <3>3. left[i] \in Int
      BY <2>2, <3>1
    <3>4. QED BY <1>0, <3>2, <3>3
  <2> HIDE DEF S
  <2>3. Nat \subseteq S
    BY <2>1, <2>2, Induction
  <2>4. QED BY <2>3 DEF S
<1>3. left[15] \div NIBBLE = 0
  <2>1. left[15] \div NIBBLE = Left16(n)
    <3>1. /\ left[2] = Left2(left[0]) /\ left[4] = Left2(left[2]) /\ left[6] = Left2(left[4])
          /\ left[8] = Left2(left[6]) /\ left[10] = Left2(left[8]) /\ left[12] = Left2(left[10])
          /\ left[14] = Left2(left[12]) /\ left[15] \div NIBBLE = Left2(left[14])
      <4>1. ASSUME NEW i \in 0 .. 13 PROVE left[i + 2] = Left2(left[i])
        <5>1. i + 2 \in 1 .. 15 /\ (i + 2) - 1 = i + 1 /\ i + 1 \in 1 .. 15 /\ (i + 1) - 1 = i
          OBVIOUS
        <5>2. left[i + 2] = left[i + 1] \div NIBBLE /\ left[i + 1] = left[i] \div NIBBLE
          BY <1>1, <5>1
        <5>3. QED BY <5>2, Zenon DEF Left2
      <4>2. left[15] = left[14] \div NIBBLE
        <5>1. 15 \in 1 .. 15 /\ 15 - 1 = 14
          OBVIOUS
        <5>2. QED BY <1>1, <5>1
      <4>3. left[15] \div NIBBLE = Left2(left[14])
        BY <4>2, Zenon DEF Left2
      <4>4. QED BY <4>1, <4>3
    <3>2. /\ left[4] = Left4(left[0]) /\ left[8] = Left4(left[4])
          /\ left[12] = Left4(left[8]) /\ left[15] \div NIBBLE = Left4(left[12])
      BY <3>1, Zenon DEF Left4
    <3>3. left[8] = Left8(left[0]) /\ left[15] \div NIBBLE = Left8(left[8])
      BY <3>2, Zenon DEF Left8
    <3>4. QED BY <1>1, <3>3, Zenon DEF Left16
  <2>2. Left16(n) \in 0 .. 1 - 1
    <3>1. n \in 0 .. 1 * (UINT32 * UINT32) - 1 /\ 1 \in Nat
      BY <1>0
    <3>2. QED BY <3>1, LeftBounds
  <2>3. QED BY <2>1, <2>2
<1>4. \A j \in 1 .. 16 : t[j] = left[16 - j] % NIBBLE /\ t[j] \in 0 .. NIBBLE - 1
  <2>1. SUFFICES ASSUME NEW j \in 1 .. 16
        PROVE  t[j] = left[16 - j] % NIBBLE /\ t[j] \in 0 .. NIBBLE - 1
    OBVIOUS
  <2> DEFINE a == left[16 - j]
  <2>2. t[j] = a % NIBBLE
    BY <1>1
  <2>3. a \in Int
    BY <1>2
  <2> HIDE DEF a
  <2>4. a % NIBBLE \in 0 .. NIBBLE - 1
    BY <1>0, <2>3, DivFacts
  <2>5. QED BY <2>2, <2>4 DEF a
<1>5. Len(t) = 16 /\ DOMAIN t = 1 .. 16
  <2>1. t \in Seq(0 .. NIBBLE - 1)
    <3>1. t = [j \in 1 .. 16 |-> t[j]]
      BY <1>1
    <3>2. QED BY <1>4, <3>1
  <2>2. DOMAIN t = 1 .. 16
    BY <1>1
  <2>3. QED BY <2>1, <2>2
<1>6. PICK f : /\ f[0] = 0 /\ \A k \in 1 .. 16 : f[k] = f[k - 1] * NIBBLE + t[k]
               /\ Number(t, NIBBLE) = f[16]
  <2>1. Len(t) \in Nat
    BY <1>5
  <2>2. PICK f : /\ f[0] = 0 /\ \A k \in 1 .. Len(t) : f[k] = f[k - 1] * NIBBLE + t[k]
                 /\ Number(t, NIBBLE) = f[Len(t)]
    BY <2>1, NumberIs, Zenon
  <2>3. QED BY <1>5, <2>2
<1>7. f[16] = n
  <2> DEFINE S == {k \in Nat : k >= 1 /\ k <= 16 => f[k] = left[16 - k]}
  <2>1. 0 \in S
    OBVIOUS
  <2>2. ASSUME NEW k \in Nat, k \in S PROVE k + 1 \in S
    <3>1. SUFFICES ASSUME k + 1 <= 16 PROVE f[k + 1] = left[16 - (k + 1)]
      OBVIOUS
    <3> DEFINE i == 16 - (k + 1)
               a == left[i]
    <3>2. i \in 0 .. 15 /\ k + 1 \in 1 .. 16 /\ (k + 1) - 1 = k
      BY <3>1
    <3>3. f[k] = a \div NIBBLE
      <4>1. CASE k = 0
        <5>1. i = 15
          BY <4>1
        <5>2. QED BY <1>3, <1>6, <4>1, <5>1
      <4>2. CASE k # 0
        <5>1. 16 - k = i + 1 /\ i + 1 \in 1 .. 15 /\ (i + 1) - 1 = i /\ k >= 1 /\ k <= 16
          BY <3>1, <4>2
        <5>2. f[k] = left[16 - k]
          BY <2>2, <5>1
        <5> HIDE DEF i
        <5>3. left[i + 1] = left[i] \div NIBBLE
          BY <1>1, <5>1
        <5>4. QED BY <5>1, <5>2, <5>3, Zenon
      <4>3. QED BY <4>1, <4>2
    <3>4. t[k + 1] = a % NIBBLE
      BY <1>4, <3>2
    <3>5. f[k + 1] = f[k] * NIBBLE + t[k + 1]
      BY <1>6, <3>2
    <3>6. a \in Int
      BY <1>2, <3>2
    <3> HIDE DEF a
    <3>7. (a \div NIBBLE) * NIBBLE + (a % NIBBLE) = a
      <4>1. /\ a \div NIBBLE \in Int /\ a % NIBBLE \in Int
            /\ a = NIBBLE * (a \div NIBBLE) + (a % NIBBLE)
        BY <1>0, <3>6, DivFacts
      <4> DEFINE x == a \div NIBBLE
                 y == a % NIBBLE
      <4>2. x \in Int /\ y \in Int /\ a = NIBBLE * x + y /\ NIBBLE \in Int
        BY <1>0, <4>1
      <4> HIDE DEF x, y
      <4>3. x * NIBBLE + y = a
        BY <4>2
      <4>4. QED BY <4>3 DEF x, y
    <3>8. f[k + 1] = a
      BY <3>3, <3>4, <3>5, <3>7, Zenon
    <3>9. QED BY <3>8 DEF a
  <2> HIDE DEF S
  <2>3. Nat \subseteq S
    BY <2>1, <2>2, Induction
  <2>4. 16 \in S
    BY <2>3
  <2>5. f[16] = left[16 - 16]
    BY <2>4 DEF S
  <2>6. 16 - 16 = 0
    OBVIOUS
  <2>7. QED BY <1>1, <2>5, <2>6
<1>8. QED BY <1>4, <1>5, <1>6, <1>7 DEF t

\* The invariant says it of a call that has returned.
LEMMA ReturnsNumbersExact == IInv => NumbersExact
<1> SUFFICES ASSUME IInv, done PROVE NumbersExact
  BY DEF NumbersExact, Returned
<1>1. Legal(call) /\ value = Value(call)
  BY DEF IInv
<1>2. UINT32 * UINT32 \in Nat
  BY NibbleAssumption DEF UINT32, UINT16, BYTE
<1>3. ASSUME Returned({"itoa"}), call.n < UINT32
      PROVE  /\ Number(value, 10) = call.n
             /\ \A i \in DOMAIN value : value[i] \in 0 .. 9
             /\ value[1] = 0 => Len(value) = 1
  <2>1. value = itoa(call.n)
    BY <1>1, <1>3 DEF Value, Returned
  <2>2. call.n \in Nat
    BY <1>1, <1>2, <1>3 DEF Legal, Returned
  <2>3. UINT32 \in Nat \ {0}
    BY NibbleAssumption DEF UINT32, UINT16, BYTE
  <2>4. call.n % UINT32 = call.n
    BY <1>3, <2>2, <2>3
  <2>5. value = Decimal(call.n)
    BY <2>1, <2>4 DEF itoa
  <2>6. QED BY <2>2, <2>5, DecimalIs
<1>4. ASSUME Returned({"itoa_hex"})
      PROVE  /\ Number(value, NIBBLE) = call.n
             /\ \A i \in DOMAIN value : value[i] \in 0 .. NIBBLE - 1
  <2>1. value = itoa_hex(call.n)
    BY <1>1, <1>4 DEF Value, Returned
  <2>2. call.n \in 0 .. UINT32 * UINT32 - 1
    BY <1>1, <1>4 DEF Legal, Returned
  <2>3. QED BY <2>1, <2>2, ItoaHexIs
<1>5. QED BY <1>3, <1>4 DEF NumbersExact

\* itoa() writes the digits of every number of 32 bits, which its parameter has, and
\* itoa_hex() those of every number of 64.
THEOREM DigitsAreExact == Spec => []NumbersExact
BY IInvHolds, ReturnsNumbersExact, PTL

-----------------------------------------------------------------------------
(* Blending *)

B2 == BYTE * BYTE
B3 == BYTE * (BYTE * BYTE)
B4 == BYTE * (BYTE * (BYTE * BYTE))

\* How wide they are.
LEMMA Widths ==
  /\ BYTE \in Nat \ {0, 1} /\ B2 \in Nat \ {0} /\ B3 \in Nat \ {0} /\ B4 \in Nat \ {0}
  /\ UINT16 = B2 /\ UINT32 = B4 /\ BYTE * UINT16 = B3
<1>1. NIBBLE \in Nat /\ NIBBLE >= 2
  BY NibbleAssumption
<1>2. BYTE \in Nat /\ BYTE >= 2
  <2>1. NIBBLE * NIBBLE >= NIBBLE /\ NIBBLE * NIBBLE \in Nat
    BY <1>1
  <2>2. QED BY <1>1, <2>1 DEF BYTE
<1>3. B2 \in Nat /\ B2 >= BYTE
  BY <1>2 DEF B2
<1>4. BYTE * B2 \in Nat /\ BYTE * B2 >= B2
  BY <1>2, <1>3
<1>5. BYTE * (BYTE * B2) \in Nat /\ BYTE * (BYTE * B2) >= BYTE * B2
  BY <1>2, <1>4
<1>6. UINT32 = B4
  <2>1. (BYTE * BYTE) * (BYTE * BYTE) = BYTE * (BYTE * (BYTE * BYTE))
    BY <1>2
  <2>2. QED BY <2>1 DEF UINT32, UINT16, B4
<1>7. B3 = BYTE * B2 /\ B4 = BYTE * (BYTE * B2) /\ UINT16 = B2 /\ BYTE * UINT16 = B3
  BY DEF B2, B3, B4, UINT16
<1>8. QED BY <1>2, <1>3, <1>4, <1>5, <1>6, <1>7

\* u is s weighed by alpha and d by the rest: a number of two bytes.
LEMMA WeighedIs ==
  ASSUME NEW s \in 0 .. BYTE - 1, NEW d \in 0 .. BYTE - 1, NEW alpha \in 0 .. BYTE - 1
  PROVE  LET u == s * alpha + d * (BYTE - alpha) IN
         u \in Nat /\ u \div BYTE \in 0 .. BYTE - 1
<1> DEFINE u == s * alpha + d * (BYTE - alpha)
<1>0. BYTE \in Nat \ {0, 1}
  BY Widths
<1>1. s * alpha \in Nat /\ s * alpha <= (BYTE - 1) * alpha
  BY <1>0
<1>2. d * (BYTE - alpha) \in Nat /\ d * (BYTE - alpha) <= (BYTE - 1) * (BYTE - alpha)
  BY <1>0
<1>3. (BYTE - 1) * alpha + (BYTE - 1) * (BYTE - alpha) = BYTE * (BYTE - 1)
  BY <1>0
<1>4. u \in Nat /\ u <= BYTE * (BYTE - 1)
  BY <1>0, <1>1, <1>2, <1>3
<1> HIDE DEF u
<1>5. BYTE * 0 <= u /\ u < BYTE * (BYTE - 1) + BYTE
  BY <1>0, <1>4
<1>6. u \div BYTE >= 0 /\ u \div BYTE <= BYTE - 1 /\ u \div BYTE \in Int
  <2>1. BYTE - 1 \in Int /\ 0 \in Int /\ u \in Int
    BY <1>0, <1>4
  <2>2. QED BY <1>0, <1>5, <2>1, DivBounds, DivFacts
<1>7. QED BY <1>0, <1>4, <1>6 DEF u

\* Red and blue, mixed in one word whose difference may wrap around.
LEMMA MixRedBlue ==
  ASSUME NEW rs \in 0 .. BYTE - 1, NEW bs \in 0 .. BYTE - 1,
         NEW rd \in 0 .. BYTE - 1, NEW bd \in 0 .. BYTE - 1, NEW alpha \in 0 .. BYTE - 1
  PROVE  LET T == Mix(rs * B2 + bs, rd * B2 + bd, alpha) IN
         /\ (T \div B2) % BYTE = (rs * alpha + rd * (BYTE - alpha)) \div BYTE
         /\ T % BYTE = (bs * alpha + bd * (BYTE - alpha)) \div BYTE
<1> DEFINE b == BYTE
           u == rs * alpha + rd * (b - alpha)
           v == bs * alpha + bd * (b - alpha)
           a == ((rs * B2 + bs) - (rd * B2 + bd)) * alpha
           w == a \div B4
           y == a % B4
           T == y \div b + (rd * B2 + bd)
           u1 == u \div b
           u0 == u % b
           v1 == v \div b
           v0 == v % b
<1>0. b \in Nat \ {0, 1} /\ B2 = b * b /\ B3 = b * (b * b) /\ B4 = b * (b * (b * b))
      /\ B2 \in Nat \ {0} /\ B3 \in Nat \ {0} /\ B4 \in Nat \ {0} /\ UINT32 = B4
  BY Widths DEF B2, B3, B4
<1>1. /\ rs \in Int /\ bs \in Int /\ rd \in Int /\ bd \in Int /\ alpha \in Int
  BY <1>0
<1>2. u \in Nat /\ v \in Nat /\ u1 \in 0 .. b - 1 /\ v1 \in 0 .. b - 1
  BY WeighedIs
<1>3. a \in Int /\ w \in Int /\ y \in 0 .. B4 - 1 /\ a = B4 * w + y
  <2>1. a \in Int
    BY <1>0, <1>1
  <2> HIDE DEF a
  <2>2. QED BY <1>0, <2>1, DivFacts
<1>4. u0 \in 0 .. b - 1 /\ u = b * u1 + u0 /\ v0 \in 0 .. b - 1 /\ v = b * v1 + v0
  <2> HIDE DEF u, v
  <2>1. QED BY <1>0, <1>2, DivFacts
<1>5. a = (u - rd * b) * (b * b) + (v - bd * b)
  BY <1>0, <1>1
<1>6. Mix(rs * B2 + bs, rd * B2 + bd, alpha) = T
  BY <1>0 DEF Mix
<1> HIDE DEF a, u, v, u1, u0, v1, v0, w, y, b
<1>7. y = b * ((u - rd * b) * b + v1 - bd - (b * (b * b)) * w) + v0
  BY <1>0, <1>1, <1>2, <1>3, <1>4, <1>5
<1>8. y \div b = (u - rd * b) * b + v1 - bd - (b * (b * b)) * w
  <2> DEFINE q == (u - rd * b) * b + v1 - bd - (b * (b * b)) * w
  <2>1. q \in Int /\ y = b * q + v0 /\ y \in Int
    BY <1>0, <1>1, <1>2, <1>3, <1>4, <1>7
  <2> HIDE DEF q
  <2>2. y \div b = q
    BY <1>0, <1>4, <2>1, DivMod
  <2>3. QED BY <2>2 DEF q
<1>9. T = u * b + v1 - (b * (b * b)) * w
  BY <1>0, <1>1, <1>2, <1>3, <1>4, <1>8
<1> HIDE DEF T
<1>10. T % b = v1
  <2>1. T = b * (u - (b * b) * w) + v1 /\ u - (b * b) * w \in Int /\ T \in Int
    BY <1>0, <1>2, <1>3, <1>4, <1>9
  <2>2. QED BY <1>0, <1>2, <2>1, DivMod
<1>11. (T \div B2) % b = u1
  <2> DEFINE q == u1 - b * w
             r == b * u0 + v1
             n == -w
  <2>1. T = B2 * q + r /\ T \in Int /\ q \in Int /\ q = b * n + u1 /\ n \in Int
    BY <1>0, <1>2, <1>3, <1>4, <1>9
  <2>2. r \in 0 .. B2 - 1
    BY <1>0, <1>2, <1>4
  <2> HIDE DEF q, r, n
  <2>3. T \div B2 = q
    BY <1>0, <2>1, <2>2, DivMod
  <2>4. q % b = u1
    <3>1. b \in Nat \ {0} /\ n \in Int /\ q \in Int /\ u1 \in 0 .. b - 1 /\ q = b * n + u1
      BY <1>0, <1>2, <2>1
    <3>2. QED BY <3>1, DivMod
  <2>5. QED BY <2>3, <2>4
<1>12. QED BY <1>6, <1>10, <1>11 DEF b, u, v, u1, v1

\* Green, alone in its word.
LEMMA MixGreen ==
  ASSUME NEW s \in 0 .. BYTE - 1, NEW d \in 0 .. BYTE - 1, NEW alpha \in 0 .. BYTE - 1
  PROVE  (Mix(s * BYTE, d * BYTE, alpha) \div BYTE) % BYTE
           = (s * alpha + d * (BYTE - alpha)) \div BYTE
<1> DEFINE b == BYTE
           u == s * alpha + d * (b - alpha)
           a == (s * b - d * b) * alpha
           w == a \div B4
           y == a % B4
           T == y \div b + d * b
           u1 == u \div b
           u0 == u % b
<1>0. /\ b \in Nat \ {0, 1} /\ b \in Nat \ {0} /\ B4 = b * (b * (b * b)) /\ B4 \in Nat \ {0}
      /\ UINT32 = B4 /\ s \in Int /\ d \in Int /\ alpha \in Int
  BY Widths DEF B4
<1>1. u \in Nat /\ u1 \in 0 .. b - 1
  BY WeighedIs
<1>2. a \in Int /\ w \in Int /\ y \in 0 .. B4 - 1 /\ a = B4 * w + y
  <2>1. a \in Int
    BY <1>0
  <2> HIDE DEF a
  <2>2. QED BY <1>0, <2>1, DivFacts
<1>3. u0 \in 0 .. b - 1 /\ u = b * u1 + u0
  <2> HIDE DEF u
  <2>1. QED BY <1>0, <1>1, DivFacts
<1>4. a = (u - d * b) * b
  BY <1>0
<1>5. Mix(s * BYTE, d * BYTE, alpha) = T
  BY <1>0 DEF Mix
<1> HIDE DEF a, u, u1, u0, w, y, b
<1>6. y \div b = (u - d * b) - (b * (b * b)) * w
  <2> DEFINE q == (u - d * b) - (b * (b * b)) * w
  <2>1. q \in Int /\ y = b * q + 0 /\ y \in Int /\ 0 \in 0 .. b - 1
    BY <1>0, <1>1, <1>2, <1>4
  <2> HIDE DEF q
  <2>2. y \div b = q
    BY <1>0, <2>1, DivMod
  <2>3. QED BY <2>2 DEF q
<1>7. T = u - (b * (b * b)) * w
  BY <1>0, <1>1, <1>2, <1>6
<1> HIDE DEF T
<1>8. (T \div b) % b = u1
  <2> DEFINE q == u1 - (b * b) * w
             n == -(b * w)
  <2>1. T = b * q + u0 /\ T \in Int /\ q \in Int /\ q = b * n + u1 /\ n \in Int
    BY <1>0, <1>1, <1>2, <1>3, <1>7
  <2> HIDE DEF q, n
  <2>2. T \div b = q
    BY <1>0, <1>3, <2>1, DivMod
  <2>3. q % b = u1
    BY <1>0, <1>1, <2>1, DivMod
  <2>4. QED BY <2>2, <2>3
<1>9. QED BY <1>5, <1>8 DEF b, u, u1

\* The four parts of a color.
Color(a, r, g, b) == a * B3 + r * B2 + g * BYTE + b

\* A color that is put together from four parts has them.
LEMMA PartsOf ==
  ASSUME NEW a \in 0 .. BYTE - 1, NEW r \in 0 .. BYTE - 1, NEW g \in 0 .. BYTE - 1,
         NEW b \in 0 .. BYTE - 1, NEW c, c = Color(a, r, g, b)
  PROVE  /\ c \in 0 .. UINT32 - 1
         /\ c \div (BYTE * UINT16) = a /\ (c \div UINT16) % BYTE = r
         /\ (c \div BYTE) % BYTE = g /\ c % BYTE = b
<1> DEFINE k == BYTE
<1>0. /\ k \in Nat \ {0, 1} /\ k \in Nat \ {0} /\ B2 = k * k /\ B3 = k * (k * k)
      /\ B4 = k * (k * (k * k)) /\ UINT16 = B2 /\ UINT32 = B4 /\ BYTE * UINT16 = B3
      /\ B2 \in Nat \ {0} /\ B3 \in Nat \ {0}
  BY Widths DEF B2, B3, B4
<1>1. /\ a \in 0 .. k - 1 /\ r \in 0 .. k - 1 /\ g \in 0 .. k - 1 /\ b \in 0 .. k - 1
      /\ a \in Int /\ r \in Int /\ g \in Int /\ b \in Int
  BY <1>0
<1>2. c = B3 * a + (B2 * r + (k * g + b))
  BY <1>0, <1>1 DEF Color
<1> HIDE DEF k
<1> DEFINE q2 == k * a + r
           q1 == k * q2 + g
           r1 == k * g + b
           r2 == B2 * r + r1
<1>3. c = k * q1 + b /\ c = B2 * q2 + r1 /\ c = B3 * a + r2 /\ q1 \in Int /\ q2 \in Int /\ c \in Int
  BY <1>0, <1>1, <1>2
<1>4. r1 \in 0 .. B2 - 1
  <2>1. k * g <= k * (k - 1) /\ k * g \in Nat
    BY <1>0, <1>1
  <2>2. QED BY <1>0, <1>1, <2>1
<1>5. r2 \in 0 .. B3 - 1
  <2>1. B2 * r <= B2 * (k - 1) /\ B2 * r \in Nat /\ B2 * (k - 1) = B3 - B2
    BY <1>0, <1>1
  <2> HIDE DEF r1
  <2>2. QED BY <1>0, <1>4, <2>1
<1>6. c \in 0 .. B4 - 1
  <2>1. B3 * a <= B3 * (k - 1) /\ B3 * a \in Nat /\ B3 * (k - 1) = B4 - B3
    BY <1>0, <1>1
  <2> HIDE DEF r2
  <2>2. QED BY <1>0, <1>3, <1>5, <2>1
<1>7. q1 = k * q2 + g /\ q2 = k * a + r
  OBVIOUS
<1> HIDE DEF q1, q2, r1, r2
<1>8. c \div B3 = a
  <2>1. B3 \in Nat \ {0} /\ c \in Int /\ a \in Int /\ r2 \in 0 .. B3 - 1 /\ c = B3 * a + r2
    BY <1>0, <1>1, <1>3, <1>5
  <2>2. QED BY <2>1, DivMod, Zenon
<1>9. c \div B2 = q2 /\ q2 % k = r
  <2>1. B2 \in Nat \ {0} /\ c \in Int /\ q2 \in Int /\ r1 \in 0 .. B2 - 1 /\ c = B2 * q2 + r1
    BY <1>0, <1>3, <1>4
  <2>2. k \in Nat \ {0} /\ q2 \in Int /\ a \in Int /\ r \in 0 .. k - 1 /\ q2 = k * a + r
    BY <1>0, <1>1, <1>3, <1>7
  <2>3. c \div B2 = q2
    BY <2>1, DivMod, Zenon
  <2>4. q2 % k = r
    BY <2>2, DivMod, Zenon
  <2>5. QED BY <2>3, <2>4
<1>10. c \div k = q1 /\ c % k = b /\ q1 % k = g
  <2>1. k \in Nat \ {0} /\ c \in Int /\ q1 \in Int /\ b \in 0 .. k - 1 /\ c = k * q1 + b
    BY <1>0, <1>1, <1>3
  <2>2. k \in Nat \ {0} /\ q1 \in Int /\ q2 \in Int /\ g \in 0 .. k - 1 /\ q1 = k * q2 + g
    BY <1>0, <1>1, <1>3, <1>7
  <2>3. c \div k = q1
    BY <2>1, DivMod, Zenon
  <2>4. c % k = b
    <3>1. c = k * (c \div k) + (c % k) /\ c % k \in 0 .. k - 1
      BY <2>1, DivFacts
    <3>2. c = k * q1 + (c % k) /\ k * q1 \in Int /\ c % k \in Int
      BY <2>1, <2>3, <3>1
    <3>3. QED BY <2>1, <3>2
  <2>5. q1 % k = g
    BY <2>2, DivMod, Zenon
  <2>6. QED BY <2>3, <2>4, <2>5
<1>11. QED BY <1>0, <1>6, <1>8, <1>9, <1>10 DEF k

\* Every word of four bytes is put together from four parts.
LEMMA HasParts ==
  ASSUME NEW c \in 0 .. UINT32 - 1
  PROVE  \E a, r, g, b \in 0 .. BYTE - 1 : c = Color(a, r, g, b)
<1> DEFINE k == BYTE
           q1 == c \div k
           b == c % k
           q2 == q1 \div k
           g == q1 % k
           a == q2 \div k
           r == q2 % k
<1>0. /\ k \in Nat \ {0, 1} /\ k \in Nat \ {0} /\ B2 = k * k /\ B3 = k * (k * k)
      /\ B4 = k * (k * (k * k)) /\ UINT32 = B4 /\ c \in Int
      /\ B2 \in Nat \ {0} /\ B3 \in Nat \ {0} /\ B4 \in Nat \ {0}
  BY Widths DEF B2, B3, B4
<1> HIDE DEF k
<1>1. q1 \in Int /\ b \in 0 .. k - 1 /\ c = k * q1 + b
  BY <1>0, DivFacts
<1> HIDE DEF q1, b
<1>2. q2 \in Int /\ g \in 0 .. k - 1 /\ q1 = k * q2 + g
  BY <1>0, <1>1, DivFacts
<1> HIDE DEF q2, g
<1>3. a \in Int /\ r \in 0 .. k - 1 /\ q2 = k * a + r
  BY <1>0, <1>2, DivFacts
<1> HIDE DEF a, r
<1>4. c = B3 * a + (B2 * r + (k * g + b))
  BY <1>0, <1>1, <1>2, <1>3
<1>5. a \in 0 .. k - 1
  <2> DEFINE rest == B2 * r + (k * g + b)
  <2>1. rest \in 0 .. B3 - 1
    <3>1. k * g <= k * (k - 1) /\ k * g \in Nat
      BY <1>0, <1>2
    <3>2. B2 * r <= B2 * (k - 1) /\ B2 * r \in Nat
      BY <1>0, <1>3
    <3>3. QED BY <1>0, <1>1, <3>1, <3>2
  <2>2. c = B3 * a + rest
    BY <1>4
  <2> HIDE DEF rest
  <2>3. c \div B3 = a
    BY <1>0, <1>3, <2>1, <2>2, DivMod
  <2>4. B3 * 0 <= c /\ c < B3 * (k - 1) + B3
    BY <1>0
  <2>5. 0 <= c \div B3 /\ c \div B3 <= k - 1
    <3>1. 0 \in Int /\ k - 1 \in Int
      BY <1>0
    <3>2. QED BY <1>0, <2>4, <3>1, DivBounds
  <2>6. QED BY <1>0, <1>3, <2>3, <2>5
<1>6. c = Color(a, r, g, b)
  BY <1>0, <1>1, <1>2, <1>3, <1>4 DEF Color, k
<1>7. QED BY <1>1, <1>2, <1>3, <1>5, <1>6 DEF k

\* What put_pixel_alpha() writes is the exact mixture.
LEMMA BlendIsExact ==
  ASSUME NEW c \in Colors, NEW old \in Colors
  PROVE  MixedExactly(Over(c, old), c, old)
<1>0. c \in 0 .. UINT32 - 1 /\ old \in 0 .. UINT32 - 1
  BY DEF Colors
<1>1. PICK a \in 0 .. BYTE - 1, rs \in 0 .. BYTE - 1, gs \in 0 .. BYTE - 1, bs \in 0 .. BYTE - 1 :
        c = Color(a, rs, gs, bs)
  BY <1>0, HasParts
<1>2. PICK ao \in 0 .. BYTE - 1, rd \in 0 .. BYTE - 1, gd \in 0 .. BYTE - 1, bd \in 0 .. BYTE - 1 :
        old = Color(ao, rd, gd, bd)
  BY <1>0, HasParts
<1>3. Alpha(c) = a /\ RedBlue(c) = rs * UINT16 + bs /\ Green(c) = gs * BYTE
      /\ Parts(c) = <<a, rs, gs, bs>>
  BY <1>1, PartsOf DEF Alpha, RedBlue, Green, Parts
<1>4. RedBlue(old) = rd * UINT16 + bd /\ Green(old) = gd * BYTE /\ Parts(old) = <<ao, rd, gd, bd>>
  BY <1>2, PartsOf DEF RedBlue, Green, Parts
<1> DEFINE W(s, d) == (s * a + d * (BYTE - a)) \div BYTE
<1>5. W(rs, rd) \in 0 .. BYTE - 1 /\ W(gs, gd) \in 0 .. BYTE - 1 /\ W(bs, bd) \in 0 .. BYTE - 1
  BY WeighedIs
<1>6. CASE a = 0
  BY <1>3, <1>6 DEF MixedExactly, Over
<1>7. CASE a = BYTE - 1 /\ a # 0
  BY <1>3, <1>7 DEF MixedExactly, Over
<1>8. CASE a # 0 /\ a # BYTE - 1
  <2> DEFINE rb == Mix(RedBlue(c), RedBlue(old), a)
             g == Mix(Green(c), Green(old), a)
  <2>1. Over(c, old) = RedBlue(rb) + Green(g) + Opaque
    BY <1>3, <1>8 DEF Over
  <2>2. (rb \div UINT16) % BYTE = W(rs, rd) /\ rb % BYTE = W(bs, bd)
    <3>1. UINT16 = B2
      BY Widths
    <3>2. rb = Mix(rs * B2 + bs, rd * B2 + bd, a)
      BY <1>3, <1>4, <3>1
    <3>3. /\ (Mix(rs * B2 + bs, rd * B2 + bd, a) \div B2) % BYTE = W(rs, rd)
          /\ Mix(rs * B2 + bs, rd * B2 + bd, a) % BYTE = W(bs, bd)
      BY MixRedBlue
    <3> HIDE DEF rb, W
    <3>4. QED BY <3>1, <3>2, <3>3
  <2>3. (g \div BYTE) % BYTE = W(gs, gd)
    BY <1>3, <1>4, MixGreen
  <2> HIDE DEF rb, g, W
  <2>4. RedBlue(rb) = W(rs, rd) * B2 + W(bs, bd) /\ Green(g) = W(gs, gd) * BYTE
    BY <2>2, <2>3, Widths DEF RedBlue, Green
  <2>5. Opaque = (BYTE - 1) * B3
    BY Widths DEF Opaque, B3, B2
  <2>6. Over(c, old) = Color(BYTE - 1, W(rs, rd), W(gs, gd), W(bs, bd))
    <3>1. /\ W(rs, rd) \in Int /\ W(gs, gd) \in Int /\ W(bs, bd) \in Int
          /\ BYTE \in Int /\ B2 \in Int /\ B3 \in Int
      BY <1>5, Widths
    <3>2. QED BY <2>1, <2>4, <2>5, <3>1 DEF Color
  <2>7. Parts(Over(c, old)) = <<BYTE - 1, W(rs, rd), W(gs, gd), W(bs, bd)>>
    <3>1. BYTE - 1 \in 0 .. BYTE - 1
      BY Widths
    <3> DEFINE new == Over(c, old)
    <3>2. /\ W(rs, rd) \in 0 .. BYTE - 1 /\ W(gs, gd) \in 0 .. BYTE - 1
          /\ W(bs, bd) \in 0 .. BYTE - 1
          /\ new = Color(BYTE - 1, W(rs, rd), W(gs, gd), W(bs, bd))
      BY <1>5, <2>6 DEF W
    <3> DEFINE full == BYTE - 1
               r == W(rs, rd)
               g1 == W(gs, gd)
               b == W(bs, bd)
    <3> HIDE DEF new, full, r, g1, b
    <3>3. /\ full \in 0 .. BYTE - 1 /\ r \in 0 .. BYTE - 1 /\ g1 \in 0 .. BYTE - 1
          /\ b \in 0 .. BYTE - 1 /\ new = Color(full, r, g1, b)
      BY <3>1, <3>2 DEF full, r, g1, b
    <3>4. /\ new \div (BYTE * UINT16) = full /\ (new \div UINT16) % BYTE = r
          /\ (new \div BYTE) % BYTE = g1 /\ new % BYTE = b
      BY <3>3, PartsOf
    <3>5. /\ new \div (BYTE * UINT16) = BYTE - 1 /\ (new \div UINT16) % BYTE = W(rs, rd)
          /\ (new \div BYTE) % BYTE = W(gs, gd) /\ new % BYTE = W(bs, bd)
      BY <3>4 DEF full, r, g1, b
    <3>6. Parts(new) = <<BYTE - 1, W(rs, rd), W(gs, gd), W(bs, bd)>>
      BY <3>5 DEF Parts
    <3>7. QED BY <3>6 DEF new
  <2>8. QED BY <1>3, <1>4, <1>8, <2>7 DEF MixedExactly, W
<1>9. QED BY <1>6, <1>7, <1>8

-----------------------------------------------------------------------------
(* Pictures *)

GoodScreen(fb) ==
  fb.width \in Nat /\ fb.height \in Nat /\ fb.pitch \in Nat /\ fb.width <= fb.pitch

\* Every pixel of the screen has a place of its own in the back buffer.
LEMMA OffsetIs ==
  ASSUME NEW fb, GoodScreen(fb), NEW p \in Screen(fb)
  PROVE  Offset(fb, p) \in 0 .. fb.height * fb.pitch - 1
<1> DEFINE h == fb.height
           w == fb.pitch
<1>1. /\ p[1] \in Nat /\ p[1] < w /\ p[2] \in Nat /\ p[2] <= h - 1 /\ h \in Nat /\ w \in Nat
      /\ Offset(fb, p) = p[2] * w + p[1]
  BY DEF GoodScreen, Screen, Offset
<1> HIDE DEF h, w
<1>2. p[2] * w \in Nat /\ p[2] * w <= (h - 1) * w /\ (h - 1) * w = h * w - w /\ h * w \in Nat
  BY <1>1
<1>3. QED BY <1>1, <1>2 DEF h, w

\* No two pixels of the screen have the same place.
LEMMA OffsetInjective ==
  ASSUME NEW fb, GoodScreen(fb), NEW p \in Screen(fb), NEW q \in Screen(fb),
         Offset(fb, p) = Offset(fb, q)
  PROVE  p = q
<1> DEFINE w == fb.pitch
<1>1. /\ p[1] \in 0 .. w - 1 /\ p[2] \in Nat /\ q[1] \in 0 .. w - 1 /\ q[2] \in Nat
      /\ w \in Nat \ {0} /\ p[2] * w + p[1] = q[2] * w + q[1]
      /\ p = <<p[1], p[2]>> /\ q = <<q[1], q[2]>>
  BY DEF GoodScreen, Screen, Offset
<1> HIDE DEF w
<1> DEFINE a == p[2] * w + p[1]
<1>2. a \in Int /\ a = w * p[2] + p[1] /\ a = w * q[2] + q[1]
  BY <1>1
<1> HIDE DEF a
<1>3. a \div w = p[2] /\ a % w = p[1]
  BY <1>1, <1>2, DivMod
<1>4. a \div w = q[2] /\ a % w = q[1]
  BY <1>1, <1>2, DivMod
<1>5. QED BY <1>1, <1>3, <1>4

\* What put_pixel_alpha() does to the back buffer, cell by cell.
LEMMA CellsDrawn ==
  ASSUME NEW fb, GoodScreen(fb), NEW m, NEW target, NEW color,
         \A c, e \in DOMAIN target : target[c] = target[e] => c = e
  PROVE  LET outcome == PutCells(m, fb, target, color) IN
         /\ \A k \in DOMAIN m :
              (\A c \in DOMAIN target : target[c] \in Screen(fb) => Offset(fb, target[c]) # k)
                => outcome[k] = m[k]
         /\ \A c \in DOMAIN target :
              target[c] \in Screen(fb) /\ Offset(fb, target[c]) \in DOMAIN m
                => outcome[Offset(fb, target[c])] = Over(color[c], m[Offset(fb, target[c])])
<1> DEFINE outcome == PutCells(m, fb, target, color)
           hit(k) == {c \in DOMAIN target : target[c] \in Screen(fb) /\ Offset(fb, target[c]) = k}
<1>1. \A k \in DOMAIN m :
        outcome[k] = IF hit(k) = {} THEN m[k] ELSE Over(color[CHOOSE c \in hit(k) : TRUE], m[k])
  BY DEF PutCells
<1> HIDE DEF outcome
<1>2. ASSUME NEW k \in DOMAIN m,
             \A c \in DOMAIN target : target[c] \in Screen(fb) => Offset(fb, target[c]) # k
      PROVE  outcome[k] = m[k]
  BY <1>1, <1>2
<1>3. ASSUME NEW c \in DOMAIN target, target[c] \in Screen(fb), Offset(fb, target[c]) \in DOMAIN m
      PROVE  outcome[Offset(fb, target[c])] = Over(color[c], m[Offset(fb, target[c])])
  <2> DEFINE k == Offset(fb, target[c])
  <2>1. c \in hit(k)
    BY <1>3
  <2>2. \A e \in hit(k) : e = c
    <3>1. SUFFICES ASSUME NEW e \in hit(k) PROVE target[e] = target[c]
      OBVIOUS
    <3>2. QED BY <1>3, <3>1, OffsetInjective
  <2>3. (CHOOSE e \in hit(k) : TRUE) = c
    BY <2>1, <2>2
  <2> HIDE DEF hit
  <2>4. k \in DOMAIN m /\ hit(k) # {}
    BY <1>3, <2>1
  <2>5. outcome[k] = Over(color[CHOOSE e \in hit(k) : TRUE], m[k])
    BY <1>1, <2>4
  <2>6. QED BY <2>3, <2>5
<1>4. QED BY <1>2, <1>3 DEF outcome

\* The row of the picture, as it stands, that its j-th row is.
Row(tga, h, j) == IF tga.top THEN j ELSE h - 1 - j

\* Where a cell of a picture is drawn.
Target(tga, x, y, h, c) == <<(x + c[1]) % UINT32, DrawY(tga, y, c[2], h)>>

\* The picture of size w times h with its left upper corner at x, y: each cell is drawn at
\* a place of its own, and no sum wraps around.
LEMMA CellsApart ==
  ASSUME NEW x \in Nat, NEW y \in Nat, NEW w \in Nat, NEW h \in Nat, NEW tga,
         x + w <= UINT32, y + h <= UINT32, NEW c \in Grid(w, h)
  PROVE  Target(tga, x, y, h, c) = <<x + c[1], y + Row(tga, h, c[2])>>
<1> USE DEF Row, Target
<1>1. c[1] \in 0 .. w - 1 /\ c[2] \in 0 .. h - 1
  BY DEF Grid
<1>2. UINT32 \in Nat \ {0}
  BY Widths
<1>3. ASSUME NEW n \in 0 .. UINT32 - 1 PROVE n % UINT32 = n
  BY <1>2, <1>3
<1>4. x + c[1] \in 0 .. UINT32 - 1 /\ y + c[2] \in 0 .. UINT32 - 1
      /\ y + h - 1 - c[2] \in 0 .. UINT32 - 1 /\ y + h - 1 - c[2] = y + (h - 1 - c[2])
  BY <1>1, <1>2
<1>5. (x + c[1]) % UINT32 = x + c[1]
  BY <1>3, <1>4
<1>6. CASE tga.top
  <2>1. DrawY(tga, y, c[2], h) = (y + c[2]) % UINT32
    BY <1>6 DEF DrawY
  <2>2. QED BY <1>3, <1>4, <1>5, <1>6, <2>1
<1>7. CASE ~tga.top
  <2>1. DrawY(tga, y, c[2], h) = (y + h - 1 - c[2]) % UINT32
    BY <1>7 DEF DrawY
  <2>2. QED BY <1>3, <1>4, <1>5, <1>7, <2>1
<1>8. QED BY <1>6, <1>7

\* A picture's pixel is a color.
LEMMA PixelIsColor ==
  ASSUME NEW t, LegalPicture(t), NEW k \in 0 .. t.width * t.height - 1
  PROVE  PixelColor(t, k) \in Colors
<1>1. t.pixels[k] \in 0 .. UINT32 - 1
  BY DEF LegalPicture, Colors
<1>2. CASE t.depth = 32
  BY <1>1, <1>2 DEF PixelColor, Colors
<1>3. CASE t.depth # 32
  <2> DEFINE r == t.pixels[k] % (BYTE * UINT16)
  <2>1. r \in 0 .. B3 - 1
    <3>1. t.pixels[k] \in Int
      BY <1>1
    <3>2. B3 \in Nat \ {0} /\ r = t.pixels[k] % B3
      BY Widths
    <3> HIDE DEF r
    <3>3. t.pixels[k] % B3 \in 0 .. B3 - 1
      BY <3>1, <3>2, DivFacts, Zenon
    <3>4. QED BY <3>2, <3>3
  <2>2. Opaque = (BYTE - 1) * B3 /\ UINT32 = BYTE * B3
    BY Widths DEF Opaque, B3, B2, B4
  <2>3. PixelColor(t, k) = Opaque + r
    BY <1>3 DEF PixelColor
  <2> HIDE DEF r
  <2>4. (BYTE - 1) * B3 = BYTE * B3 - B3 /\ (BYTE - 1) * B3 \in Nat
    BY Widths
  <2>5. Opaque + r \in 0 .. UINT32 - 1
    BY <2>1, <2>2, <2>4, Widths
  <2>6. QED BY <2>3, <2>5 DEF Colors
<1>4. QED BY <1>2, <1>3

\* The color of a picture's cell, and where that is in the picture.
LEMMA CellIsPixel ==
  ASSUME NEW w \in Nat, NEW h \in Nat, NEW i \in 0 .. w - 1, NEW j \in 0 .. h - 1
  PROVE  j * w + i \in 0 .. w * h - 1
<1>1. j * w \in Nat /\ j * w <= (h - 1) * w /\ (h - 1) * w = w * h - w
  OBVIOUS
<1>2. QED BY <1>1

\* What a screen and a memory that are legal are.
LEMMA ScreenFacts ==
  ASSUME NEW c, LegalScreen(c)
  PROVE  /\ GoodScreen(c.fb)
         /\ \A p \in Screen(c.fb) :
              Offset(c.fb, p) \in DOMAIN c.memory /\ c.memory[Offset(c.fb, p)] \in Colors
<1>1. GoodScreen(c.fb)
  BY DEF LegalScreen, GoodScreen
<1>2. QED BY <1>1, OffsetIs DEF LegalScreen, Holds

\* What a picture changes: its cells are mixed into the pixels of the screen they fall on.
Drawn(m, fb, tga, x, y, w, h, color) ==
  PutCells(m, fb, [c \in Grid(w, h) |-> Target(tga, x, y, h, c)], color)

Shown(outcome, m, fb, tga, x, y, w, h, color) ==
  /\ \A p \in Screen(fb) :
       outcome[Offset(fb, p)] = IF <<p[1] - x, p[2] - y>> \in Grid(w, h)
         THEN Over(color[<<p[1] - x, Row(tga, h, p[2] - y)>>], m[Offset(fb, p)])
         ELSE m[Offset(fb, p)]
  /\ \A k \in DOMAIN m : (\A p \in Screen(fb) : Offset(fb, p) # k) => outcome[k] = m[k]

\* A picture that does not wrap around is shown so.
LEMMA PictureDrawn ==
  ASSUME NEW fb, GoodScreen(fb), NEW m, \A p \in Screen(fb) : Offset(fb, p) \in DOMAIN m,
         NEW tga, NEW x \in Nat, NEW y \in Nat, NEW w \in Nat, NEW h \in Nat, NEW color,
         x + w <= UINT32, y + h <= UINT32
  PROVE  Shown(Drawn(m, fb, tga, x, y, w, h, color), m, fb, tga, x, y, w, h, color)
<1> DEFINE cells == Grid(w, h)
           target == [c \in cells |-> Target(tga, x, y, h, c)]
           outcome == PutCells(m, fb, target, color)
           row(c) == Row(tga, h, c[2])
<1>1. \A c \in cells : target[c] = <<x + c[1], y + row(c)>>
                       /\ c[1] \in 0 .. w - 1 /\ c[2] \in 0 .. h - 1 /\ c = <<c[1], c[2]>>
  <2> SUFFICES ASSUME NEW c \in cells
               PROVE  target[c] = <<x + c[1], y + row(c)>>
                      /\ c[1] \in 0 .. w - 1 /\ c[2] \in 0 .. h - 1 /\ c = <<c[1], c[2]>>
    OBVIOUS
  <2>1. Target(tga, x, y, h, c) = <<x + c[1], y + Row(tga, h, c[2])>>
    BY CellsApart
  <2>2. c[1] \in 0 .. w - 1 /\ c[2] \in 0 .. h - 1 /\ c = <<c[1], c[2]>>
    BY DEF Grid
  <2>3. QED BY <2>1, <2>2
<1>2. \A c, e \in DOMAIN target : target[c] = target[e] => c = e
  <2> SUFFICES ASSUME NEW c \in cells, NEW e \in cells, target[c] = target[e] PROVE c = e
    OBVIOUS
  <2>1. x + c[1] = x + e[1] /\ y + row(c) = y + row(e)
    BY <1>1
  <2>2. c[1] = e[1] /\ c[2] = e[2]
    BY <1>1, <2>1 DEF Row
  <2>3. QED BY <1>1, <2>2
<1>3. DOMAIN target = cells
  OBVIOUS
<1> HIDE DEF target
<1>4. /\ \A k \in DOMAIN m :
           (\A c \in cells : target[c] \in Screen(fb) => Offset(fb, target[c]) # k)
             => outcome[k] = m[k]
      /\ \A c \in cells :
           target[c] \in Screen(fb) /\ Offset(fb, target[c]) \in DOMAIN m
             => outcome[Offset(fb, target[c])] = Over(color[c], m[Offset(fb, target[c])])
  BY <1>2, <1>3, CellsDrawn
<1> HIDE DEF outcome
<1>5. ASSUME NEW p \in Screen(fb), <<p[1] - x, p[2] - y>> \in cells
      PROVE  outcome[Offset(fb, p)]
               = Over(color[<<p[1] - x, Row(tga, h, p[2] - y)>>], m[Offset(fb, p)])
  <2> DEFINE c == <<p[1] - x, Row(tga, h, p[2] - y)>>
  <2>1. p[1] \in Int /\ p[2] \in Int /\ p = <<p[1], p[2]>>
    BY DEF Screen, GoodScreen
  <2>2. p[1] - x \in 0 .. w - 1 /\ p[2] - y \in 0 .. h - 1
    BY <1>5 DEF Grid
  <2>3. c \in cells /\ row(c) = p[2] - y /\ c[1] = p[1] - x
    BY <2>2 DEF Grid, Row
  <2>4. target[c] = p
    <3>1. target[c] = <<x + (p[1] - x), y + (p[2] - y)>>
      BY <1>1, <2>3
    <3>2. QED BY <2>1, <3>1
  <2> HIDE DEF c
  <2>5. outcome[Offset(fb, p)] = Over(color[c], m[Offset(fb, p)])
    BY <1>4, <2>3, <2>4
  <2>6. QED BY <2>5 DEF c
<1>6. ASSUME NEW p \in Screen(fb), <<p[1] - x, p[2] - y>> \notin cells
      PROVE  outcome[Offset(fb, p)] = m[Offset(fb, p)]
  <2>1. ASSUME NEW c \in cells, target[c] \in Screen(fb) PROVE Offset(fb, target[c]) # Offset(fb, p)
    <3>1. target[c] # p
      <4>1. ASSUME target[c] = p PROVE FALSE
        <5>1. p[1] = x + c[1] /\ p[2] = y + row(c)
          BY <1>1, <4>1
        <5>2. p[1] - x = c[1] /\ p[2] - y = row(c)
          BY <1>1, <5>1 DEF Row
        <5>3. <<c[1], row(c)>> \in cells
          BY <1>1 DEF Grid, Row
        <5>4. QED BY <1>6, <5>2, <5>3
      <4>2. QED BY <4>1
    <3>2. QED BY <2>1, <3>1, OffsetInjective
  <2>2. QED BY <1>4, <2>1
<1>7. ASSUME NEW k \in DOMAIN m, \A p \in Screen(fb) : Offset(fb, p) # k
      PROVE  outcome[k] = m[k]
  BY <1>4, <1>7
<1>8. Drawn(m, fb, tga, x, y, w, h, color) = outcome
  BY DEF Drawn, outcome, target
<1>9. QED BY <1>5, <1>6, <1>7, <1>8 DEF Shown

\* The invariant says it of a call that has returned.
LEMMA ReturnsImageExact == IInv => ImageExact
<1> SUFFICES ASSUME IInv, Returned({"image"}) PROVE ImageExact
  BY DEF ImageExact
<1> DEFINE fb == call.fb
           m == call.memory
           tga == call.tga
           x == call.x
           y == call.y
           w == tga.width
           h == tga.height
           color == [c \in Grid(w, h) |-> PixelColor(tga, c[2] * w + c[1])]
<1>1. call.op = "image" /\ Legal(call) /\ memory = Effect(call, m)
  BY DEF IInv, Returned
<1>2. memory = Drawn(m, fb, tga, x, y, w, h, color)
  BY <1>1 DEF Effect, draw_tga_image, Target, Drawn
<1>3. /\ LegalScreen(call) /\ LegalPicture(tga) /\ x \in Nat /\ y \in Nat
      /\ w \in Nat /\ h \in Nat /\ x + w <= UINT32 /\ y + h <= UINT32
  BY <1>1 DEF Legal, LegalPicture
<1>4. /\ GoodScreen(fb)
      /\ \A p \in Screen(fb) : Offset(fb, p) \in DOMAIN m /\ m[Offset(fb, p)] \in Colors
  BY <1>3, ScreenFacts
<1>5. DOMAIN memory = DOMAIN m
  BY <1>2 DEF Drawn, PutCells
<1>6. \A i \in 0 .. w - 1, j \in 0 .. h - 1 :
        /\ color[<<i, Row(tga, h, j)>>] = Upright(tga, i, j)
        /\ color[<<i, Row(tga, h, j)>>] \in Colors
  <2> SUFFICES ASSUME NEW i \in 0 .. w - 1, NEW j \in 0 .. h - 1
               PROVE  /\ color[<<i, Row(tga, h, j)>>] = Upright(tga, i, j)
                      /\ color[<<i, Row(tga, h, j)>>] \in Colors
    OBVIOUS
  <2>1. Row(tga, h, j) \in 0 .. h - 1
    BY <1>3 DEF Row
  <2>2. color[<<i, Row(tga, h, j)>>] = PixelColor(tga, Row(tga, h, j) * w + i)
    BY <2>1 DEF Grid
  <2>3. Row(tga, h, j) * w + i \in 0 .. w * h - 1
    BY <1>3, <2>1, CellIsPixel
  <2>4. QED BY <1>3, <2>2, <2>3, PixelIsColor DEF Upright, Row
<1> HIDE DEF color
<1>7. /\ \A p \in Screen(fb) :
           memory[Offset(fb, p)] = IF <<p[1] - x, p[2] - y>> \in Grid(w, h)
             THEN Over(color[<<p[1] - x, Row(tga, h, p[2] - y)>>], m[Offset(fb, p)])
             ELSE m[Offset(fb, p)]
      /\ \A k \in DOMAIN m : (\A p \in Screen(fb) : Offset(fb, p) # k) => memory[k] = m[k]
  <2>1. GoodScreen(fb) /\ \A p \in Screen(fb) : Offset(fb, p) \in DOMAIN m
    BY <1>4
  <2>2. x \in Nat /\ y \in Nat /\ w \in Nat /\ h \in Nat /\ x + w <= UINT32 /\ y + h <= UINT32
    BY <1>3
  <2>3. Shown(memory, m, fb, tga, x, y, w, h, color)
    <3> HIDE DEF fb, m, tga, x, y, w, h
    <3>1. QED BY <1>2, <2>1, <2>2, PictureDrawn
  <2>4. QED BY <2>3 DEF Shown
<1>8. \A p : New(p) = memory[Offset(fb, p)] /\ Old(p) = m[Offset(fb, p)]
  BY DEF New, Old, Offset
<1>9. ASSUME NEW p \in Screen(fb), <<p[1] - x, p[2] - y>> \in Grid(w, h)
      PROVE  MixedExactly(New(p), Upright(tga, p[1] - x, p[2] - y), Old(p))
  <2>1. p[1] - x \in 0 .. w - 1 /\ p[2] - y \in 0 .. h - 1
    BY <1>9 DEF Grid
  <2>2. New(p) = Over(Upright(tga, p[1] - x, p[2] - y), Old(p))
        /\ Upright(tga, p[1] - x, p[2] - y) \in Colors /\ Old(p) \in Colors
    BY <1>4, <1>6, <1>7, <1>8, <1>9, <2>1
  <2>3. QED BY <2>2, BlendIsExact
<1>10. ASSUME NEW p \in Screen(fb), <<p[1] - x, p[2] - y>> \notin Grid(w, h)
       PROVE  New(p) = Old(p)
  BY <1>7, <1>8, <1>10
<1>11. ASSUME NEW k \in Padding PROVE memory[k] = m[k]
  BY <1>5, <1>7 DEF Padding, Offset
<1>12. QED BY <1>9, <1>10, <1>11 DEF ImageExact

\* draw_tga_image() shows the picture upright, cut off at the edges of the screen, each
\* color mixed exactly, whatever the screen, the picture and the width of a byte are.
THEOREM ImageIsExact == Spec => []ImageExact
BY IInvHolds, ReturnsImageExact, PTL

-----------------------------------------------------------------------------
(* Scaled pictures *)

\* The fixed point of draw_tga_scaled(): no product wraps around, and the source is the
\* exact one where the ratio is exact, or else at most one before it.
LEMMA SourceIs ==
  ASSUME NEW size \in 1 .. UINT16 - 1, NEW target \in 1 .. UINT16, NEW j \in 0 .. target - 1
  PROVE  LET e == (j * size) \div target
             s == Source(j, size, target)
         IN  /\ s \in 0 .. size - 1 /\ e \in Int
             /\ s = e \/ (s = e - 1 /\ (size * UINT16) % target # 0)
<1> DEFINE U == UINT16
           n == size * U
           r == n \div target
           z == n % target
           e == (j * size) \div target
           y == (j * size) % target
           s == Source(j, size, target)
<1>0. /\ U \in Nat \ {0} /\ UINT32 \in Nat \ {0} /\ UINT32 = U * U
      /\ size \in Int /\ 1 <= size /\ size <= U - 1
      /\ target \in Nat \ {0} /\ target <= U /\ j \in Nat /\ j <= target - 1
  BY Widths DEF UINT32
<1>1. s = ((j * r) % UINT32) \div U
  BY DEF Source
<1> HIDE DEF U, s
<1>2. /\ n \in Nat /\ n <= U * U - U /\ n >= U
  BY <1>0
<1>3. r \in Int /\ z \in 0 .. target - 1 /\ n = target * r + z
  <2>1. n \in Int /\ target \in Nat \ {0}
    BY <1>0, <1>2
  <2> HIDE DEF n
  <2>2. QED BY <2>1, DivFacts
<1>4. e \in Int /\ y \in 0 .. target - 1 /\ j * size = target * e + y
  <2>1. j * size \in Int
    BY <1>0
  <2> DEFINE js == j * size
  <2>2. js \div target \in Int /\ js % target \in 0 .. target - 1
        /\ js = target * (js \div target) + (js % target)
    <3> HIDE DEF js
    <3>1. js \in Int
      BY <2>1 DEF js
    <3>2. QED BY <1>0, <3>1, DivFacts
  <2>3. QED BY <2>2
<1>5. r \in Nat
  <2>1. target * 0 <= n
    BY <1>0, <1>2
  <2>2. n < target * n + target
    <3>1. n <= target * n
      BY <1>0, <1>2
    <3>2. QED BY <1>0, <1>2, <3>1
  <2> HIDE DEF n
  <2>3. 0 <= n \div target
    BY <1>0, <1>2, <2>1, <2>2, DivBounds
  <2>4. QED BY <1>3, <2>3
<1> HIDE DEF n, r, z, e, y
<1> DEFINE p == j * r
<1>6. p \in Nat /\ p <= target * r - r /\ target * r \in Nat
  <2>1. p \in Nat /\ p <= (target - 1) * r
    BY <1>0, <1>5
  <2>2. QED BY <1>0, <1>5, <2>1
<1>7. p <= n - r /\ p \in 0 .. UINT32 - 1
  BY <1>0, <1>2, <1>3, <1>5, <1>6
<1>8. n = size * U
  BY DEF n, U
<1>9. target * p = U * (target * e + y) - j * z
  <2>1. target * p = j * (target * r)
    BY <1>0, <1>5
  <2>2. target * r = size * U - z
    BY <1>3, <1>8, <1>5, <1>0
  <2>3. j * (size * U - z) = U * (j * size) - j * z
    BY <1>0, <1>3
  <2>4. QED BY <1>4, <2>1, <2>2, <2>3
<1> HIDE DEF p
<1>10. s = p \div U
  <2>1. p % UINT32 = p
    BY <1>0, <1>7
  <2>2. QED BY <1>1, <2>1 DEF p
<1>11. s \in Int
  BY <1>0, <1>6, <1>10, DivFacts
<1>12. s \in 0 .. size - 1
  <2>1. U * 0 <= p
    BY <1>0, <1>6
  <2>2. p < U * (size - 1) + U
    <3>1. U * (size - 1) + U = n
      BY <1>0, <1>8
    <3>2. CASE r = 0
      <4>1. p = 0
        BY <1>0, <3>2 DEF p
      <4>2. QED BY <1>0, <1>2, <3>1, <4>1
    <3>3. CASE r # 0
      BY <1>2, <1>5, <1>6, <1>7, <3>1, <3>3
    <3>4. QED BY <3>2, <3>3
  <2>3. 0 \in Int /\ size - 1 \in Int /\ p \in Int
    BY <1>0, <1>6
  <2>4. 0 <= p \div U /\ p \div U <= size - 1
    BY <1>0, <2>1, <2>2, <2>3, DivBounds
  <2>5. QED BY <1>0, <1>10, <1>11, <2>4
<1> DEFINE d == p - U * e
<1>13. d \in Int /\ target * d = U * y - j * z
  BY <1>0, <1>3, <1>4, <1>6, <1>9
<1>14. p = d + U * e
  BY <1>0, <1>4, <1>6
<1> HIDE DEF d
<1>15. d < U
  <2>1. /\ U * y <= U * (target - 1) /\ j * z >= 0 /\ U * (target - 1) < U * target
        /\ j * z \in Int /\ U * y \in Int
    BY <1>0, <1>3, <1>4
  <2>2. target * d < U * target
    BY <1>0, <1>13, <2>1
  <2>3. ASSUME d >= U PROVE target * d >= target * U
    BY <1>0, <1>13, <2>3
  <2>4. QED BY <1>0, <1>13, <2>2, <2>3
<1>16. -U < d
  <2>1. /\ j * z <= (target - 1) * z /\ (target - 1) * z <= (target - 1) * (target - 1)
        /\ j * z \in Nat
    BY <1>0, <1>3
  <2>2. (target - 1) * (target - 1) < target * target /\ target * target <= target * U
    BY <1>0
  <2>3. U * y \in Nat
    BY <1>0, <1>4
  <2>4. target * d > -(target * U)
    <3>1. /\ target * target \in Int /\ target * U \in Int
          /\ (target - 1) * z \in Int /\ (target - 1) * (target - 1) \in Int
      BY <1>0, <1>3
    <3>2. QED BY <1>13, <2>1, <2>2, <2>3, <3>1
  <2>5. ASSUME d <= -U PROVE target * d <= target * (-U)
    BY <1>0, <1>13, <2>5
  <2>6. target * (-U) = -(target * U)
    BY <1>0
  <2>7. QED BY <1>0, <1>13, <2>4, <2>5, <2>6
<1>17. z = 0 => d >= 0
  <2>1. ASSUME z = 0, d < 0 PROVE FALSE
    <3>1. j * z = 0 /\ U * y >= 0
      BY <1>0, <1>4, <2>1
    <3>2. target * d >= 0
      BY <1>13, <3>1, <1>0, <1>4
    <3>3. target * d <= target * (-1)
      BY <1>0, <1>13, <2>1
    <3>4. target * (-1) = -target /\ -target < 0 /\ target * d \in Int
      BY <1>0, <1>13
    <3>5. QED BY <3>2, <3>3, <3>4
  <2>2. QED BY <1>3, <1>13, <2>1
<1>18. s <= e
  <2>1. p < U * e + U /\ U * e \in Int
    BY <1>0, <1>4, <1>14, <1>15, <1>13
  <2>3. \E lo \in Int : U * lo <= p
    <3>1. U * 0 <= p /\ 0 \in Int
      BY <1>0, <1>6
    <3>2. QED BY <3>1
  <2>4. p \div U <= e
    BY <1>0, <1>4, <1>6, <2>1, <2>3, DivBounds
  <2>5. QED BY <1>10, <2>4
<1>19. s >= e - 1 /\ (z = 0 => s >= e)
  <2>1. p < U * s + U
    <3>1. p = U * s + (p % U) /\ p % U \in 0 .. U - 1
      <4>1. p \in Int /\ U \in Nat \ {0}
        BY <1>0, <1>6
      <4>2. p = U * (p \div U) + (p % U) /\ p % U \in 0 .. U - 1
        BY <4>1, DivFacts, Zenon
      <4>3. QED BY <1>10, <4>2
    <3>2. U * s \in Int
      BY <1>0, <1>11
    <3>3. QED BY <1>0, <3>1, <3>2
  <2>2. U * (e - 1) <= p /\ (z = 0 => U * e <= p)
    <3>1. U * (e - 1) = U * e - U /\ U * e \in Int
      BY <1>0, <1>4
    <3>2. QED BY <1>0, <1>13, <1>14, <1>16, <1>17, <3>1
  <2>3. \A lo \in Int : U * lo <= p => lo <= p \div U
    BY <1>0, <1>6, <1>11, <2>1, <1>10, DivBounds
  <2>4. e - 1 \in Int
    BY <1>4
  <2>5. QED BY <1>4, <1>10, <2>2, <2>3, <2>4
<1>20. s = e \/ (s = e - 1 /\ z # 0)
  BY <1>4, <1>11, <1>18, <1>19
<1>21. QED BY <1>4, <1>12, <1>20 DEF e, s, z, n, U

\* The picture's pixel that is near the i-th of target pixels.
Near(i, size, target) ==
  {s \in 0 .. size - 1 : IF (size * UINT16) % target = 0 THEN s = (i * size) \div target
                         ELSE s - ((i * size) \div target) \in {-1, 0, 1}}

\* Hence the source is near.
LEMMA SourceIsNear ==
  ASSUME NEW size \in 1 .. UINT16 - 1, NEW target \in 1 .. UINT16, NEW j \in 0 .. target - 1
  PROVE  Source(j, size, target) \in Near(j, size, target)
<1> DEFINE e == (j * size) \div target
           s == Source(j, size, target)
<1>1. /\ s \in 0 .. size - 1 /\ e \in Int
      /\ s = e \/ (s = e - 1 /\ (size * UINT16) % target # 0)
  BY SourceIs
<1> HIDE DEF e, s
<1>2. s - e \in {-1, 0, 1} /\ ((size * UINT16) % target = 0 => s = e)
  BY <1>1
<1>3. QED BY <1>1, <1>2 DEF e, s, Near

\* The invariant says it of a call that has returned.
LEMMA ReturnsScaledExact == IInv => ScaledExact
<1> SUFFICES ASSUME IInv, Returned({"scaled"}) PROVE ScaledExact
  BY DEF ScaledExact
<1> DEFINE fb == call.fb
           m == call.memory
           tga == call.tga
           w == fb.width
           h == fb.height
           color == [c \in Grid(w, h) |-> PixelColor(tga, Source(c[2], tga.height, h) * tga.width
                                                           + Source(c[1], tga.width, w))]
<1>1. call.op = "scaled" /\ Legal(call) /\ memory = Effect(call, m)
  BY DEF IInv, Returned
<1>2. memory = Drawn(m, fb, tga, 0, 0, w, h, color)
  BY <1>1 DEF Effect, draw_tga_scaled, Target, Drawn
<1>3. /\ LegalScreen(call) /\ LegalPicture(tga) /\ w \in 1 .. UINT16 /\ h \in 1 .. UINT16
      /\ tga.width \in 1 .. UINT16 - 1 /\ tga.height \in 1 .. UINT16 - 1
  BY <1>1 DEF Legal, LegalPicture
<1>4. /\ GoodScreen(fb)
      /\ \A p \in Screen(fb) : Offset(fb, p) \in DOMAIN m /\ m[Offset(fb, p)] \in Colors
  BY <1>3, ScreenFacts
<1>5. w \in Nat /\ h \in Nat /\ 0 \in Nat /\ 0 + w <= UINT32 /\ 0 + h <= UINT32
  <2>1. UINT16 \in Nat /\ UINT16 <= UINT16 * UINT16
    BY Widths
  <2>2. QED BY <1>3, <2>1 DEF UINT32
<1>6. Shown(memory, m, fb, tga, 0, 0, w, h, color)
  <2>1. \A p \in Screen(fb) : Offset(fb, p) \in DOMAIN m
    BY <1>4
  <2> HIDE DEF fb, m, tga, w, h, color
  <2>2. QED BY <1>2, <1>4, <1>5, <2>1, PictureDrawn
<1>7. /\ \A i \in 0 .. w - 1 : Source(i, tga.width, w) \in Near(i, tga.width, w)
                               /\ Source(i, tga.width, w) \in 0 .. tga.width - 1
      /\ \A i \in 0 .. h - 1 : Source(i, tga.height, h) \in Near(i, tga.height, h)
                               /\ Source(i, tga.height, h) \in 0 .. tga.height - 1
  <2> HIDE DEF fb, tga, w, h
  <2>1. QED BY <1>3, SourceIsNear DEF Near
<1>8. ASSUME NEW p \in Screen(fb)
      PROVE  \E x \in Near(p[1], tga.width, w),
                y \in (IF tga.top THEN Near(p[2], tga.height, h)
                       ELSE {tga.height - 1 - s : s \in Near(h - 1 - p[2], tga.height, h)}) :
               MixedExactly(New(p), Upright(tga, x, y), Old(p))
  <2>1. p[1] \in 0 .. w - 1 /\ p[2] \in 0 .. h - 1 /\ p[1] - 0 = p[1] /\ p[2] - 0 = p[2]
        /\ Row(tga, h, p[2]) \in 0 .. h - 1
    BY <1>5 DEF Screen, Row
  <2> DEFINE sx == Source(p[1], tga.width, w)
             sy == Source(Row(tga, h, p[2]), tga.height, h)
             x == sx
             y == IF tga.top THEN sy ELSE tga.height - 1 - sy
             c == <<p[1], Row(tga, h, p[2])>>
  <2>2. /\ sx \in Near(p[1], tga.width, w) /\ sx \in 0 .. tga.width - 1
        /\ sy \in Near(Row(tga, h, p[2]), tga.height, h) /\ sy \in 0 .. tga.height - 1
    BY <1>7, <2>1
  <2>3. x \in Near(p[1], tga.width, w)
        /\ y \in (IF tga.top THEN Near(p[2], tga.height, h)
                  ELSE {tga.height - 1 - s : s \in Near(h - 1 - p[2], tga.height, h)})
    <3> HIDE DEF sx, sy
    <3>1. QED BY <2>2 DEF Row
  <2>4. c \in Grid(w, h) /\ c[1] = p[1] /\ c[2] = Row(tga, h, p[2]) /\ <<p[1], p[2]>> \in Grid(w, h)
    BY <2>1 DEF Grid
  <2>5. color[c] = PixelColor(tga, sy * tga.width + sx)
    BY <2>4
  <2>6. color[c] = Upright(tga, x, y)
    <3>1. tga.height - 1 - (tga.height - 1 - sy) = sy
      BY <1>3, <2>2
    <3> HIDE DEF color, c, sx, sy
    <3>2. QED BY <2>5, <3>1 DEF Upright
  <2>7. color[c] \in Colors
    <3>1. tga.width \in Nat /\ tga.height \in Nat
      BY <1>3, Widths
    <3> HIDE DEF sx, sy, color, c, tga
    <3>2. sy * tga.width + sx \in 0 .. tga.width * tga.height - 1
      BY <2>2, <3>1, CellIsPixel
    <3>3. QED BY <1>3, <2>5, <3>2, PixelIsColor
  <2>8. memory[Offset(fb, p)] = Over(color[c], m[Offset(fb, p)])
    <3> HIDE DEF color
    <3>1. QED BY <1>6, <2>1, <2>4 DEF Shown
  <2>9. New(p) = memory[Offset(fb, p)] /\ Old(p) = m[Offset(fb, p)]
    BY DEF New, Old, Offset
  <2>10. MixedExactly(New(p), Upright(tga, x, y), Old(p))
    <3>1. /\ New(p) = Over(Upright(tga, x, y), Old(p))
          /\ Upright(tga, x, y) \in Colors /\ Old(p) \in Colors
      <4> HIDE DEF color, c, x, y
      <4>1. QED BY <1>4, <2>6, <2>7, <2>8, <2>9
    <3>2. QED BY <3>1, BlendIsExact
  <2> HIDE DEF x, y
  <2>11. QED BY <2>3, <2>10
<1>9. QED BY <1>7, <1>8 DEF ScaledExact, Near

\* draw_tga_scaled() reads only pixels of the picture, and each point of the screen shows
\* the pixel it falls into or a neighbour, for all sizes of words of two bytes.
THEOREM ScaledIsExact == Spec => []ScaledExact
BY IInvHolds, ReturnsScaledExact, PTL

-----------------------------------------------------------------------------
(* Text *)

Newlines(c, k) == {j \in 1 .. k - 1 : c.text[j] = NEWLINE} \cup {0}

\* How far a character is from the newline before it, and the next one.
LEMMA SinceNewlineIs ==
  ASSUME NEW c, NEW k \in Nat \ {0}
  PROVE  /\ SinceNewline(c, k) \in 1 .. k
         /\ SinceNewline(c, k + 1) = IF c.text[k] = NEWLINE THEN 1 ELSE SinceNewline(c, k) + 1
<1>1. ASSUME NEW n \in Nat \ {0}
      PROVE  /\ Max(Newlines(c, n)) \in Newlines(c, n) /\ Max(Newlines(c, n)) \in 0 .. n - 1
             /\ \A j \in Newlines(c, n) : j <= Max(Newlines(c, n))
  <2>1. Newlines(c, n) \in SUBSET (0 .. n - 1) /\ Newlines(c, n) # {} /\ n - 1 \in Nat
    BY DEF Newlines
  <2>2. QED BY <2>1, MaxIs
<1> DEFINE a == Max(Newlines(c, k))
           b == Max(Newlines(c, k + 1))
<1>2. SinceNewline(c, k) = k - a /\ SinceNewline(c, k + 1) = (k + 1) - b
  BY DEF SinceNewline, Newlines
<1>3. a \in Newlines(c, k) /\ a \in 0 .. k - 1 /\ \A j \in Newlines(c, k) : j <= a
  BY <1>1
<1>4. b \in Newlines(c, k + 1) /\ b \in 0 .. k /\ \A j \in Newlines(c, k + 1) : j <= b
  <2>1. k + 1 \in Nat \ {0} /\ (k + 1) - 1 = k
    OBVIOUS
  <2>2. QED BY <1>1, <2>1
<1> HIDE DEF a, b
<1>5. Newlines(c, k + 1) = Newlines(c, k) \cup (IF c.text[k] = NEWLINE THEN {k} ELSE {})
  BY DEF Newlines
<1>6. b = IF c.text[k] = NEWLINE THEN k ELSE a
  <2>1. CASE c.text[k] = NEWLINE
    <3>1. k <= b
      BY <1>4, <1>5, <2>1
    <3>2. QED BY <1>4, <2>1, <3>1
  <2>2. CASE c.text[k] # NEWLINE
    <3>1. a <= b /\ b <= a
      BY <1>3, <1>4, <1>5, <2>2
    <3>2. QED BY <1>3, <1>4, <2>2, <3>1
  <2>3. QED BY <2>1, <2>2
<1>7. QED BY <1>2, <1>3, <1>6

\* A row holds as many characters as fit, and at least one.
LEMMA ColumnsIs ==
  ASSUME NEW c, c.fb.width \in Nat, c.x \in Nat
  PROVE  /\ Columns(c) \in Nat \ {0}
         /\ \A i \in 0 .. Columns(c) - 1 :
              (c.x + i * Font.width) + Font.width + Font.width > c.fb.width <=> i = Columns(c) - 1
         /\ c.x + Font.width <= c.fb.width => c.x + Columns(c) * Font.width <= c.fb.width
<1> DEFINE W == Font.width
           s == c.fb.width - c.x
           f == s \div W
           r == s % W
<1>1. W \in Nat \ {0} /\ s \in Int /\ c.x \in Int /\ c.fb.width \in Int
  BY FontAssumption
<1>2. f \in Int /\ r \in 0 .. W - 1 /\ s = W * f + r
  <2> HIDE DEF s, W
  <2>1. QED BY <1>1, DivFacts
<1>3. Columns(c) = IF f <= 1 THEN 1 ELSE f
  <2>1. Columns(c) = CHOOSE n \in {1, f} : \A y \in {1, f} : n >= y
    BY DEF Columns, Max
  <2> HIDE DEF f
  <2>2. CASE f <= 1
    BY <1>2, <2>1, <2>2
  <2>3. CASE ~(f <= 1)
    BY <1>2, <2>1, <2>3
  <2>4. QED BY <2>2, <2>3
<1>4. c.fb.width = c.x + (W * f + r)
  <2>1. c.fb.width = c.x + s
    BY <1>1
  <2>2. QED BY <1>2, <2>1
<1> HIDE DEF f, r, s, W
<1>5. Columns(c) \in Nat \ {0}
  BY <1>2, <1>3
<1>6. ASSUME NEW i \in 0 .. Columns(c) - 1
      PROVE  (c.x + i * W) + W + W > c.fb.width <=> i = Columns(c) - 1
  <2>1. i \in Nat /\ i * W = W * i /\ W * (i + 2) = W * i + W + W /\ W * i \in Nat
    BY <1>1, <1>5
  <2>2. (c.x + i * W) + W + W > c.fb.width <=> W * (i + 2) > W * f + r
    <3>1. W * f \in Int
      BY <1>1, <1>2
    <3>2. QED BY <1>1, <1>2, <1>4, <2>1, <3>1
  <2>3. W * (i + 2) > W * f + r <=> i + 2 > f
    <3>1. W * (i + 2) \in Int /\ W * f \in Int /\ i + 2 \in Int
      BY <1>1, <1>2, <2>1
    <3>2. ASSUME f < i + 2 PROVE W * f + W <= W * (i + 2)
      BY <1>1, <1>2, <3>1, <3>2, Less
    <3>3. ASSUME i + 2 <= f PROVE W * (i + 2) <= W * f
      BY <1>1, <1>2, <3>1, <3>3
    <3>4. QED BY <1>1, <1>2, <3>1, <3>2, <3>3
  <2>4. i + 2 > f <=> i = Columns(c) - 1
    BY <1>2, <1>3, <1>5, <2>1
  <2>5. QED BY <2>2, <2>3, <2>4
<1>7. ASSUME c.x + W <= c.fb.width PROVE c.x + Columns(c) * W <= c.fb.width
  <2>1. W <= W * f + r
    BY <1>1, <1>2, <1>4, <1>7
  <2>2. f >= 1
    <3>1. ASSUME f < 1 PROVE W * f + W <= W * 1
      BY <1>1, <1>2, <3>1, Less
    <3>2. W * f \in Int /\ W * 1 = W
      BY <1>1, <1>2
    <3>3. QED BY <1>1, <1>2, <2>1, <3>1, <3>2
  <2>3. Columns(c) = f
    BY <1>2, <1>3, <2>2
  <2>4. Columns(c) * W = W * f /\ W * f \in Int
    BY <1>1, <1>2, <2>3
  <2>5. QED BY <1>1, <1>2, <1>4, <2>4
<1>8. QED BY <1>5, <1>6, <1>7 DEF W

\* One more in a row.
LEMMA NextColumn ==
  ASSUME NEW C \in Nat \ {0}, NEW s \in Nat \ {0}
  PROVE  /\ (s - 1) % C \in 0 .. C - 1
         /\ s % C = IF (s - 1) % C = C - 1 THEN 0 ELSE ((s - 1) % C) + 1
<1> DEFINE q == (s - 1) \div C
           r == (s - 1) % C
<1>1. q \in Int /\ r \in 0 .. C - 1 /\ s - 1 = C * q + r
  <2>1. s - 1 \in Int
    OBVIOUS
  <2>2. QED BY <2>1, DivFacts
<1> HIDE DEF q, r
<1>2. CASE r = C - 1
  <2>1. s = C * (q + 1) + 0 /\ q + 1 \in Int /\ 0 \in 0 .. C - 1 /\ s \in Int
    BY <1>1, <1>2
  <2>2. s % C = 0
    BY <2>1, DivMod
  <2>3. QED BY <1>1, <1>2, <2>2 DEF r
<1>3. CASE r # C - 1
  <2>1. s = C * q + (r + 1) /\ r + 1 \in 0 .. C - 1 /\ s \in Int
    BY <1>1, <1>3
  <2> DEFINE t == r + 1
  <2> HIDE DEF t
  <2>2. s = C * q + t /\ t \in 0 .. C - 1
    BY <2>1 DEF t
  <2>3. C \in Nat \ {0} /\ q \in Int /\ t \in 0 .. C - 1 /\ s \in Int /\ s = C * q + t
    BY <1>1, <2>1, <2>2
  <2>4. s % C = t
    BY <2>3, DivMod
  <2>5. QED BY <1>1, <1>3, <2>4 DEF r, t
<1>4. QED BY <1>2, <1>3

\* The rows that end before a character, counted one by one.
LEMMA RowsIs ==
  ASSUME NEW c, NEW k \in Nat \ {0}
  PROVE  /\ Cardinality({j \in 1 .. 1 - 1 : EndsRow(c, j)}) = 0
         /\ Cardinality({j \in 1 .. k - 1 : EndsRow(c, j)}) \in Nat
         /\ Cardinality({j \in 1 .. (k + 1) - 1 : EndsRow(c, j)})
              = Cardinality({j \in 1 .. k - 1 : EndsRow(c, j)}) + (IF EndsRow(c, k) THEN 1 ELSE 0)
<1> DEFINE S == {j \in 1 .. k - 1 : EndsRow(c, j)}
           T == {j \in 1 .. (k + 1) - 1 : EndsRow(c, j)}
<1>1. IsFiniteSet(S)
  <2>1. 1 \in Int /\ k - 1 \in Int
    OBVIOUS
  <2>2. IsFiniteSet(1 .. k - 1)
    BY <2>1, FS_Interval
  <2>3. S \subseteq 1 .. k - 1
    OBVIOUS
  <2>4. QED BY <2>2, <2>3, FS_Subset
<1>2. T = S \cup (IF EndsRow(c, k) THEN {k} ELSE {}) /\ k \notin S
  OBVIOUS
<1>3. {j \in 1 .. 1 - 1 : EndsRow(c, j)} = {}
  OBVIOUS
<1> HIDE DEF S, T
<1>4. Cardinality(S) \in Nat
  BY <1>1, FS_CardinalityType
<1>5. Cardinality(T) = Cardinality(S) + (IF EndsRow(c, k) THEN 1 ELSE 0)
  <2>1. CASE EndsRow(c, k)
    <3>1. T = S \cup {k}
      BY <1>2, <2>1
    <3>2. Cardinality(S \cup {k}) = Cardinality(S) + 1
      BY <1>1, <1>2, FS_AddElement
    <3>3. QED BY <2>1, <3>1, <3>2
  <2>2. CASE ~EndsRow(c, k)
    <3>1. T = S
      BY <1>2, <2>2
    <3>2. QED BY <1>4, <2>2, <3>1
  <2>3. QED BY <2>1, <2>2
<1>6. Cardinality({}) = 0
  BY FS_EmptySet
<1>7. QED BY <1>3, <1>4, <1>5, <1>6 DEF S, T

\* Where the next character is to stand.
LEMMA PlaceIs ==
  ASSUME NEW c, c.fb.width \in Nat, c.x \in Nat, NEW k \in Nat \ {0}
  PROVE  /\ Place(c, 1) = <<0, 0>>
         /\ Place(c, k)[1] \in 0 .. Columns(c) - 1 /\ Place(c, k)[2] \in Nat
         /\ Place(c, k + 1) =
              IF Breaks(c.fb, c.text[k], c.x + Place(c, k)[1] * Font.width)
              THEN <<0, Place(c, k)[2] + 1>>
              ELSE <<Place(c, k)[1] + 1, Place(c, k)[2]>>
<1> DEFINE C == Columns(c)
           s == SinceNewline(c, k)
           t == SinceNewline(c, k + 1)
           rows == Cardinality({j \in 1 .. k - 1 : EndsRow(c, j)})
           more == Cardinality({j \in 1 .. (k + 1) - 1 : EndsRow(c, j)})
           col == (s - 1) % C
<1>1. C \in Nat \ {0}
  BY ColumnsIs
<1>2. s \in Nat \ {0} /\ t = IF c.text[k] = NEWLINE THEN 1 ELSE s + 1
  BY SinceNewlineIs
<1>3. col \in 0 .. C - 1 /\ s % C = IF col = C - 1 THEN 0 ELSE col + 1
  <2> HIDE DEF s, C
  <2>1. QED BY <1>1, <1>2, NextColumn
<1>4. rows \in Nat /\ more = rows + (IF EndsRow(c, k) THEN 1 ELSE 0)
      /\ Cardinality({j \in 1 .. 1 - 1 : EndsRow(c, j)}) = 0
  BY RowsIs
<1>5. Place(c, k) = <<col, rows>> /\ Place(c, k + 1) = <<(t - 1) % C, more>>
  BY DEF Place
<1>6. EndsRow(c, k) <=> c.text[k] = NEWLINE \/ s % C = 0
  BY DEF EndsRow
<1>7. 0 % C = 0
  <2>1. 0 = C * 0 + 0 /\ 0 \in Int /\ 0 \in 0 .. C - 1
    BY <1>1
  <2>2. QED BY <1>1, <2>1, DivMod
<1>8. Place(c, 1) = <<0, 0>>
  <2>1. SinceNewline(c, 1) \in 1 .. 1
    BY SinceNewlineIs
  <2>2. Place(c, 1) = <<(SinceNewline(c, 1) - 1) % C, 0>>
    BY <1>4 DEF Place
  <2>3. SinceNewline(c, 1) - 1 = 0
    BY <2>1
  <2>4. QED BY <1>7, <2>2, <2>3
<1>9. (c.x + col * Font.width) + Font.width + Font.width > c.fb.width <=> col = C - 1
  <2> HIDE DEF col
  <2>1. QED BY <1>3, ColumnsIs
<1>10. Breaks(c.fb, c.text[k], c.x + col * Font.width) <=> EndsRow(c, k)
  <2>1. s % C = 0 <=> col = C - 1
    <3> HIDE DEF s, C, col
    <3>1. QED BY <1>1, <1>3
  <2>2. Breaks(c.fb, c.text[k], c.x + col * Font.width)
          <=> c.text[k] = NEWLINE \/ (c.x + col * Font.width) + Font.width + Font.width > c.fb.width
    BY DEF Breaks
  <2> HIDE DEF s, C, col
  <2>3. QED BY <1>6, <1>9, <2>1, <2>2
<1>11. Place(c, k + 1) = IF EndsRow(c, k) THEN <<0, rows + 1>> ELSE <<col + 1, rows>>
  <2>1. CASE c.text[k] = NEWLINE
    <3>1. t - 1 = 0 /\ EndsRow(c, k)
      BY <1>2, <1>6, <2>1
    <3> HIDE DEF t, C, rows, more
    <3>2. QED BY <1>4, <1>5, <1>7, <3>1
  <2>2. CASE c.text[k] # NEWLINE
    <3>1. t - 1 = s
      BY <1>2, <2>2
    <3> HIDE DEF t, s, C, rows, more, col
    <3>2. QED BY <1>1, <1>3, <1>4, <1>5, <1>6, <2>2, <3>1
  <2>3. QED BY <2>1, <2>2
<1> HIDE DEF C, rows, more, col
<1>12. Place(c, k)[1] = col /\ Place(c, k)[2] = rows
  BY <1>5
<1>13. QED BY <1>3, <1>4, <1>8, <1>10, <1>11, <1>12 DEF C

\* print() moves the cursor to where the next character is to stand.
LEMMA CursorIs ==
  ASSUME NEW c, c.fb.width \in Nat, c.x \in Nat, c.y \in Nat, c.text \in Seq(Int),
         NEW k \in 1 .. Len(c.text)
  PROVE  Cursor(c.fb, c.text, c.x, c.y)[k - 1]
           = <<c.x + Place(c, k)[1] * Font.width, c.y + Place(c, k)[2] * Font.height>>
<1> DEFINE n == Len(c.text)
           Iter(f, i) ==
             IF i = 0 THEN <<c.x, c.y>>
             ELSE IF Breaks(c.fb, c.text[i], f[i - 1][1]) THEN <<c.x, f[i - 1][2] + Font.height>>
             ELSE <<f[i - 1][1] + Font.width, f[i - 1][2]>>
           P(i) == <<c.x + Place(c, i + 1)[1] * Font.width, c.y + Place(c, i + 1)[2] * Font.height>>
<1>0. n \in Nat /\ Font.width \in Nat /\ Font.height \in Nat
  BY FontAssumption
<1>1. P(0) = <<c.x, c.y>>
  <2>1. 0 + 1 = 1 /\ 1 \in Nat \ {0} /\ 0 * Font.width = 0 /\ 0 * Font.height = 0
    BY <1>0
  <2>2. Place(c, 0 + 1) = <<0, 0>>
    BY <2>1, PlaceIs
  <2>3. QED BY <1>0, <2>1, <2>2
<1>2. ASSUME NEW i \in 1 .. n
      PROVE  P(i) = IF Breaks(c.fb, c.text[i], P(i - 1)[1]) THEN <<c.x, P(i - 1)[2] + Font.height>>
                    ELSE <<P(i - 1)[1] + Font.width, P(i - 1)[2]>>
  <2> DEFINE p == Place(c, i)
             q == Place(c, i + 1)
  <2>1. i \in Nat \ {0} /\ (i - 1) + 1 = i
    BY <1>0
  <2>2. /\ p[1] \in 0 .. Columns(c) - 1 /\ p[2] \in Nat
        /\ q = IF Breaks(c.fb, c.text[i], c.x + p[1] * Font.width) THEN <<0, p[2] + 1>>
               ELSE <<p[1] + 1, p[2]>>
    BY <2>1, PlaceIs
  <2>3. P(i - 1) = <<c.x + p[1] * Font.width, c.y + p[2] * Font.height>>
    BY <2>1
  <2>4. P(i) = <<c.x + q[1] * Font.width, c.y + q[2] * Font.height>>
    OBVIOUS
  <2>5. p[1] \in Nat
    BY <2>2, ColumnsIs
  <2> DEFINE W == Font.width
             H == Font.height
             u == p[1]
             v == p[2]
  <2>6. u \in Nat /\ v \in Nat /\ W \in Nat /\ H \in Nat /\ c.x \in Nat /\ c.y \in Nat
    BY <1>0, <2>2, <2>5
  <2>7. P(i - 1)[1] = c.x + u * W /\ P(i - 1)[2] = c.y + v * H
    BY <2>3
  <2>8. /\ Breaks(c.fb, c.text[i], c.x + u * W) => q[1] = 0 /\ q[2] = v + 1
        /\ ~Breaks(c.fb, c.text[i], c.x + u * W) => q[1] = u + 1 /\ q[2] = v
    <3> DEFINE B == Breaks(c.fb, c.text[i], c.x + u * W)
    <3>1. q = IF B THEN <<0, v + 1>> ELSE <<u + 1, v>>
      BY <2>2, Zenon
    <3> HIDE DEF B, q, u, v
    <3>2. (B => q[1] = 0 /\ q[2] = v + 1) /\ (~B => q[1] = u + 1 /\ q[2] = v)
      BY <3>1
    <3>3. QED BY <3>2, Zenon DEF B
  <2>9. P(i) = <<c.x + q[1] * W, c.y + q[2] * H>>
    BY <2>4
  <2> HIDE DEF p, q, P, u, v, W, H
  <2>10. /\ c.y + (v + 1) * H = c.y + v * H + H /\ c.x + 0 * W = c.x
         /\ c.x + (u + 1) * W = c.x + u * W + W
    <3>1. u * W \in Nat /\ v * H \in Nat /\ 0 * W = 0
      BY <2>6
    <3>2. (v + 1) * H = v * H + H /\ (u + 1) * W = u * W + W
      BY <2>6
    <3>3. QED BY <2>6, <3>1, <3>2
  <2>11. CASE Breaks(c.fb, c.text[i], c.x + u * W)
    <3>1. P(i) = <<c.x + 0 * W, c.y + (v + 1) * H>>
      BY <2>8, <2>9, <2>11, Zenon
    <3>2. P(i) = <<c.x, c.y + v * H + H>>
      BY <2>10, <3>1, Zenon
    <3>3. QED BY <2>7, <2>11, <3>2, Zenon DEF W, H
  <2>12. CASE ~Breaks(c.fb, c.text[i], c.x + u * W)
    <3>1. P(i) = <<c.x + (u + 1) * W, c.y + v * H>>
      BY <2>8, <2>9, <2>12, Zenon
    <3>2. P(i) = <<c.x + u * W + W, c.y + v * H>>
      BY <2>10, <3>1, Zenon
    <3>3. QED BY <2>7, <2>12, <3>2, Zenon DEF W, H
  <2>13. QED BY <2>11, <2>12
<1> HIDE DEF P
<1>3. ASSUME NEW f, f = [i \in 0 .. n |-> Iter(f, i)], NEW j \in 0 .. n
      PROVE  f[j] = P(j)
  <2> DEFINE S == {i \in Nat : i <= n => f[i] = P(i)}
  <2>1. 0 \in S
    BY <1>0, <1>1, <1>3
  <2>2. ASSUME NEW i \in Nat, i \in S PROVE i + 1 \in S
    <3>1. CASE i + 1 <= n
      <4>1. i + 1 \in 1 .. n /\ (i + 1) - 1 = i /\ i <= n /\ i + 1 \in 0 .. n /\ i + 1 # 0
        BY <1>0, <3>1
      <4>2. f[i] = P(i)
        BY <2>2, <4>1
      <4>3. f[i + 1] = Iter(f, i + 1)
        BY <1>3, <4>1
      <4>4. Iter(f, i + 1)
              = IF Breaks(c.fb, c.text[i + 1], f[i][1]) THEN <<c.x, f[i][2] + Font.height>>
                ELSE <<f[i][1] + Font.width, f[i][2]>>
        BY <4>1
      <4>5. P(i + 1)
              = IF Breaks(c.fb, c.text[i + 1], P(i)[1]) THEN <<c.x, P(i)[2] + Font.height>>
                ELSE <<P(i)[1] + Font.width, P(i)[2]>>
        BY <1>2, <4>1
      <4> HIDE DEF Iter
      <4>6. f[i + 1] = P(i + 1)
        BY <4>2, <4>3, <4>4, <4>5, Zenon
      <4>7. QED BY <4>6
    <3>2. CASE ~(i + 1 <= n)
      BY <3>2
    <3>3. QED BY <3>1, <3>2
  <2> HIDE DEF S
  <2>3. Nat \subseteq S
    BY <2>1, <2>2, Induction
  <2>4. j \in S /\ j <= n
    BY <1>0, <2>3
  <2>5. QED BY <2>4 DEF S
<1>4. \E f : f = [i \in 0 .. n |-> Iter(f, i)]
  <2> DEFINE g == [i \in 0 .. n |-> P(i)]
  <2>1. ASSUME NEW i \in 0 .. n PROVE P(i) = Iter(g, i)
    <3>1. CASE i = 0
      BY <1>1, <3>1
    <3>2. CASE i # 0
      <4>1. i \in 1 .. n /\ i - 1 \in 0 .. n
        BY <1>0, <3>2
      <4>2. QED BY <1>2, <3>2, <4>1
    <3>3. QED BY <3>1, <3>2
  <2>2. g = [i \in 0 .. n |-> Iter(g, i)]
    BY <2>1
  <2>3. QED BY <2>2
<1>5. Cursor(c.fb, c.text, c.x, c.y) = (CHOOSE f : f = [i \in 0 .. n |-> Iter(f, i)])
  BY Zenon DEF Cursor
<1>6. k - 1 \in 0 .. n /\ (k - 1) + 1 = k
  BY <1>0
<1>7. Cursor(c.fb, c.text, c.x, c.y)[k - 1] = P(k - 1)
  <2> HIDE DEF Iter, n
  <2>1. QED BY <1>3, <1>4, <1>5, <1>6, Zenon
<1>8. QED BY <1>6, <1>7 DEF P

\* The pixels of a text.
Lit(c) ==
  UNION {put_char(c.text[k], Cursor(c.fb, c.text, c.x, c.y)[k - 1])
         : k \in {j \in DOMAIN c.text : c.text[j] # NEWLINE}}

\* A glyph of print() stands where its character is to stand.
LEMMA GlyphStands ==
  ASSUME NEW c, c.fb.width \in Nat, c.x \in Nat, c.y \in Nat, c.text \in Seq(Int),
         NEW k \in DOMAIN c.text
  PROVE  put_char(c.text[k], Cursor(c.fb, c.text, c.x, c.y)[k - 1])
           = {<<c.x + Place(c, k)[1] * Font.width + g[1],
                c.y + Place(c, k)[2] * Font.height + g[2]>> : g \in Glyph(c.text[k])}
<1> DEFINE a == c.x + Place(c, k)[1] * Font.width
           b == c.y + Place(c, k)[2] * Font.height
           at == Cursor(c.fb, c.text, c.x, c.y)[k - 1]
<1>1. k \in 1 .. Len(c.text)
  OBVIOUS
<1>2. at = <<a, b>>
  BY <1>1, CursorIs
<1> HIDE DEF a, b, at
<1>3. at[1] = a /\ at[2] = b
  BY <1>2
<1>4. put_char(c.text[k], at) = {<<a + g[1], b + g[2]>> : g \in Glyph(c.text[k])}
  BY <1>3 DEF put_char
<1>5. QED BY <1>4 DEF a, b, at

\* What print() leaves in memory.
LEMMA TextDrawn ==
  ASSUME IInv, Returned({"print"})
  PROVE  /\ LegalScreen(call) /\ call.x \in Nat /\ call.y \in Nat /\ call.text \in Seq(Int)
         /\ call.fb.width \in Nat
         /\ memory = PutPixels(call.memory, call.fb, Lit(call), call.color)
<1>1. call.op = "print" /\ Legal(call) /\ memory = Effect(call, call.memory)
  BY DEF IInv, Returned
<1>2. memory = print(call.memory, call.fb, call.text, call.x, call.y, call.color)
  BY <1>1 DEF Effect
<1>3. LegalScreen(call) /\ call.x \in Nat /\ call.y \in Nat /\ call.text \in Seq(Int)
  BY <1>1 DEF Legal
<1>4. call.fb.width \in Nat
  BY <1>3 DEF LegalScreen
<1>5. QED BY <1>2, <1>3, <1>4 DEF print, Lit

\* The invariant says it of a call that has returned.
LEMMA ReturnsTextLaidOut == IInv => TextLaidOut
<1> SUFFICES ASSUME IInv, Returned({"print"}) PROVE TextLaidOut
  BY DEF TextLaidOut
<1> DEFINE printed == {j \in DOMAIN call.text : call.text[j] # NEWLINE}
           cells(k) == {<<call.x + Place(call, k)[1] * Font.width + g[1],
                          call.y + Place(call, k)[2] * Font.height + g[2]>>
                        : g \in Glyph(call.text[k])}
           lit == UNION {cells(k) : k \in printed}
           offsets == {p[2] * call.fb.pitch + p[1] : p \in lit}
<1>1. /\ call.x \in Nat /\ call.y \in Nat /\ call.text \in Seq(Int) /\ call.fb.width \in Nat
      /\ memory = PutPixels(call.memory, call.fb, Lit(call), call.color)
  BY TextDrawn
<1>2. Lit(call) = lit
  <2>1. \A k \in printed :
          put_char(call.text[k], Cursor(call.fb, call.text, call.x, call.y)[k - 1]) = cells(k)
    BY <1>1, GlyphStands
  <2> HIDE DEF cells
  <2>2. QED BY <2>1 DEF Lit
<1> HIDE DEF lit
<1>3. \A k \in DOMAIN memory : memory[k] = IF k \in offsets THEN call.color ELSE call.memory[k]
  BY <1>1, <1>2 DEF PutPixels, Offset
<1>4. QED BY <1>3, Zenon DEF TextLaidOut, Glyph, lit

\* print() lays out every text in rows and columns, for all fonts and on all screens, also
\* ones narrower than a character, and writes nothing else.
THEOREM TextIsLaidOut == Spec => []TextLaidOut
BY IInvHolds, ReturnsTextLaidOut, PTL

-----------------------------------------------------------------------------
(* Nothing behind the back buffer *)

\* What is written on the screen leaves the memory behind it as it was.
LEMMA PixelsStay ==
  ASSUME NEW fb, GoodScreen(fb), NEW m, NEW pixels \in SUBSET Screen(fb), NEW color,
         NEW k \in DOMAIN m, k \in Nat, k >= fb.height * fb.pitch
  PROVE  PutPixels(m, fb, pixels, color)[k] = m[k]
<1>1. \A p \in pixels : Offset(fb, p) # k
  <2>1. SUFFICES ASSUME NEW p \in pixels PROVE Offset(fb, p) # k
    OBVIOUS
  <2>2. Offset(fb, p) \in 0 .. fb.height * fb.pitch - 1
    BY OffsetIs
  <2>3. fb.height * fb.pitch \in Nat
    BY DEF GoodScreen
  <2>4. QED BY <2>2, <2>3
<1>2. QED BY <1>1 DEF PutPixels

\* The same for what put_pixel_alpha() writes.
LEMMA CellsStay ==
  ASSUME NEW fb, GoodScreen(fb), NEW m, NEW target, NEW color,
         NEW k \in DOMAIN m, k \in Nat, k >= fb.height * fb.pitch
  PROVE  PutCells(m, fb, target, color)[k] = m[k]
<1>1. \A p \in Screen(fb) : Offset(fb, p) # k
  <2>1. SUFFICES ASSUME NEW p \in Screen(fb) PROVE Offset(fb, p) # k
    OBVIOUS
  <2>2. Offset(fb, p) \in 0 .. fb.height * fb.pitch - 1
    BY OffsetIs
  <2>3. fb.height * fb.pitch \in Nat
    BY DEF GoodScreen
  <2>4. QED BY <2>2, <2>3
<1>2. QED BY <1>1 DEF PutCells

\* A text that fits stays on the screen.
LEMMA TextStays ==
  ASSUME IInv, Returned({"print"}), TextFits
  PROVE  Lit(call) \subseteq Screen(call.fb)
<1> DEFINE W == Font.width
           H == Font.height
           w == call.fb.width
           h == call.fb.height
           x == call.x
           y == call.y
           C == Columns(call)
<1>1. /\ LegalScreen(call) /\ x \in Nat /\ y \in Nat /\ call.text \in Seq(Int) /\ w \in Nat
  BY TextDrawn
<1>2. h \in Nat /\ W \in Nat \ {0} /\ H \in Nat \ {0}
  BY <1>1, FontAssumption DEF LegalScreen
<1>3. C \in Nat \ {0} /\ x + C * W <= w
  BY <1>1, ColumnsIs DEF TextFits
<1>4. SUFFICES ASSUME NEW k \in DOMAIN call.text, NEW g \in Glyph(call.text[k])
      PROVE  <<x + Place(call, k)[1] * W + g[1], y + Place(call, k)[2] * H + g[2]>>
              \in Screen(call.fb)
  <2>1. \A k \in DOMAIN call.text :
          put_char(call.text[k], Cursor(call.fb, call.text, x, y)[k - 1]) \subseteq Screen(call.fb)
    <3>1. SUFFICES ASSUME NEW k \in DOMAIN call.text
          PROVE  put_char(call.text[k], Cursor(call.fb, call.text, x, y)[k - 1])
                   \subseteq Screen(call.fb)
      OBVIOUS
    <3>2. put_char(call.text[k], Cursor(call.fb, call.text, x, y)[k - 1])
           = {<<x + Place(call, k)[1] * W + g[1], y + Place(call, k)[2] * H + g[2]>>
              : g \in Glyph(call.text[k])}
      BY <1>1, GlyphStands
    <3>3. \A g \in Glyph(call.text[k]) :
            <<x + Place(call, k)[1] * W + g[1], y + Place(call, k)[2] * H + g[2]>>
              \in Screen(call.fb)
      BY <1>4
    <3>4. QED BY <3>2, <3>3, Zenon
  <2>2. QED BY <2>1 DEF Lit
<1> DEFINE i == Place(call, k)[1]
           j == Place(call, k)[2]
<1>5. i \in 0 .. C - 1 /\ j \in Nat
  <2>1. k \in Nat \ {0}
    BY <1>1
  <2>2. QED BY <1>1, <2>1, PlaceIs
<1>6. g[1] \in 0 .. W - 1 /\ g[2] \in 0 .. H - 1
  <2>1. Glyph(call.text[k]) \subseteq Grid(W, H)
    BY FontAssumption DEF Glyph
  <2>2. QED BY <2>1 DEF Grid
<1>7. y + (j + 1) * H <= h
  BY DEF TextFits
<1> DEFINE a == g[1]
           b == g[2]
<1>8. <<x + i * W + a, y + j * H + b>> \in (0 .. w - 1) \X (0 .. h - 1)
  <2> HIDE DEF W, H, w, h, x, y, C, i, j, a, b
  <2>1. (j + 1) * H = j * H + H /\ j * H \in Nat
    BY <1>2, <1>5
  <2>2. i * W \in Nat
    BY <1>2, <1>3, <1>5
  <2>3. i * W + W <= C * W
    <3>1. i < C /\ i \in Int /\ C \in Int
      BY <1>3, <1>5
    <3>2. W * i + W <= W * C
      BY <1>2, <3>1, Less
    <3>3. W * i = i * W /\ W * C = C * W
      BY <1>2, <3>1
    <3>4. QED BY <3>2, <3>3
  <2>4. C * W \in Nat
    BY <1>2, <1>3
  <2>5. y + j * H + b \in 0 .. h - 1
    <3> DEFINE s == j * H
               t == (j + 1) * H
    <3>1. s \in Nat /\ t = s + H /\ y + t <= h
      BY <1>7, <2>1
    <3>2. b \in 0 .. H - 1
      BY <1>6 DEF b
    <3> HIDE DEF s, t
    <3>3. y + s + b \in 0 .. h - 1
      BY <1>1, <1>2, <3>1, <3>2
    <3>4. QED BY <3>3 DEF s
  <2>6. x + i * W + a \in 0 .. w - 1
    <3> DEFINE s == i * W
               t == C * W
    <3>1. s \in Nat /\ t \in Nat /\ s + W <= t /\ x + t <= w
      BY <1>3, <2>2, <2>3, <2>4
    <3>2. a \in 0 .. W - 1
      BY <1>6 DEF a
    <3> HIDE DEF s, t
    <3>3. x + s + a \in 0 .. w - 1
      BY <1>1, <1>2, <3>1, <3>2
    <3>4. QED BY <3>3 DEF s
  <2>7. QED BY <2>5, <2>6
<1>9. QED BY <1>8 DEF Screen

\* The invariant says it of a call that has returned.
LEMMA ReturnsStaysInside == IInv => StaysInside
<1> SUFFICES ASSUME IInv, Returned({"clear", "rect", "image", "scaled", "print"}),
                    call.op = "print" => TextFits, NEW k \in Behind
             PROVE  memory[k] = call.memory[k]
  BY DEF StaysInside
<1> DEFINE fb == call.fb
           m == call.memory
<1>1. LegalScreen(call) /\ memory = Effect(call, m)
  BY DEF IInv, Returned, Legal
<1>2. GoodScreen(fb)
  BY <1>1, ScreenFacts
<1>3. DOMAIN memory = DOMAIN m
  BY <1>1 DEF Returned, Effect, clear, draw_rect, draw_tga_image, draw_tga_scaled, print,
              PutPixels, PutCells
<1>4. k \in DOMAIN m /\ k \in Nat /\ k >= fb.height * fb.pitch
  BY <1>1, <1>3 DEF Behind, LegalScreen, Holds
<1>5. CASE call.op = "clear"
  <2>1. memory = PutPixels(m, fb, Screen(fb), call.color)
    BY <1>1, <1>5 DEF Effect, clear
  <2>2. QED BY <1>2, <1>4, <2>1, PixelsStay
<1>6. CASE call.op = "rect"
  <2>1. memory = draw_rect(m, fb, call.x, call.y, call.width, call.height, call.color)
    BY <1>1, <1>6 DEF Effect
  <2>2. PICK pixels \in SUBSET Screen(fb) : memory = PutPixels(m, fb, pixels, call.color)
    BY <2>1 DEF draw_rect
  <2>3. QED BY <1>2, <1>4, <2>2, PixelsStay
<1>7. CASE call.op \in {"image", "scaled"}
  <2>1. \E target, color : memory = PutCells(m, fb, target, color)
    BY <1>1, <1>7 DEF Effect, draw_tga_image, draw_tga_scaled
  <2>2. QED BY <1>2, <1>4, <2>1, CellsStay
<1>8. CASE call.op = "print"
  <2>1. Returned({"print"}) /\ TextFits
    BY <1>8 DEF Returned
  <2>2. memory = PutPixels(m, fb, Lit(call), call.color) /\ Lit(call) \in SUBSET Screen(fb)
    BY <2>1, TextDrawn, TextStays
  <2>3. QED BY <1>2, <1>4, <2>2, PixelsStay
<1>9. QED BY <1>5, <1>6, <1>7, <1>8 DEF Returned

\* No call writes behind the back buffer, wherever the mouse is and however large the screen
\* and the pictures are; a text that fits stays inside too, for all texts and fonts.
THEOREM NothingBehind == Spec => []StaysInside
BY IInvHolds, ReturnsStaysInside, PTL

-----------------------------------------------------------------------------
(* The render loop *)

\* As long as the mouse has not moved again, every field that was read since the flag
\* was cleared is the mouse's.
FieldsRead ==
  ~moved =>
    /\ pc # "rect left" => cursor.left = mouse.left
    /\ pc \notin {"rect left", "rect x"} => cursor.x = mouse.x
    /\ pc \notin {"rect left", "rect x", "rect y"} => cursor.y = mouse.y
    /\ pc \notin {"rect left", "rect x", "rect y", "image x"} => image.x = mouse.x
    /\ pc \notin {"rect left", "rect x", "rect y", "image x", "image y"} => image.y = mouse.y

\* It is kept together with what follows from it when the loop has come round.
LoopInv ==
  /\ TypeOK
  /\ FieldsRead
  /\ NoLostKey
  /\ TicksNotMissed
  /\ last_ticks <= timer_ticks

\* A state of the mouse is its fields.
LEMMA SameMouse ==
  ASSUME NEW m \in Mice, NEW n \in Mice, m.x = n.x, m.y = n.y, m.left = n.left
  PROVE  m = n
<1>1. /\ m = [x |-> m.x, y |-> m.y, left |-> m.left]
      /\ n = [x |-> n.x, y |-> n.y, left |-> n.left]
  BY DEF Mice
<1> QED BY <1>1

\* What the parts of the invariant read.
LEMMA Unchanged ==
  ASSUME LoopInv, UNCHANGED loopvars
  PROVE  LoopInv'
BY DEF LoopInv, TypeOK, FieldsRead, NoLostKey, TicksNotMissed, loopvars,
  shared, drawn, buffers

\* What the ticks are compared with.
LEMMA TicksAreNumbers ==
  ASSUME TypeOK
  PROVE  timer_ticks \in Nat /\ last_ticks \in Nat /\ tick_text \in Nat /\ MaxTicks \in Nat
BY RenderAssumption DEF TypeOK

\* A handler sets the flag with what it changes.
LEMMA HandlersKeep ==
  ASSUME LoopInv,
    MouseInterrupt \/ KeyboardInterrupt \/ TimerInterrupt
  PROVE  LoopInv'
<1>1. CASE MouseInterrupt
  BY <1>1 DEF MouseInterrupt, LoopInv, TypeOK, FieldsRead, NoLostKey,
    TicksNotMissed, drawn, buffers
<1>2. CASE KeyboardInterrupt
  BY <1>2 DEF KeyboardInterrupt, LoopInv, TypeOK, FieldsRead, NoLostKey,
    TicksNotMissed, drawn, buffers
<1>3. CASE TimerInterrupt
  <2>1. /\ timer_ticks \in Nat /\ last_ticks \in Nat /\ tick_text \in Nat /\ MaxTicks \in Nat
        /\ last_ticks <= timer_ticks /\ tick_text <= timer_ticks
    BY TicksAreNumbers DEF LoopInv, TicksNotMissed
  <2>2. /\ timer_ticks < MaxTicks /\ timer_ticks' = timer_ticks + 1
        /\ tick_text' = tick_text /\ last_ticks' = last_ticks
    BY <1>3 DEF TimerInterrupt, drawn
  <2>3. /\ timer_ticks' \in 0 .. MaxTicks
        /\ last_ticks' <= timer_ticks' /\ tick_text' <= timer_ticks'
    BY <2>1, <2>2
  <2>4. TicksNotMissed'
    BY <1>3, <2>2, <2>3 DEF TimerInterrupt, LoopInv, TicksNotMissed
  <2> QED
    BY <1>3, <2>3, <2>4 DEF TimerInterrupt, LoopInv, TypeOK, FieldsRead,
      NoLostKey, drawn, buffers
<1> QED BY <1>1, <1>2, <1>3

\* render_mouse(): the flag is cleared, then one field is read after the other.
LEMMA RenderMouseKeeps ==
  ASSUME LoopInv, RenderMouse
  PROVE  LoopInv'
<1> USE DEF LoopInv, drawn, buffers, shared
<1>1. CASE SeeMoved
  BY <1>1 DEF SeeMoved, TypeOK, Steps, FieldsRead, NoLostKey,
    TicksNotMissed
<1>2. CASE DrawRect
  <2>1. mouse \in Mice /\ cursor \in Mice
    BY DEF TypeOK
  <2>2. cursor' \in Mice /\ pc' \in Steps
    BY <1>2, <2>1 DEF DrawRect, RectField, Goto, Mice, Steps
  <2>3. FieldsRead'
    BY <1>2, <2>1 DEF DrawRect, RectField, Goto, FieldsRead, Mice
  <2>4. NoLostKey' /\ TicksNotMissed'
    BY <1>2 DEF DrawRect, RectField, Goto, NoLostKey,
      TicksNotMissed
  <2> QED BY <1>2, <2>2, <2>3, <2>4 DEF DrawRect, RectField, TypeOK
<1>3. CASE DrawImage
  <2>1. mouse \in Mice /\ image \in [x : 0 .. Width - 1, y : 0 .. Height - 1]
    BY DEF TypeOK
  <2>2. image' \in [x : 0 .. Width - 1, y : 0 .. Height - 1] /\ pc' \in Steps
    BY <1>3, <2>1 DEF DrawImage, Goto, Mice, Steps
  <2>3. FieldsRead'
    BY <1>3, <2>1 DEF DrawImage, Goto, FieldsRead, Mice
  <2>4. NoLostKey' /\ TicksNotMissed'
    BY <1>3 DEF DrawImage, Goto, NoLostKey, TicksNotMissed
  <2> QED BY <1>3, <2>2, <2>3, <2>4 DEF DrawImage, Goto, TypeOK
<1> QED BY <1>1, <1>2, <1>3 DEF RenderMouse

\* render_ticks(): what is remembered is no newer than what is drawn after it.
LEMMA RenderTicksKeeps ==
  ASSUME LoopInv, RenderTicks
  PROVE  LoopInv'
<1>1. /\ timer_ticks \in Nat /\ last_ticks \in Nat /\ tick_text \in Nat /\ MaxTicks \in Nat
      /\ last_ticks <= timer_ticks /\ tick_text <= timer_ticks
  BY TicksAreNumbers DEF LoopInv, TicksNotMissed
<1>2. CASE SeeTicks
  BY <1>2 DEF SeeTicks, LoopInv, TypeOK, Steps, FieldsRead,
    NoLostKey, TicksNotMissed, shared, drawn,
     buffers
<1>3. CASE RememberTicks("last ticks", "draw ticks")
  <2>1. /\ last_ticks' = timer_ticks /\ pc' = "draw ticks" /\ pc = "last ticks"
        /\ UNCHANGED <<shared, drawn, buffers>>
    BY <1>3 DEF RememberTicks, Goto
  <2>2. timer_ticks' = timer_ticks /\ last_ticks' = timer_ticks /\ tick_text' = tick_text
    BY <2>1 DEF shared, drawn
  <2>3. last_ticks' <= timer_ticks' /\ tick_text' <= timer_ticks'
    BY <1>1, <2>2
  <2>4. TicksNotMissed'
    BY <2>1, <2>3 DEF TicksNotMissed
  <2> QED
    BY <2>1, <2>3, <2>4 DEF LoopInv, TypeOK, Steps, FieldsRead, NoLostKey,
      shared, drawn, buffers
<1>4. CASE DrawTicks("draw ticks", "pressed?")
  <2>1. /\ tick_text' = timer_ticks /\ pc' = "pressed?" /\ pc = "draw ticks"
        /\ UNCHANGED <<shared, cursor, image, key_text, last_ticks, buffers>>
    BY <1>4 DEF DrawTicks, Goto
  <2>2. timer_ticks' = timer_ticks /\ last_ticks' = last_ticks /\ tick_text' = timer_ticks
    BY <2>1 DEF shared
  <2>3. last_ticks' <= timer_ticks' /\ tick_text' <= timer_ticks' /\ last_ticks' <= tick_text'
    BY <1>1, <2>2
  <2>4. TicksNotMissed'
    BY <2>3 DEF TicksNotMissed
  <2> QED
    BY <2>1, <2>3, <2>4 DEF LoopInv, TypeOK, Steps, FieldsRead, NoLostKey,
      shared, buffers
<1> QED BY <1>2, <1>3, <1>4 DEF RenderTicks

\* The other steps of the loop.
LEMMA OthersKeep ==
  ASSUME LoopInv, Clear \/ RenderKeypress \/ Update
  PROVE  LoopInv'
<1> USE DEF LoopInv, TypeOK, drawn, buffers, shared, Goto,
  Steps, FieldsRead, NoLostKey, TicksNotMissed
<1>1. CASE Clear
  BY <1>1 DEF Clear
<1>2. CASE RenderKeypress
  BY <1>2 DEF RenderKeypress, SeePressed, DrawKey
<1>3. CASE Update
  BY <1>3 DEF Update
<1> QED BY <1>1, <1>2, <1>3

\* The invariant of the loop and its handlers.
LEMMA LoopInvHolds == RenderSpec => []LoopInv
<1>1. RenderInit => LoopInv
  <2> SUFFICES ASSUME RenderInit PROVE LoopInv
    OBVIOUS
  <2>1. mouse \in Mice /\ cursor \in Mice
    BY RenderAssumption DEF RenderInit, Mice
  <2>2. cursor = mouse /\ image.x = mouse.x /\ image.y = mouse.y
    BY DEF RenderInit
  <2>3. image \in [x : 0 .. Width - 1, y : 0 .. Height - 1] /\ 0 \in 0 .. MaxTicks
    BY RenderAssumption DEF RenderInit
  <2>4. TypeOK
    BY <2>1, <2>3 DEF RenderInit, TypeOK, Steps
  <2>5. FieldsRead
    BY <2>2 DEF FieldsRead
  <2> QED
    BY <2>4, <2>5 DEF RenderInit, LoopInv, NoLostKey, TicksNotMissed
<1>2. LoopInv /\ [RenderNext]_loopvars => LoopInv'
  BY Unchanged, HandlersKeep, RenderMouseKeeps, RenderTicksKeeps, OthersKeep DEF RenderNext,
    Loop
<1> QED BY <1>1, <1>2, PTL DEF RenderSpec

\* Every variable stays within its type, the cursor on the screen.
LEMMA LoopTypes == RenderSpec => []TypeOK
<1>1. LoopInv => TypeOK
  BY DEF LoopInv
<1> QED BY <1>1, LoopInvHolds, PTL

\* render_mouse() loses no movement: the flag is cleared before the fields are read, so
\* that a movement in their midst has it set again.
THEOREM MovesKept == RenderSpec => []NoLostMove
<1>1. LoopInv => NoLostMove
  <2> SUFFICES ASSUME LoopInv, ~moved,
                      pc \notin {"rect left", "rect x", "rect y", "image x", "image y"}
               PROVE  cursor = mouse /\ image.x = mouse.x /\ image.y = mouse.y
    BY DEF NoLostMove
  <2>1. cursor \in Mice /\ mouse \in Mice
    BY DEF LoopInv, TypeOK
  <2>2. /\ cursor.left = mouse.left /\ cursor.x = mouse.x /\ cursor.y = mouse.y
        /\ image.x = mouse.x /\ image.y = mouse.y
    BY DEF LoopInv, FieldsRead
  <2>3. cursor = mouse
    BY <2>1, <2>2, SameMouse
  <2> QED BY <2>2, <2>3
<1> QED BY <1>1, LoopInvHolds, PTL

\* render_keypress() loses no key but to a later one.
THEOREM KeysKept == RenderSpec => []NoLostKey
<1>1. LoopInv => NoLostKey
  BY DEF LoopInv
<1> QED BY <1>1, LoopInvHolds, PTL

\* render_ticks() draws again whatever it drew too early.
THEOREM TicksKept == RenderSpec => []TicksNotMissed
<1>1. LoopInv => TicksNotMissed
  BY DEF LoopInv
<1> QED BY <1>1, LoopInvHolds, PTL

\* Together: whatever the handlers announce reaches the picture, at any point of the
\* loop at which they may interrupt it.
THEOREM AllKept == RenderSpec => []NothingMissed
BY MovesKept, KeysKept, TicksKept, PTL DEF NothingMissed
=============================================================================
