----------------------------- MODULE PS2_proofs -----------------------------
(***************************************************************************)
(* Proofs about PS2, for every screen, every packet the mouse may report,  *)
(* every key, and a boot loader that left any configuration.  init()       *)
(* undisturbed reads the very bytes that it waits for (Control), so that   *)
(* the mouse's bytes which are left (Pending) are whole packets from the   *)
(* driver's cycle on, and lead from its position to the one the mouse      *)
(* reported (Stream).  The three invariants that the run checks follow.    *)
(***************************************************************************)
EXTENDS PS2, SequenceTheorems, TLAPS

-----------------------------------------------------------------------------
(* The bytes of reports under way *)

\* A position with a packet of three bytes added to it.
Moved(s, a, b, c) ==
  [x |-> Clamp(s.x + Signed(b, Bit(a, 4)), SCREEN_W),
   y |-> Clamp(s.y - Signed(c, Bit(a, 5)), SCREEN_H),
   left |-> Bit(a, 0), right |-> Bit(a, 1)]

\* The x-th byte not accounted for in the driver's position: c of them are in its
\* packet pk, the others are to come, in P.
Nth(P, c, pk, x) == IF x <= c THEN pk[x] ELSE P[x - c][3]

\* K whole packets lead from position m to position a, through the positions st.
Path(P, c, pk, m, a, K, st) ==
  /\ c + Len(P) = 3 * K /\ st[0] = m /\ st[K] = a
  /\ \A z \in 0 .. K - 1 :
       /\ Bit(Nth(P, c, pk, 3 * z + 1), 3)
       /\ st[z + 1] = Moved(st[z], Nth(P, c, pk, 3 * z + 1), Nth(P, c, pk, 3 * z + 2),
                            Nth(P, c, pk, 3 * z + 3))
InOrder(P, c) == \A x \in 1 .. Len(P) : P[x][2] = ((c + x - 1) % 3) + 1
AddsUp(P, c, pk, m, a) ==
  InOrder(P, c) /\ \E K \in Nat : \E st : Path(P, c, pk, m, a, K, st)

\* A report appends a packet and moves the end of the path.
LEMMA ReportAddsUp ==
  ASSUME NEW T, NEW P \in Seq(T), NEW c \in 0 .. 2, NEW pk, NEW m, NEW a, AddsUp(P, c, pk, m, a),
         NEW p, Bit(p[1], 3), NEW Q \in Seq(T), Len(Q) = 3,
         \A i \in 1 .. 3 : Q[i][2] = i /\ Q[i][3] = p[i]
  PROVE  AddsUp(P \o Q, c, pk, m, Moved(a, p[1], p[2], p[3]))
<1>0. PICK K \in Nat : \E st : Path(P, c, pk, m, a, K, st)
  BY DEF AddsUp
<1>1. PICK st : Path(P, c, pk, m, a, K, st)
  BY <1>0
<1> DEFINE R == P \o Q
           b == Moved(a, p[1], p[2], p[3])
           tr == [z \in 0 .. K + 1 |-> IF z <= K THEN st[z] ELSE b]
<1>2. Len(P) \in Nat /\ c + Len(P) = 3 * K /\ st[0] = m /\ st[K] = a
  BY <1>1, LenProperties DEF Path
<1>3. Len(R) = Len(P) + 3
  <2>1. Len(R) = Len(P) + Len(Q)
    BY ConcatProperties
  <2> HIDE DEF R
  <2>2. QED BY <2>1
<1>4. /\ \A x \in 1 .. Len(P) : R[x] = P[x]
      /\ \A i \in 1 .. 3 : R[Len(P) + i][2] = i /\ R[Len(P) + i][3] = p[i]
  <2>1. \A x \in 1 .. Len(P) + Len(Q) : R[x] = IF x <= Len(P) THEN P[x] ELSE Q[x - Len(P)]
    BY ConcatProperties
  <2> HIDE DEF R
  <2>2. \A x \in 1 .. Len(P) : R[x] = P[x]
    BY <1>2, <2>1
  <2>3. ASSUME NEW i \in 1 .. 3 PROVE R[Len(P) + i] = Q[i]
    <3>1. Len(P) + i \in 1 .. Len(P) + Len(Q) /\ ~(Len(P) + i <= Len(P)) /\ (Len(P) + i) - Len(P) = i
      BY <1>2
    <3>2. QED BY <2>1, <3>1
  <2>4. QED BY <2>2, <2>3
<1> HIDE DEF R, b
<1>5. InOrder(R, c)
  <2> SUFFICES ASSUME NEW x \in 1 .. Len(R) PROVE R[x][2] = ((c + x - 1) % 3) + 1
    BY DEF InOrder
  <2>1. \/ x \in 1 .. Len(P)
        \/ x = Len(P) + 1 \/ x = Len(P) + 2 \/ x = Len(P) + 3
    BY <1>2, <1>3
  <2>2. CASE x \in 1 .. Len(P)
    <3>1. P[x][2] = ((c + x - 1) % 3) + 1
      BY <2>2 DEF AddsUp, InOrder
    <3>2. QED BY <1>4, <2>2, <3>1
  <2>3. ASSUME NEW i \in 0 .. 2, x = Len(P) + i + 1 PROVE (c + x - 1) % 3 = i
    <3>1. c + x - 1 = 3 * K + i
      BY <1>2, <1>3, <2>3
    <3>2. (3 * K + i) % 3 = i
      OBVIOUS
    <3>3. QED BY <3>1, <3>2
  <2>4. CASE x = Len(P) + 1
    <3>1. x = Len(P) + 0 + 1
      BY <1>2, <2>4
    <3>2. (c + x - 1) % 3 = 0
      BY <2>3, <3>1
    <3>3. R[x][2] = 1
      BY <1>4, <2>4
    <3>4. QED BY <3>2, <3>3
  <2>5. CASE x = Len(P) + 2
    <3>1. x = Len(P) + 1 + 1
      BY <1>2, <2>5
    <3>2. (c + x - 1) % 3 = 1
      BY <2>3, <3>1
    <3>3. R[x][2] = 2
      BY <1>4, <2>5
    <3>4. QED BY <3>2, <3>3
  <2>6. CASE x = Len(P) + 3
    <3>1. x = Len(P) + 2 + 1
      BY <1>2, <2>6
    <3>2. (c + x - 1) % 3 = 2
      BY <2>3, <3>1
    <3>3. R[x][2] = 3
      BY <1>4, <2>6
    <3>4. QED BY <3>2, <3>3
  <2>7. QED BY <2>1, <2>2, <2>4, <2>5, <2>6
<1>6. \A x \in 1 .. 3 * K : Nth(R, c, pk, x) = Nth(P, c, pk, x)
  <2> SUFFICES ASSUME NEW x \in 1 .. 3 * K, ~(x <= c) PROVE Nth(R, c, pk, x) = Nth(P, c, pk, x)
    BY DEF Nth
  <2>1. x - c \in 1 .. Len(P)
    BY <1>2
  <2>2. QED BY <1>4, <2>1 DEF Nth
<1>7. ASSUME NEW i \in 1 .. 3 PROVE Nth(R, c, pk, 3 * K + i) = R[Len(P) + i][3]
  <2>1. (3 * K + i) - c = Len(P) + i /\ ~(3 * K + i <= c)
    BY <1>2
  <2>2. QED BY <2>1 DEF Nth
<1>8. Path(R, c, pk, m, b, K + 1, tr)
  <2>1. c + Len(R) = 3 * (K + 1)
    BY <1>2, <1>3
  <2>2. tr[0] = m /\ tr[K + 1] = b
    BY <1>2
  <2>3. ASSUME NEW z \in 0 .. K
        PROVE  /\ Bit(Nth(R, c, pk, 3 * z + 1), 3)
               /\ tr[z + 1] = Moved(tr[z], Nth(R, c, pk, 3 * z + 1), Nth(R, c, pk, 3 * z + 2),
                                    Nth(R, c, pk, 3 * z + 3))
    <3>1. CASE z < K
      <4>1. 3 * z + 1 \in 1 .. 3 * K /\ 3 * z + 2 \in 1 .. 3 * K /\ 3 * z + 3 \in 1 .. 3 * K
        BY <3>1
      <4>2. tr[z] = st[z] /\ tr[z + 1] = st[z + 1] /\ z \in 0 .. K - 1
        BY <3>1
      <4>3. QED BY <1>1, <1>6, <4>1, <4>2 DEF Path
    <3>2. CASE z = K
      <4>1. tr[z] = a /\ tr[z + 1] = b
        BY <1>2, <3>2
      <4>2. /\ Nth(R, c, pk, 3 * z + 1) = p[1] /\ Nth(R, c, pk, 3 * z + 2) = p[2]
            /\ Nth(R, c, pk, 3 * z + 3) = p[3]
        BY <1>4, <1>7, <3>2
      <4>3. QED BY <4>1, <4>2 DEF b
    <3>3. QED BY <3>1, <3>2
  <2> HIDE DEF tr
  <2>4. K + 1 - 1 = K /\ K + 1 \in Nat
    OBVIOUS
  <2>5. QED BY <2>1, <2>2, <2>3, <2>4 DEF Path
<1>9. QED BY <1>5, <1>8 DEF AddsUp, R, b

\* The driver takes the first byte under way into its packet, or with the third byte
\* of a packet into its position.
LEMMA TakeAddsUp ==
  ASSUME NEW T, NEW P \in Seq(T), P # <<>>, NEW c \in 0 .. 2, NEW pk, NEW m, NEW a,
         AddsUp(P, c, pk, m, a), DOMAIN pk = 1 .. 3
  PROVE  LET b == Head(P)[3]
             up == [pk EXCEPT ![c + 1] = b]
         IN  /\ Head(P)[2] = c + 1
             /\ c = 0 => Bit(b, 3)
             /\ c # 2 => AddsUp(Tail(P), c + 1, up, m, a)
             /\ c = 2 => AddsUp(Tail(P), 0, up, Moved(m, pk[1], pk[2], b), a)
<1> DEFINE b == Head(P)[3]
           up == [pk EXCEPT ![c + 1] = b]
           R == Tail(P)
<1>0. PICK K \in Nat : \E st : Path(P, c, pk, m, a, K, st)
  BY DEF AddsUp
<1>1. PICK st : Path(P, c, pk, m, a, K, st)
  BY <1>0
<1>2. /\ Len(P) \in Nat /\ Len(P) > 0 /\ Len(R) = Len(P) - 1 /\ c + Len(P) = 3 * K
      /\ \A x \in 1 .. Len(R) : R[x] = P[x + 1]
      /\ b = P[1][3] /\ Head(P) = P[1]
  BY <1>1 DEF Path
<1>3. K >= 1 /\ 0 \in 0 .. K - 1
  BY <1>2
<1>4. Head(P)[2] = c + 1
  <2>1. P[1][2] = ((c + 1 - 1) % 3) + 1
    BY <1>2 DEF AddsUp, InOrder
  <2>2. (c + 1 - 1) % 3 = c
    OBVIOUS
  <2>3. QED BY <1>2, <2>1, <2>2
<1>5. c = 0 => Bit(b, 3)
  <2>1. Bit(Nth(P, c, pk, 3 * 0 + 1), 3)
    BY <1>1, <1>3 DEF Path
  <2>2. c = 0 => Nth(P, c, pk, 3 * 0 + 1) = b
    BY <1>2 DEF Nth
  <2>3. QED BY <2>1, <2>2
<1> HIDE DEF R, b
<1>6. \A x \in 1 .. 3 : up[x] = IF x = c + 1 THEN b ELSE pk[x]
  OBVIOUS
<1> HIDE DEF up
<1>7. CASE c # 2
  <2>1. InOrder(R, c + 1)
    <3> SUFFICES ASSUME NEW x \in 1 .. Len(R) PROVE R[x][2] = ((c + 1 + x - 1) % 3) + 1
      BY DEF InOrder
    <3>1. P[x + 1][2] = ((c + (x + 1) - 1) % 3) + 1
      BY <1>2 DEF AddsUp, InOrder
    <3>2. c + (x + 1) - 1 = c + 1 + x - 1
      OBVIOUS
    <3>3. QED BY <1>2, <3>1, <3>2
  <2>2. \A x \in 1 .. 3 * K : Nth(R, c + 1, up, x) = Nth(P, c, pk, x)
    <3> SUFFICES ASSUME NEW x \in 1 .. 3 * K PROVE Nth(R, c + 1, up, x) = Nth(P, c, pk, x)
      OBVIOUS
    <3>1. CASE x <= c
      BY <1>6, <1>7, <3>1 DEF Nth
    <3>2. CASE x = c + 1
      BY <1>2, <1>6, <1>7, <3>2 DEF Nth
    <3>3. CASE x > c + 1
      <4>1. x - (c + 1) \in 1 .. Len(R) /\ x - (c + 1) + 1 = x - c
        BY <1>2, <3>3
      <4>2. QED BY <1>2, <3>3, <4>1 DEF Nth
    <3>4. QED BY <3>1, <3>2, <3>3
  <2>3. Path(R, c + 1, up, m, a, K, st)
    <3>1. c + 1 + Len(R) = 3 * K
      BY <1>2
    <3>2. \A z \in 0 .. K - 1 : /\ 3 * z + 1 \in 1 .. 3 * K /\ 3 * z + 2 \in 1 .. 3 * K
                                /\ 3 * z + 3 \in 1 .. 3 * K
      OBVIOUS
    <3>3. QED BY <1>1, <2>2, <3>1, <3>2 DEF Path
  <2>4. AddsUp(R, c + 1, up, m, a)
    BY <2>1, <2>3 DEF AddsUp
  <2>5. QED BY <1>4, <1>5, <1>7, <2>4 DEF R, up, b
<1>8. CASE c = 2
  <2> DEFINE tr == [z \in 0 .. K - 1 |-> st[z + 1]]
             q == Moved(m, pk[1], pk[2], b)
  <2>1. InOrder(R, 0)
    <3> SUFFICES ASSUME NEW x \in 1 .. Len(R) PROVE R[x][2] = ((0 + x - 1) % 3) + 1
      BY DEF InOrder
    <3>1. P[x + 1][2] = ((c + (x + 1) - 1) % 3) + 1
      BY <1>2 DEF AddsUp, InOrder
    <3>2. (c + (x + 1) - 1) % 3 = (0 + x - 1) % 3
      BY <1>2, <1>8
    <3>3. QED BY <1>2, <3>1, <3>2
  <2>2. \A x \in 1 .. 3 * (K - 1) : Nth(R, 0, up, x) = Nth(P, c, pk, x + 3)
    <3> SUFFICES ASSUME NEW x \in 1 .. 3 * (K - 1) PROVE Nth(R, 0, up, x) = Nth(P, c, pk, x + 3)
      OBVIOUS
    <3>1. x \in 1 .. Len(R) /\ x + 3 - c = x + 1 /\ ~(x <= 0) /\ ~(x + 3 <= c) /\ x - 0 = x
      BY <1>2, <1>8
    <3>2. QED BY <1>2, <3>1 DEF Nth
  <2>3. st[1] = q
    <3>1. st[0 + 1] = Moved(st[0], Nth(P, c, pk, 3 * 0 + 1), Nth(P, c, pk, 3 * 0 + 2),
                            Nth(P, c, pk, 3 * 0 + 3))
      BY <1>1, <1>3 DEF Path
    <3>2. Nth(P, c, pk, 1) = pk[1] /\ Nth(P, c, pk, 2) = pk[2] /\ Nth(P, c, pk, 3) = b
      BY <1>2, <1>8 DEF Nth
    <3>3. st[0] = m
      BY <1>1 DEF Path
    <3>4. QED BY <3>1, <3>2, <3>3
  <2> HIDE DEF q
  <2>4. Path(R, 0, up, q, a, K - 1, tr)
    <3>1. 0 + Len(R) = 3 * (K - 1) /\ tr[0] = q /\ tr[K - 1] = a
      BY <1>1, <1>2, <1>3, <1>8, <2>3 DEF Path
    <3>2. ASSUME NEW z \in 0 .. K - 1 - 1
          PROVE  /\ Bit(Nth(R, 0, up, 3 * z + 1), 3)
                 /\ tr[z + 1] = Moved(tr[z], Nth(R, 0, up, 3 * z + 1), Nth(R, 0, up, 3 * z + 2),
                                      Nth(R, 0, up, 3 * z + 3))
      <4>1. /\ 3 * z + 1 \in 1 .. 3 * (K - 1) /\ 3 * z + 2 \in 1 .. 3 * (K - 1)
            /\ 3 * z + 3 \in 1 .. 3 * (K - 1) /\ z + 1 \in 0 .. K - 1
            /\ (3 * z + 1) + 3 = 3 * (z + 1) + 1 /\ (3 * z + 2) + 3 = 3 * (z + 1) + 2
            /\ (3 * z + 3) + 3 = 3 * (z + 1) + 3
        OBVIOUS
      <4>2. tr[z] = st[z + 1] /\ tr[z + 1] = st[(z + 1) + 1]
        OBVIOUS
      <4>3. QED BY <1>1, <2>2, <4>1, <4>2 DEF Path
    <3> HIDE DEF tr
    <3>3. QED BY <3>1, <3>2 DEF Path
  <2>5. AddsUp(R, 0, up, q, a)
    BY <1>3, <2>1, <2>4 DEF AddsUp
  <2>6. QED BY <1>4, <1>5, <1>8, <2>5 DEF R, up, b, q
<1>9. QED BY <1>7, <1>8

\* With nothing to come, and no packet begun, the driver is where the reports lead.
LEMMA NothingAddsUp ==
  ASSUME NEW pk, NEW m, NEW a
  PROVE  AddsUp(<<>>, 0, pk, m, a) <=> m = a
<1>1. ASSUME AddsUp(<<>>, 0, pk, m, a) PROVE m = a
  <2>0. PICK K \in Nat : \E st : Path(<<>>, 0, pk, m, a, K, st)
    BY <1>1 DEF AddsUp
  <2>1. PICK st : Path(<<>>, 0, pk, m, a, K, st)
    BY <2>0
  <2>2. QED BY <2>1 DEF Path
<1>2. ASSUME m = a PROVE AddsUp(<<>>, 0, pk, m, a)
  <2>1. Path(<<>>, 0, pk, m, a, 0, [z \in {0} |-> m])
    BY <1>2 DEF Path
  <2>2. QED BY <2>1 DEF AddsUp, InOrder
<1>3. QED BY <1>1, <1>2

-----------------------------------------------------------------------------
(* What is to come *)

Parts == (0 .. 3) \X Byte
Marked == {"mouse"} \X (0 .. 3) \X Byte
Marks(s) == [j \in DOMAIN s |-> <<"mouse", s[j][1], s[j][2]>>]
ComingOf(b, s) == (IF b # <<>> /\ Head(b)[1] = "mouse" THEN b ELSE <<>>) \o Marks(s)

\* Coming, as a function of the buffer and the bytes sent.
LEMMA ComingSpelledOut == Coming = ComingOf(buffer, sent)
BY DEF Coming, FromMouse, ComingOf, Marks

\* Marking keeps the number of the bytes and their order.
LEMMA MarksTyped ==
  ASSUME NEW s \in Seq(Parts)
  PROVE  /\ Marks(s) \in Seq(Marked) /\ Len(Marks(s)) = Len(s)
         /\ \A j \in 1 .. Len(s) : Marks(s)[j] = <<"mouse", s[j][1], s[j][2]>>
<1>1. Len(s) \in Nat /\ DOMAIN s = 1 .. Len(s) /\ \A j \in 1 .. Len(s) : s[j] \in Parts
  BY LenProperties, ElementOfSeq
<1>2. \A j \in 1 .. Len(s) : <<"mouse", s[j][1], s[j][2]>> \in Marked
  BY <1>1 DEF Parts, Marked
<1>3. Marks(s) = [j \in 1 .. Len(s) |-> <<"mouse", s[j][1], s[j][2]>>]
  BY <1>1 DEF Marks
<1> HIDE DEF Marks
<1>4. Marks(s) \in [1 .. Len(s) -> Marked]
  BY <1>2, <1>3
<1>5. Marks(s) \in Seq(Marked)
  BY <1>1, <1>4, SeqDef
<1>6. DOMAIN Marks(s) = 1 .. Len(s)
  BY <1>3
<1>7. Len(Marks(s)) = Len(s)
  <2>1. DOMAIN Marks(s) = 1 .. Len(Marks(s)) /\ Len(Marks(s)) \in Nat
    BY <1>5, LenProperties
  <2>2. QED BY <1>1, <1>6, <2>1
<1>8. QED BY <1>3, <1>5, <1>7

\* Nothing marked is nothing.
LEMMA MarksOfNothing == Marks(<<>>) = <<>>
<1>1. <<>> \in Seq(Parts)
  OBVIOUS
<1>2. Marks(<<>>) \in Seq(Marked) /\ Len(Marks(<<>>)) = 0
  BY <1>1, MarksTyped
<1>3. QED BY <1>2, EmptySeq

\* Bytes appended are marked like the rest.
LEMMA MarksConcat ==
  ASSUME NEW s \in Seq(Parts), NEW t \in Seq(Parts)
  PROVE  Marks(s \o t) = Marks(s) \o Marks(t)
<1> DEFINE u == s \o t
           v == Marks(s) \o Marks(t)
<1>1. u \in Seq(Parts) /\ Len(u) = Len(s) + Len(t) /\ Len(s) \in Nat /\ Len(t) \in Nat
  BY ConcatProperties, LenProperties
<1>2. \A j \in 1 .. Len(s) + Len(t) : u[j] = IF j <= Len(s) THEN s[j] ELSE t[j - Len(s)]
  BY ConcatProperties
<1>3. /\ Marks(u) \in Seq(Marked) /\ Len(Marks(u)) = Len(u)
      /\ \A j \in 1 .. Len(u) : Marks(u)[j] = <<"mouse", u[j][1], u[j][2]>>
  BY <1>1, MarksTyped
<1>4. /\ Marks(s) \in Seq(Marked) /\ Len(Marks(s)) = Len(s)
      /\ \A j \in 1 .. Len(s) : Marks(s)[j] = <<"mouse", s[j][1], s[j][2]>>
  BY MarksTyped
<1>5. /\ Marks(t) \in Seq(Marked) /\ Len(Marks(t)) = Len(t)
      /\ \A j \in 1 .. Len(t) : Marks(t)[j] = <<"mouse", t[j][1], t[j][2]>>
  BY MarksTyped
<1>6. v \in Seq(Marked) /\ Len(v) = Len(Marks(s)) + Len(Marks(t))
  BY <1>4, <1>5, ConcatProperties
<1>7. \A j \in 1 .. Len(Marks(s)) + Len(Marks(t)) :
        v[j] = IF j <= Len(Marks(s)) THEN Marks(s)[j] ELSE Marks(t)[j - Len(Marks(s))]
  BY <1>4, <1>5, ConcatProperties
<1> HIDE DEF u, v
<1>8. ASSUME NEW j \in 1 .. Len(u) PROVE Marks(u)[j] = v[j]
  <2>1. CASE j <= Len(s)
    <3>1. j \in 1 .. Len(s)
      BY <1>1, <2>1
    <3>2. QED BY <1>1, <1>2, <1>3, <1>4, <1>5, <1>7, <2>1, <3>1
  <2>2. CASE ~(j <= Len(s))
    <3>1. j - Len(s) \in 1 .. Len(t)
      BY <1>1, <2>2
    <3>2. QED BY <1>1, <1>2, <1>3, <1>4, <1>5, <1>7, <2>2, <3>1
  <2>3. QED BY <2>1, <2>2
<1>9. QED BY <1>1, <1>3, <1>4, <1>5, <1>6, <1>8, SeqEqual DEF u, v

\* The first byte sent, marked, and the rest.
LEMMA MarksHeadTail ==
  ASSUME NEW s \in Seq(Parts), s # <<>>
  PROVE  <<<<"mouse", Head(s)[1], Head(s)[2]>>>> \o Marks(Tail(s)) = Marks(s)
<1> DEFINE h == <<<<"mouse", Head(s)[1], Head(s)[2]>>>>
           v == h \o Marks(Tail(s))
<1>1. /\ Head(s) \in Parts /\ Tail(s) \in Seq(Parts) /\ Len(Tail(s)) = Len(s) - 1
      /\ \A i \in 1 .. Len(Tail(s)) : Tail(s)[i] = s[i + 1]
  BY HeadTailProperties
<1>2. Head(s) = s[1] /\ Len(s) \in Nat /\ Len(s) >= 1
  BY EmptySeq, LenProperties
<1>3. /\ Marks(s) \in Seq(Marked) /\ Len(Marks(s)) = Len(s)
      /\ \A j \in 1 .. Len(s) : Marks(s)[j] = <<"mouse", s[j][1], s[j][2]>>
  BY MarksTyped
<1>4. /\ Marks(Tail(s)) \in Seq(Marked) /\ Len(Marks(Tail(s))) = Len(s) - 1
      /\ \A j \in 1 .. Len(s) - 1 : Marks(Tail(s))[j] = <<"mouse", s[j + 1][1], s[j + 1][2]>>
  <2>1. /\ Marks(Tail(s)) \in Seq(Marked) /\ Len(Marks(Tail(s))) = Len(Tail(s))
        /\ \A j \in 1 .. Len(Tail(s)) : Marks(Tail(s))[j] = <<"mouse", Tail(s)[j][1], Tail(s)[j][2]>>
    BY <1>1, MarksTyped
  <2>2. QED BY <1>1, <2>1
<1>5. h \in Seq(Marked) /\ Len(h) = 1 /\ h[1] = <<"mouse", s[1][1], s[1][2]>>
  BY <1>1, <1>2 DEF Parts, Marked
<1> HIDE DEF h
<1>6. v \in Seq(Marked) /\ Len(v) = Len(h) + Len(Marks(Tail(s)))
  BY <1>4, <1>5, ConcatProperties
<1>7. \A j \in 1 .. Len(h) + Len(Marks(Tail(s))) :
        v[j] = IF j <= Len(h) THEN h[j] ELSE Marks(Tail(s))[j - Len(h)]
  BY <1>4, <1>5, ConcatProperties
<1> HIDE DEF v
<1>8. ASSUME NEW j \in 1 .. Len(s) PROVE v[j] = Marks(s)[j]
  <2>1. CASE j = 1
    <3>1. v[1] = h[1]
      BY <1>2, <1>4, <1>5, <1>7
    <3>2. Marks(s)[1] = <<"mouse", s[1][1], s[1][2]>>
      BY <1>2, <1>3
    <3>3. QED BY <1>5, <2>1, <3>1, <3>2
  <2>2. CASE j # 1
    <3>1. j - 1 \in 1 .. Len(s) - 1 /\ (j - 1) + 1 = j
      BY <1>2, <2>2
    <3>2. v[j] = Marks(Tail(s))[j - 1]
      BY <1>2, <1>4, <1>5, <1>7, <2>2
    <3>3. QED BY <1>3, <1>4, <3>1, <3>2
  <2>3. QED BY <2>1, <2>2
<1>9. Len(v) = Len(s)
  BY <1>2, <1>4, <1>5, <1>6
<1>10. v = Marks(s)
  BY <1>3, <1>6, <1>8, <1>9, SeqEqual
<1>11. QED BY <1>10 DEF v, h

\* The buffer's part of what is to come: nothing, or the one byte, when it is the mouse's.
LEMMA ComingCases ==
  ASSUME NEW s \in Seq(Parts)
  PROVE  /\ ComingOf(<<>>, s) = Marks(s)
         /\ \A d \in {"keyboard", "controller"}, j \in 0 .. 3, x \in Byte :
              ComingOf(<<<<d, j, x>>>>, s) = Marks(s)
         /\ \A j \in 0 .. 3, x \in Byte :
              LET b1 == <<<<"mouse", j, x>>>>
              IN  /\ ComingOf(b1, s) = b1 \o Marks(s) /\ b1 \in Seq(Marked)
                  /\ ComingOf(b1, s) # <<>>
                  /\ Head(ComingOf(b1, s)) = <<"mouse", j, x>>
                  /\ Tail(ComingOf(b1, s)) = Marks(s)
<1>1. Marks(s) \in Seq(Marked) /\ <<>> \o Marks(s) = Marks(s)
  BY MarksTyped, ConcatEmptySeq
<1>2. ComingOf(<<>>, s) = Marks(s)
  BY <1>1 DEF ComingOf
<1>3. ASSUME NEW d \in {"keyboard", "controller"}, NEW j \in 0 .. 3, NEW x \in Byte
      PROVE  ComingOf(<<<<d, j, x>>>>, s) = Marks(s)
  <2>1. Head(<<<<d, j, x>>>>)[1] # "mouse"
    OBVIOUS
  <2>2. QED BY <1>1, <2>1 DEF ComingOf
<1>4. ASSUME NEW j \in 0 .. 3, NEW x \in Byte
      PROVE  LET b1 == <<<<"mouse", j, x>>>>
             IN  /\ ComingOf(b1, s) = b1 \o Marks(s) /\ b1 \in Seq(Marked)
                 /\ ComingOf(b1, s) # <<>>
                 /\ Head(ComingOf(b1, s)) = <<"mouse", j, x>>
                 /\ Tail(ComingOf(b1, s)) = Marks(s)
  <2> DEFINE b1 == <<<<"mouse", j, x>>>>
             v == b1 \o Marks(s)
  <2>1. b1 \in Seq(Marked) /\ Len(b1) = 1 /\ b1[1] = <<"mouse", j, x>> /\ b1 # <<>> /\ Head(b1)[1] = "mouse"
    BY DEF Marked
  <2>2. ComingOf(b1, s) = v
    BY <2>1 DEF ComingOf
  <2> HIDE DEF b1
  <2>3. v \in Seq(Marked) /\ Len(v) = Len(b1) + Len(Marks(s))
    BY <1>1, <2>1, ConcatProperties
  <2>4. \A i \in 1 .. Len(b1) + Len(Marks(s)) : v[i] = IF i <= Len(b1) THEN b1[i] ELSE Marks(s)[i - Len(b1)]
    BY <1>1, <2>1, ConcatProperties
  <2> HIDE DEF v
  <2>5. Len(Marks(s)) \in Nat
    BY <1>1, LenProperties
  <2>6. v # <<>> /\ Head(v) = <<"mouse", j, x>>
    BY <2>1, <2>3, <2>4, <2>5
  <2>7. Tail(v) = Marks(s)
    <3>1. /\ Tail(v) \in Seq(Marked) /\ Len(Tail(v)) = Len(v) - 1
          /\ \A i \in 1 .. Len(Tail(v)) : Tail(v)[i] = v[i + 1]
      BY <2>3, <2>6, HeadTailProperties
    <3>2. Len(Tail(v)) = Len(Marks(s))
      BY <2>1, <2>3, <2>5, <3>1
    <3>3. ASSUME NEW i \in 1 .. Len(Marks(s)) PROVE Tail(v)[i] = Marks(s)[i]
      <4>1. i + 1 \in 1 .. Len(b1) + Len(Marks(s)) /\ ~(i + 1 <= Len(b1)) /\ (i + 1) - Len(b1) = i
        BY <2>1, <2>5
      <4>2. QED BY <2>4, <3>1, <3>2, <4>1
    <3>4. QED BY <1>1, <3>1, <3>2, <3>3, SeqEqual
  <2>8. QED BY <2>1, <2>2, <2>6, <2>7 DEF b1, v
<1>5. QED BY <1>2, <1>3, <1>4

-----------------------------------------------------------------------------
(* Types *)

\* The output buffer holds at most one byte, with the device that it comes from.
Holds(d) == \E j \in 0 .. 3, x \in Byte : buffer = <<<<d, j, x>>>>
BufferTyped == buffer = <<>> \/ \E d \in {"mouse", "keyboard", "controller"} : Holds(d)
Types == TypeOK /\ BufferTyped

\* The bits the configuration is tested for, as arithmetic.
LEMMA BitsOfByte ==
  ASSUME NEW b \in Byte
  PROVE  /\ Bit(b, 0) <=> b % 2 = 1
         /\ Bit(b, 1) <=> (b \div 2) % 2 = 1
         /\ Bit(b, 5) <=> (b \div 32) % 2 = 1
<1>1. 2 ^ 0 = 1 /\ 2 ^ 1 = 2 /\ 2 ^ 5 = 32
  OBVIOUS
<1>2. b \div 1 = b
  BY DEF Byte
<1>3. QED BY <1>1, <1>2 DEF Bit

\* What WriteConfig writes: a byte, with the mouse's interrupt on and the keyboard's
\* as it was.
LEMMA EnabledBits ==
  ASSUME NEW b \in Byte
  PROVE  Enabled(b) \in Byte /\ Bit(Enabled(b), 1) /\ (Bit(Enabled(b), 0) <=> Bit(b, 0))
<1> DEFINE e == Enabled(b)
<1>1. e = b + (IF (b \div 2) % 2 = 1 THEN 0 ELSE 2) - (IF (b \div 32) % 2 = 1 THEN 32 ELSE 0)
  BY BitsOfByte DEF Enabled
<1> HIDE DEF e
<1>2. e \in Byte
  BY <1>1 DEF Byte
<1>3. (e \div 2) % 2 = 1 /\ (e % 2 = 1 <=> b % 2 = 1)
  BY <1>1 DEF Byte
<1>4. QED BY <1>2, <1>3, BitsOfByte DEF e

\* Port 0x60 gives a byte: the one in the buffer, if there is one.
LEMMA InputByte ==
  ASSUME Types
  PROVE  /\ Input \in Byte
         /\ buffer # <<>> => \E d \in {"mouse", "keyboard", "controller"} : Holds(d)
         /\ \A d, j, x : buffer = <<<<d, j, x>>>> => Input = x
<1>1. \A d, j, x : buffer = <<<<d, j, x>>>> => Input = x
  BY DEF Input
<1>2. CASE buffer = <<>>
  BY <1>1, <1>2 DEF Input, Types, TypeOK
<1>3. CASE buffer # <<>>
  <2>1. PICK d \in {"mouse", "keyboard", "controller"} : Holds(d)
    BY <1>3 DEF Types, BufferTyped
  <2>2. PICK j \in 0 .. 3, x \in Byte : buffer = <<<<d, j, x>>>>
    BY <2>1 DEF Holds
  <2>3. QED BY <1>1, <2>1, <2>2
<1>4. QED BY <1>2, <1>3

\* Clamping ends on the screen.
LEMMA Clamped ==
  ASSUME NEW n \in Int, NEW size \in Nat \ {0}
  PROVE  Clamp(n, size) \in 0 .. size - 1
BY DEF Clamp

\* TypeOK's conjunct on the buffer.
BufferOK ==
  buffer = <<>> \/ (Len(buffer) = 1 /\ Head(buffer) \in {"mouse", "keyboard", "controller"} \X (0 .. 3) \X Byte)

\* A byte that enters the buffer leaves it typed.
LEMMA HoldsTyped ==
  ASSUME NEW d \in {"mouse", "keyboard", "controller"}, NEW j \in 0 .. 3, NEW x \in Byte,
         buffer' = <<<<d, j, x>>>>
  PROVE  BufferTyped' /\ BufferOK'
<1>1. BufferTyped'
  BY DEF BufferTyped, Holds
<1>2. Head(buffer') = <<d, j, x>> /\ Len(buffer') = 1
  OBVIOUS
<1>3. BufferOK'
  BY <1>2 DEF BufferOK
<1>4. QED BY <1>1, <1>3

\* A buffer that is left alone stays typed.
LEMMA BufferKept ==
  ASSUME Types, buffer' = buffer
  PROVE  BufferTyped' /\ BufferOK'
<1>1. BufferTyped'
  BY DEF Types, BufferTyped, Holds
<1>2. BufferOK'
  BY DEF Types, TypeOK, BufferOK
<1>3. QED BY <1>1, <1>2

\* A completed packet leaves the pointer on the screen.
LEMMA CompleteTyped ==
  ASSUME TypeOK, NEW data \in Byte
  PROVE  Complete(data) \in [x : 0 .. SCREEN_W - 1, y : 0 .. SCREEN_H - 1, left : BOOLEAN, right : BOOLEAN]
<1>1. packet[2] \in Int /\ data \in Int /\ mouse.x \in Int /\ mouse.y \in Int
  <2>1. /\ packet \in Byte \X Byte \X Byte
        /\ mouse \in [x : 0 .. SCREEN_W - 1, y : 0 .. SCREEN_H - 1, left : BOOLEAN, right : BOOLEAN]
    BY DEF TypeOK
  <2>2. packet[2] \in Int /\ data \in Int
    BY <2>1 DEF Byte
  <2>3. mouse.x \in Int /\ mouse.y \in Int
    BY <2>1
  <2>4. QED BY <2>2, <2>3
<1>2. \A b \in Int, sign \in BOOLEAN : Signed(b, sign) \in Int
  BY DEF Signed
<1>3. \A b, n : Bit(b, n) \in BOOLEAN
  BY DEF Bit
<1>4. /\ mouse.x + Signed(packet[2], Bit(packet[1], 4)) \in Int
      /\ mouse.y - Signed(data, Bit(packet[1], 5)) \in Int
  BY <1>1, <1>2, <1>3
<1>5. QED BY <1>3, <1>4, Clamped, ScreenAssumption DEF Complete

\* PS2Mouse::handle() keeps the types of the driver's state.
LEMMA HandleTyped ==
  ASSUME TypeOK, NEW data \in Byte, Handle(data)
  PROVE  /\ cycle' \in 0 .. 2 /\ packet' \in Byte \X Byte \X Byte /\ moved' \in BOOLEAN
         /\ mouse' \in [x : 0 .. SCREEN_W - 1, y : 0 .. SCREEN_H - 1, left : BOOLEAN, right : BOOLEAN]
<1>1. CASE UNCHANGED driver
  BY <1>1 DEF TypeOK, driver
<1>2. CASE ~UNCHANGED driver
  <2>1. packet' = [packet EXCEPT ![cycle + 1] = data] /\ cycle' = (cycle + 1) % 3
    BY <1>2 DEF Handle
  <2>2. (mouse' = Complete(data) /\ moved' = TRUE) \/ UNCHANGED <<mouse, moved>>
    BY <1>2 DEF Handle
  <2>3. cycle \in 0 .. 2 /\ packet \in Byte \X Byte \X Byte
    BY DEF TypeOK
  <2>4. cycle' \in 0 .. 2
    BY <2>1, <2>3
  <2>5. packet' \in Byte \X Byte \X Byte
    <3>1. cycle + 1 = 1 \/ cycle + 1 = 2 \/ cycle + 1 = 3
      BY <2>3
    <3>2. QED BY <2>1, <2>3, <3>1
  <2>6. QED BY <2>2, <2>4, <2>5, CompleteTyped DEF TypeOK
<1>3. QED BY <1>1, <1>2

\* The mouse's bytes, with their part of a packet.
LEMMA SentTyped ==
  ASSUME TypeOK
  PROVE  sent \in Seq(Parts)
BY DEF TypeOK, Parts

\* Every step, of a disturbed init() too, keeps the types.
LEMMA TypesStep ==
  ASSUME Types, [Next]_vars
  PROVE  Types'
<1>a. TypeOK /\ sent \in Seq((0 .. 3) \X Byte)
  BY DEF Types, TypeOK
<1>b. TypeOK' /\ BufferTyped' => Types'
  BY DEF Types
<1>1. ASSUME NEW p \in Packets, Report(p) PROVE Types'
  <2>1. p \in Byte \X Byte \X Byte
    BY DeviceAssumption
  <2>2. <<<<1, p[1]>>, <<2, p[2]>>, <<3, p[3]>>>> \in Seq((0 .. 3) \X Byte)
    BY <2>1
  <2>3. sent' \in Seq((0 .. 3) \X Byte)
    BY <1>a, <1>1, <2>2, ConcatProperties DEF Report
  <2>4. BufferTyped' /\ BufferOK'
    BY <1>1, BufferKept DEF Report
  <2>5. QED BY <1>a, <1>b, <1>1, <2>3, <2>4 DEF Report, TypeOK, BufferOK, init, driver, keyboard
<1>2. ASSUME MouseByte PROVE Types'
  <2>1. Head(sent) \in Parts /\ Tail(sent) \in Seq(Parts)
    BY <1>a, <1>b, <1>2, SentTyped, HeadTailProperties DEF MouseByte
  <2>2. Head(sent)[1] \in 0 .. 3 /\ Head(sent)[2] \in Byte
    BY <2>1 DEF Parts
  <2>3. latched' \subseteq {1, 12}
    BY <1>a, <1>b, <1>2 DEF MouseByte, TypeOK
  <2>4. BufferTyped' /\ BufferOK'
    BY <1>a, <1>b, <1>2, <2>2, HoldsTyped DEF MouseByte
  <2>5. QED BY <1>a, <1>b, <1>2, <2>1, <2>3, <2>4 DEF MouseByte, TypeOK, BufferOK, init, driver, keyboard, Parts
<1>3. ASSUME NEW c \in Scancodes, Key(c) PROVE Types'
  <2>1. c \in Byte
    BY DeviceAssumption
  <2>3. BufferTyped' /\ BufferOK'
    BY <1>a, <1>b, <1>3, <2>1, HoldsTyped DEF Key
  <2>4. latched' \subseteq {1, 12}
    BY <1>a, <1>b, <1>3 DEF Key, TypeOK
  <2>5. QED BY <1>a, <1>b, <1>3, <2>3, <2>4 DEF Key, TypeOK, BufferOK, init, driver, keyboard
<1>4. ASSUME AskConfig PROVE Types'
  <2>1. config \in Byte
    BY <1>a DEF TypeOK
  <2>2. BufferTyped' /\ BufferOK'
    <3>1. buffer' = <<<<"controller", 0, config>>>>
      BY <1>4 DEF AskConfig
    <3>2. QED BY <2>1, <3>1, HoldsTyped
  <2>3. QED BY <1>a, <1>b, <1>4, <2>2 DEF AskConfig, TypeOK, BufferOK, driver, keyboard
<1>5. CASE AskConfigLate
  BY <1>a, <1>b, <1>5, BufferKept DEF AskConfigLate, TypeOK, BufferOK, devices, driver, keyboard
<1>6. ASSUME TakeByte \/ Timeout
      PROVE  buffer' = <<>> /\ port' \in Byte /\ latched' \subseteq {1, 12} /\ BufferTyped'
  BY <1>a, <1>6, InputByte DEF TakeByte, Timeout, Read, TypeOK, BufferTyped
<1>7. CASE ReadConfig
  BY <1>a, <1>b, <1>6, <1>7, InputByte DEF ReadConfig, TypeOK, driver, keyboard
<1>8. CASE WriteConfig
  <2>1. Enabled(cfg) \in Byte
    BY <1>a, EnabledBits DEF TypeOK
  <2>2. QED BY <1>a, <1>b, <1>8, <2>1, BufferKept DEF WriteConfig, TypeOK, BufferOK, devices, driver, keyboard
<1>9. ASSUME pc' \in {"F6 ack", "F4 ack"}, sent' = Append(sent, <<0, ACK>>) \/ UNCHANGED sent,
             UNCHANGED <<disturbed, config, cfg, buffer, port, latched, driver, keyboard, actual>>
      PROVE  Types'
  <2>1. sent' \in Seq((0 .. 3) \X Byte)
    <3>1. <<0, ACK>> \in (0 .. 3) \X Byte
      BY DEF ACK, Byte
    <3>2. CASE sent' = Append(sent, <<0, ACK>>)
      BY <1>a, <3>1, <3>2, AppendProperties
    <3>3. QED BY <1>a, <1>9, <3>2
  <2>2. BufferTyped' /\ BufferOK'
    BY <1>9, BufferKept
  <2>3. QED BY <1>a, <1>b, <1>9, <2>1, <2>2 DEF TypeOK, BufferOK, driver, keyboard
<1>10. ASSUME pc' \in {"F4", "sti"}, TakeByte \/ Timeout,
              UNCHANGED <<disturbed, config, cfg, sent, driver, keyboard, actual>>
       PROVE  Types'
  BY <1>a, <1>b, <1>6, <1>10 DEF TypeOK, driver, keyboard
<1>11. CASE SetDefaults \/ EnableReporting
  <2>1. CASE Command("F6", "F6 ack") \/ Command("F4", "F4 ack")
    <3>1. /\ pc' \in {"F6 ack", "F4 ack"} /\ (sent' = Append(sent, <<0, ACK>>) \/ UNCHANGED sent)
          /\ UNCHANGED <<disturbed, config, cfg, buffer, port, latched, driver, keyboard, actual>>
      BY <2>1 DEF Command
    <3>2. QED BY <1>9, <3>1
  <2>2. CASE Answer("F6 ack", "F4") \/ Answer("F4 ack", "sti")
    <3>1. /\ pc' \in {"F4", "sti"} /\ (TakeByte \/ Timeout)
          /\ UNCHANGED <<disturbed, config, cfg, sent, driver, keyboard, actual>>
      BY <2>2 DEF Answer
    <3>2. QED BY <1>10, <3>1
  <2>3. QED BY <1>11, <2>1, <2>2 DEF SetDefaults, EnableReporting, MouseCmd
<1>12. CASE Sti
  BY <1>a, <1>b, <1>12, BufferKept DEF Sti, TypeOK, BufferOK, devices, driver, keyboard
<1>13. CASE MouseInterrupt
  <2>1. port' \in Byte /\ buffer' = <<>> /\ latched' \subseteq {1, 12} /\ Handle(Input) /\ Input \in Byte
    BY <1>a, <1>b, <1>13, InputByte DEF MouseInterrupt, Read, TypeOK
  <2>2. QED BY <1>a, <1>b, <1>13, <2>1, HandleTyped DEF MouseInterrupt, TypeOK, BufferTyped, init, keyboard
<1>14. CASE KeyboardInterrupt
  <2>1. port' \in Byte /\ buffer' = <<>> /\ latched' \subseteq {1, 12} /\ HandleKey(Input) /\ Input \in Byte
    BY <1>a, <1>b, <1>14, InputByte DEF KeyboardInterrupt, Read, TypeOK
  <2>2. last_key' \in Byte /\ pressed' \in BOOLEAN
    BY <1>a, <2>1 DEF HandleKey, keyboard, TypeOK
  <2>3. QED BY <1>a, <1>b, <1>14, <2>1, <2>2 DEF KeyboardInterrupt, TypeOK, BufferTyped, init, driver
<1>15. CASE Poll
  BY <1>a, <1>b, <1>15, BufferKept DEF Poll, TypeOK, BufferOK, init
<1>16. CASE UNCHANGED vars
  BY <1>a, <1>b, <1>16, BufferKept DEF vars, TypeOK, BufferOK, init, devices, driver, keyboard
<1>17. QED BY <1>1, <1>2, <1>3, <1>4, <1>5, <1>7, <1>8, <1>11, <1>12, <1>13, <1>14, <1>15, <1>16
        DEF Next, InitStep

-----------------------------------------------------------------------------
(* init() undisturbed, and the stream of the mouse's bytes *)

\* The bytes that the driver will see; the acknowledgement that init() is waiting for
\* is not one of them.
Pending == IF pc \in {"F6 ack", "F4 ack"} THEN Tail(Coming) ELSE Coming

\* Nothing is under way; nothing but bytes of the mouse, each with its interrupt.
Silent == buffer = <<>> /\ sent = <<>> /\ latched = {}
OnTheWay == (buffer = <<>> /\ latched = {}) \/ (Holds("mouse") /\ latched = {12})

\* What the controller can hold at each step of init(), so that every byte it reads is
\* the one it waits for, and the mouse's interrupt is on when there are bytes to take.
Control ==
  /\ pc \in {"20", "60", "F6", "F4"} => Silent
  /\ pc = "20 answer" => buffer = <<<<"controller", 0, config>>>> /\ sent = <<>> /\ latched = {}
  /\ pc = "60" => cfg = config
  /\ pc \in {"F6 ack", "F4 ack", "sti"} => OnTheWay
  /\ pc = "on" => OnTheWay \/ (Holds("keyboard") /\ latched \subseteq {1})
  /\ pc = "F6 ack" => Len(Coming) = 1
  /\ pc = "F4 ack" => Coming # <<>>
  /\ pc \in {"F6", "F6 ack", "F4", "F4 ack", "sti", "on"} => Bit(config, 1)

\* The bytes to come complete the packet the driver is in, packet after packet, and
\* lead from the driver's position to the reported one.
Stream == AddsUp(Pending, cycle, packet, mouse, actual)
PInv == Types /\ (~disturbed => Control /\ Stream)

\* What is to come are bytes of the mouse: those sent, after the one in the buffer.
LEMMA ComingTyped ==
  ASSUME Types
  PROVE  /\ Coming \in Seq(Marked)
         /\ buffer = <<>> \/ Holds("keyboard") \/ Holds("controller") => Coming = Marks(sent)
<1>1. sent \in Seq(Parts)
  BY SentTyped DEF Types
<1>2. Marks(sent) \in Seq(Marked)
  BY <1>1, MarksTyped
<1>3. CASE buffer = <<>> \/ Holds("keyboard") \/ Holds("controller")
  <2>1. Coming = Marks(sent)
    BY <1>1, <1>3, ComingCases, ComingSpelledOut DEF Holds
  <2>2. QED BY <1>2, <2>1
<1>4. CASE Holds("mouse")
  <2>1. PICK j \in 0 .. 3, x \in Byte : buffer = <<<<"mouse", j, x>>>>
    BY <1>4 DEF Holds
  <2>2. Coming = buffer \o Marks(sent) /\ buffer \in Seq(Marked)
    BY <1>1, <2>1, ComingCases, ComingSpelledOut
  <2>3. Coming \in Seq(Marked)
    BY <1>2, <2>2, ConcatProperties
  <2>4. buffer # <<>> /\ ~Holds("keyboard") /\ ~Holds("controller")
    BY <2>1 DEF Holds
  <2>5. QED BY <2>3, <2>4
<1>5. QED BY <1>3, <1>4 DEF Types, BufferTyped

\* Bytes that the mouse sends come last.
LEMMA ComingAppend ==
  ASSUME Types, NEW q \in Seq(Parts)
  PROVE  ComingOf(buffer, sent \o q) = Coming \o Marks(q)
<1> DEFINE B == IF buffer # <<>> /\ Head(buffer)[1] = "mouse" THEN buffer ELSE <<>>
<1>1. sent \in Seq(Parts)
  BY SentTyped DEF Types
<1>2. Marks(sent) \in Seq(Marked) /\ Marks(q) \in Seq(Marked)
  BY <1>1, MarksTyped
<1>3. B \in Seq(Marked)
  <2>1. CASE Holds("mouse")
    <3>1. PICK j \in 0 .. 3, x \in Byte : buffer = <<<<"mouse", j, x>>>>
      BY <2>1 DEF Holds
    <3>2. buffer \in Seq(Marked)
      BY <1>1, <3>1, ComingCases
    <3>3. B = buffer
      BY <3>1
    <3>4. QED BY <3>2, <3>3
  <2>2. CASE buffer = <<>>
    BY <2>2
  <2>3. CASE Holds("keyboard") \/ Holds("controller")
    BY <2>3 DEF Holds
  <2>4. QED BY <2>1, <2>2, <2>3 DEF Types, BufferTyped
<1>4. Coming = B \o Marks(sent) /\ ComingOf(buffer, sent \o q) = B \o Marks(sent \o q)
  BY ComingSpelledOut DEF ComingOf
<1> HIDE DEF B
<1>5. Marks(sent \o q) = Marks(sent) \o Marks(q)
  BY <1>1, MarksConcat
<1>6. (B \o Marks(sent)) \o Marks(q) = B \o (Marks(sent) \o Marks(q))
  BY <1>2, <1>3, ConcatAssociative
<1>7. QED BY <1>4, <1>5, <1>6

\* The tail of two sequences put together.
LEMMA TailConcat ==
  ASSUME NEW T, NEW s \in Seq(T), NEW t \in Seq(T), s # <<>>
  PROVE  Tail(s \o t) = Tail(s) \o t /\ s \o t # <<>>
<1> DEFINE u == s \o t
           v == Tail(s) \o t
<1>1. u \in Seq(T) /\ Len(u) = Len(s) + Len(t)
  BY ConcatProperties
<1>2. \A i \in 1 .. Len(s) + Len(t) : u[i] = IF i <= Len(s) THEN s[i] ELSE t[i - Len(s)]
  BY ConcatProperties
<1>3. Len(s) \in Nat \ {0} /\ Len(t) \in Nat
  BY EmptySeq, LenProperties
<1>4. /\ Tail(s) \in Seq(T) /\ Len(Tail(s)) = Len(s) - 1
      /\ \A i \in 1 .. Len(Tail(s)) : Tail(s)[i] = s[i + 1]
  BY HeadTailProperties
<1>5. v \in Seq(T) /\ Len(v) = Len(Tail(s)) + Len(t)
  BY <1>4, ConcatProperties
<1>6. \A i \in 1 .. Len(Tail(s)) + Len(t) : v[i] = IF i <= Len(Tail(s)) THEN Tail(s)[i] ELSE t[i - Len(Tail(s))]
  BY <1>4, ConcatProperties
<1> HIDE DEF u, v
<1>7. u # <<>>
  BY <1>1, <1>3, EmptySeq
<1>8. /\ Tail(u) \in Seq(T) /\ Len(Tail(u)) = Len(u) - 1
      /\ \A i \in 1 .. Len(Tail(u)) : Tail(u)[i] = u[i + 1]
  BY <1>1, <1>7, HeadTailProperties
<1>9. Len(Tail(u)) = Len(v)
  BY <1>1, <1>3, <1>4, <1>5, <1>8
<1>10. ASSUME NEW i \in 1 .. Len(v) PROVE Tail(u)[i] = v[i]
  <2>1. Tail(u)[i] = u[i + 1] /\ i + 1 \in 1 .. Len(s) + Len(t) /\ i \in 1 .. Len(Tail(s)) + Len(t)
    BY <1>1, <1>3, <1>4, <1>5, <1>8, <1>9
  <2>2. CASE i <= Len(s) - 1
    <3>1. i \in 1 .. Len(Tail(s)) /\ i + 1 <= Len(s)
      BY <1>3, <1>4, <2>2
    <3>2. u[i + 1] = s[i + 1]
      BY <1>2, <2>1, <3>1
    <3>3. v[i] = Tail(s)[i]
      BY <1>6, <2>1, <3>1
    <3>4. Tail(s)[i] = s[i + 1]
      BY <1>4, <3>1
    <3>5. QED BY <2>1, <3>2, <3>3, <3>4
  <2>3. CASE ~(i <= Len(s) - 1)
    <3>1. ~(i <= Len(Tail(s))) /\ ~(i + 1 <= Len(s)) /\ (i + 1) - Len(s) = i - Len(Tail(s))
      BY <1>3, <1>4, <2>3
    <3>2. QED BY <1>2, <1>6, <2>1, <3>1
  <2>4. QED BY <2>2, <2>3
<1>11. QED BY <1>5, <1>7, <1>8, <1>9, <1>10, SeqEqual DEF u, v

\* The tail of a sequence of one element.
LEMMA TailOfOne ==
  ASSUME NEW T, NEW s \in Seq(T), Len(s) = 1
  PROVE  s # <<>> /\ Tail(s) = <<>>
<1>1. s # <<>>
  BY EmptySeq
<1>2. Tail(s) \in Seq(T) /\ Len(Tail(s)) = 0
  BY <1>1, HeadTailProperties
<1>3. QED BY <1>1, <1>2, EmptySeq

\* The mouse's byte in the buffer is the first to come.
LEMMA MouseByteNext ==
  ASSUME Types, Holds("mouse")
  PROVE  /\ Coming # <<>> /\ Coming \in Seq(Marked)
         /\ Head(Coming)[3] = Input /\ Input \in Byte
         /\ Tail(Coming) = Marks(sent)
<1>1. PICK j \in 0 .. 3, x \in Byte : buffer = <<<<"mouse", j, x>>>>
  BY DEF Holds
<1>2. sent \in Seq(Parts)
  BY SentTyped DEF Types
<1>3. Coming # <<>> /\ Head(Coming) = <<"mouse", j, x>> /\ Tail(Coming) = Marks(sent)
  BY <1>1, <1>2, ComingCases, ComingSpelledOut
<1>4. Input = x
  BY <1>1, InputByte
<1>5. QED BY <1>3, <1>4, ComingTyped

\* A byte that is not discarded goes into the packet; the third moves the pointer.
LEMMA HandleMoves ==
  ASSUME Types, Handle(Input), Input \in Byte, cycle = 0 => Bit(Input, 3)
  PROVE  /\ packet' = [packet EXCEPT ![cycle + 1] = Input]
         /\ cycle' = (cycle + 1) % 3
         /\ mouse' = IF cycle = 2 THEN Moved(mouse, packet[1], packet[2], Input) ELSE mouse
BY DEF Handle, Complete, Moved

\* What a step leaves to come, from what it does to the buffer and to the bytes sent.
LEMMA ComingNext == Coming' = ComingOf(buffer', sent')
BY DEF Coming, FromMouse, ComingOf, Marks

\* A step that takes in nothing and adds nothing keeps the stream.
LEMMA StreamKept ==
  ASSUME Stream, Pending' = Pending, UNCHANGED <<cycle, packet, mouse, actual>>
  PROVE  Stream'
BY DEF Stream

\* A report appends a packet to the stream and its movement to the reported position.
LEMMA ReportStep ==
  ASSUME Types, ~disturbed, Control, Stream, NEW p \in Packets, Report(p)
  PROVE  Control' /\ Stream'
<1> DEFINE q == <<<<1, p[1]>>, <<2, p[2]>>, <<3, p[3]>>>>
<1>1. p \in Byte \X Byte \X Byte /\ Bit(p[1], 3)
  BY DeviceAssumption
<1>2. /\ q \in Seq(Parts) /\ Len(q) = 3
      /\ q[1] = <<1, p[1]>> /\ q[2] = <<2, p[2]>> /\ q[3] = <<3, p[3]>>
  BY <1>1 DEF Parts
<1>3. sent' = sent \o q
  BY DEF Report
<1> HIDE DEF q
<1>4. /\ pc \in {"F4 ack", "sti", "on"} /\ pc' = pc /\ buffer' = buffer /\ latched' = latched
      /\ config' = config /\ cycle' = cycle /\ packet' = packet /\ mouse' = mouse
      /\ cfg' = cfg
  BY DEF Report, init, driver
<1>5. Marks(q) \in Seq(Marked) /\ Len(Marks(q)) = 3 /\ \A i \in 1 .. 3 : Marks(q)[i][2] = i /\ Marks(q)[i][3] = p[i]
  <2>1. /\ Marks(q) \in Seq(Marked) /\ Len(Marks(q)) = Len(q)
        /\ \A j \in 1 .. Len(q) : Marks(q)[j] = <<"mouse", q[j][1], q[j][2]>>
    BY <1>2, MarksTyped
  <2>2. ASSUME NEW i \in 1 .. 3 PROVE Marks(q)[i][2] = i /\ Marks(q)[i][3] = p[i]
    <3>1. Marks(q)[i] = <<"mouse", q[i][1], q[i][2]>>
      BY <1>2, <2>1
    <3>2. q[i][1] = i /\ q[i][2] = p[i]
      BY <1>2
    <3>3. QED BY <3>1, <3>2
  <2>3. QED BY <1>2, <2>1, <2>2
<1>6. Coming \in Seq(Marked)
  BY ComingTyped
<1>7. Coming' = Coming \o Marks(q)
  BY <1>2, <1>3, <1>4, ComingNext, ComingAppend
<1>8. Pending \in Seq(Marked) /\ Pending' = Pending \o Marks(q) /\ (Coming # <<>> => Coming' # <<>>)
  <2>1. CASE pc = "F4 ack"
    <3>1. Coming # <<>>
      BY <2>1 DEF Control
    <3>2. Tail(Coming') = Tail(Coming) \o Marks(q) /\ Coming' # <<>> /\ Tail(Coming) \in Seq(Marked)
      BY <1>5, <1>6, <1>7, <3>1, TailConcat, HeadTailProperties
    <3>3. QED BY <1>4, <2>1, <3>2 DEF Pending
  <2>2. CASE pc # "F4 ack"
    <3>1. Coming # <<>> => Coming' # <<>>
      BY <1>5, <1>6, <1>7, TailConcat
    <3>2. QED BY <1>4, <1>6, <1>7, <2>2, <3>1 DEF Pending
  <2>3. QED BY <2>1, <2>2
<1>9. actual' = Moved(actual, p[1], p[2], p[3])
  BY DEF Report, Moved, Clamp, Signed
<1>10. Stream'
  <2>1. AddsUp(Pending \o Marks(q), cycle, packet, mouse, Moved(actual, p[1], p[2], p[3]))
    <3>1. cycle \in 0 .. 2
      BY DEF Types, TypeOK
    <3>2. QED BY <1>1, <1>5, <1>8, <3>1, ReportAddsUp DEF Stream
  <2>2. QED BY <1>4, <1>8, <1>9, <2>1 DEF Stream
<1>11. Control'
  BY <1>4, <1>8 DEF Control, OnTheWay, Holds
<1>12. QED BY <1>10, <1>11

\* The first byte sent enters the buffer: it comes next before and after.
LEMMA MouseByteStep ==
  ASSUME Types, ~disturbed, Control, Stream, MouseByte
  PROVE  Control' /\ Stream'
<1>1. /\ buffer = <<>> /\ sent # <<>> /\ sent' = Tail(sent)
      /\ buffer' = <<<<"mouse", Head(sent)[1], Head(sent)[2]>>>>
      /\ pc' = pc /\ config' = config /\ cfg' = cfg
      /\ UNCHANGED <<cycle, packet, mouse, actual>>
  BY DEF MouseByte, init, driver
<1>2. sent \in Seq(Parts) /\ Head(sent) \in Parts /\ Tail(sent) \in Seq(Parts)
  BY <1>1, SentTyped, HeadTailProperties DEF Types
<1>3. Head(sent)[1] \in 0 .. 3 /\ Head(sent)[2] \in Byte
  BY <1>2 DEF Parts
<1>4. pc \in {"F6 ack", "F4 ack", "sti", "on"}
  BY <1>1 DEF Control, Silent, Types, TypeOK
<1>5. Bit(config, 1) /\ latched = {}
  <2>1. ~Holds("mouse") /\ ~Holds("keyboard")
    BY <1>1 DEF Holds
  <2>2. QED BY <1>4, <2>1 DEF Control, OnTheWay
<1>6. latched' = {12}
  BY <1>1, <1>5 DEF MouseByte
<1>7. OnTheWay'
  BY <1>1, <1>3, <1>6 DEF OnTheWay, Holds
<1>8. Coming' = Coming
  <2>1. Coming = Marks(sent)
    BY <1>1, ComingTyped
  <2>2. Coming' = buffer' \o Marks(Tail(sent))
    BY <1>1, <1>2, <1>3, ComingNext, ComingCases
  <2>3. QED BY <1>1, <1>2, <2>1, <2>2, MarksHeadTail
<1>9. Control'
  BY <1>1, <1>4, <1>5, <1>7, <1>8 DEF Control
<1>10. Pending' = Pending
  BY <1>1, <1>8 DEF Pending
<1>11. QED BY <1>1, <1>9, <1>10, StreamKept

\* A key in the empty buffer does not get between the mouse's bytes.
LEMMA KeyStep ==
  ASSUME Types, ~disturbed, Control, Stream, NEW c \in Scancodes, Key(c)
  PROVE  Control' /\ Stream'
<1>1. /\ buffer = <<>> /\ sent' = sent /\ buffer' = <<<<"keyboard", 0, c>>>> /\ pc = "on"
      /\ pc' = pc /\ config' = config /\ UNCHANGED <<cycle, packet, mouse, actual>> /\ c \in Byte
  BY DeviceAssumption DEF Key, init, driver
<1>2. latched = {}
  BY <1>1 DEF Control, OnTheWay, Holds
<1>3. latched' \subseteq {1}
  BY <1>2 DEF Key
<1>4. Holds("keyboard")'
  BY <1>1 DEF Holds
<1>5. Coming' = Coming
  BY <1>1, ComingNext, ComingTyped, ComingCases, SentTyped DEF Types
<1>6. Control'
  BY <1>1, <1>3, <1>4 DEF Control
<1>7. Pending' = Pending
  BY <1>1, <1>5 DEF Pending
<1>8. QED BY <1>1, <1>6, <1>7, StreamKept

\* The controller's answer in the buffer.
LEMMA HoldsAnswer ==
  ASSUME NEW c \in Byte
  PROVE  /\ buffer = <<<<"controller", 0, c>>>> => Holds("controller")
         /\ buffer' = <<<<"controller", 0, c>>>> => Holds("controller")'
<1>1. 0 \in 0 .. 3
  OBVIOUS
<1>2. QED BY <1>1, Zenon DEF Holds

\* With nothing sent, and no byte of the mouse in the buffer, nothing is to come.
LEMMA ComingOfNothing ==
  ASSUME Types
  PROVE  /\ sent = <<>> /\ (buffer = <<>> \/ Holds("controller")) => Coming = <<>>
         /\ sent' = <<>> /\ (buffer' = <<>> \/ Holds("controller")') => Coming' = <<>>
<1>1. <<>> \in Seq(Parts)
  OBVIOUS
<1>2. sent = <<>> /\ (buffer = <<>> \/ Holds("controller")) => Coming = <<>>
  BY MarksOfNothing, ComingTyped
<1>3. sent' = <<>> /\ (buffer' = <<>> \/ Holds("controller")') => Coming' = <<>>
  <2>1. ComingOf(<<>>, <<>>) = <<>>
    BY <1>1, MarksOfNothing, ComingCases
  <2>2. \A j \in 0 .. 3, x \in Byte : ComingOf(<<<<"controller", j, x>>>>, <<>>) = <<>>
    BY <1>1, MarksOfNothing, ComingCases
  <2>3. QED BY <2>1, <2>2, ComingNext DEF Holds
<1>4. QED BY <1>2, <1>3

\* The configuration is asked for, read and written: nothing is under way.
LEMMA ConfigStep ==
  ASSUME Types, ~disturbed, Control, Stream, AskConfig \/ ReadConfig \/ WriteConfig
  PROVE  Control' /\ Stream'
<1>1. config \in Byte /\ cfg \in Byte
  BY DEF Types, TypeOK
<1>2. ASSUME sent = <<>>, sent' = <<>>, buffer = <<>> \/ Holds("controller"),
             buffer' = <<>> \/ Holds("controller")', UNCHANGED <<driver, actual>>,
             pc \in {"20", "20 answer", "60"}, pc' \in {"20 answer", "60", "F6"}
      PROVE  Stream'
  <2>1. Coming = <<>> /\ Coming' = <<>>
    BY <1>2, ComingOfNothing
  <2>2. Pending' = Pending
    BY <1>2, <2>1 DEF Pending
  <2>3. QED BY <1>2, <2>2, StreamKept DEF driver
<1>3. CASE AskConfig
  <2>1. /\ buffer = <<>> /\ sent = <<>> /\ latched = {} /\ pc = "20" /\ pc' = "20 answer" /\ config' = config
        /\ buffer' = <<<<"controller", 0, config>>>> /\ sent' = sent /\ latched' = latched
        /\ UNCHANGED <<driver, actual>>
    BY <1>3 DEF AskConfig, Control, Silent
  <2>2. Holds("controller")'
    BY <1>1, <2>1, HoldsAnswer
  <2>3. Stream'
    BY <1>2, <2>1, <2>2
  <2>4. QED BY <2>1, <2>3 DEF Control
<1>4. CASE ReadConfig
  <2>1. /\ buffer = <<<<"controller", 0, config>>>> /\ sent = <<>> /\ pc = "20 answer" /\ pc' = "60"
        /\ buffer' = <<>> /\ sent' = sent /\ latched' = {} /\ UNCHANGED <<driver, actual>>
        /\ config' = config /\ cfg' = config
    BY <1>4, InputByte DEF ReadConfig, TakeByte, Timeout, Read, Control
  <2>2. Holds("controller")
    BY <1>1, <2>1, HoldsAnswer
  <2>3. Stream'
    BY <1>2, <2>1, <2>2
  <2>4. QED BY <2>1, <2>3 DEF Control, Silent
<1>5. CASE WriteConfig
  <2>1. /\ buffer = <<>> /\ sent = <<>> /\ latched = {} /\ pc = "60" /\ pc' = "F6"
        /\ buffer' = buffer /\ sent' = sent /\ latched' = latched /\ UNCHANGED <<driver, actual>>
        /\ config' = Enabled(cfg)
    BY <1>5 DEF WriteConfig, Control, Silent, devices
  <2>2. Bit(Enabled(cfg), 1)
    BY <1>1, EnabledBits
  <2>3. Stream'
    BY <1>2, <2>1
  <2>4. QED BY <2>1, <2>2, <2>3 DEF Control, Silent
<1>6. QED BY <1>3, <1>4, <1>5

\* A command is acknowledged, and the acknowledgement read: it never reaches the driver.
LEMMA CommandStep ==
  ASSUME Types, ~disturbed, Control, Stream, SetDefaults \/ EnableReporting
  PROVE  Control' /\ Stream'
<1>1. CASE Command("F6", "F6 ack") \/ Command("F4", "F4 ack")
  <2>1. /\ buffer = <<>> /\ sent = <<>> /\ latched = {} /\ Bit(config, 1) /\ pc \in {"F6", "F4"} /\ pc' \in {"F6 ack", "F4 ack"}
        /\ sent' = Append(sent, <<0, ACK>>) /\ buffer' = buffer /\ latched' = latched /\ config' = config
        /\ UNCHANGED <<cycle, packet, mouse, actual>>
    BY <1>1 DEF Command, Control, Silent, driver
  <2>2. sent' \in Seq(Parts) /\ Len(sent') = 1
    <3>1. <<0, ACK>> \in Parts /\ <<>> \in Seq(Parts) /\ Len(<<>>) = 0
      BY DEF Parts, ACK, Byte
    <3>2. sent' = Append(<<>>, <<0, ACK>>)
      BY <2>1
    <3>3. QED BY <3>1, <3>2, AppendProperties
  <2>3. Coming' = Marks(sent')
    BY <2>1, <2>2, ComingNext, ComingCases
  <2>4. Coming' \in Seq(Marked) /\ Len(Coming') = 1
    BY <2>2, <2>3, MarksTyped
  <2>5. Coming' # <<>> /\ Tail(Coming') = <<>>
    BY <2>4, TailOfOne
  <2>6. Pending = <<>>
    BY <2>1, ComingOfNothing DEF Pending
  <2>7. Pending' = Pending
    BY <2>1, <2>5, <2>6 DEF Pending
  <2>8. Stream'
    BY <2>1, <2>7, StreamKept
  <2>9. OnTheWay'
    BY <2>1 DEF OnTheWay
  <2>10. QED BY <2>1, <2>4, <2>5, <2>8, <2>9 DEF Control
<1>2. CASE Answer("F6 ack", "F4") \/ Answer("F4 ack", "sti")
  <2>1. /\ buffer # <<>> /\ buffer' = <<>> /\ latched' = {} /\ sent' = sent /\ config' = config /\ Bit(config, 1)
        /\ (pc = "F6 ack" /\ pc' = "F4") \/ (pc = "F4 ack" /\ pc' = "sti")
        /\ UNCHANGED <<cycle, packet, mouse, actual>> /\ OnTheWay
    BY <1>2 DEF Answer, TakeByte, Timeout, Read, Control, driver
  <2>2. Holds("mouse")
    BY <2>1 DEF OnTheWay
  <2>3. Coming \in Seq(Marked) /\ Coming # <<>> /\ Tail(Coming) = Marks(sent)
    BY <2>2, MouseByteNext
  <2>4. Coming' = Tail(Coming)
    BY <2>1, <2>3, ComingNext, ComingCases, SentTyped DEF Types
  <2>5. Pending' = Pending
    BY <2>1, <2>4 DEF Pending
  <2>6. Stream'
    BY <2>1, <2>5, StreamKept
  <2>7. pc = "F6 ack" => sent = <<>>
    <3> SUFFICES ASSUME pc = "F6 ack" PROVE sent = <<>>
      OBVIOUS
    <3>1. Tail(Coming) = <<>>
      BY <2>3, TailOfOne DEF Control
    <3>2. Len(Marks(sent)) = Len(sent) /\ sent \in Seq(Parts)
      BY MarksTyped, SentTyped DEF Types
    <3>3. QED BY <2>3, <3>1, <3>2, EmptySeq
  <2>8. QED BY <2>1, <2>6, <2>7 DEF Control, Silent, OnTheWay
<1>3. QED BY <1>1, <1>2 DEF SetDefaults, EnableReporting, MouseCmd

\* The driver takes in the byte that is next.
LEMMA MouseInterruptStep ==
  ASSUME Types, ~disturbed, Control, Stream, MouseInterrupt
  PROVE  Control' /\ Stream'
<1>1. /\ pc = "on" /\ pc' = "on" /\ 12 \in latched /\ latched' = latched \ {12} /\ buffer' = <<>>
      /\ Handle(Input) /\ sent' = sent /\ config' = config /\ actual' = actual
  BY DEF MouseInterrupt, Read, init
<1>2. Holds("mouse") /\ latched' = {} /\ Bit(config, 1)
  BY <1>1 DEF Control, OnTheWay
<1>3. /\ Coming # <<>> /\ Coming \in Seq(Marked) /\ Head(Coming)[3] = Input /\ Input \in Byte
      /\ Tail(Coming) = Marks(sent)
  BY <1>2, MouseByteNext
<1>4. Coming' = Tail(Coming)
  BY <1>1, <1>3, ComingNext, ComingCases, SentTyped DEF Types
<1>5. Pending = Coming /\ Pending' = Tail(Coming)
  BY <1>1, <1>4 DEF Pending
<1>6. cycle \in 0 .. 2 /\ DOMAIN packet = 1 .. 3
  <2>1. cycle \in 0 .. 2 /\ packet \in Byte \X Byte \X Byte
    BY DEF Types, TypeOK
  <2>2. QED BY <2>1
<1>7. AddsUp(Coming, cycle, packet, mouse, actual)
  BY <1>5 DEF Stream
<1> DEFINE up == [packet EXCEPT ![cycle + 1] = Input]
<1>8. /\ cycle = 0 => Bit(Input, 3)
      /\ cycle # 2 => AddsUp(Tail(Coming), cycle + 1, up, mouse, actual)
      /\ cycle = 2 => AddsUp(Tail(Coming), 0, up, Moved(mouse, packet[1], packet[2], Input), actual)
  BY <1>3, <1>6, <1>7, TakeAddsUp
<1>9. /\ packet' = up /\ cycle' = (cycle + 1) % 3
      /\ mouse' = IF cycle = 2 THEN Moved(mouse, packet[1], packet[2], Input) ELSE mouse
  BY <1>1, <1>3, <1>8, HandleMoves
<1> HIDE DEF up
<1>10. Stream'
  <2>1. CASE cycle = 2
    <3>1. cycle' = 0
      BY <1>9, <2>1
    <3>2. QED BY <1>1, <1>5, <1>8, <1>9, <2>1, <3>1 DEF Stream
  <2>2. CASE cycle # 2
    <3>1. cycle' = cycle + 1
      BY <1>6, <1>9, <2>2
    <3>2. QED BY <1>1, <1>5, <1>8, <1>9, <2>2, <3>1 DEF Stream
  <2>3. QED BY <2>1, <2>2
<1>11. Control'
  BY <1>1, <1>2 DEF Control, OnTheWay
<1>12. QED BY <1>10, <1>11

\* The keyboard's handler takes a byte of the keyboard.
LEMMA KeyboardInterruptStep ==
  ASSUME Types, ~disturbed, Control, Stream, KeyboardInterrupt
  PROVE  Control' /\ Stream'
<1>1. /\ pc = "on" /\ pc' = "on" /\ 1 \in latched /\ latched' = latched \ {1} /\ buffer' = <<>>
      /\ sent' = sent /\ config' = config /\ UNCHANGED <<cycle, packet, mouse, actual>>
  BY DEF KeyboardInterrupt, Read, init, driver
<1>2. Holds("keyboard") /\ latched' = {} /\ Bit(config, 1)
  BY <1>1 DEF Control, OnTheWay
<1>3. Coming' = Coming
  BY <1>1, <1>2, ComingNext, ComingTyped, ComingCases, SentTyped DEF Types
<1>4. Pending' = Pending
  BY <1>1, <1>3 DEF Pending
<1>5. Control'
  BY <1>1, <1>2 DEF Control, OnTheWay
<1>6. QED BY <1>1, <1>4, <1>5, StreamKept

\* Steps that touch neither the devices nor the driver.
LEMMA NothingMovesStep ==
  ASSUME Types, ~disturbed, Control, Stream, Sti \/ Poll \/ UNCHANGED vars
  PROVE  Control' /\ Stream'
<1>1. /\ (pc = "sti" /\ pc' = "on") \/ pc' = pc
      /\ UNCHANGED <<config, cfg, sent, buffer, latched, cycle, packet, mouse, actual>>
  BY DEF Sti, Poll, vars, init, devices, driver
<1>2. Coming' = Coming
  BY <1>1 DEF Coming, FromMouse
<1>3. Pending' = Pending
  BY <1>1, <1>2 DEF Pending
<1>4. Control'
  BY <1>1, <1>2 DEF Control, Silent, OnTheWay, Holds
<1>5. QED BY <1>1, <1>3, <1>4, StreamKept

\* The invariant holds when init() is called.
LEMMA InitPInv ==
  ASSUME Init
  PROVE  PInv
<1>1. Types
  <2>1. Start \in [x : 0 .. SCREEN_W - 1, y : 0 .. SCREEN_H - 1, left : BOOLEAN, right : BOOLEAN]
    BY ScreenAssumption DEF Start
  <2>2. config \in Byte /\ 0 \in Byte /\ sent \in Seq((0 .. 3) \X Byte) /\ <<0, 0, 0>> \in Byte \X Byte \X Byte
    BY DeviceAssumption DEF Init, Byte
  <2>3. latched \subseteq {1, 12} /\ cycle \in 0 .. 2 /\ mouse = Start /\ packet = <<0, 0, 0>> /\ last_key = 0 /\ port = 0 /\ cfg = 0
    BY DEF Init
  <2>4. pc = "20" /\ disturbed \in BOOLEAN /\ moved \in BOOLEAN /\ pressed \in BOOLEAN /\ buffer = <<>>
    BY DEF Init
  <2>5. QED BY <2>1, <2>2, <2>3, <2>4 DEF Types, TypeOK, BufferTyped
<1>2. Control
  BY DEF Init, Control, Silent
<1>3. Stream
  <2>1. Pending = <<>>
    BY <1>1, ComingOfNothing DEF Init, Pending
  <2>2. AddsUp(<<>>, 0, packet, mouse, actual)
    BY NothingAddsUp DEF Init
  <2>3. QED BY <2>1, <2>2 DEF Stream, Init
<1>4. QED BY <1>1, <1>2, <1>3 DEF PInv

\* Whether init() may be disturbed is decided once.
LEMMA DisturbedKept ==
  ASSUME [Next]_vars
  PROVE  disturbed' = disturbed
BY DEF Next, InitStep, AskConfig, AskConfigLate, ReadConfig, WriteConfig, SetDefaults, EnableReporting,
       MouseCmd, Command, Answer, Sti, Report, MouseByte, Key, MouseInterrupt, KeyboardInterrupt, Poll, vars, init

\* Every step keeps the invariant.
LEMMA PInvStep ==
  ASSUME PInv, [Next]_vars
  PROVE  PInv'
<1>1. Types /\ Types'
  BY TypesStep DEF PInv
<1>2. ASSUME ~disturbed PROVE Control' /\ Stream'
  <2>1. Control /\ Stream
    BY <1>2 DEF PInv
  <2>2. ~AskConfigLate
    BY <1>2 DEF AskConfigLate
  <2>3. QED BY <1>1, <1>2, <2>1, <2>2, ReportStep, MouseByteStep, KeyStep, ConfigStep, CommandStep,
               MouseInterruptStep, KeyboardInterruptStep, NothingMovesStep DEF Next, InitStep
<1>3. QED BY <1>1, <1>2, DisturbedKept DEF PInv

\* The inductive invariant: the types, and, undisturbed, what the controller can hold at
\* each step of init() and that the bytes to come add up.
THEOREM PInvHolds == Spec => []PInv
<1>1. Init => PInv
  BY InitPInv
<1>2. PInv /\ [Next]_vars => PInv'
  BY PInvStep
<1>3. QED BY <1>1, <1>2, PTL DEF Spec

\* The third byte of the driver's packets is the third byte the mouse sent: no byte is
\* lost to init() or to the keyboard's handler once interrupts are on.
THEOREM StaysInSync == Spec => []InSync
<1>1. PInv => InSync
  <2> SUFFICES ASSUME PInv, pc = "on", ~disturbed, Coming # <<>> PROVE Head(Coming)[2] = cycle + 1
    BY DEF InSync
  <2>1. AddsUp(Coming, cycle, packet, mouse, actual) /\ Coming \in Seq(Marked)
    BY ComingTyped DEF PInv, Stream, Pending
  <2>2. cycle \in 0 .. 2 /\ packet \in Byte \X Byte \X Byte
    BY DEF PInv, Types, TypeOK
  <2>3. DOMAIN packet = 1 .. 3
    BY <2>2
  <2>4. QED BY <2>1, <2>2, <2>3, TakeAddsUp
<1>2. QED BY <1>1, PInvHolds, PTL

\* Whatever the mouse reports, in whatever order its bytes, keys and interrupts come,
\* the driver's position and buttons are what the reports add up to.
THEOREM PositionStaysExact == Spec => []PositionExact
<1>1. PInv => PositionExact
  <2> SUFFICES ASSUME PInv, pc = "on", ~disturbed, Coming = <<>>, cycle = 0 PROVE mouse = actual
    BY DEF PositionExact
  <2>1. AddsUp(<<>>, 0, packet, mouse, actual)
    BY DEF PInv, Stream, Pending
  <2>2. QED BY <2>1, NothingAddsUp
<1>2. QED BY <1>1, PInvHolds, PTL

-----------------------------------------------------------------------------
(* The keyboard's interrupt *)

\* Nothing in the kernel turns the keyboard's interrupt on: its handler runs if the boot
\* loader left it on, and init() keeps the bit.
KeyboardOn == \A c \in Configs : Bit(c, 0)
Keys ==
  /\ Bit(config, 0)
  /\ pc = "60" => Bit(cfg, 0)
  /\ pc = "on" /\ Holds("keyboard") => latched = {1}
KInv == PInv /\ (~disturbed => Keys)

\* Every step keeps the keyboard's interrupt on.
LEMMA KInvStep ==
  ASSUME KInv, [Next]_vars
  PROVE  KInv'
<1>1. PInv /\ Types /\ PInv'
  BY PInvStep DEF KInv, PInv
<1>2. ASSUME ~disturbed PROVE Keys'
  <2>1. Control /\ Keys
    BY <1>2 DEF KInv, PInv
  <2>2. config \in Byte /\ cfg \in Byte
    BY <1>1 DEF Types, TypeOK
  <2>3. CASE ReadConfig
    <3>1. pc' = "60" /\ config' = config /\ cfg' = config
      BY <1>1, <1>2, <2>1, <2>3, InputByte DEF ReadConfig, Control
    <3>2. QED BY <2>1, <3>1 DEF Keys
  <2>4. CASE WriteConfig
    <3>1. pc' = "F6" /\ config' = Enabled(cfg) /\ Bit(cfg, 0)
      BY <2>1, <2>4 DEF WriteConfig, Keys
    <3>2. Bit(Enabled(cfg), 0)
      BY <2>2, <3>1, EnabledBits
    <3>3. QED BY <3>1, <3>2 DEF Keys
  <2>5. CASE AskConfig \/ AskConfigLate
    <3>1. pc' = "20 answer" /\ config' = config
      BY <2>5 DEF AskConfig, AskConfigLate
    <3>2. QED BY <2>1, <3>1 DEF Keys
  <2>6. CASE SetDefaults \/ EnableReporting
    <3>1. config' = config /\ pc' # "60" /\ pc' # "on"
      BY <2>6 DEF SetDefaults, EnableReporting, MouseCmd, Command, Answer
    <3>2. QED BY <2>1, <3>1 DEF Keys
  <2>7. CASE Sti
    <3>1. ~Holds("keyboard")'
      BY <2>1, <2>7 DEF Control, OnTheWay, Holds, Sti, devices
    <3>2. config' = config /\ pc' = "on"
      BY <2>7 DEF Sti
    <3>3. QED BY <2>1, <3>1, <3>2 DEF Keys
  <2>8. CASE MouseByte
    <3>1. ~Holds("keyboard")'
      <4>1. Head(buffer')[1] = "mouse"
        BY <2>8 DEF MouseByte
      <4>2. QED BY <4>1 DEF Holds
    <3>2. config' = config /\ cfg' = cfg /\ pc' = pc
      BY <2>8 DEF MouseByte, init
    <3>3. QED BY <2>1, <3>1, <3>2 DEF Keys
  <2>9. ASSUME NEW c \in Scancodes, Key(c) PROVE Keys'
    <3>1. pc = "on" /\ buffer = <<>> /\ config' = config /\ pc' = pc /\ latched' = latched \cup {1}
      BY <1>2, <2>1, <2>9 DEF Key, init, Keys
    <3>2. latched = {}
      BY <2>1, <3>1 DEF Control, OnTheWay, Holds
    <3>3. QED BY <2>1, <3>1, <3>2 DEF Keys
  <2>10. CASE MouseInterrupt \/ KeyboardInterrupt
    <3>1. ~Holds("keyboard")'
      <4>1. buffer' = <<>>
        BY <2>10 DEF MouseInterrupt, KeyboardInterrupt, Read
      <4>2. QED BY <4>1 DEF Holds
    <3>2. config' = config /\ cfg' = cfg /\ pc' = pc
      BY <2>10 DEF MouseInterrupt, KeyboardInterrupt, init
    <3>3. QED BY <2>1, <3>1, <3>2 DEF Keys
  <2>11. CASE (\E p \in Packets : Report(p)) \/ Poll \/ UNCHANGED vars
    <3>1. config' = config /\ cfg' = cfg /\ pc' = pc /\ buffer' = buffer /\ latched' = latched
      BY <2>11 DEF Report, Poll, vars, init, devices
    <3>2. QED BY <2>1, <3>1 DEF Keys, Holds
  <2>12. QED BY <2>3, <2>4, <2>5, <2>6, <2>7, <2>8, <2>9, <2>10, <2>11 DEF Next, InitStep
<1>3. QED BY <1>1, <1>2, DisturbedKept DEF KInv

\* With the keyboard's interrupt left on by the boot loader, each byte reaches the
\* handler of the device that sent it, and the driver's state keeps its types.
THEOREM BytesReachTheirHandler ==
  ASSUME KeyboardOn
  PROVE  Spec => []RoutingInv
<1>1. Init => KInv
  <2> SUFFICES ASSUME Init PROVE KInv
    OBVIOUS
  <2>1. Keys
    BY DEF Init, KeyboardOn, Keys
  <2>2. QED BY <2>1, InitPInv DEF KInv
<1>2. KInv /\ [Next]_vars => KInv'
  BY KInvStep
<1>3. KInv => RoutingInv
  <2> SUFFICES ASSUME KInv PROVE TypeOK /\ BytesRouted
    BY DEF RoutingInv
  <2>1. TypeOK
    BY DEF KInv, PInv, Types
  <2>2. ASSUME pc = "on", ~disturbed
        PROVE  latched = {IF Head(b)[1] = "mouse" THEN 12 ELSE 1 : b \in {buffer} \ {<<>>}}
    <3>1. (buffer = <<>> /\ latched = {}) \/ (Holds("mouse") /\ latched = {12}) \/ (Holds("keyboard") /\ latched = {1})
      BY <2>2 DEF KInv, PInv, Control, OnTheWay, Keys
    <3>2. CASE buffer = <<>> /\ latched = {}
      BY <3>2
    <3>3. ASSUME NEW d, NEW n, Holds(d), latched = {n}, n = IF d = "mouse" THEN 12 ELSE 1
          PROVE  latched = {IF Head(b)[1] = "mouse" THEN 12 ELSE 1 : b \in {buffer} \ {<<>>}}
      <4>1. buffer # <<>> /\ Head(buffer)[1] = d
        BY <3>3 DEF Holds
      <4>2. {buffer} \ {<<>>} = {buffer}
        BY <4>1
      <4>3. QED BY <3>3, <4>1, <4>2
    <3>4. QED BY <3>1, <3>2, <3>3
  <2>3. QED BY <2>1, <2>2 DEF BytesRouted
<1>4. QED BY <1>1, <1>2, <1>3, PTL DEF Spec
=============================================================================
