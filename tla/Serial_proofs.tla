--------------------------- MODULE Serial_proofs ---------------------------
(***************************************************************************)
(* Proofs about Serial: whatever the number of processes and the size of   *)
(* the transmitter, as long as it holds one character for each writer, no  *)
(* character is dropped, and each writer's text leaves the transmitter in  *)
(* order.  NeverOverrun is inductive with TypeOK; the order needs InOrder, *)
(* on all the characters that wait and not on the first one only.          *)
(***************************************************************************)
EXTENDS Serial, FiniteSetTheorems, SequenceTheorems, TLAPS

LEMMA WritersFinite == IsFiniteSet(Writers) /\ Cardinality(Writers) \in Nat
<1>1. IsFiniteSet(Writers)
  BY WritersAssumption, FS_AddElement DEF Writers
<1>2. QED BY <1>1, FS_CardinalityType

\* The number of committed writers, in a state and the next.
LEMMA CommittedFinite ==
  /\ IsFiniteSet(Committed) /\ Cardinality(Committed) \in Nat
  /\ Cardinality(Committed) <= Cardinality(Writers)
<1>1. Committed \subseteq Writers
  BY DEF Committed
<1>2. QED BY <1>1, WritersFinite, FS_Subset, FS_CardinalityType

LEMMA InitType == Init => TypeOK /\ NeverOverrun
<1> SUFFICES ASSUME Init PROVE TypeOK /\ NeverOverrun
  OBVIOUS
<1>1. TypeOK
  BY SizeAssumption DEF Init, TypeOK
<1>2. Committed = {}
  BY DEF Init, Committed
<1>3. Cardinality(Committed) = 0 /\ Len(fifo) = 0
  BY <1>2, FS_EmptySet DEF Init
<1>4. QED BY <1>1, <1>3, WritersFinite DEF NeverOverrun

\* A step keeps the types.
LEMMA NextType == TypeOK /\ [Next]_vars => TypeOK'
<1> SUFFICES ASSUME TypeOK, [Next]_vars PROVE TypeOK'
  OBVIOUS
<1> USE DEF TypeOK
<1>1. ASSUME NEW w \in Writers, serial_print(w) PROVE TypeOK'
  BY <1>1 DEF serial_print
<1>2. ASSUME NEW w \in Writers, Test(w) PROVE TypeOK'
  BY <1>2 DEF Test
<1>3. ASSUME NEW w \in Writers, Write(w) PROVE TypeOK'
  <2>1. char[w] \in 1 .. LENGTH /\ Following(char[w]) \in 1 .. LENGTH
    BY SizeAssumption DEF Following
  <2>2. <<w, char[w]>> \in Writers \X (1 .. LENGTH)
    BY <2>1
  <2>3. fifo' \in Seq(Writers \X (1 .. LENGTH))
    BY <1>3, <2>2 DEF Write
  <2>4. pc' \in [Writers -> {"idle", "test", "write"}] /\ sent' \in [Writers -> 1 .. LENGTH]
    BY <1>3 DEF Write
  <2>5. char' \in [Writers -> 1 .. LENGTH]
    BY <1>3, <2>1 DEF Write
  <2>6. QED BY <2>3, <2>4, <2>5
<1>4. CASE Drain
  <2>1. fifo # <<>> /\ Head(fifo) \in Writers \X (1 .. LENGTH)
        /\ Tail(fifo) \in Seq(Writers \X (1 .. LENGTH))
    BY <1>4 DEF Drain
  <2>2. QED BY <1>4, <2>1 DEF Drain
<1>5. CASE UNCHANGED vars
  BY <1>5 DEF vars
<1>6. QED BY <1>1, <1>2, <1>3, <1>4, <1>5 DEF Next

\* A step keeps the bound: a test that succeeds finds nothing in the transmitter,
\* a write trades a committed writer for a character.
LEMMA NextBound == TypeOK /\ NeverOverrun /\ [Next]_vars => NeverOverrun'
<1> SUFFICES ASSUME TypeOK, NeverOverrun, [Next]_vars PROVE NeverOverrun'
  OBVIOUS
<1>0. /\ IsFiniteSet(Committed) /\ Cardinality(Committed) \in Nat
      /\ Cardinality(Writers) \in Nat /\ Len(fifo) \in Nat
      /\ fifo \in Seq(Writers \X (1 .. LENGTH))
  BY CommittedFinite, WritersFinite DEF TypeOK
<1>1. ASSUME NEW w \in Writers, serial_print(w) PROVE NeverOverrun'
  <2>1. Committed' = Committed /\ fifo' = fifo
    BY <1>1 DEF serial_print, Committed, TypeOK
  <2>2. QED BY <2>1 DEF NeverOverrun
<1>2. ASSUME NEW w \in Writers, Test(w) PROVE NeverOverrun'
  <2>1. Committed' \subseteq Writers /\ Len(fifo') = 0
    BY <1>2 DEF Test, is_transmit_empty, Committed
  <2>2. Cardinality(Committed') <= Cardinality(Writers) /\ Cardinality(Committed') \in Nat
    BY <2>1, WritersFinite, FS_Subset, FS_CardinalityType
  <2>3. QED BY <1>0, <2>1, <2>2 DEF NeverOverrun
<1>3. ASSUME NEW w \in Writers, Write(w) PROVE NeverOverrun'
  <2>1. w \in Committed /\ Committed' = Committed \ {w}
    BY <1>3 DEF Write, Committed, TypeOK
  <2>2. Cardinality(Committed') = Cardinality(Committed) - 1
    BY <1>0, <2>1, FS_RemoveElement
  <2>3. Len(fifo') \in Nat /\ Len(fifo') <= Len(fifo) + 1
    BY <1>0, <1>3 DEF Write
  <2>4. QED BY <1>0, <2>2, <2>3 DEF NeverOverrun
<1>4. CASE Drain
  <2>1. Committed' = Committed /\ Len(fifo') = Len(fifo) - 1
    BY <1>0, <1>4 DEF Drain, Committed
  <2>2. QED BY <1>0, <2>1 DEF NeverOverrun
<1>5. CASE UNCHANGED vars
  BY <1>5 DEF vars, NeverOverrun, Committed
<1>6. QED BY <1>1, <1>2, <1>3, <1>4, <1>5 DEF Next

\* The variables keep their types.
THEOREM TypeCorrect == Spec => []TypeOK
BY InitType, NextType, PTL DEF Spec

\* The transmitter never holds more characters than there are writers, counting
\* the ones that are about to be written after a test that was passed.
THEOREM Bounded == Spec => []NeverOverrun
BY InitType, NextType, NextBound, PTL DEF Spec

\* A write appends the character its writer is at, which nothing drops.
LEMMA WriteAppends ==
  ASSUME TypeOK, NeverOverrun, NEW w \in Writers, Write(w)
  PROVE  fifo' = Append(fifo, <<w, char[w]>>)
<1>1. w \in Committed
  BY DEF Write, Committed
<1>2. Cardinality(Committed) # 0
  BY <1>1, CommittedFinite, FS_EmptySet
<1>3. Len(fifo) \in Nat /\ Len(fifo) < FIFO_SIZE
  BY <1>2, CommittedFinite, WritersFinite, SizeAssumption DEF NeverOverrun, TypeOK
<1>4. QED BY <1>3 DEF Write

\* Hence a character that is written is never dropped: serial_put_char(), which
\* tests before it writes, is safe though a tick may fall between the two.
THEOREM NothingDropped ==
  Spec => [][\A w \in Writers : Write(w) => fifo' = Append(fifo, <<w, char[w]>>)]_vars
<1>1. TypeOK /\ NeverOverrun =>
        [\A w \in Writers : Write(w) => fifo' = Append(fifo, <<w, char[w]>>)]_vars
  BY WriteAppends
<1>2. QED BY <1>1, TypeCorrect, Bounded, PTL

-----------------------------------------------------------------------------
(* The order of the characters *)

After(c) == (c % LENGTH) + 1

\* c is the character of w's text after the last one of w before place i of the
\* transmitter f, or, if there is none, after the last one that left it.
Follows(f, s, w, i, c) ==
  \/ (\A j \in 1 .. i - 1 : f[j][1] # w) /\ c = After(s[w])
  \/ \E j \in 1 .. i - 1 :
       /\ f[j][1] = w /\ c = After(f[j][2])
       /\ \A k \in j + 1 .. i - 1 : f[k][1] # w

\* Each character in the transmitter follows the one of its writer before it, and
\* each writer is at the character that follows the last it wrote.
InOrder ==
  /\ \A i \in 1 .. Len(fifo) : Follows(fifo, sent, fifo[i][1], i, fifo[i][2])
  /\ \A w \in Writers : Follows(fifo, sent, w, Len(fifo) + 1, char[w])

\* What follows depends on the places before only.
LEMMA FollowsPrefix ==
  ASSUME NEW f, NEW g, NEW s, NEW w, NEW c, NEW i \in Nat,
         \A j \in 1 .. i - 1 : f[j] = g[j], Follows(f, s, w, i, c)
  PROVE  Follows(g, s, w, i, c)
<1>1. CASE (\A j \in 1 .. i - 1 : f[j][1] # w) /\ c = After(s[w])
  BY <1>1 DEF Follows
<1>2. ASSUME NEW j \in 1 .. i - 1, f[j][1] = w, c = After(f[j][2]),
             \A k \in j + 1 .. i - 1 : f[k][1] # w
      PROVE  Follows(g, s, w, i, c)
  <2>1. \A k \in j + 1 .. i - 1 : k \in 1 .. i - 1
    OBVIOUS
  <2>2. \A k \in j + 1 .. i - 1 : g[k][1] # w
    BY <1>2, <2>1
  <2>3. QED BY <1>2, <2>2 DEF Follows
<1>3. QED BY <1>1, <1>2 DEF Follows

\* A character of another writer changes nothing.
LEMMA FollowsOther ==
  ASSUME NEW f, NEW s, NEW w, NEW c, NEW i \in Nat \ {0}, f[i][1] # w, Follows(f, s, w, i, c)
  PROVE  Follows(f, s, w, i + 1, c)
<1>1. CASE (\A j \in 1 .. i - 1 : f[j][1] # w) /\ c = After(s[w])
  <2>1. \A j \in 1 .. (i + 1) - 1 : j \in 1 .. i - 1 \/ j = i
    OBVIOUS
  <2>2. QED BY <1>1, <2>1 DEF Follows
<1>2. ASSUME NEW j \in 1 .. i - 1, f[j][1] = w, c = After(f[j][2]),
             \A k \in j + 1 .. i - 1 : f[k][1] # w
      PROVE  Follows(f, s, w, i + 1, c)
  <2>1. j \in 1 .. (i + 1) - 1 /\ \A k \in j + 1 .. (i + 1) - 1 : k \in j + 1 .. i - 1 \/ k = i
    OBVIOUS
  <2>2. QED BY <1>2, <2>1 DEF Follows
<1>3. QED BY <1>1, <1>2 DEF Follows

\* The first character leaves the transmitter: what follows it follows it still.
LEMMA FollowsDrained ==
  ASSUME NEW f, NEW g, NEW s, NEW w \in Writers, NEW c, NEW i \in Nat \ {0}, DOMAIN s = Writers,
         \A j \in 1 .. i - 1 : g[j] = f[j + 1], Follows(f, s, w, i + 1, c)
  PROVE  Follows(g, [s EXCEPT ![f[1][1]] = f[1][2]], w, i, c)
<1> DEFINE t == [s EXCEPT ![f[1][1]] = f[1][2]]
<1>0. t[w] = IF w = f[1][1] THEN f[1][2] ELSE s[w]
  OBVIOUS
<1> HIDE DEF t
<1>1. CASE (\A j \in 1 .. (i + 1) - 1 : f[j][1] # w) /\ c = After(s[w])
  <2>1. 1 \in 1 .. (i + 1) - 1 /\ \A j \in 1 .. i - 1 : j + 1 \in 1 .. (i + 1) - 1
    OBVIOUS
  <2>2. f[1][1] # w /\ \A j \in 1 .. i - 1 : g[j][1] # w
    BY <1>1, <2>1
  <2>3. QED BY <1>0, <1>1, <2>2 DEF Follows, t
<1>2. ASSUME NEW j \in 1 .. (i + 1) - 1, f[j][1] = w, c = After(f[j][2]),
             \A k \in j + 1 .. (i + 1) - 1 : f[k][1] # w
      PROVE  Follows(g, t, w, i, c)
  <2>1. CASE j = 1
    <3>1. \A k \in 1 .. i - 1 : k + 1 \in j + 1 .. (i + 1) - 1
      BY <2>1
    <3>2. \A k \in 1 .. i - 1 : g[k][1] # w
      BY <1>2, <3>1
    <3>3. QED BY <1>0, <1>2, <2>1, <3>2 DEF Follows
  <2>2. CASE j # 1
    <3>1. j - 1 \in 1 .. i - 1 /\ (j - 1) + 1 = j
      BY <2>2
    <3>2. \A k \in (j - 1) + 1 .. i - 1 : k \in 1 .. i - 1 /\ k + 1 \in j + 1 .. (i + 1) - 1
      BY <2>2
    <3>3. \A k \in (j - 1) + 1 .. i - 1 : g[k][1] # w
      BY <1>2, <3>2
    <3>4. g[j - 1] = f[j]
      BY <3>1
    <3>5. QED BY <1>2, <3>1, <3>3, <3>4 DEF Follows
  <2>3. QED BY <2>1, <2>2
<1>3. QED BY <1>1, <1>2 DEF Follows, t

LEMMA InitOrder == Init => InOrder
<1> SUFFICES ASSUME Init PROVE InOrder
  OBVIOUS
<1>1. Len(fifo) = 0 /\ After(LENGTH) = 1
  BY SizeAssumption DEF Init, After
<1>2. ASSUME NEW w \in Writers PROVE Follows(fifo, sent, w, Len(fifo) + 1, char[w])
  <2>1. char[w] = 1 /\ sent[w] = LENGTH
    BY DEF Init
  <2>2. QED BY <1>1, <2>1 DEF Follows
<1>3. QED BY <1>1, <1>2 DEF InOrder

\* Every step keeps the order.
LEMMA NextOrder == TypeOK /\ NeverOverrun /\ InOrder /\ [Next]_vars => InOrder'
<1> SUFFICES ASSUME TypeOK, NeverOverrun, InOrder, [Next]_vars PROVE InOrder'
  OBVIOUS
<1>0. /\ fifo \in Seq(Writers \X (1 .. LENGTH)) /\ Len(fifo) \in Nat
      /\ char \in [Writers -> 1 .. LENGTH] /\ sent \in [Writers -> 1 .. LENGTH]
  BY DEF TypeOK
<1>1. ASSUME UNCHANGED <<char, fifo, sent>> PROVE InOrder'
  BY <1>1 DEF InOrder
<1>2. ASSUME NEW w \in Writers, Write(w) PROVE InOrder'
  <2> DEFINE e == <<w, char[w]>>
             n == Len(fifo)
  <2>1. fifo' = Append(fifo, e) /\ sent' = sent /\ char' = [char EXCEPT ![w] = Following(@)]
    BY <1>2, WriteAppends DEF Write
  <2>2. e \in Writers \X (1 .. LENGTH)
    BY <1>0
  <2>3. /\ Len(fifo') = n + 1 /\ fifo'[n + 1] = e
        /\ \A j \in 1 .. n : fifo'[j] = fifo[j]
    BY <1>0, <2>1, <2>2, AppendProperties
  <2>4. e[1] = w /\ e[2] = char[w]
    OBVIOUS
  <2> HIDE DEF e
  <2>5. ASSUME NEW i \in 1 .. n + 1 PROVE Follows(fifo', sent', fifo'[i][1], i, fifo'[i][2])
    <3>0. n \in Nat /\ i \in Nat
      BY <1>0
    <3>1. i \in Nat /\ \A j \in 1 .. i - 1 : fifo[j] = fifo'[j]
      <4> HIDE DEF n
      <4>1. \A j \in 1 .. i - 1 : j \in 1 .. n
        BY <3>0
      <4>2. QED BY <2>3, <3>0, <4>1
    <3>2. CASE i \in 1 .. n
      <4>1. Follows(fifo, sent, fifo[i][1], i, fifo[i][2])
        BY <3>2 DEF InOrder
      <4>2. Follows(fifo', sent, fifo[i][1], i, fifo[i][2])
        BY <3>1, <4>1, FollowsPrefix
      <4>3. QED BY <2>1, <2>3, <3>2, <4>2
    <3>3. CASE i = n + 1
      <4>1. Follows(fifo, sent, w, i, char[w])
        BY <3>3 DEF InOrder
      <4>2. Follows(fifo', sent, w, i, char[w])
        BY <3>1, <4>1, FollowsPrefix
      <4>3. QED BY <2>1, <2>3, <2>4, <3>3, <4>2
    <3>4. i \in 1 .. n \/ i = n + 1
      <4> HIDE DEF n
      <4>1. QED BY <3>0
    <3>5. QED BY <3>2, <3>3, <3>4
  <2>6. ASSUME NEW v \in Writers PROVE Follows(fifo', sent', v, (n + 1) + 1, char'[v])
    <3>1. CASE v = w
      <4>1. char'[v] = After(char[w])
        BY <1>0, <2>1, <3>1 DEF Following, After
      <4>2. n + 1 \in 1 .. ((n + 1) + 1) - 1 /\ \A k \in (n + 1) + 1 .. ((n + 1) + 1) - 1 : FALSE
        BY <1>0
      <4>3. QED BY <2>3, <2>4, <3>1, <4>1, <4>2 DEF Follows
    <3>2. CASE v # w
      <4>1. Follows(fifo, sent, v, n + 1, char[v])
        BY DEF InOrder
      <4>2. \A j \in 1 .. (n + 1) - 1 : fifo[j] = fifo'[j]
        BY <1>0, <2>3
      <4>3. Follows(fifo', sent, v, n + 1, char[v])
        BY <1>0, <4>1, <4>2, FollowsPrefix
      <4>4. Follows(fifo', sent, v, (n + 1) + 1, char[v])
        BY <1>0, <2>3, <2>4, <3>2, <4>3, FollowsOther
      <4>5. QED BY <1>0, <2>1, <3>2, <4>4
    <3>3. QED BY <3>1, <3>2
  <2>7. QED BY <2>3, <2>5, <2>6 DEF InOrder
<1>3. CASE Drain
  <2> DEFINE m == Len(fifo')
  <2>1. /\ fifo # <<>> /\ fifo' = Tail(fifo) /\ char' = char
        /\ sent' = [sent EXCEPT ![fifo[1][1]] = fifo[1][2]]
    <3>1. fifo # <<>> /\ fifo' = Tail(fifo) /\ char' = char
      BY <1>3 DEF Drain
    <3>2. Head(fifo) = fifo[1]
      BY <1>0, <3>1, HeadTailProperties
    <3>3. sent' = [sent EXCEPT ![Head(fifo)[1]] = Head(fifo)[2]]
      BY <1>3 DEF Drain
    <3>4. QED BY <3>1, <3>2, <3>3
  <2>2. /\ fifo' \in Seq(Writers \X (1 .. LENGTH)) /\ m = Len(fifo) - 1
        /\ \A i \in 1 .. m : fifo'[i] = fifo[i + 1]
    BY <1>0, <2>1, HeadTailProperties
  <2>3. m \in Nat /\ DOMAIN sent = Writers
    BY <1>0, <2>2, LenProperties
  <2> HIDE DEF m
  <2>4. ASSUME NEW w \in Writers, NEW i \in 1 .. m + 1, NEW c, Follows(fifo, sent, w, i + 1, c)
        PROVE  Follows(fifo', sent', w, i, c)
    <3>1. i \in Nat \ {0} /\ \A j \in 1 .. i - 1 : fifo'[j] = fifo[j + 1]
      BY <2>2, <2>3
    <3>2. QED BY <2>1, <2>3, <2>4, <3>1, FollowsDrained
  <2>5. ASSUME NEW i \in 1 .. m PROVE Follows(fifo', sent', fifo'[i][1], i, fifo'[i][2])
    <3> DEFINE n == Len(fifo)
    <3>1. n \in Nat /\ m = n - 1 /\ m \in Nat
      BY <1>0, <2>2, <2>3
    <3>2. fifo'[i] = fifo[i + 1]
      BY <2>2
    <3> HIDE DEF n
    <3>3. i + 1 \in 1 .. n /\ i \in 1 .. m + 1
      BY <3>1
    <3>4. Follows(fifo, sent, fifo[i + 1][1], i + 1, fifo[i + 1][2])
      BY <3>3 DEF InOrder, n
    <3>5. fifo[i + 1][1] \in Writers
      <4>1. fifo[i + 1] \in Writers \X (1 .. LENGTH)
        BY <1>0, <3>3, ElementOfSeq DEF n
      <4>2. QED BY <4>1
    <3>6. QED BY <2>4, <3>2, <3>3, <3>4, <3>5
  <2>6. ASSUME NEW w \in Writers PROVE Follows(fifo', sent', w, m + 1, char'[w])
    <3>1. Len(fifo) + 1 = (m + 1) + 1 /\ m + 1 \in 1 .. m + 1
      BY <1>0, <2>2, <2>3
    <3>2. Follows(fifo, sent, w, (m + 1) + 1, char[w])
      BY <3>1 DEF InOrder
    <3>3. QED BY <2>1, <2>4, <3>1, <3>2
  <2>7. QED BY <2>5, <2>6 DEF InOrder, m
<1>4. QED BY <1>1, <1>2, <1>3 DEF Next, serial_print, Test, vars

\* However the characters of the writers are mixed, and wherever ticks stop them
\* between test and write, each one's text leaves the transmitter in order.
THEOREM TextsStayInOrder == Spec => TextsInOrder
<1>1. ASSUME TypeOK, InOrder, fifo # <<>>
      PROVE  Head(fifo)[2] = (sent[Head(fifo)[1]] % LENGTH) + 1
  <2>1. Head(fifo) = fifo[1] /\ 1 \in 1 .. Len(fifo)
    BY <1>1, EmptySeq DEF TypeOK
  <2>2. Follows(fifo, sent, fifo[1][1], 1, fifo[1][2])
    BY <1>1, <2>1 DEF InOrder
  <2>3. QED BY <2>1, <2>2 DEF Follows, After
<1>2. TypeOK /\ InOrder =>
        [fifo # <<>> /\ fifo' = Tail(fifo) =>
           Head(fifo)[2] = (sent[Head(fifo)[1]] % LENGTH) + 1]_vars
  BY <1>1
<1>3. Spec => []InOrder
  BY InitOrder, NextOrder, TypeCorrect, Bounded, PTL DEF Spec
<1>4. QED BY <1>2, <1>3, TypeCorrect, PTL DEF TextsInOrder
=============================================================================
