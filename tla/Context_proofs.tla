--------------------------- MODULE Context_proofs ---------------------------
(***************************************************************************)
(* Proofs about Context: for any threads and any vectors, each thread that *)
(* executes finds the registers it left, and every other's stack holds one *)
(* frame that the stub can pop.                                            *)
(***************************************************************************)
EXTENDS Context, SequenceTheorems, TLAPS

-----------------------------------------------------------------------------
(* The orders of the pushes and the pops *)

LEMMA Lengths ==
  /\ Len(PushOrder) = 15 /\ DOMAIN PushOrder = 1 .. 15
  /\ Len(PopOrder) = 15 /\ DOMAIN PopOrder = 1 .. 15
BY DEF PushOrder, PopOrder

LEMMA PopsReversePushes == \A j \in 1 .. 15 : PopOrder[j] = PushOrder[16 - j]
<1> SUFFICES ASSUME NEW j \in 1 .. 15 PROVE PopOrder[j] = PushOrder[16 - j]
  OBVIOUS
<1>1. CASE j \in 1 .. 5
  BY <1>1 DEF PushOrder, PopOrder
<1>2. CASE j \in 6 .. 10
  BY <1>2 DEF PushOrder, PopOrder
<1>3. CASE j \in 11 .. 15
  BY <1>3 DEF PushOrder, PopOrder
<1>4. QED BY <1>1, <1>2, <1>3

LEMMA RegistersPushed ==
  /\ \A j \in 1 .. 15 : PushOrder[j] \in Registers
  /\ \A r \in Registers : \E j \in 1 .. 15 : PushOrder[j] = r
  /\ "rsi" \in Registers
<1>1. Registers = {PushOrder[j] : j \in 1 .. 15}
  BY Lengths DEF Registers, ToSet
<1>2. PushOrder[6] = "rsi"
  BY DEF PushOrder
<1>3. QED BY <1>1, <1>2

\* Each register is popped at some place.
LEMMA EachIsPopped ==
  ASSUME NEW r \in Registers
  PROVE  LET j == CHOOSE j \in DOMAIN PopOrder : PopOrder[j] = r
         IN  j \in 1 .. 15 /\ PushOrder[16 - j] = r
<1>1. PICK k \in 1 .. 15 : PushOrder[k] = r
  BY RegistersPushed
<1>2. 16 - k \in 1 .. 15 /\ PopOrder[16 - k] = PushOrder[16 - (16 - k)] /\ 16 - (16 - k) = k
  BY PopsReversePushes
<1>3. \E j \in DOMAIN PopOrder : PopOrder[j] = r
  BY <1>1, <1>2, Lengths
<1>4. QED BY <1>3, Lengths, PopsReversePushes

-----------------------------------------------------------------------------
(* The invariant *)

\* A register that thread t may have lost.
Lost(t, r) == r = "rsi" /\ t \in clobbered

\* The stack of a thread that waits: its frame, with the registers as it left them.
Framed(t) ==
  /\ Len(stack[t]) = 16 /\ stack[t][1] = Other("iret")
  /\ \A j \in 1 .. 15 : stack[t][j + 1] = own[t][PushOrder[j]] \/ Lost(t, PushOrder[j])

Kept == \A r \in Registers : regs[r] = own[cpu][r] \/ Lost(cpu, r)

\* A stub begins and ends with the processor's own frame on the stack, and with the
\* registers of its thread; in between both are below the stack pointer.
StubInv ==
  /\ pc \in {"run", "entry", "save", "iretq"} => Kept
  /\ pc = "run" => stack[cpu] = <<>>
  /\ pc = "entry" => Len(stack[cpu]) = 2 /\ stack[cpu][1] = Other("iret")
  /\ pc \in {"save", "iretq"} => Len(stack[cpu]) = 1 /\ stack[cpu][1] = Other("iret")
  /\ pc \in {"call", "restore", "halt"} => Framed(cpu)

IInv == TypeOK /\ StubInv /\ \A t \in Threads \ {cpu} : Framed(t)

LEMMA InvImplies == IInv => RegistersKept /\ StacksInv
<1> SUFFICES ASSUME IInv PROVE RegistersKept /\ StacksInv
  OBVIOUS
<1>1. RegistersKept
  BY DEF IInv, StubInv, Kept, Lost, RegistersKept
<1>2. StacksBalanced
  BY Lengths DEF IInv, StubInv, Framed, StacksBalanced
<1>3. QED BY <1>1, <1>2 DEF StacksInv, IInv

LEMMA WordsType ==
  /\ \A c \in {"zero", "junk", "code", "iret"} : Other(c) \in Words
  /\ \A t \in Threads, r \in Registers : <<t, r>> \in Words
  /\ Zeros \in [Registers -> Words]
BY DEF Words, Zeros

\* The words of s, then those of t.
LEMMA Pushed ==
  ASSUME NEW s \in Seq(Words), NEW t \in Seq(Words)
  PROVE  /\ s \o t \in Seq(Words) /\ Len(s \o t) = Len(s) + Len(t)
         /\ \A j \in 1 .. Len(s) : (s \o t)[j] = s[j]
         /\ \A j \in 1 .. Len(t) : (s \o t)[Len(s) + j] = t[j]
OBVIOUS

LEMMA NewFrameType ==
  /\ NewFrame \in Seq(Words) /\ Len(NewFrame) = 16 /\ NewFrame[1] = Other("iret")
  /\ \A j \in 1 .. 15 : NewFrame[j + 1] = Other("zero")
<1> DEFINE zeros == [j \in 1 .. Len(PushOrder) |-> Other("zero")]
           iret == <<Other("iret")>>
<1>1. zeros \in Seq(Words) /\ Len(zeros) = 15 /\ \A j \in 1 .. 15 : zeros[j] = Other("zero")
  BY Lengths, WordsType
<1>2. iret \in Seq(Words) /\ Len(iret) = 1 /\ iret[1] = Other("iret")
  BY WordsType
<1>3. NewFrame = iret \o zeros
  BY DEF NewFrame
<1> HIDE DEF zeros, iret
<1>4. /\ NewFrame \in Seq(Words) /\ Len(NewFrame) = Len(iret) + Len(zeros)
      /\ \A j \in 1 .. Len(iret) : NewFrame[j] = iret[j]
      /\ \A j \in 1 .. Len(zeros) : NewFrame[Len(iret) + j] = zeros[j]
  BY <1>1, <1>2, <1>3, Pushed, Zenon
<1>5. \A j \in 1 .. 15 : NewFrame[j + 1] = Other("zero")
  <2>1. ASSUME NEW j \in 1 .. 15 PROVE NewFrame[j + 1] = Other("zero")
    <3>1. NewFrame[1 + j] = Other("zero")
      BY <1>1, <1>2, <1>4
    <3>2. QED BY <3>1
  <2>2. QED BY <2>1
<1>6. QED BY <1>1, <1>2, <1>4, <1>5

LEMMA InitInv == Init => IInv
<1> SUFFICES ASSUME Init PROVE IInv
  OBVIOUS
<1>1. cpu = First /\ First \in Threads /\ pc = "run" /\ stack[First] = <<>> /\ regs = Zeros
      /\ own[First] = Zeros /\ \A t \in Threads \ {First} : stack[t] = NewFrame /\ own[t] = Zeros
  BY ThreadsAssumption DEF Init
<1>2. \A t \in Threads \ {cpu} : Framed(t)
  <2>1. \A j \in 1 .. 15 : Zeros[PushOrder[j]] = Other("zero")
    BY RegistersPushed DEF Zeros
  <2>2. QED BY <1>1, <2>1, NewFrameType DEF Framed
<1>3. StubInv
  BY <1>1 DEF StubInv, Kept
<1>4. TypeOK
  <2>1. stack \in [Threads -> Seq(Words)]
    BY NewFrameType DEF Init
  <2>2. regs \in [Registers -> Words] /\ own \in [Threads -> [Registers -> Words]]
    BY WordsType DEF Init
  <2>3. argument \in Words /\ cpu \in Threads /\ vector \in 0 .. 255 /\ clobbered \subseteq Threads
    BY <1>1, WordsType DEF Init
  <2>4. QED BY <1>1, <2>1, <2>2, <2>3 DEF TypeOK
<1>5. QED BY <1>2, <1>3, <1>4 DEF IInv
-----------------------------------------------------------------------------
(* The steps *)

LEMMA StillFramed ==
  ASSUME NEW t, Framed(t), stack'[t] = stack[t], own'[t] = own[t], clobbered \subseteq clobbered'
  PROVE  Framed(t)'
BY DEF Framed, Lost

LEMMA ComputeStep == ASSUME IInv, Compute PROVE IInv'
<1>1. TypeOK'
  BY WordsType DEF IInv, TypeOK, Compute
<1>2. \A t \in Threads \ {cpu'} : Framed(t)'
  BY StillFramed DEF IInv, TypeOK, Compute
<1>3. own'[cpu'] = regs' /\ pc' = "run" /\ stack'[cpu'] = <<>>
  BY DEF IInv, TypeOK, StubInv, Compute
<1>4. QED BY <1>1, <1>2, <1>3 DEF IInv, StubInv, Kept

\* A step on the stack of the thread that executes.
LEMMA OnItsStack ==
  ASSUME IInv, NEW s \in Seq(Words), stack' = [stack EXCEPT ![cpu] = s],
         UNCHANGED <<cpu, own>>, clobbered \subseteq clobbered'
  PROVE  /\ stack' \in [Threads -> Seq(Words)] /\ stack'[cpu'] = s
         /\ \A t \in Threads \ {cpu'} : Framed(t)'
<1>1. stack' \in [Threads -> Seq(Words)] /\ stack'[cpu'] = s
      /\ \A t \in Threads \ {cpu} : stack'[t] = stack[t]
  BY DEF IInv, TypeOK
<1>2. QED BY <1>1, StillFramed DEF IInv

LEMMA InterruptStep == ASSUME IInv, NEW v \in Vectors, Interrupt(v) PROVE IInv'
<1> DEFINE s == stack[cpu] \o <<Other("iret")>> \o IF v \in WithCode THEN <<Other("code")>> ELSE <<>>
<1>1. pc = "run" /\ stack[cpu] = <<>> /\ Kept
  BY DEF Interrupt, IInv, StubInv
<1>2. s \in Seq(Words) /\ Len(s) = (IF v \in WithCode THEN 2 ELSE 1) /\ s[1] = Other("iret")
  <2> DEFINE iret == <<Other("iret")>>
             code == IF v \in WithCode THEN <<Other("code")>> ELSE <<>>
             first == stack[cpu] \o iret
  <2>1. stack[cpu] \in Seq(Words) /\ Len(stack[cpu]) = 0
    BY <1>1
  <2>2. iret \in Seq(Words) /\ Len(iret) = 1 /\ iret[1] = Other("iret")
    BY WordsType
  <2>3. code \in Seq(Words) /\ Len(code) = IF v \in WithCode THEN 1 ELSE 0
    BY WordsType
  <2>4. s = first \o code
    OBVIOUS
  <2> HIDE DEF iret, code, s
  <2>5. first \in Seq(Words) /\ Len(first) = Len(stack[cpu]) + Len(iret)
        /\ \A j \in 1 .. Len(iret) : first[Len(stack[cpu]) + j] = iret[j]
    BY <2>1, <2>2, Pushed, Zenon
  <2> HIDE DEF first
  <2>6. Len(first) = 1 /\ first[1] = Other("iret")
    <3>1. 1 \in 1 .. Len(iret) /\ Len(stack[cpu]) + 1 = 1
      BY <2>1, <2>2
    <3>2. QED BY <2>1, <2>2, <2>5, <3>1
  <2>7. s \in Seq(Words) /\ Len(s) = Len(first) + Len(code)
        /\ \A j \in 1 .. Len(first) : s[j] = first[j]
    BY <2>3, <2>4, <2>5, Pushed, Zenon
  <2>8. QED BY <2>3, <2>6, <2>7
<1>3. stack' = [stack EXCEPT ![cpu] = s] /\ UNCHANGED <<cpu, own, clobbered, regs, argument>>
      /\ vector' = v /\ pc' = IF v \in WithCode THEN "entry" ELSE "save"
  BY DEF Interrupt, IInv, TypeOK
<1> HIDE DEF s
<1>4. /\ stack' \in [Threads -> Seq(Words)] /\ stack'[cpu'] = s
      /\ \A t \in Threads \ {cpu'} : Framed(t)'
  BY <1>2, <1>3, OnItsStack
<1>5. TypeOK'
  BY <1>3, <1>4, VectorsAssumption DEF IInv, TypeOK
<1>6. Kept'
  BY <1>1, <1>3 DEF Kept, Lost
<1>7. QED BY <1>2, <1>3, <1>4, <1>5, <1>6 DEF IInv, StubInv

\* What is left when the last word is popped.
LEMMA PoppedWord ==
  ASSUME NEW s \in Seq(Words), Len(s) > 0
  PROVE  /\ Front(s) \in Seq(Words) /\ Len(Front(s)) = Len(s) - 1
         /\ \A j \in 1 .. Len(s) - 1 : Front(s)[j] = s[j]
         /\ Last(s) \in Words
<1>1. Len(s) \in Nat /\ \A j \in 1 .. Len(s) : s[j] \in Words
  OBVIOUS
<1>2. Len(s) - 1 \in Int /\ \A j \in 1 .. Len(s) - 1 : s[j] \in Words
  BY <1>1
<1> DEFINE front == SubSeq(s, 1, Len(s) - 1)
<1>3. /\ front \in Seq(Words)
      /\ Len(front) = IF 1 <= Len(s) - 1 THEN Len(s) - 1 - 1 + 1 ELSE 0
      /\ \A j \in 1 .. Len(s) - 1 - 1 + 1 : front[j] = s[1 + j - 1]
  BY <1>2, SubSeqProperties
<1>4. Front(s) = front
  BY DEF Front
<1> HIDE DEF front
<1>5. QED BY <1>1, <1>3, <1>4 DEF Last

LEMMA PopCodeStep == ASSUME IInv, PopCode PROVE IInv'
<1> DEFINE s == Popped(stack[cpu])
<1>1. pc = "entry" /\ stack[cpu] \in Seq(Words) /\ Len(stack[cpu]) = 2 /\ stack[cpu][1] = Other("iret") /\ Kept
  BY DEF PopCode, IInv, TypeOK, StubInv
<1>2. s \in Seq(Words) /\ Len(s) = 1 /\ s[1] = Other("iret") /\ Last(stack[cpu]) \in Words
  <2>1. /\ s \in Seq(Words) /\ Len(s) = Len(stack[cpu]) - 1 /\ Last(stack[cpu]) \in Words
        /\ \A j \in 1 .. Len(stack[cpu]) - 1 : s[j] = stack[cpu][j]
    <3>1. Len(stack[cpu]) > 0
      BY <1>1
    <3>2. QED BY <1>1, <3>1, PoppedWord, Zenon DEF Popped
  <2> HIDE DEF s
  <2>2. QED BY <1>1, <2>1
<1>3. stack' = [stack EXCEPT ![cpu] = s] /\ UNCHANGED <<cpu, own, vector, argument>>
      /\ clobbered' = clobbered \cup {cpu} /\ pc' = "save"
      /\ regs' = [regs EXCEPT !["rsi"] = Last(stack[cpu])]
  BY DEF PopCode
<1> HIDE DEF s
<1>4. /\ stack' \in [Threads -> Seq(Words)] /\ stack'[cpu'] = s
      /\ \A t \in Threads \ {cpu'} : Framed(t)'
  BY <1>2, <1>3, OnItsStack
<1>5. TypeOK'
  BY <1>2, <1>3, <1>4 DEF IInv, TypeOK
<1>6. Kept'
  BY <1>1, <1>3 DEF Kept, Lost, IInv, TypeOK
<1>7. QED BY <1>2, <1>3, <1>4, <1>5, <1>6 DEF IInv, StubInv

LEMMA SaveStep == ASSUME IInv, Save PROVE IInv'
<1> DEFINE words == [j \in 1 .. Len(PushOrder) |-> regs[PushOrder[j]]]
           s == stack[cpu] \o words
<1>1. pc = "save" /\ stack[cpu] \in Seq(Words) /\ Len(stack[cpu]) = 1 /\ stack[cpu][1] = Other("iret") /\ Kept
  BY DEF Save, IInv, TypeOK, StubInv
<1>2. words \in Seq(Words) /\ Len(words) = 15 /\ \A j \in 1 .. 15 : words[j] = regs[PushOrder[j]]
  BY Lengths, RegistersPushed DEF IInv, TypeOK
<1>3. stack' = [stack EXCEPT ![cpu] = s] /\ UNCHANGED <<regs, cpu, own, clobbered, vector, argument>> /\ pc' = "call"
  BY DEF Save
<1> HIDE DEF words
<1>4. /\ s \in Seq(Words) /\ Len(s) = Len(stack[cpu]) + Len(words)
      /\ \A j \in 1 .. Len(stack[cpu]) : s[j] = stack[cpu][j]
      /\ \A j \in 1 .. Len(words) : s[Len(stack[cpu]) + j] = words[j]
  BY <1>1, <1>2, Pushed, Zenon
<1> HIDE DEF s
<1>5. /\ stack' \in [Threads -> Seq(Words)] /\ stack'[cpu'] = s
      /\ \A t \in Threads \ {cpu'} : Framed(t)'
  BY <1>3, <1>4, OnItsStack
<1>6. Framed(cpu)'
  <2>1. \A j \in 1 .. 15 : s[j + 1] = own[cpu][PushOrder[j]] \/ Lost(cpu, PushOrder[j])
    <3>1. ASSUME NEW j \in 1 .. 15 PROVE s[j + 1] = own[cpu][PushOrder[j]] \/ Lost(cpu, PushOrder[j])
      <4>1. s[1 + j] = regs[PushOrder[j]] /\ 1 + j = j + 1
        <5>1. j \in 1 .. Len(words) /\ Len(stack[cpu]) = 1
          BY <1>1, <1>2
        <5>2. s[Len(stack[cpu]) + j] = words[j]
          BY <1>4, <5>1
        <5>3. QED BY <1>2, <5>1, <5>2
      <4>2. QED BY <1>1, <4>1, RegistersPushed DEF Kept
    <3>2. QED BY <3>1
  <2>2. QED BY <1>1, <1>2, <1>3, <1>4, <1>5, <2>1 DEF Framed, Lost
<1>7. TypeOK'
  BY <1>3, <1>5 DEF IInv, TypeOK
<1>8. QED BY <1>3, <1>5, <1>6, <1>7 DEF IInv, StubInv

LEMMA WordIsWord ==
  ASSUME TypeOK, NEW n \in 0 .. 14, Len(stack[cpu]) = 16
  PROVE  Word(n) = stack[cpu][16 - n] /\ Word(n) \in Words
<1>1. Word(n) = stack[cpu][16 - n]
  BY DEF Word
<1>2. stack[cpu] \in Seq(Words) /\ 16 - n \in 1 .. Len(stack[cpu])
  BY DEF TypeOK
<1>3. stack[cpu][16 - n] \in Words
  BY <1>2
<1>4. QED BY <1>1, <1>3

\* The calls change registers only; after schedule() another thread's stack is used.
LEMMA CallStep == ASSUME IInv, Call \/ Schedule PROVE IInv'
<1>1. pc = "call" /\ Framed(cpu) /\ TypeOK
  BY DEF Call, Schedule, IInv, StubInv
<1>2. UNCHANGED <<stack, own, clobbered, vector>> /\ regs' = Called /\ pc' \in {"restore", "halt"}
      /\ cpu' \in Threads
  BY <1>1 DEF Call, Schedule, TypeOK
<1>3. \A t \in Threads : Framed(t)'
  BY <1>1, <1>2, StillFramed DEF IInv
<1>4. argument' \in Words
  <2>1. Word(7) \in Words
    BY <1>1, WordIsWord DEF Framed
  <2>2. QED BY <1>1, <2>1, WordsType DEF Call, Schedule, TypeOK
<1>5. Called \in [Registers -> Words]
  BY <1>1, WordsType DEF Called, TypeOK
<1>6. TypeOK'
  BY <1>1, <1>2, <1>4, <1>5 DEF TypeOK
<1>7. QED BY <1>2, <1>3, <1>6 DEF IInv, StubInv

LEMMA RestoreStep == ASSUME IInv, Restore PROVE IInv'
<1> DEFINE s == SubSeq(stack[cpu], 1, Len(stack[cpu]) - Len(PopOrder))
<1>1. pc = "restore" /\ Framed(cpu) /\ TypeOK /\ stack[cpu] \in Seq(Words)
  BY DEF Restore, IInv, StubInv, TypeOK
<1>2. Len(stack[cpu]) = 16 /\ stack[cpu][1] = Other("iret") /\ Other("iret") \in Words
  BY <1>1, WordsType DEF Framed
<1>3. s \in Seq(Words) /\ Len(s) = 1 /\ s[1] = Other("iret")
  <2>1. s = SubSeq(stack[cpu], 1, 1)
    BY <1>2, Lengths
  <2>2. \A j \in 1 .. 1 : stack[cpu][j] \in Words
    BY <1>2
  <2>3. /\ SubSeq(stack[cpu], 1, 1) \in Seq(Words)
        /\ Len(SubSeq(stack[cpu], 1, 1)) = IF 1 <= 1 THEN 1 - 1 + 1 ELSE 0
        /\ \A j \in 1 .. 1 - 1 + 1 : SubSeq(stack[cpu], 1, 1)[j] = stack[cpu][1 + j - 1]
    BY <2>2, SubSeqProperties
  <2> HIDE DEF s
  <2>4. QED BY <1>2, <2>1, <2>3
<1>4. stack' = [stack EXCEPT ![cpu] = s] /\ UNCHANGED <<cpu, own, clobbered, vector, argument>> /\ pc' = "iretq"
  BY DEF Restore
<1> HIDE DEF s
<1>5. /\ stack' \in [Threads -> Seq(Words)] /\ stack'[cpu'] = s
      /\ \A t \in Threads \ {cpu'} : Framed(t)'
  BY <1>3, <1>4, OnItsStack
<1>6. ASSUME NEW r \in Registers
      PROVE  regs'[r] \in Words /\ (regs'[r] = own[cpu][r] \/ Lost(cpu, r))
  <2> DEFINE j == CHOOSE j \in DOMAIN PopOrder : PopOrder[j] = r
  <2>1. j \in 1 .. 15 /\ PushOrder[16 - j] = r
    BY EachIsPopped
  <2>2. regs'[r] = Word(j - 1)
    BY DEF Restore
  <2> HIDE DEF j
  <2>3. regs'[r] = stack[cpu][16 - (j - 1)] /\ regs'[r] \in Words
    <3>1. j - 1 \in 0 .. 14
      BY <2>1
    <3>2. QED BY <1>1, <1>2, <2>2, <3>1, WordIsWord, Zenon
  <2>4. 16 - j \in 1 .. 15 /\ 16 - (j - 1) = (16 - j) + 1
    BY <2>1
  <2>5. QED BY <1>1, <2>1, <2>3, <2>4 DEF Framed
<1>7. TypeOK'
  <2>1. regs' \in [Registers -> Words]
    BY <1>6 DEF Restore
  <2>2. QED BY <1>1, <1>4, <1>5, <2>1 DEF TypeOK
<1>8. Kept'
  BY <1>4, <1>6 DEF Kept, Lost
<1>9. QED BY <1>3, <1>4, <1>5, <1>7, <1>8 DEF IInv, StubInv

LEMMA IretqStep == ASSUME IInv, Iretq PROVE IInv'
<1> DEFINE s == Front(stack[cpu])
<1>1. pc = "iretq" /\ stack[cpu] \in Seq(Words) /\ Len(stack[cpu]) = 1 /\ Kept
  BY DEF Iretq, IInv, TypeOK, StubInv
<1>2. s \in Seq(Words) /\ Len(s) = Len(stack[cpu]) - 1
  <2>1. Len(stack[cpu]) > 0
    BY <1>1
  <2>2. QED BY <1>1, <2>1, PoppedWord, Zenon
<1>3. stack' = [stack EXCEPT ![cpu] = s] /\ UNCHANGED <<regs, cpu, own, clobbered, vector, argument>> /\ pc' = "run"
  BY DEF Iretq
<1> HIDE DEF s
<1>4. s = <<>>
  BY <1>1, <1>2
<1>5. /\ stack' \in [Threads -> Seq(Words)] /\ stack'[cpu'] = s
      /\ \A t \in Threads \ {cpu'} : Framed(t)'
  BY <1>2, <1>3, OnItsStack
<1>6. TypeOK'
  BY <1>3, <1>5 DEF IInv, TypeOK
<1>7. Kept'
  BY <1>1, <1>3 DEF Kept, Lost
<1>8. QED BY <1>3, <1>4, <1>5, <1>6, <1>7 DEF IInv, StubInv

LEMMA NextInv == IInv /\ [Next]_vars => IInv'
<1>1. ASSUME IInv, UNCHANGED vars PROVE IInv'
  BY <1>1 DEF vars, IInv, TypeOK, StubInv, Kept, Framed, Lost
<1>2. QED BY <1>1, ComputeStep, InterruptStep, PopCodeStep, SaveStep, CallStep, RestoreStep, IretqStep
          DEF Next, Stub, Halt

LEMMA InvAlways == Spec => []IInv
BY InitInv, NextInv, PTL DEF Spec

-----------------------------------------------------------------------------
\* Whatever threads schedule() chooses, and whichever interrupts and exceptions come: a
\* thread that executes finds every register as it left it, but for the rsi that an
\* exception with an error code costs it.
THEOREM RegistersAreKept == Spec => []RegistersKept
BY InvAlways, InvImplies, PTL

\* Pushes and pops balance: an executing thread's stack is its own again, every other's
\* holds one frame that the stub can pop and iretq can use.
THEOREM StacksAreBalanced == Spec => []StacksInv
BY InvAlways, InvImplies, PTL
=============================================================================
