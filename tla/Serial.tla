------------------------------- MODULE Serial -------------------------------
(***************************************************************************)
(* The serial port, src/drivers/serial.cpp.  Everything that runs prints:  *)
(* the processes, which a tick may stop anywhere, also between the test of *)
(* the transmitter and the write to it, and schedule(), which prints from  *)
(* the tick itself, with interrupts disabled.  A character is modelled by  *)
(* its number in the text that is printed; lines are printed over and over.*)
(***************************************************************************)
EXTENDS Integers, Sequences, FiniteSets

CONSTANTS
  Threads,      \* kmain() and the processes
  Handler,      \* schedule() on the stack of the interrupted thread
  LENGTH,       \* characters of a text
  FIFO_SIZE     \* bytes the UART's transmitter holds: 16

Writers == Threads \cup {Handler}
ASSUME WritersAssumption == IsFiniteSet(Threads) /\ Handler \notin Threads
ASSUME SizeAssumption ==
  LENGTH \in Nat \ {0} /\ FIFO_SIZE \in Nat /\ Cardinality(Writers) <= FIFO_SIZE

VARIABLES
  pc,           \* of every writer: "idle", "test", "write"
  char,         \* the character of its text a writer is at
  fifo,         \* characters in the transmitter, <<writer, char>>
  sent          \* the last character of each writer that left the transmitter

vars == <<pc, char, fifo, sent>>

Init ==
  /\ pc = [w \in Writers |-> "idle"] /\ char = [w \in Writers |-> 1]
  /\ fifo = <<>> /\ sent = [w \in Writers |-> LENGTH]

FollowingNot(c) == c                       \* mutant: i++ is forgotten
Following(c) == (c % LENGTH) + 1           \* the text starts again at its end

\* While schedule() prints no thread executes.
Executes(w) == w = Handler \/ pc[Handler] = "idle"

\* serial_print() of a text.
serial_print(w) ==
  /\ pc[w] = "idle" /\ Executes(w)
  /\ pc' = [pc EXCEPT ![w] = "test"]
  /\ UNCHANGED <<char, fifo, sent>>

EmptyUntested == TRUE        \* mutant: the bit is not tested
is_transmit_empty == fifo = <<>>

\* The transmitter is found empty; while it is not, the test is repeated.
Test(w) ==
  /\ pc[w] = "test" /\ Executes(w)
  /\ is_transmit_empty
  /\ pc' = [pc EXCEPT ![w] = "write"]
  /\ UNCHANGED <<char, fifo, sent>>

\* The character is written; a full transmitter drops it.
Write(w) ==
  /\ pc[w] = "write" /\ Executes(w)
  /\ fifo' = IF Len(fifo) < FIFO_SIZE THEN Append(fifo, <<w, char[w]>>) ELSE fifo
  /\ char' = [char EXCEPT ![w] = Following(@)]
  /\ pc' = [pc EXCEPT ![w] = IF char[w] = LENGTH THEN "idle" ELSE "test"]
  /\ UNCHANGED sent

\* The UART sends a character.
Drain ==
  /\ fifo # <<>>
  /\ sent' = [sent EXCEPT ![Head(fifo)[1]] = Head(fifo)[2]]
  /\ fifo' = Tail(fifo)
  /\ UNCHANGED <<pc, char>>

Next ==
  \/ \E w \in Writers : serial_print(w) \/ Test(w) \/ Write(w)
  \/ Drain

Spec == Init /\ [][Next]_vars

\* The UART sends, and while schedule() prints nothing stops it.  Of the threads
\* nothing is assumed: how much of the time between two ticks is left to them
\* depends on how long schedule() itself takes to print.
FairSpec ==
  Spec /\ WF_vars(Drain) /\ WF_vars(Test(Handler)) /\ WF_vars(Write(Handler))

-----------------------------------------------------------------------------
TypeOK ==
  /\ pc \in [Writers -> {"idle", "test", "write"}]
  /\ char \in [Writers -> 1 .. LENGTH]
  /\ fifo \in Seq(Writers \X (1 .. LENGTH))
  /\ sent \in [Writers -> 1 .. LENGTH]

\* Writers that found the transmitter empty and have not written yet.
Committed == {w \in Writers : pc[w] = "write"}

\* The test and the write are not atomic, so the transmitter need not be empty when
\* a character is written; but each writer that was stopped between them adds one
\* character only, and so the transmitter never holds more than there are writers.
NeverOverrun == Len(fifo) + Cardinality(Committed) <= Cardinality(Writers)

\* However the texts of different writers are mixed, each of them leaves the
\* transmitter complete and in order.
TextsInOrder ==
  [][fifo # <<>> /\ fifo' = Tail(fifo) =>
       Head(fifo)[2] = (sent[Head(fifo)[1]] % LENGTH) + 1]_vars

\* schedule() returns: a transmitter that the interrupted threads have filled
\* empties while it waits, as no thread adds to it.
HandlerReturns == pc[Handler] = "test" ~> pc[Handler] = "idle"
=============================================================================
