------------------------------ MODULE Library ------------------------------
(***************************************************************************)
(* The library functions, src/kernel/lib.cpp: loops over bytes, as         *)
(* functions of the memory they are given.  A byte has BYTE values, so     *)
(* that a short memory can hold every content; the widths of the integers  *)
(* follow from it.                                                         *)
(***************************************************************************)
EXTENDS Integers, Sequences, FiniteSetsExt

CONSTANT NIBBLE              \* values of four bits: 16
ASSUME NibbleAssumption == NIBBLE \in Nat \ {0, 1}

BYTE == NIBBLE * NIBBLE
UINT16 == BYTE * BYTE
UINT32 == UINT16 * UINT16

-----------------------------------------------------------------------------
(* Memory: m is the memory, d, s, p and q are addresses *)

\* The bytes are copied one at a time, from the first on, ...
CopyUp(m, d, s, n) ==
  LET copied[i \in 0 .. n] ==
        IF i = 0 THEN m
        ELSE [copied[i - 1] EXCEPT ![d + i - 1] = copied[i - 1][s + i - 1]]
  IN  copied[n]

CopyDownAsUp(m, d, s, n) == CopyUp(m, d, s, n)             \* mutant
\* ... or from the last.
CopyDown(m, d, s, n) ==
  LET copied[i \in 0 .. n] ==
        IF i = 0 THEN m
        ELSE [copied[i - 1] EXCEPT ![d + n - i] = copied[i - 1][s + n - i]]
  IN  copied[n]

memcpy(m, d, s, n) == CopyUp(m, d, s, n)

memset(m, d, c, n) == [a \in DOMAIN m |-> IF a \in d .. d + n - 1 THEN c % BYTE ELSE m[a]]

memmove(m, d, s, n) ==
  IF s > d THEN CopyUp(m, d, s, n) ELSE IF s < d THEN CopyDown(m, d, s, n) ELSE m

\* The first difference decides.
memcmp(m, p, q, n) ==
  LET differ == {i \in 0 .. n - 1 : m[p + i] # m[q + i]} IN
  IF differ = {} THEN 0 ELSE IF m[p + Min(differ)] < m[q + Min(differ)] THEN -1 ELSE 1

-----------------------------------------------------------------------------
(* Numbers: a string is the sequence of its digits *)

\* Swaps the halves of s, element by element; the middle one stays.
ExchangeShort(s) ==                                        \* mutant: j < i / 2 - 1
  [j \in 1 .. Len(s) |-> IF j < Len(s) \div 2 \/ Len(s) + 1 - j < Len(s) \div 2
                         THEN s[Len(s) + 1 - j] ELSE s[j]]
Exchange(s) ==
  [j \in 1 .. Len(s) |-> IF j <= Len(s) \div 2 \/ Len(s) + 1 - j <= Len(s) \div 2
                         THEN s[Len(s) + 1 - j] ELSE s[j]]

\* The digits are found last first, then reversed.
Decimal(n) ==
  LET digits[r \in 0 .. n] == IF r < 10 THEN <<r>> ELSE <<r % 10>> \o digits[r \div 10]
  IN  Exchange(digits[n])
\* The parameter is a uint32_t: of a longer argument the high word is lost.
itoa(n) == Decimal(n % UINT32)

\* Sixteen digits, written from the last on, each the lowest of what is left.
itoa_hex(n) ==
  LET left[i \in 0 .. 15] == IF i = 0 THEN n ELSE left[i - 1] \div NIBBLE
  IN  [j \in 1 .. 16 |-> left[16 - j] % NIBBLE]
=============================================================================
