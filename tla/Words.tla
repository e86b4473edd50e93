-------------------------------- MODULE Words --------------------------------
(***************************************************************************)
(* The fixed width integers of the emulator (src/emu/util.go), at a width  *)
(* that is a parameter.  A byte has ByteBits bits; a word is four bytes (a *)
(* register, uint32 in the code) and a pair is two words (a slot of the    *)
(* scratchpad, uint64).  All values are kept unsigned; the code's casts to *)
(* signed types are I16, I32 and I64.  With ByteBits = 8 these are the     *)
(* widths of the code.                                                     *)
(***************************************************************************)
EXTENDS Integers, Sequences, FiniteSetsExt

CONSTANTS ByteBits,      \* bits of a byte
          Lanes          \* the lanes of a wave, 0 .. 63 in the code

ASSUME WidthAssumption == ByteBits \in Nat \ {0}
ASSUME LanesAssumption == Lanes \subseteq 0 .. 8 * ByteBits - 1 /\ 0 \in Lanes

Half == 2 * ByteBits
Word == 4 * ByteBits
Pair == 8 * ByteBits

U16(x) == x % 2^Half
U32(x) == x % 2^Word
U64(x) == x % 2^Pair

Signed(x, width) == LET u == x % 2^width
                    IN  IF u >= 2^(width - 1) THEN u - 2^width ELSE u

I16(x) == Signed(x, Half)
I32(x) == Signed(x, Word)
I64(x) == Signed(x, Pair)

Max32 == 2^Word - 1

Bit(x, i) == (x \div 2^i) % 2

\* the number whose set bits are exactly the members of a set
Mask(set) == MapThenSumSet(LAMBDA i : 2^i, set)

Masked(exec, i) == Bit(exec, i) = 1

Active(exec) == {i \in Lanes : Masked(exec, i)}

Not64(x) == 2^Pair - 1 - x
Not32(x) == 2^Word - 1 - U32(x)

\* Go's &, | and ^ on slots
BitAnd(x, y) == Mask({i \in 0 .. Pair - 1 : Bit(x, i) = 1 /\ Bit(y, i) = 1})
BitOr(x, y)  == Mask({i \in 0 .. Pair - 1 : Bit(x, i) = 1 \/ Bit(y, i) = 1})
BitXor(x, y) == Mask({i \in 0 .. Pair - 1 : Bit(x, i) # Bit(y, i)})
AndNot(x, y) == BitAnd(x, Not64(y))

\* Go's shifts: a count of the width or more shifts everything out
Shl32(x, n) == IF n >= Word THEN 0 ELSE U32(U32(x) * 2^n)
Shl64(x, n) == IF n >= Pair THEN 0 ELSE U64(x * 2^n)
Shr(x, n)   == IF n >= Pair THEN 0 ELSE x \div 2^n
Sar(signed, n) == signed \div 2^(IF n >= Pair THEN Pair ELSE n)

Reversed32(x) == Mask({i \in 0 .. Word - 1 : Bit(x, Word - 1 - i) = 1})

\* words to and from the slots that hold them, lowest first
Low(x)  == U32(x)
High(x) == U32(x \div 2^Word)
PairOf(words) == IF Len(words) = 1 THEN words[1] ELSE words[1] + 2^Word * words[2]
WordsOf(x) == <<Low(x), High(x)>>

Truth(p) == IF p THEN 1 ELSE 0
=============================================================================
