--------------------------- MODULE IterationYield ---------------------------
(***************************************************************************)
(* What a loop over an l3_bitmap_index_allocator yields, as a function of  *)
(* the set S of allocated indices alone.  BitmapIteration checks it        *)
(* against the code of the iterators.                                      *)
(***************************************************************************)
EXTENDS Naturals

CONSTANTS BitsPerWord,  \* k_bits_per_word
          Words         \* words of the lowest level

Bit  == 0 .. BitsPerWord - 1
Word == 0 .. Words - 1

WordOf(i) == i \div BitsPerWord

FullWords(S) == {w \in Word : \A b \in Bit : w * BitsPerWord + b \in S}
InWord(S, w) == {i \in S : WordOf(i) = w}
FirstOpen(S) == CHOOSE w \in Word \ FullWords(S) : \A v \in Word \ FullWords(S) : w <= v

\* `++' runs into a full word from the last index of the word before it, without looking
\* at the upper levels; every jump skips full words.
RunInto(S, w) ==
    \E v \in 1 .. w : /\ v .. w \subseteq FullWords(S)
                      /\ v - 1 \notin FullWords(S)
                      /\ v * BitsPerWord - 1 \in S

\* Nothing is yielded when the first word that is not full is empty.
Yielded(S) ==
    IF FullWords(S) = Word \/ InWord(S, FirstOpen(S)) = {}
    THEN {}
    ELSE {i \in S : WordOf(i) \in FullWords(S) => RunInto(S, WordOf(i))}
=============================================================================
