------------------------------ MODULE RadioData ------------------------------
(***************************************************************************)
(* How a channel and a frequency travel in the three bytes of the host's   *)
(* request.  A frequency is six characters: the first is 'A' or a digit    *)
(* that takes two bits, the last two are one of four steps of 25 kHz.      *)
(***************************************************************************)
EXTENDS Integers, Sequences

ASCII_OFFSET == 48
LetterA == 65

Digit(n) == ASCII_OFFSET + n

\* The fifth and sixth character, by their code.
Steps == <<<<Digit(0), Digit(0)>>, <<Digit(2), Digit(5)>>,
           <<Digit(5), Digit(0)>>, <<Digit(7), Digit(5)>>>>

Characters(first, d2, d3, d4, k) ==
  <<first, Digit(d2), Digit(d3), Digit(d4), Steps[k][1], Steps[k][2]>>

FirstCharacters == {LetterA, Digit(2), Digit(3)}
Decimals == 0..9

\* What the frequency selectors can show.
Frequencies ==
  {Characters(first, d2, d3, d4, k) :
     first \in FirstCharacters,
     d2 \in Decimals, d3 \in Decimals, d4 \in Decimals, k \in 1..4}

\* Variant: the fourth digit is masked after the shift as if it had two bits.
FourthDigitCut(bytes) == 2 * (bytes[2] % 2) + ((bytes[1] \div 64) % 2)

\* The fourth digit's low bit is in the first byte.
FourthDigit(bytes) == 2 * (bytes[2] % 8) + ((bytes[1] \div 64) % 2)

decompressRadioData(bytes) ==
  LET first == (bytes[1] \div 16) % 4
      step == Steps[1 + ((bytes[3] \div 32) % 4)]
  IN [channel |-> bytes[3] % 32,
      frequency |-> <<IF first = 1 THEN LetterA ELSE Digit(first),
                      Digit(bytes[1] % 16),
                      Digit((bytes[2] \div 8) % 16),
                      Digit(FourthDigit(bytes)),
                      step[1], step[2]>>]

\* The host's side, by the data definition above transmitToDevice.
compressRadioData(channel, frequency) ==
  LET code == IF frequency[1] = LetterA THEN 1 ELSE frequency[1] - ASCII_OFFSET
      d == [i \in 2..4 |-> frequency[i] - ASCII_OFFSET]
      step == CHOOSE k \in 1..4 : Steps[k] = <<frequency[5], frequency[6]>>
  IN <<(64 * (d[4] % 2)) + 16 * code + d[2],
       8 * d[3] + (d[4] \div 2),
       32 * (step - 1) + channel>>
=============================================================================
