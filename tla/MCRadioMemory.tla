---------------------------- MODULE MCRadioMemory ----------------------------
(* An instance of RadioMemory for TLC: two presets behind one net, and two   *)
(* frequencies that differ in the first and the fourth character.            *)
EXTENDS RadioMemory

CONSTANT none

Net == <<LetterA, Digit(0), Digit(1), Digit(5), Digit(2), Digit(5)>>
MLoad == <<Digit(2), Digit(2), Digit(0), Digit(0), Digit(2), Digit(5)>>
MCDialled == {Net, MLoad}

Request(kind, channel, frequency) ==
  [kind |-> kind, channel |-> channel, frequency |-> frequency]

MCRequests ==
  {Request("store", 1, Net), Request("store", 1, MLoad),
   Request("store", 2, MLoad), Request("display", 2, Net),
   Request("other", 0, Net)}
=============================================================================
