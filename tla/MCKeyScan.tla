----------------------------- MODULE MCKeyScan -----------------------------
(* A small matrix for KeyScan.  Rows without a contact only make a round   *)
(* of the scan longer, so there are few.                                   *)
(*   0  MNL, both selectors                                                *)
(*   1  TEST, both selectors; the last frequency row                       *)
(*   2  FreqEnd, a key in the column of the second selector                *)
(*   3  power                                                              *)
(*   4  squelch                                                            *)
EXTENDS KeyScan

MCMnl     == <<0, 6>>
MCTest    == <<1, 7>>
MCPower   == <<3, 7>>
MCSquelch == <<4, 7>>
FirstSelector  == {<<0, 1>>, <<1, 1>>}
SecondSelector == {<<0, 2>>, <<1, 2>>}
NeighbourKey   == <<2, 2>>
MCDigits == FirstSelector \cup SecondSelector
MCWired  == {MCMnl, MCTest, MCPower, MCSquelch, NeighbourKey} \cup MCDigits

\* The switches, with both selectors at rest and, in the column of the key
\* behind the frequency rows, a closed contact; TEST with the position in its
\* row; MNL with the position in its; and the second selector turned.
MCUses ==
  {[moved |-> {MCMnl, MCPower, MCSquelch}, closed |-> {<<0, 1>>, <<1, 2>>}],
   [moved |-> {MCTest, <<1, 2>>}, closed |-> {MCPower}],
   [moved |-> {MCMnl, <<0, 2>>}, closed |-> {MCPower}],
   [moved |-> SecondSelector, closed |-> {MCPower}]}
=============================================================================
