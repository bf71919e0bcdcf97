---------------------------- MODULE MCSerialLine ----------------------------
(* Three commands: TAB, which hides the cursor; help, which prints lines;  *)
(* and one like 'p' that prints nothing.  A text is cut to a byte and the  *)
(* end of a line.                                                          *)
EXTENDS SerialLine

Newline == <<"\r", "\n", "flush">>

MCCommands == {"TAB", "h", "p"}
MCText == [c \in MCCommands |-> CASE c = "TAB" -> <<"byte", "byte">>
                                  [] c = "h" -> <<"byte">> \o Newline
                                  [] c = "p" -> <<>>]
MCRow == <<"byte">> \o Newline \o <<"byte">>
=============================================================================
