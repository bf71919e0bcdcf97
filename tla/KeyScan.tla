------------------------------ MODULE KeyScan ------------------------------
(***************************************************************************)
(* The scan of the key matrix: the main loop reads the row the multiplexer *)
(* selects into the debounce counters of that row (readKeys), selects the  *)
(* next row, and reports and handles what is pressed there (get_key_short, *)
(* processInputData).  One round of the scan reads every row once, unless  *)
(* a handler calls forcedReadFreq: it leaves currentKeyRow at FreqEnd with *)
(* the multiplexer one row behind.                                         *)
(*                                                                         *)
(* A key is a position <<row, column>> of the matrix.  Rows are scaled     *)
(* down from sixteen; an instance wires the positions it is about.  A      *)
(* frequency selector is a column of positions, one for each digit.        *)
(***************************************************************************)
EXTENDS Integers, FiniteSets

CONSTANTS LastRow,   \* COMMON_WIRE_15
          FreqEnd,   \* COMMON_WIRE_10, the row after the frequency rows
          BootRow,   \* COMMON_WIRE_02, where forcedReadUhfState ends
          Wired,     \* positions that have a contact
          Uses,      \* keys a user moves, and those left closed meanwhile
          Digits,    \* the positions of the frequency selectors
          First,     \* KEY1, the column of the first selector
          Mnl,       \* function selector to MNL
          Test,      \* the TEST button
          Power,     \* the power switch
          Squelch    \* the squelch switch

Rows == 0..LastRow
Row(k) == k[1]
InRow(r) == {k \in Wired : Row(k) = r}

\* MASK_TEST in row 5, MASK_UHF_IO in row 11 and MASK_SQUELCH in row 12.
Hold == {Test, Power, Squelch}

ASSUME MatrixAssumption ==
  /\ LastRow \in Nat /\ FreqEnd \in 1..LastRow
  /\ BootRow \in Rows /\ BootRow # FreqEnd
  /\ Wired \subseteq Rows \X (0..7)
  /\ Uses \subseteq [moved : SUBSET Wired, closed : SUBSET Wired]
  /\ Digits \subseteq Wired /\ First \in 0..7
  /\ \A k \in Digits : Row(k) < FreqEnd
  /\ Power \in Wired
  /\ {Row(Mnl), Row(Test), Row(Power)} \subseteq Rows
  /\ Row(Power) # Row(Squelch) /\ {Mnl, Test} \cap {Power, Squelch} = {}
  /\ Mnl # Test

VARIABLES moving,        \* keys a user moves in this behaviour
          contact,       \* keys whose contact is closed
          currentKeyRow, mux,
          ct0, ct1,      \* the two bits of each debounce counter
          key_state,     \* debounced level: FALSE, pulled low, is pressed
          key_press,     \* keys armed by their release
          latched,       \* test set, OFF = MS_ON, squelch clear
          digit,         \* of each selector, the position shown or none
          firstRun,
          pc             \* next half of the pass: "read" or "handle"

keyVars == <<ct0, ct1, key_state>>
vars == <<moving, contact, currentKeyRow, mux, keyVars, key_press, latched, digit,
          firstRun, pc>>

NoDigit == <<-1, -1>>

Selectors == {k[2] : k \in Digits}
Positions(selector) == {k \in Digits : k[2] = selector}

\* A selector makes contact in one position or, between two, in none.
Possible(closed) ==
  \A selector \in Selectors : Cardinality(closed \cap Positions(selector)) <= 1

\* The level of the column of a key while the multiplexer selects a row.
High(k, selected) == <<selected, k[2]>> \notin contact

\* The rows forcedReadUhfState has read with readKeys, and forced.
BootRead == InRow(Row(Power)) \cup InRow(Row(Squelch))

Init ==
  /\ \E use \in Uses : \E closed \in SUBSET use.moved :
       moving = use.moved /\ contact = closed \cup (use.closed \ use.moved)
  /\ Possible(contact)
  /\ currentKeyRow = BootRow /\ mux = 0
  /\ ct0 = [k \in Wired |-> k \in BootRead]
  /\ ct1 = ct0
  /\ key_state = [k \in Wired |-> k \in BootRead \ contact]
  /\ key_press = {k \in BootRead : k \notin contact \/ k \in {Power, Squelch}}
  /\ latched = contact \cap {Power, Squelch}
  /\ firstRun = (Power \in contact)
  /\ digit = [selector \in Selectors |-> NoDigit]
  /\ pc = "read"

-----------------------------------------------------------------------------
\* A contact opens or closes, or bounces.
Move(k) ==
  /\ contact' = IF k \in contact THEN contact \ {k} ELSE contact \cup {k}
  /\ Possible(contact')
  /\ UNCHANGED <<moving, currentKeyRow, mux, keyVars, key_press, latched,
                 digit, firstRun, pc>>

\* C's ^ on one bit
Xor(a, b) == (a \/ b) /\ ~(a /\ b)

\* A key of the current row whose column is not at its debounced level.
Changed(k) == Xor(key_state[k], High(k, mux))

NextCt0(k) == ~(ct0[k] /\ Changed(k))

\* Variant: the second bit is not reset by an unchanged reading.
NextCt1Unreset(k) == Xor(NextCt0(k), ct1[k])

NextCt1(k) == Xor(NextCt0(k), ct1[k] /\ Changed(k))

\* ... for the fourth time in a row
RollsOver(k) == Changed(k) /\ NextCt0(k) /\ NextCt1(k)

switchToNextKeyRow ==
  /\ currentKeyRow' = IF currentKeyRow = LastRow THEN 0 ELSE currentKeyRow + 1
  /\ mux' = currentKeyRow'

readKeys ==
  LET row == InRow(currentKeyRow)
  IN /\ pc = "read" /\ pc' = "handle"
     /\ ct0' = [k \in Wired |-> IF k \in row THEN NextCt0(k) ELSE ct0[k]]
     /\ ct1' = [k \in Wired |-> IF k \in row THEN NextCt1(k) ELSE ct1[k]]
     /\ key_state' = [k \in Wired |->
                        IF k \in row THEN Xor(key_state[k], RollsOver(k))
                                     ELSE key_state[k]]
     /\ key_press' = key_press
                       \cup {k \in row : RollsOver(k) /\ ~key_state[k]}
     /\ switchToNextKeyRow
     /\ UNCHANGED <<moving, contact, latched, digit, firstRun>>

-----------------------------------------------------------------------------
\* Variant: armed keys, pressed or not.
ReportedArmed == {k \in InRow(currentKeyRow) : k \in key_press}

\* get_key_short: the armed keys of the row that are down.
Reported == {k \in InRow(currentKeyRow) : ~key_state[k] /\ k \in key_press}

\* Variant: push-and-hold keys are not armed again.
DisarmAll == key_press' = key_press \ Reported

\* ... and disarms them; push-and-hold keys are armed again.
get_key_short == key_press' = key_press \ (Reported \ Hold)

\* A handler is a case of a switch on the reported byte: it runs for a key
\* that is reported alone.
Handled(k) == Reported = {k}

HeldInRow == {h \in Hold : Row(h) = currentKeyRow}

\* The position a new digit is shown for, if there is one in the set.
ShownFrom(positions, old) ==
  IF positions = {} THEN old ELSE CHOOSE k \in positions : TRUE

\* Variant: every selector is decoded like the first.
DecodedLate(k) == <<Row(k) + 1, k[2]>>

\* The digit that forcedReadFreq takes a contact for.  In the first column it
\* has each digit one row earlier than processInputData, A, 3 and 2 in the rows
\* 1 to 3 and not 2 to 4, so that a contact there counts as the next position.
Decoded(k) == IF k[2] = First THEN <<Row(k) + 1, k[2]>> ELSE k

\* forcedReadFreq reads every frequency row and stops behind the last one.
forcedReadFreq ==
  /\ digit' = [selector \in Selectors |->
                 ShownFrom({Decoded(k) : k \in contact \cap Positions(selector)}
                             \cap Digits, digit[selector])]
  /\ currentKeyRow' = FreqEnd /\ mux' = FreqEnd - 1

StayInRow == UNCHANGED <<currentKeyRow, mux>>

\* Variant: the power switch turns a radio on that is on.
TurnsOnAgain(h) == h = Test => Power \in latched

\* Switches and buttons that are on while they are held: TEST needs power.
TurnsOn(h) == h \notin latched /\ (h = Test => Power \in latched)

\* Variant: the release of TEST is not handled.
LatchTestForGood ==
  latched' = (latched \cup {h \in HeldInRow : Handled(h) /\ TurnsOn(h)})
               \ {h \in HeldInRow \ {Test} : h \notin Reported}

Latch == latched' = (latched \cup {h \in HeldInRow : Handled(h) /\ TurnsOn(h)})
                      \ {h \in HeldInRow : h \notin Reported}

\* setManual, and setUhfOn, from the power switch or the first resend.
ReadsFrequency ==
  \/ Handled(Mnl)
  \/ Handled(Power) /\ TurnsOn(Power)
  \/ firstRun /\ Power \in latched

\* processInputData on the reported keys, and the first resend.
processInputData ==
  /\ pc = "handle" /\ pc' = "read"
  /\ get_key_short
  /\ Latch
  /\ firstRun' = FALSE
  /\ IF ReadsFrequency
       THEN forcedReadFreq
       ELSE /\ StayInRow
            /\ digit' = [selector \in Selectors |->
                           ShownFrom({k \in Positions(selector) : Handled(k)},
                                     digit[selector])]
  /\ UNCHANGED <<moving, contact, keyVars>>

-----------------------------------------------------------------------------
\* A delay of TIMER1 ends while TEST is on: isrTimer1 clears test.  The delay
\* of setUhfOn always does, before the next pass.
isrTimer1 ==
  /\ Test \in latched
  /\ latched' = latched \ {Test}
  /\ UNCHANGED <<moving, contact, currentKeyRow, mux, keyVars, key_press,
                 digit, firstRun, pc>>

-----------------------------------------------------------------------------
User == \E k \in moving : Move(k)

Next == User \/ readKeys \/ processInputData \/ isrTimer1

Spec == Init /\ [][Next]_vars

\* The main loop runs for ever; nobody has to move a switch.
FairSpec == Spec /\ WF_vars(readKeys) /\ WF_vars(processInputData)

-----------------------------------------------------------------------------
\* Types.
TypeOK ==
  /\ moving \subseteq Wired /\ contact \subseteq Wired /\ Possible(contact)
  /\ currentKeyRow \in Rows /\ mux \in Rows
  /\ ct0 \in [Wired -> BOOLEAN] /\ ct1 \in [Wired -> BOOLEAN]
  /\ key_state \in [Wired -> BOOLEAN]
  /\ key_press \subseteq Wired /\ latched \subseteq Hold
  /\ digit \in [Selectors -> Digits \cup {NoDigit}]
  /\ firstRun \in BOOLEAN /\ pc \in {"read", "handle"}

\* The two bits of a counter as the number of differing readings.
Readings(k) == (IF ct1[k] THEN 0 ELSE 2) + (IF ct0[k] THEN 0 ELSE 1)

Debounced == INSTANCE DebouncedKeys
               WITH Keys    <- Wired,
                    KeyRows <- {InRow(r) : r \in Rows},
                    down    <- {k \in Wired : ~key_state[k]},
                    run     <- [k \in Wired |-> Readings(k)],
                    armed   <- key_press

\* The bit operations of readKeys count to four, and get_key_short reports a
\* press once: the scan implements DebouncedKeys.
ImplementsDebouncedKeys == Debounced!AbsSpec

\* A key nobody touches is never taken as pressed, although after each
\* forcedReadFreq its row is read with the row before it selected, where the
\* key of the same column may be closed (readKeys, setManual, setUhfOn).
NoGhostKey ==
  [][\A k \in Wired \ moving :
       k \notin contact /\ key_state[k] => key_state'[k]]_vars

\* The radio follows its power and squelch switches: whatever they and the
\* other keys did before, once a switch rests its function is as it says.
SwitchesFollowed ==
  \A h \in {Power, Squelch} \cap Wired :
    /\ <>[](h \in contact) => <>[](h \in latched)
    /\ <>[](h \notin contact) => <>[](h \notin latched)

\* The test display ends with the button, and comes back each time a timeout
\* ends it while the button is held, if it was released once since power-up.
TestFollowsButton ==
  /\ <>[](Test \notin contact) => <>[](Test \notin latched)
  /\ <>(Test \in key_press) /\ <>[](Test \in contact /\ Power \in latched)
       => []<>(Test \in latched)

\* The only key of its row that is closed or taken as closed.
Alone(k) ==
  /\ k \in contact
  /\ \A j \in Wired \ {k} : Row(j) = Row(k) => j \notin contact /\ key_state[j]

\* processInputData and forcedReadFreq take the contacts of these selectors for
\* the same digits.
Consistent == {k \in Digits : k[2] # First}

\* An armed position of a selector but the first gets to the display if it stays
\* the only closed key of its row: no bounce, no earlier press of TEST and no
\* jump of the scan loses it.
SelectorShown ==
  \A k \in Consistent :
    (k \in key_press /\ Alone(k)) ~> (digit[k[2]] = k \/ ~Alone(k))

\* k is the position of its selector, debounced.
Settled(k) == /\ contact \cap Positions(k[2]) = {k}
              /\ \A j \in Positions(k[2]) \ {k} : key_state[j]

\* The position that a selector but the first rests in stays on display: MNL,
\* power-on and the first run decode a contact as its own key does.  (The first
\* selector shows its next position after each of these.)
DialKept ==
  [][\A k \in Consistent :
       Settled(k) /\ digit[k[2]] = k => digit'[k[2]] = k]_vars
=============================================================================
