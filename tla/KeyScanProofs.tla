--------------------------- MODULE KeyScanProofs ---------------------------
(***************************************************************************)
(* Proofs about KeyScan for every matrix: its types, that the debounce     *)
(* counters and the reports of key.c implement DebouncedKeys, that no      *)
(* untouched key is pressed, and that a selector at rest keeps its digit.  *)
(***************************************************************************)
EXTENDS KeyScan, TLAPS

(* switchToNextKeyRow and forcedReadFreq select a row of the matrix.       *)
LEMMA RowsSelected ==
  ASSUME TypeOK, switchToNextKeyRow \/ forcedReadFreq
  PROVE  currentKeyRow' \in Rows /\ mux' \in Rows
  BY MatrixAssumption DEF TypeOK, switchToNextKeyRow, forcedReadFreq, Rows

(* A selector position shown is one of the selectors' or none.             *)
LEMMA FromShown ==
  ASSUME NEW positions, positions \subseteq Digits,
         NEW old, old \in Digits \cup {NoDigit}
  PROVE  ShownFrom(positions, old) \in Digits \cup {NoDigit}
  <1>1. CASE positions = {}
    BY <1>1 DEF ShownFrom
  <1>2. CASE positions # {}
    <2>1. (CHOOSE k \in positions : TRUE) \in positions
      BY <1>2
    <2> QED  BY <1>2, <2>1 DEF ShownFrom
  <1> QED  BY <1>1, <1>2

LEMMA DigitShown ==
  ASSUME TypeOK, processInputData
  PROVE  digit' \in [Selectors -> Digits \cup {NoDigit}]
  <1>1. \A selector \in Selectors : digit[selector] \in Digits \cup {NoDigit}
    BY DEF TypeOK
  <1>2. CASE ReadsFrequency
    <2>1. PICK forced \in [Selectors -> SUBSET Digits] :
            digit' = [selector \in Selectors |->
                        ShownFrom(forced[selector], digit[selector])]
      <3> DEFINE f == [selector \in Selectors |->
                         {Decoded(k) : k \in contact \cap Positions(selector)}
                           \cap Digits]
      <3>1. f \in [Selectors -> SUBSET Digits]
        OBVIOUS
      <3>2. digit' = [selector \in Selectors |->
                        ShownFrom(f[selector], digit[selector])]
        BY <1>2 DEF processInputData, forcedReadFreq
      <3> HIDE DEF f
      <3> QED  BY <3>1, <3>2
    <2> QED  BY <1>1, <2>1, FromShown
  <1>3. CASE ~ReadsFrequency
    <2> DEFINE f == [selector \in Selectors |->
                       {k \in Positions(selector) : Handled(k)}]
    <2>1. f \in [Selectors -> SUBSET Digits]
      BY DEF Positions
    <2>2. digit' = [selector \in Selectors |->
                      ShownFrom(f[selector], digit[selector])]
      BY <1>3 DEF processInputData
    <2> HIDE DEF f
    <2> QED  BY <1>1, <2>1, <2>2, FromShown
  <1> QED  BY <1>2, <1>3

LEMMA InitTypes == Init => TypeOK
  <1> SUFFICES ASSUME Init PROVE TypeOK
    OBVIOUS
  <1>1. ct0 \in [Wired -> BOOLEAN] /\ ct1 \in [Wired -> BOOLEAN]
    BY DEF Init
  <1>2. key_state \in [Wired -> BOOLEAN]
    BY DEF Init
  <1>3. moving \subseteq Wired /\ contact \subseteq Wired
    <2>1. PICK use \in Uses :
            /\ moving = use.moved
            /\ \E closed \in SUBSET use.moved :
                 contact = closed \cup (use.closed \ use.moved)
      BY DEF Init
    <2>2. PICK closed \in SUBSET use.moved :
            contact = closed \cup (use.closed \ use.moved)
      BY <2>1
    <2>3. use.moved \subseteq Wired /\ use.closed \subseteq Wired
      BY MatrixAssumption
    <2> QED  BY <2>1, <2>2, <2>3
  <1>7. latched \subseteq Hold
    BY DEF Init, Hold
  <1>4. key_press \subseteq Wired
    BY DEF Init, BootRead, InRow
  <1>5. firstRun \in BOOLEAN
    BY DEF Init
  <1>6. currentKeyRow \in Rows /\ mux \in Rows
    BY MatrixAssumption DEF Init, Rows
  <1> QED  BY <1>1, <1>2, <1>3, <1>4, <1>5, <1>6, <1>7 DEF Init, TypeOK

LEMMA MoveTypes ==
  ASSUME TypeOK, NEW k \in moving, Move(k)
  PROVE  TypeOK'
  <1>1. k \in Wired
    BY DEF TypeOK
  <1>2. contact' \subseteq Wired /\ Possible(contact')
    BY <1>1 DEF TypeOK, Move
  <1>3. UNCHANGED <<moving, currentKeyRow, mux, ct0, ct1, key_state, key_press,
                    latched, digit, firstRun, pc>>
    BY DEF Move, keyVars
  <1> QED  BY <1>2, <1>3 DEF TypeOK, Possible

LEMMA ReadTypes ==
  ASSUME TypeOK, readKeys
  PROVE  TypeOK'
  <1>1. currentKeyRow' \in Rows /\ mux' \in Rows
    BY RowsSelected DEF readKeys
  <1>2. ct0' \in [Wired -> BOOLEAN] /\ ct1' \in [Wired -> BOOLEAN]
    BY DEF TypeOK, readKeys, NextCt0, NextCt1, Xor
  <1>3. key_state' \in [Wired -> BOOLEAN]
    BY DEF TypeOK, readKeys, Xor
  <1>4. key_press' \subseteq Wired
    BY DEF TypeOK, readKeys, InRow
  <1>5. UNCHANGED <<moving, contact, latched, digit, firstRun>>
        /\ pc' = "handle"
    BY DEF readKeys
  <1> QED  BY <1>1, <1>2, <1>3, <1>4, <1>5 DEF TypeOK, Possible

LEMMA HandleTypes ==
  ASSUME TypeOK, processInputData
  PROVE  TypeOK'
  <1>1. currentKeyRow' \in Rows /\ mux' \in Rows
    BY RowsSelected DEF processInputData, StayInRow, TypeOK
  <1>2. digit' \in [Selectors -> Digits \cup {NoDigit}]
    BY DigitShown
  <1>3. key_press' \subseteq Wired
    BY DEF TypeOK, processInputData, get_key_short
  <1>4. latched' \subseteq Hold
    BY DEF TypeOK, processInputData, Latch, HeldInRow
  <1>5. UNCHANGED <<moving, contact, ct0, ct1, key_state>> /\ pc' = "read"
    BY DEF processInputData, keyVars
  <1>6. firstRun' \in BOOLEAN
    <2>1. firstRun' = FALSE
      BY DEF processInputData
    <2> QED  BY <2>1, Zenon
  <1> QED  BY <1>1, <1>2, <1>3, <1>4, <1>5, <1>6 DEF TypeOK, Possible

LEMMA TimeoutTypes ==
  ASSUME TypeOK, isrTimer1
  PROVE  TypeOK'
  BY DEF TypeOK, isrTimer1, keyVars, Possible

LEMMA NextTypes == TypeOK /\ [Next]_vars => TypeOK'
  <1> SUFFICES ASSUME TypeOK, [Next]_vars PROVE TypeOK'
    OBVIOUS
  <1>1. CASE User
    BY <1>1, MoveTypes DEF User
  <1>2. CASE readKeys
    BY <1>2, ReadTypes
  <1>3. CASE processInputData
    BY <1>3, HandleTypes
  <1>4. CASE isrTimer1
    BY <1>4, TimeoutTypes
  <1>5. CASE UNCHANGED vars
    BY <1>5 DEF vars, keyVars, TypeOK, Possible
  <1> QED  BY <1>1, <1>2, <1>3, <1>4, <1>5 DEF Next

(* Types, whatever the matrix is and however its keys are moved.           *)
THEOREM ScanTypeCorrect == Spec => []TypeOK
  <1>1. Init => TypeOK
    BY InitTypes
  <1>2. TypeOK /\ [Next]_vars => TypeOK'
    BY NextTypes
  <1> QED  BY <1>1, <1>2, PTL DEF Spec

-----------------------------------------------------------------------------
(* A row is read: each bit pair counts as the counter of DebouncedKeys.    *)

Down == {k \in Wired : ~key_state[k]}
Run  == [k \in Wired |-> Readings(k)]

(* The bit pair of a key that is read, before and after.                   *)
LEMMA CounterStep ==
  ASSUME TypeOK, readKeys, NEW k \in InRow(currentKeyRow)
  PROVE  /\ RollsOver(k) <=> Changed(k) /\ Readings(k) = 3
         /\ Readings(k)' = IF Changed(k) /\ Readings(k) # 3
                             THEN Readings(k) + 1 ELSE 0
  <1>1. k \in Wired
    BY DEF InRow
  <1>2. ct0[k] \in BOOLEAN /\ ct1[k] \in BOOLEAN
    BY <1>1 DEF TypeOK
  <1>3. (ct0'[k] <=> NextCt0(k)) /\ (ct1'[k] <=> NextCt1(k))
    BY <1>1 DEF readKeys
  <1>4. Readings(k)' = (IF ct1'[k] THEN 0 ELSE 2) + (IF ct0'[k] THEN 0 ELSE 1)
    BY DEF Readings
  <1>5. CASE ~Changed(k)
    BY <1>2, <1>3, <1>4, <1>5 DEF NextCt0, NextCt1, RollsOver, Readings, Xor
  <1>6. CASE Changed(k)
    BY <1>2, <1>3, <1>4, <1>6 DEF NextCt0, NextCt1, RollsOver, Readings, Xor
  <1> QED  BY <1>5, <1>6

LEMMA ReadRefines ==
  ASSUME TypeOK, readKeys
  PROVE  Debounced!AbsNext
  <1>1. PICK row \in {InRow(r) : r \in Rows} : row = InRow(currentKeyRow)
    BY DEF TypeOK
  <1>2. PICK differing \in SUBSET row : differing = {k \in row : Changed(k)}
    OBVIOUS
  <1> DEFINE flipped == {k \in row : RollsOver(k)}
  <1>3. flipped = {k \in differing : Run[k] = 3}
    BY <1>1, <1>2, CounterStep DEF InRow, Run
  <1>4. Run' = [k \in Wired |-> IF k \notin row THEN Run[k]
                                ELSE IF k \in differing \ flipped
                                  THEN Run[k] + 1 ELSE 0]
    <2>1. ASSUME NEW k \in Wired, k \notin row
          PROVE  Readings(k)' = Readings(k)
      BY <1>1, <2>1 DEF readKeys, Readings
    <2>2. ASSUME NEW k \in row
          PROVE  Readings(k)' = IF k \in differing \ flipped
                                  THEN Readings(k) + 1 ELSE 0
      BY <1>1, <1>2, <2>2, CounterStep
    <2> QED  BY <2>1, <2>2 DEF Run, InRow
  <1>5. Down' = (Down \ flipped) \cup (flipped \ Down)
    <2>1. \A k \in Wired :
            key_state'[k] = IF k \in row THEN Xor(key_state[k], RollsOver(k))
                                         ELSE key_state[k]
      BY <1>1 DEF readKeys
    <2>2. \A k \in Wired : key_state[k] \in BOOLEAN
      BY DEF TypeOK
    <2>3. ASSUME NEW k \in Wired
          PROVE  k \in Down' <=> k \in (Down \ flipped) \cup (flipped \ Down)
      <3>1. CASE k \in flipped
        BY <2>1, <2>2, <3>1 DEF Down, Xor
      <3>2. CASE k \notin flipped
        BY <2>1, <2>2, <3>2 DEF Down, Xor
      <3> QED  BY <3>1, <3>2
    <2> QED  BY <2>3 DEF Down, InRow
  <1>6. key_press' = key_press \cup (flipped \cap Down)
    BY <1>1 DEF readKeys, Down, InRow
  <1>7. Debounced!AbsRead(row, differing)
    <2>1. flipped = {k \in differing : Run[k] = Debounced!Readings - 1}
      BY <1>3 DEF Debounced!Readings
    <2> HIDE DEF flipped
    <2> QED  BY <1>4, <1>5, <1>6, <2>1 DEF Debounced!AbsRead, Run, Down
  <1> QED  BY <1>1, <1>7 DEF Debounced!AbsNext

LEMMA HandleRefines ==
  ASSUME TypeOK, processInputData
  PROVE  Debounced!AbsNext
  <1>1. Reported \subseteq Down \cap key_press
    BY DEF Reported, Down, InRow
  <1>0. Reported \in SUBSET InRow(currentKeyRow) /\ currentKeyRow \in Rows
    BY DEF Reported, TypeOK
  <1>2. key_press' = key_press \ (Reported \ Hold)
    BY DEF processInputData, get_key_short
  <1>3. Down' = Down /\ Run' = Run
    BY DEF processInputData, keyVars, Down, Run, Readings
  <1>4. Debounced!AbsReport(Reported)
    BY <1>1, <1>2, <1>3 DEF Debounced!AbsReport, Down, Run
  <1> QED  BY <1>0, <1>4 DEF Debounced!AbsNext

LEMMA InitRefines == Init => Debounced!AbsInit
  <1> SUFFICES ASSUME Init PROVE Debounced!AbsInit
    OBVIOUS
  <1>1. \A k \in Wired : Readings(k) \in 0..3
    BY DEF Readings
  <1>2. key_press \subseteq Wired
    BY InitTypes DEF TypeOK
  <1> QED  BY <1>1, <1>2 DEF Debounced!AbsInit, Debounced!Readings

LEMMA StepRefines ==
  ASSUME TypeOK, [Next]_vars
  PROVE  [Debounced!AbsNext]_(Debounced!absVars)
  <1>1. CASE readKeys
    BY <1>1, ReadRefines
  <1>2. CASE processInputData
    BY <1>2, HandleRefines
  <1>3. CASE User \/ isrTimer1 \/ UNCHANGED vars
    <2>1. UNCHANGED <<ct0, ct1, key_state, key_press>>
      BY <1>3 DEF User, Move, isrTimer1, vars, keyVars
    <2> QED  BY <2>1 DEF Debounced!absVars, Readings
  <1> QED  BY <1>1, <1>2, <1>3 DEF Next

(* readKeys counts to four and get_key_short reports a press once, for     *)
(* every matrix: whatever rows a handler makes the scan skip or repeat.    *)
THEOREM ScanImplementsDebouncedKeys == Spec => ImplementsDebouncedKeys
  <1>1. Init => Debounced!AbsInit
    BY InitRefines
  <1>2. TypeOK /\ [Next]_vars => [Debounced!AbsNext]_(Debounced!absVars)
    BY StepRefines
  <1>3. Spec => []TypeOK
    BY ScanTypeCorrect
  <1> QED  BY <1>1, <1>2, <1>3, PTL
           DEF Spec, ImplementsDebouncedKeys, Debounced!AbsSpec

-----------------------------------------------------------------------------
(* Misread keys.  A jump of the scan makes row FreqEnd be read with the row *)
(* before it selected, and a counter stands three such readings.  Two jumps *)
(* can follow each other before the row is read in its turn: MNL's, and     *)
(* that of the power switch or of the first run.  A key that jumped has to  *)
(* come up and go down again, which takes five readings of its own row, and *)
(* in between row FreqEnd is read as often.  JumpsLeft says how many jumps  *)
(* are left when w readings were wrong.                                     *)

(* The key has had its jump since it went down.                            *)
Spent(k) == IF k = Power THEN Power \in latched ELSE k \notin key_press

(* Readings of its row that k needs, at least, before it jumps.            *)
Needs(k) == IF key_state[k] THEN 4 - Readings(k)
            ELSE IF Spent(k) THEN 8 - Readings(k) ELSE 0

(* Row r has been read since row FreqEnd was.                              *)
Passed(r) == IF currentKeyRow > FreqEnd
               THEN r > FreqEnd /\ r < currentKeyRow
               ELSE r > FreqEnd \/ r < currentKeyRow

(* With w wrong readings made, k may jump before there were three.         *)
Near(k, w) == k \in Wired /\ Needs(k) + w < IF Passed(Row(k)) THEN 4 ELSE 5

FirstNear == firstRun /\ Power \in latched

(* In the first run the power switch has been down from the start.         *)
FirstFar == FirstNear => Needs(Power) >= IF pc = "read" THEN 6 ELSE 5

One(b) == IF b THEN 1 ELSE 0

JumpsLeft(w) == One(Near(Mnl, w)) + One(Near(Power, w)) + One(FirstNear)

(* The next reading is one of another row.                                 *)
Misread == pc = "read" /\ mux # currentKeyRow

Untouched == {k \in Wired \ moving : k \notin contact /\ key_state[k]}

FewWrong(k) ==
  \A w \in 0..3 : Readings(k) = w =>
    IF Row(k) = FreqEnd
      THEN w + JumpsLeft(w) + One(Misread /\ currentKeyRow = FreqEnd) <= 2
      ELSE w + One(Misread /\ currentKeyRow # FreqEnd) <= 1

GhostInv ==
  /\ TypeOK
  /\ pc = "handle" => mux = currentKeyRow
  /\ \A k \in Wired : key_state[k] => k \in key_press
  /\ Power \in key_press
  /\ FirstFar
  /\ \A k \in Untouched : FewWrong(k)

LEMMA CountTypes ==
  /\ \A b \in BOOLEAN : One(b) \in 0..1
  /\ \A k \in Wired : Readings(k) \in 0..3
  BY DEF One, Readings

LEMMA JumpTypes ==
  ASSUME NEW w
  PROVE  JumpsLeft(w) \in 0..3 /\ JumpsLeft(w)' \in 0..3
  BY DEF JumpsLeft, One

(* The first run's jump and that of the power switch exclude each other.   *)
LEMMA TwoJumps ==
  ASSUME NEW w \in 0..3, TypeOK', FirstFar'
  PROVE  JumpsLeft(w)' <= 2
  <1>1. ~Near(Power, w)' \/ ~FirstNear'
    <2>1. SUFFICES ASSUME FirstNear' PROVE ~Near(Power, w)'
      OBVIOUS
    <2>2. Needs(Power)' >= 5 /\ Needs(Power)' \in Int
      BY <2>1, MatrixAssumption DEF FirstFar, Needs, Readings, TypeOK
    <2> QED  BY <2>2 DEF Near
  <1> QED  BY <1>1 DEF JumpsLeft, One

(* Power and MNL are keys of their own, and MNL is no switch.              *)
LEMMA JumpingKeys ==
  /\ Power \in Wired /\ Power \in Hold /\ Mnl \notin Hold /\ Mnl # Power
  /\ Power \in BootRead /\ Power # Test
  BY MatrixAssumption DEF Hold, BootRead, InRow

LEMMA InitGhost == Init => GhostInv
  <1> SUFFICES ASSUME Init PROVE GhostInv
    OBVIOUS
  <1>1. TypeOK
    BY InitTypes
  <1>2. \A k \in BootRead : k \in Wired /\ Readings(k) = 0
    <2>1. \A k \in BootRead : k \in Wired
      BY DEF BootRead, InRow
    <2>2. \A k \in BootRead : ct0[k] /\ ct1[k]
      BY <2>1, Zenon DEF Init
    <2> QED  BY <2>1, <2>2 DEF Readings
  <1>3. \A k \in Wired : key_state[k] => k \in BootRead \ contact
    BY DEF Init
  <1>4. FirstFar /\ (~Near(Power, 0) \/ ~FirstNear)
    <2>1. CASE Power \in contact
      <3>1. Power \in latched /\ ~key_state[Power] /\ Readings(Power) = 0
        BY <1>2, <2>1, JumpingKeys DEF Init
      <3>2. Needs(Power) = 8
        BY <3>1 DEF Needs, Spent
      <3> QED  BY <3>2 DEF Near, FirstFar
    <2>2. CASE Power \notin contact
      <3>1. Power \notin latched
        BY <2>2 DEF Init
      <3> QED  BY <3>1 DEF FirstNear, FirstFar
    <2> QED  BY <2>1, <2>2
  <1>5. JumpsLeft(0) <= 2
    BY <1>4 DEF JumpsLeft, One
  <1>6. ASSUME NEW k \in Untouched PROVE FewWrong(k)
    <2>1. Readings(k) = 0
      BY <1>2, <1>3 DEF Untouched
    <2>2. currentKeyRow # FreqEnd
      BY MatrixAssumption DEF Init
    <2> QED  BY <1>5, <2>1, <2>2, JumpTypes DEF FewWrong, One
  <1>7. Power \in key_press /\ \A k \in Wired : key_state[k] => k \in key_press
    BY <1>3, JumpingKeys DEF Init
  <1> QED  BY <1>1, <1>4, <1>6, <1>7 DEF GhostInv, Init

(* Row FreqEnd is the last one before a round of readings starts again.    *)
LEMMA ReadPassed ==
  ASSUME TypeOK, readKeys, NEW r \in Rows
  PROVE  /\ ~Passed(currentKeyRow)
         /\ currentKeyRow # FreqEnd =>
              (Passed(r)' <=> Passed(r) \/ r = currentKeyRow)
         /\ currentKeyRow = FreqEnd => ~Passed(r)'
         /\ ~Passed(FreqEnd)
  <1>1. currentKeyRow \in 0..LastRow /\ FreqEnd \in 1..LastRow /\ r \in 0..LastRow
    BY MatrixAssumption DEF TypeOK, Rows
  <1>2. currentKeyRow' = IF currentKeyRow = LastRow THEN 0 ELSE currentKeyRow + 1
    BY DEF readKeys, switchToNextKeyRow
  <1>3. LastRow \in Nat
    BY MatrixAssumption
  <1> QED  BY <1>1, <1>2, <1>3 DEF Passed

(* A reading brings a key of its row nearer to its jump by one.            *)
LEMMA ReadNeeds ==
  ASSUME TypeOK, readKeys, NEW k \in Wired, key_state[k] => k \in key_press
  PROVE  /\ Needs(k) \in 0..8 /\ Needs(k)' \in 0..8
         /\ Needs(k) <= Needs(k)' + 1
         /\ Row(k) # currentKeyRow => Needs(k) <= Needs(k)'
  <1>1. key_state[k] \in BOOLEAN /\ key_state'[k] \in BOOLEAN
    BY ReadTypes DEF TypeOK
  <1>2. Readings(k) \in 0..3 /\ Readings(k)' \in 0..3
    BY DEF Readings
  <1>3. latched' = latched /\ (k \in key_press => k \in key_press')
    BY DEF readKeys
  <1>4. Needs(k) \in 0..8 /\ Needs(k)' \in 0..8
    BY <1>2 DEF Needs
  <1>5. CASE Row(k) # currentKeyRow
    <2>1. k \notin InRow(currentKeyRow)
      BY <1>5 DEF InRow
    <2>2. Readings(k)' = Readings(k) /\ key_state'[k] = key_state[k]
      BY <2>1 DEF readKeys, Readings
    <2>3. ~key_state[k] => (Spent(k)' <=> Spent(k))
      BY <1>3, <2>1 DEF readKeys, Spent
    <2> QED  BY <1>1, <1>2, <1>4, <2>2, <2>3 DEF Needs
  <1>6. CASE Row(k) = currentKeyRow
    <2>1. k \in InRow(currentKeyRow)
      BY <1>6 DEF InRow
    <2>2. /\ RollsOver(k) <=> Changed(k) /\ Readings(k) = 3
          /\ Readings(k)' = IF Changed(k) /\ Readings(k) # 3
                              THEN Readings(k) + 1 ELSE 0
      BY <2>1, CounterStep
    <2>3. key_state'[k] = Xor(key_state[k], RollsOver(k))
      BY <2>1 DEF readKeys
    <2>4. CASE key_state[k] /\ RollsOver(k)
      BY <1>4, <1>6, <2>2, <2>4 DEF Needs
    <2>5. CASE key_state[k] /\ ~RollsOver(k)
      <3>1. key_state'[k]
        BY <2>3, <2>5 DEF Xor
      <3> QED  BY <1>2, <1>4, <1>6, <2>2, <2>5, <3>1 DEF Needs
    <2>6. CASE ~key_state[k] /\ RollsOver(k)
      <3>1. Readings(k) = 3 /\ Readings(k)' = 0
        BY <2>2, <2>6
      <3>2. key_state'[k]
        BY <2>3, <2>6 DEF Xor
      <3> QED  BY <1>4, <1>6, <2>6, <3>1, <3>2 DEF Needs
    <2>7. CASE ~key_state[k] /\ ~RollsOver(k)
      <3>1. ~key_state'[k]
        BY <2>3, <2>7 DEF Xor
      <3>2. Spent(k)' <=> Spent(k)
        BY <1>3, <2>1, <2>7 DEF readKeys, Spent
      <3> QED  BY <1>2, <1>4, <1>6, <2>2, <2>7, <3>1, <3>2 DEF Needs
    <2> QED  BY <2>4, <2>5, <2>6, <2>7
  <1> QED  BY <1>5, <1>6

(* No key gets nearer to a jump than the readings of row FreqEnd allow.    *)
LEMMA ReadNear ==
  ASSUME TypeOK, readKeys, NEW k, k \in Wired /\ key_state[k] => k \in key_press,
         NEW w \in 0..3
  PROVE  /\ currentKeyRow # FreqEnd /\ Near(k, w)' => Near(k, w)
         /\ currentKeyRow = FreqEnd /\ Near(k, w + 1)' => Near(k, w)
  <1> SUFFICES ASSUME k \in Wired
               PROVE  /\ currentKeyRow # FreqEnd /\ Near(k, w)' => Near(k, w)
                      /\ currentKeyRow = FreqEnd /\ Near(k, w + 1)' => Near(k, w)
    BY DEF Near
  <1> DEFINE r == Row(k)
  <1>1. r \in Rows
    BY MatrixAssumption DEF Row
  <1>2. /\ Needs(k) \in 0..8 /\ Needs(k)' \in 0..8
        /\ Needs(k) <= Needs(k)' + 1
        /\ r # currentKeyRow => Needs(k) <= Needs(k)'
    BY ReadNeeds
  <1>3. Passed(r)' \in BOOLEAN /\ Passed(r) \in BOOLEAN
    BY DEF Passed
  <1> HIDE DEF r
  <1>4. /\ ~Passed(currentKeyRow)
        /\ currentKeyRow # FreqEnd => (Passed(r)' <=> Passed(r) \/ r = currentKeyRow)
        /\ currentKeyRow = FreqEnd => ~Passed(r)'
    BY <1>1, ReadPassed
  <1>5. CASE r # currentKeyRow
    <2>1. currentKeyRow # FreqEnd /\ Near(k, w)' => Near(k, w)
      BY <1>2, <1>4, <1>5 DEF Near, r
    <2>2. currentKeyRow = FreqEnd /\ Near(k, w + 1)' => Near(k, w)
      BY <1>2, <1>4, <1>5 DEF Near, r
    <2> QED  BY <2>1, <2>2
  <1>6. CASE r = currentKeyRow
    <2>1. ~Passed(r)
      BY <1>4, <1>6
    <2>2. currentKeyRow # FreqEnd /\ Near(k, w)' => Near(k, w)
      BY <1>2, <1>4, <1>6, <2>1 DEF Near, r
    <2>3. currentKeyRow = FreqEnd /\ Near(k, w + 1)' => Near(k, w)
      BY <1>2, <1>4, <1>6, <2>1 DEF Near, r
    <2> QED  BY <2>2, <2>3
  <1> QED  BY <1>5, <1>6

LEMMA ReadJumps ==
  ASSUME GhostInv, readKeys, NEW w \in 0..3
  PROVE  /\ currentKeyRow # FreqEnd => JumpsLeft(w)' <= JumpsLeft(w)
         /\ currentKeyRow = FreqEnd => JumpsLeft(w + 1)' <= JumpsLeft(w)
  <1>1. \A k \in {Mnl, Power} :
          /\ currentKeyRow # FreqEnd /\ Near(k, w)' => Near(k, w)
          /\ currentKeyRow = FreqEnd /\ Near(k, w + 1)' => Near(k, w)
    BY ReadNear DEF GhostInv
  <1>2. FirstNear' <=> FirstNear
    BY DEF readKeys, FirstNear
  <1>3. currentKeyRow # FreqEnd => JumpsLeft(w)' <= JumpsLeft(w)
    BY <1>1, <1>2 DEF JumpsLeft, One
  <1>4. currentKeyRow = FreqEnd => JumpsLeft(w + 1)' <= JumpsLeft(w)
    BY <1>1, <1>2 DEF JumpsLeft, One
  <1> QED  BY <1>3, <1>4

(* An open key that is taken as open, when its row is read.                *)
LEMMA OpenKeyRead ==
  ASSUME GhostInv, readKeys, NEW k \in Untouched, Row(k) = currentKeyRow
  PROVE  /\ ~RollsOver(k)
         /\ Readings(k)' = 0 \/ (Misread /\ Readings(k)' = Readings(k) + 1)
  <1>1. k \in Wired /\ k \notin contact /\ key_state[k] /\ FewWrong(k)
    BY DEF GhostInv, Untouched
  <1>2. k \in InRow(currentKeyRow)
    BY <1>1 DEF InRow
  <1>3. /\ RollsOver(k) <=> Changed(k) /\ Readings(k) = 3
        /\ Readings(k)' = IF Changed(k) /\ Readings(k) # 3
                            THEN Readings(k) + 1 ELSE 0
    BY <1>2, CounterStep DEF GhostInv
  <1>4. CASE mux = currentKeyRow
    <2>1. k = <<currentKeyRow, k[2]>>
      BY <1>1, MatrixAssumption DEF Row
    <2>2. High(k, mux)
      BY <1>1, <1>4, <2>1 DEF High
    <2>3. ~Changed(k)
      BY <1>1, <2>2 DEF Changed, Xor
    <2> QED  BY <1>3, <2>3
  <1>5. CASE mux # currentKeyRow
    <2>1. Misread
      BY <1>5 DEF Misread, readKeys
    <2>2. Readings(k) # 3
      BY <1>1, <2>1, CountTypes, JumpTypes DEF FewWrong, One
    <2> QED  BY <1>3, <2>1, <2>2
  <1> QED  BY <1>4, <1>5

LEMMA ReadGhost ==
  ASSUME GhostInv, readKeys
  PROVE  GhostInv'
  <1>1. TypeOK' /\ TypeOK
    BY ReadTypes DEF GhostInv
  <1>2. pc' = "handle" /\ mux' = currentKeyRow'
        /\ contact' = contact /\ moving' = moving
    BY DEF readKeys, switchToNextKeyRow
  <1>3. ~Misread'
    BY <1>2 DEF Misread
  <1>4. ASSUME NEW k \in Wired, key_state'[k] PROVE k \in key_press'
    <2>1. CASE k \in InRow(currentKeyRow)
      <3>1. key_state'[k] = Xor(key_state[k], RollsOver(k))
        BY <2>1 DEF readKeys
      <3>2. key_state[k] \/ (RollsOver(k) /\ ~key_state[k])
        BY <1>4, <3>1 DEF Xor
      <3> QED  BY <2>1, <3>2 DEF GhostInv, readKeys
    <2>2. CASE k \notin InRow(currentKeyRow)
      BY <1>4, <2>2 DEF GhostInv, readKeys
    <2> QED  BY <2>1, <2>2
  <1>5. Power \in key_press' /\ FirstFar'
    <2>1. Needs(Power) \in Int /\ Needs(Power)' \in Int
          /\ Needs(Power) <= Needs(Power)' + 1
      BY JumpingKeys, ReadNeeds DEF GhostInv
    <2> QED  BY <2>1 DEF GhostInv, readKeys, FirstFar, FirstNear
  <1>6. ASSUME NEW k \in Untouched' PROVE FewWrong(k)'
    <2>1. k \in Wired \ moving /\ k \notin contact /\ key_state'[k]
      BY <1>2 DEF Untouched
    <2>2. key_state[k] \in BOOLEAN /\ Readings(k) \in 0..3 /\ Readings(k)' \in 0..3
      BY <1>1, <2>1 DEF TypeOK, Readings
    <2> SUFFICES ASSUME NEW w \in 0..3, Readings(k)' = w
                 PROVE  IF Row(k) = FreqEnd THEN w + JumpsLeft(w)' <= 2
                                            ELSE w <= 1
      BY <1>3, JumpTypes DEF FewWrong, One
    <2>3. CASE w = 0
      BY <1>1, <1>5, <2>3, TwoJumps, JumpTypes
    <2>4. CASE ~key_state[k]
      <3>1. k \in InRow(currentKeyRow)
        BY <2>1, <2>4 DEF readKeys
      <3>2. RollsOver(k)
        BY <2>1, <2>4, <3>1 DEF readKeys, Xor
      <3>3. w = 0
        BY <1>1, <3>1, <3>2, CounterStep
      <3> QED  BY <2>3, <3>3
    <2>5. CASE key_state[k] /\ Row(k) # currentKeyRow
      <3>1. Readings(k) = w
        BY <2>1, <2>5 DEF readKeys, Readings, InRow
      <3>2. FewWrong(k)
        BY <2>1, <2>5 DEF GhostInv, Untouched
      <3>3. Row(k) = FreqEnd => JumpsLeft(w)' <= JumpsLeft(w)
        BY <2>5, ReadJumps
      <3> QED  BY <3>1, <3>2, <3>3, JumpTypes DEF FewWrong, One
    <2>6. CASE key_state[k] /\ Row(k) = currentKeyRow /\ w # 0
      <3>1. k \in Untouched
        BY <2>1, <2>6 DEF Untouched
      <3>2. Misread /\ w = Readings(k) + 1
        BY <2>6, <3>1, OpenKeyRead
      <3>3. PICK v \in 0..3 : Readings(k) = v /\ w = v + 1
        BY <2>2, <3>2
      <3>4. FewWrong(k)
        BY <3>1 DEF GhostInv
      <3>5. CASE Row(k) = FreqEnd
        <4>1. v + JumpsLeft(v) + 1 <= 2
          BY <2>6, <3>2, <3>3, <3>4, <3>5 DEF FewWrong, One
        <4>2. JumpsLeft(w)' <= JumpsLeft(v)
          BY <2>6, <3>3, <3>5, ReadJumps
        <4> QED  BY <3>3, <3>5, <4>1, <4>2, JumpTypes
      <3>6. CASE Row(k) # FreqEnd
        BY <2>6, <3>2, <3>3, <3>4, <3>6 DEF FewWrong, One
      <3> QED  BY <3>5, <3>6
    <2> QED  BY <2>3, <2>4, <2>5, <2>6
  <1> QED  BY <1>1, <1>2, <1>4, <1>5, <1>6 DEF GhostInv

(* A key that jumps needs five readings for the next time.                 *)
LEMMA JumpSpends ==
  ASSUME GhostInv, processInputData, NEW w \in 0..3,
         NEW k \in {Mnl, Power}, Handled(k), k = Power => TurnsOn(k)
  PROVE  Near(k, w) /\ ~Near(k, w)'
  <1>1. k \in InRow(currentKeyRow) /\ k \in Wired /\ ~key_state[k] /\ k \in key_press
    BY DEF Handled, Reported, InRow
  <1>2. Row(k) = currentKeyRow /\ Readings(k) \in 0..3
    BY <1>1, CountTypes DEF InRow
  <1>3. key_state' = key_state /\ Readings(k)' = Readings(k)
    BY DEF processInputData, keyVars, Readings
  <1>4. ~Spent(k)
    BY <1>1 DEF Spent, TurnsOn
  <1>5. Spent(k)'
    <2>1. CASE k = Power
      BY <1>1, <1>2, <2>1, JumpingKeys
         DEF Spent, processInputData, Latch, HeldInRow, Handled
    <2>2. CASE k = Mnl
      BY <1>1, <2>2, JumpingKeys
         DEF Spent, processInputData, get_key_short, Handled
    <2> QED  BY <2>1, <2>2
  <1>6. Needs(k) = 0
    BY <1>1, <1>4 DEF Needs
  <1>7. Needs(k)' >= 5 /\ Needs(k)' \in Int
    BY <1>1, <1>2, <1>3, <1>5 DEF Needs
  <1> QED  BY <1>1, <1>6, <1>7 DEF Near

(* Nor does any other handling bring a key nearer to its jump.             *)
LEMMA HandleNeeds ==
  ASSUME GhostInv, processInputData, NEW k \in {Mnl, Power}, k \in Wired
  PROVE  Needs(k) \in 0..8 /\ Needs(k)' \in 0..8 /\ Needs(k) <= Needs(k)'
  <1>1. key_state' = key_state /\ Readings(k)' = Readings(k)
    BY DEF processInputData, keyVars, Readings
  <1>2. Readings(k) \in 0..3
    BY CountTypes
  <1>3. ~key_state[k] /\ Spent(k) => Spent(k)'
    <2>1. CASE k = Power
      <3>1. SUFFICES ASSUME ~key_state[k], k \in latched PROVE k \in latched'
        BY <2>1 DEF Spent
      <3>2. k \in HeldInRow => k \in Reported
        BY <2>1, <3>1, JumpingKeys DEF GhostInv, HeldInRow, Reported, InRow
      <3> QED  BY <3>1, <3>2 DEF processInputData, Latch
    <2>2. CASE k = Mnl
      BY <2>2, JumpingKeys DEF Spent, processInputData, get_key_short
    <2> QED  BY <2>1, <2>2
  <1> QED  BY <1>1, <1>2, <1>3 DEF Needs

LEMMA HandleNear ==
  ASSUME GhostInv, processInputData, NEW k \in {Mnl, Power}, NEW w \in 0..3
  PROVE  Near(k, w)' => Near(k, w)
  <1> SUFFICES ASSUME k \in Wired PROVE Near(k, w)' => Near(k, w)
    BY DEF Near
  <1>1. Needs(k) \in 0..8 /\ Needs(k)' \in 0..8 /\ Needs(k) <= Needs(k)'
    BY HandleNeeds
  <1>2. Row(k) \in Rows
    BY MatrixAssumption DEF Row
  <1>3. Passed(Row(k)) => Passed(Row(k))'
    <2>1. CASE ReadsFrequency
      <3>1. currentKeyRow' = FreqEnd
        BY <2>1 DEF processInputData, forcedReadFreq
      <3> QED  BY <1>2, <3>1, MatrixAssumption DEF GhostInv, TypeOK, Passed, Rows
    <2>2. CASE ~ReadsFrequency
      BY <2>2 DEF processInputData, StayInRow, Passed
    <2> QED  BY <2>1, <2>2
  <1> QED  BY <1>1, <1>3 DEF Near

(* A jump costs one of those that are left.                                *)
LEMMA HandleJumps ==
  ASSUME GhostInv, processInputData, NEW w \in 0..3
  PROVE  JumpsLeft(w)' + (IF ReadsFrequency THEN 1 ELSE 0) <= JumpsLeft(w)
  <1>1. /\ Near(Mnl, w)' => Near(Mnl, w)
        /\ Near(Power, w)' => Near(Power, w)
    BY HandleNear
  <1>2. ~FirstNear'
    BY DEF processInputData, FirstNear
  <1>3. ReadsFrequency => \/ Near(Mnl, w) /\ ~Near(Mnl, w)'
                          \/ Near(Power, w) /\ ~Near(Power, w)'
                          \/ FirstNear
    BY JumpSpends, JumpingKeys DEF ReadsFrequency, FirstNear
  <1> QED  BY <1>1, <1>2, <1>3 DEF JumpsLeft, One

LEMMA HandleGhost ==
  ASSUME GhostInv, processInputData
  PROVE  GhostInv'
  <1>1. TypeOK' /\ TypeOK /\ pc' = "read"
    BY HandleTypes DEF GhostInv, processInputData
  <1>2. UNCHANGED <<moving, contact, key_state>>
    BY DEF processInputData, keyVars
  <1>3. \A k \in Wired : Readings(k)' = Readings(k)
    BY DEF processInputData, keyVars, Readings
  <1>4. \A k \in Wired : key_state'[k] => k \in key_press'
    BY <1>2 DEF GhostInv, processInputData, get_key_short, Reported
  <1>5. Power \in key_press' /\ FirstFar'
    BY JumpingKeys
       DEF GhostInv, processInputData, get_key_short, FirstFar, FirstNear
  <1>6. ~Misread
    BY DEF processInputData, Misread
  <1>7. Misread' => ReadsFrequency /\ currentKeyRow' = FreqEnd
    BY DEF GhostInv, processInputData, Misread, StayInRow, forcedReadFreq
  <1>8. ASSUME NEW k \in Untouched' PROVE FewWrong(k)'
    <2>1. k \in Wired /\ k \in Untouched /\ FewWrong(k)
      BY <1>2 DEF GhostInv, Untouched
    <2> SUFFICES ASSUME NEW w \in 0..3, Readings(k) = w
                 PROVE  IF Row(k) = FreqEnd
                          THEN w + JumpsLeft(w)' + One(Misread') <= 2
                          ELSE w <= 1
      BY <1>3, <1>7, <2>1 DEF FewWrong, One
    <2>2. JumpsLeft(w)' + One(Misread') <= JumpsLeft(w)
      BY <1>7, HandleJumps, JumpTypes DEF One
    <2>3. One(Misread') \in 0..1
      BY DEF One
    <2> QED  BY <1>6, <2>1, <2>2, <2>3, JumpTypes DEF FewWrong, One
  <1> QED  BY <1>1, <1>4, <1>5, <1>8 DEF GhostInv

(* Neither the user nor a timeout touches what the bound is about.         *)
LEMMA QuietGhost ==
  ASSUME GhostInv, User \/ isrTimer1 \/ UNCHANGED vars
  PROVE  GhostInv'
  <1>1. TypeOK'
    BY NextTypes DEF GhostInv, Next
  <1>2. UNCHANGED <<moving, currentKeyRow, mux, ct0, ct1, key_state, key_press,
                    firstRun, pc>>
    BY DEF User, Move, isrTimer1, vars, keyVars
  <1>3. Power \in latched' <=> Power \in latched
    BY JumpingKeys DEF User, Move, isrTimer1, vars
  <1>4. ASSUME NEW k \in Untouched' PROVE FewWrong(k)'
    <2>1. k \in Wired \ moving /\ k \notin contact' /\ key_state[k]
      BY <1>2 DEF Untouched
    <2>2. k \notin contact
      <3>1. CASE User
        <4>1. PICK j \in moving : Move(j)
          BY <3>1 DEF User
        <4>2. k # j
          BY <2>1, <4>1
        <4> QED  BY <2>1, <4>1, <4>2 DEF Move
      <3>2. CASE isrTimer1 \/ UNCHANGED vars
        BY <2>1, <3>2 DEF isrTimer1, vars
      <3> QED  BY <3>1, <3>2
    <2>3. FewWrong(k)
      BY <2>1, <2>2 DEF GhostInv, Untouched
    <2>4. Readings(k)' = Readings(k) /\ (Misread' <=> Misread)
      BY <1>2 DEF Readings, Misread
    <2>5. ASSUME NEW w \in 0..3 PROVE JumpsLeft(w)' = JumpsLeft(w)
      <3>1. ASSUME NEW j \in {Mnl, Power} PROVE Near(j, w)' <=> Near(j, w)
        BY <1>2, <1>3 DEF Near, Needs, Spent, Passed, Readings
      <3>2. FirstNear' <=> FirstNear
        BY <1>2, <1>3 DEF FirstNear
      <3> QED  BY <3>1, <3>2 DEF JumpsLeft, One
    <2> QED  BY <1>2, <2>3, <2>4, <2>5 DEF FewWrong, One
  <1>5. FirstFar'
    BY <1>2, <1>3 DEF GhostInv, FirstFar, FirstNear, Needs, Spent, Readings
  <1> QED  BY <1>1, <1>2, <1>4, <1>5 DEF GhostInv

LEMMA NextGhost == GhostInv /\ [Next]_vars => GhostInv'
  BY ReadGhost, HandleGhost, QuietGhost DEF Next

(* What NoGhostKey says of one step.                                       *)
LEMMA OpenKeyStaysUp ==
  ASSUME GhostInv, [Next]_vars, NEW k \in Wired \ moving,
         k \notin contact, key_state[k]
  PROVE  key_state'[k]
  <1>1. CASE readKeys /\ Row(k) = currentKeyRow
    <2>1. k \in Untouched /\ k \in InRow(currentKeyRow)
      BY <1>1 DEF Untouched, InRow
    <2>2. ~RollsOver(k)
      BY <1>1, <2>1, OpenKeyRead
    <2>3. key_state'[k] = Xor(key_state[k], RollsOver(k))
      BY <1>1, <2>1 DEF readKeys
    <2> QED  BY <2>2, <2>3 DEF Xor
  <1>2. CASE readKeys /\ Row(k) # currentKeyRow
    BY <1>2 DEF readKeys, InRow
  <1>3. CASE ~readKeys
    <2>1. key_state' = key_state
      BY <1>3 DEF Next, User, Move, processInputData, isrTimer1, vars, keyVars
    <2> QED  BY <2>1
  <1> QED  BY <1>1, <1>2, <1>3

(* A key nobody touches is never taken as pressed (readKeys): whatever the *)
(* wiring, however setManual and setUhfOn make the scan jump (and it is    *)
(* because MNL and the power switch are debounced themselves).             *)
THEOREM NoKeyFromNowhere == Spec => NoGhostKey
  <1>1. Init => GhostInv
    BY InitGhost
  <1>2. GhostInv /\ [Next]_vars => GhostInv'
    BY NextGhost
  <1>3. GhostInv /\ [Next]_vars =>
          [\A k \in Wired \ moving :
             k \notin contact /\ key_state[k] => key_state'[k]]_vars
    BY OpenKeyStaysUp
  <1> QED  BY <1>1, <1>2, <1>3, PTL DEF Spec, NoGhostKey

-----------------------------------------------------------------------------
(* The position of a selector that rests.                                  *)

\* The one contact of a settled selector is the one forcedReadFreq decodes.
LEMMA RestingDecoded ==
  ASSUME NEW k \in Consistent, Settled(k)
  PROVE  {Decoded(j) : j \in contact \cap Positions(k[2])} \cap Digits = {k}
<1>1. contact \cap Positions(k[2]) = {k} /\ k \in Digits /\ Decoded(k) = k
  BY DEF Settled, Consistent, Decoded
<1> QED  BY <1>1

\* No other position of a settled selector is reported.
LEMMA RestingReported ==
  ASSUME NEW k \in Consistent, Settled(k)
  PROVE  {j \in Positions(k[2]) : Handled(j)} \subseteq {k}
  BY DEF Settled, Handled, Reported

LEMMA RestingKept ==
  ASSUME TypeOK, Next, NEW k \in Consistent, Settled(k), digit[k[2]] = k
  PROVE  digit'[k[2]] = k
<1>1. k[2] \in Selectors
  BY DEF Consistent, Selectors
<1>2. CASE processInputData /\ ReadsFrequency
  <2>1. digit'[k[2]] =
          ShownFrom({Decoded(j) : j \in contact \cap Positions(k[2])} \cap Digits,
                    digit[k[2]])
    BY <1>1, <1>2 DEF processInputData, forcedReadFreq
  <2> QED  BY <2>1, RestingDecoded DEF ShownFrom
<1>3. CASE processInputData /\ ~ReadsFrequency
  <2>1. digit'[k[2]] =
          ShownFrom({j \in Positions(k[2]) : Handled(j)}, digit[k[2]])
    BY <1>1, <1>3 DEF processInputData
  <2> QED  BY <2>1, RestingReported DEF ShownFrom
<1>4. CASE ~processInputData
  <2>1. digit' = digit
    BY <1>4 DEF Next, User, Move, readKeys, isrTimer1
  <2> QED  BY <2>1
<1> QED  BY <1>2, <1>3, <1>4

(* A selector but the first keeps the digit it rests at, for every matrix: *)
(* MNL, power-on and the first run (forcedReadFreq) decode its contact as  *)
(* processInputData does, and no bounce of another key is taken for it.    *)
THEOREM RestingDialKept == Spec => DialKept
<1>1. TypeOK /\ [Next]_vars =>
        [\A k \in Consistent :
           Settled(k) /\ digit[k[2]] = k => digit'[k[2]] = k]_vars
  BY RestingKept
<1>2. Spec => []TypeOK
  BY ScanTypeCorrect
<1> QED  BY <1>1, <1>2, PTL DEF Spec, DialKept
=============================================================================
