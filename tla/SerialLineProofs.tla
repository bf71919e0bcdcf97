-------------------------- MODULE SerialLineProofs --------------------------
(***************************************************************************)
(* The safety properties of SerialLine, for every set of commands, every   *)
(* text and every clock that gives the baud rate.                          *)
(***************************************************************************)
EXTENDS SerialLine, SequenceTheorems, TLAPS

\* For a host that waits: a byte that is not yet acted on is the last one it
\* has typed, and it is the only one; the flag is up in the first part of a
\* pass only.
OnceInv ==
  patient =>
    IF rx \/ pc = "take"
    THEN typed = Polls(rxValue, keyPoll) /\ (rx => pc = "pass")
    ELSE typed = keyPoll

\* Between the test of the register and the write to it, nobody else writes
\* it, unless the host types into a text.
PutInv ==
  patient /\ pc = "put" /\ Head(todo) # "\r" => udr = "empty"

SerialInv == TypeOK /\ NewestTaken /\ OnceInv /\ PutInv /\ TextComplete

-----------------------------------------------------------------------------
\* What is printed after what was put is a text again.
LEMMA RestOfText ==
  ASSUME NEW text \in Seq(Puts), text # <<>>
  PROVE  Head(text) \in Puts /\ Tail(text) \in Seq(Puts)
  BY HeadTailProperties

\* Whoever writes the register, it holds a byte or is empty.
LEMMA WriteTypes ==
  ASSUME TypeOK, NEW what \in Puts \cup {"echo"}, WriteUdr(what)
  PROVE  /\ udr' \in Puts \cup {"echo", "empty"}
         /\ lost' \subseteq Puts \cup {"echo"}
  BY DEF TypeOK, WriteUdr

LEMMA InitSerialInv == Init => SerialInv
  <1> SUFFICES ASSUME Init PROVE SerialInv
    OBVIOUS
  <1>1. <<>> \in Seq(Puts)
    OBVIOUS
  <1>2. Help \in Commands
    BY SerialAssumption
  <1>3. TypeOK
    BY <1>1, <1>2 DEF Init, TypeOK, Puts
  <1>4. NewestTaken /\ OnceInv /\ PutInv /\ TextComplete
    BY DEF Init, NewestTaken, OnceInv, PutInv, TextComplete
  <1> QED BY <1>3, <1>4 DEF SerialInv

\* The types, action by action.
LEMMA TypeStep == TypeOK /\ [Next]_vars => TypeOK'
  <1> SUFFICES ASSUME TypeOK, [Next]_vars PROVE TypeOK'
    OBVIOUS
  <1>1. CASE Pass
    BY <1>1 DEF Pass, Take, ClearFlag, TypeOK
  <1>2. CASE debug
    <2>1. data' = rxValue /\ fresh' = FALSE /\ rx' = rx
      BY <1>2 DEF debug, Take, ReadByte
    <2>2. data' \in Commands /\ keyPoll' \in BOOLEAN
      BY <1>2, <2>1 DEF debug, Polls, TypeOK
    <2>3. Text[data'] \in Seq(Puts)
      BY <2>2, SerialAssumption
    <2>4. pc' = "print" /\ todo' = Text[data'] /\ back' = "poll"
      BY <1>2 DEF debug, StartText
    <2> QED BY <1>2, <2>1, <2>2, <2>3, <2>4 DEF debug, TypeOK
  <1>3. CASE Poll
    BY <1>3, SerialAssumption DEF Poll, StartText, receiver, TypeOK
  <1>4. CASE Wait \/ CarriageReturn \/ EndText
    BY <1>4 DEF Wait, CarriageReturn, EndText, receiver, TypeOK
  <1>5. CASE Put
    <2>1. todo # <<>>
      BY <1>5 DEF Put, TypeOK
    <2>2. Head(todo) \in Puts /\ Tail(todo) \in Seq(Puts)
      BY <2>1, RestOfText DEF TypeOK
    <2>3. /\ udr' \in Puts \cup {"echo", "empty"}
          /\ lost' \subseteq Puts \cup {"echo"}
      BY <1>5, <2>2, WriteTypes DEF Put
    <2> QED BY <1>5, <2>2, <2>3 DEF Put, receiver, TypeOK
  <1>6. CASE Flush
    BY <1>6, RestOfText DEF Flush, receiver, TypeOK
  <1>7. CASE Transmitter
    BY <1>7 DEF Transmitter, Shift, ShiftOut, receiver, TypeOK
  <1>8. ASSUME NEW c \in Commands, USART_RX(c) PROVE TypeOK'
    <2>1. /\ udr' \in Puts \cup {"echo", "empty"}
          /\ lost' \subseteq Puts \cup {"echo"}
      BY <1>8, WriteTypes DEF USART_RX
    <2>2. typed' \in BOOLEAN /\ patient' \in BOOLEAN
      BY <1>8 DEF USART_RX, Polls, Idle, TypeOK
    <2> QED BY <1>8, <2>1, <2>2 DEF USART_RX, TypeOK
  <1>9. CASE UNCHANGED vars
    BY <1>9 DEF vars, receiver, TypeOK
  <1> QED BY <1>1, <1>2, <1>3, <1>4, <1>5, <1>6, <1>7, <1>8, <1>9
          DEF Next, Program

-----------------------------------------------------------------------------
\* A byte that is not read has its flag up, or the main loop is about to read.
LEMMA NewestStep == NewestTaken /\ [Next]_vars => NewestTaken'
  <1> SUFFICES ASSUME NewestTaken, [Next]_vars PROVE NewestTaken'
    OBVIOUS
  <1>1. CASE Pass
    BY <1>1 DEF Pass, Take, ClearFlag, NewestTaken
  <1>2. CASE debug
    BY <1>2 DEF debug, Take, ReadByte, NewestTaken
  <1>3. CASE Poll \/ Wait \/ CarriageReturn \/ Put \/ Flush \/ EndText
    BY <1>3 DEF Poll, Wait, CarriageReturn, Put, Flush, EndText, receiver,
                StartText, NewestTaken
  <1>4. CASE Transmitter \/ UNCHANGED vars
    BY <1>4 DEF Transmitter, Shift, ShiftOut, receiver, vars, NewestTaken
  <1>5. ASSUME NEW c \in Commands, USART_RX(c) PROVE NewestTaken'
    BY <1>5 DEF USART_RX, NewestTaken
  <1> QED BY <1>1, <1>2, <1>3, <1>4, <1>5 DEF Next, Program

LEMMA OnceStep == TypeOK /\ OnceInv /\ [Next]_vars => OnceInv'
  <1> SUFFICES ASSUME TypeOK, OnceInv, [Next]_vars, patient' PROVE OnceInv'
    BY DEF OnceInv
  <1>1. CASE Pass
    BY <1>1 DEF Pass, Take, ClearFlag, OnceInv, Polls
  <1>2. CASE debug
    <2>1. typed = Polls(rxValue, keyPoll) /\ ~rx
      BY <1>2 DEF debug, OnceInv
    <2>2. keyPoll' = typed /\ typed' = typed /\ rx' = rx /\ pc' = "print"
      BY <1>2, <2>1 DEF debug, Take, ReadByte, StartText
    <2> QED BY <2>1, <2>2 DEF OnceInv
  <1>3. CASE Poll \/ Wait \/ CarriageReturn \/ Put \/ Flush \/ EndText
    <2>1. /\ pc # "pass" /\ pc # "take" /\ pc' # "take"
          /\ UNCHANGED <<patient, rx, typed, keyPoll>>
      BY <1>3 DEF Poll, Wait, CarriageReturn, Put, Flush, EndText, receiver,
                  StartText, TypeOK
    <2> QED BY <2>1 DEF OnceInv
  <1>4. CASE Transmitter \/ UNCHANGED vars
    <2>1. UNCHANGED <<patient, rx, pc, typed, rxValue, keyPoll>>
      BY <1>4 DEF Transmitter, Shift, ShiftOut, receiver, vars
    <2>2. Polls(rxValue', keyPoll') = Polls(rxValue, keyPoll)
      BY <2>1
    <2> QED BY <2>1, <2>2 DEF OnceInv
  <1>5. ASSUME NEW c \in Commands, USART_RX(c) PROVE OnceInv'
    <2>1. patient /\ pc = "pass" /\ ~rx
      BY <1>5 DEF USART_RX, Idle
    <2>2. typed = keyPoll
      BY <2>1 DEF OnceInv
    <2>3. typed' = Polls(rxValue', keyPoll') /\ pc' = "pass" /\ rx' = TRUE
      BY <1>5, <2>1, <2>2 DEF USART_RX
    <2> QED BY <2>3 DEF OnceInv
  <1> QED BY <1>1, <1>2, <1>3, <1>4, <1>5 DEF Next, Program

LEMMA PutStep ==
  TypeOK /\ PutInv /\ TextComplete /\ [Next]_vars
    => PutInv' /\ TextComplete'
  <1> SUFFICES ASSUME TypeOK, PutInv, TextComplete, [Next]_vars, patient'
               PROVE  PutInv' /\ TextComplete'
    BY DEF PutInv, TextComplete
  <1>1. CASE Pass \/ debug \/ Poll \/ EndText \/ Flush
    BY <1>1 DEF Pass, debug, Poll, EndText, Flush, StartText, receiver, TypeOK,
                PutInv, TextComplete
  <1>2. CASE Wait \/ CarriageReturn
    BY <1>2 DEF Wait, CarriageReturn, Ready, receiver, PutInv, TextComplete
  <1>3. CASE Put
    <2>1. patient /\ pc = "put" /\ pc' = "print"
      BY <1>3 DEF Put, receiver
    <2>2. lost' \subseteq lost \cup {"\r"}
      BY <1>3, <2>1 DEF Put, WriteUdr, PutInv
    <2> QED BY <2>1, <2>2 DEF PutInv, TextComplete
  <1>4. CASE Transmitter \/ UNCHANGED vars
    BY <1>4 DEF Transmitter, Shift, ShiftOut, receiver, vars, PutInv,
                TextComplete
  <1>5. ASSUME NEW c \in Commands, USART_RX(c)
        PROVE  PutInv' /\ TextComplete'
    <2>1. patient /\ pc' = "pass" /\ lost' \subseteq lost \cup {"echo"}
      BY <1>5 DEF USART_RX, Idle, WriteUdr
    <2> QED BY <2>1 DEF PutInv, TextComplete
  <1> QED BY <1>1, <1>2, <1>3, <1>4, <1>5 DEF Next, Program

-----------------------------------------------------------------------------
\* The invariant of all of them.
LEMMA SerialInvariant == Spec => []SerialInv
  <1>1. SerialInv /\ [Next]_vars => SerialInv'
    BY TypeStep, NewestStep, OnceStep, PutStep DEF SerialInv
  <1> QED BY InitSerialInv, <1>1, PTL DEF Spec

\* Types, and that a step which puts a byte has one to put: serial.c:59.
THEOREM SerialTypes == Spec => []TypeOK
  <1>1. SerialInv => TypeOK
    BY DEF SerialInv
  <1> QED BY SerialInvariant, <1>1, PTL

\* The last byte typed is never forgotten, wherever the receive handler comes
\* between main.c:157 and main.c:159.
THEOREM NewestAlwaysTaken == Spec => []NewestTaken
  <1>1. SerialInv => NewestTaken
    BY DEF SerialInv
  <1> QED BY SerialInvariant, <1>1, PTL

\* A host that waits has each command carried out once.
THEOREM OnceForEachByte == Spec => []OncePerByte
  <1>1. SerialInv => OncePerByte
    BY DEF SerialInv, OnceInv, OncePerByte, Idle
  <1> QED BY SerialInvariant, <1>1, PTL

\* A host that waits loses no byte of a text but carriage returns, although
\* sendUartByte's test and write are two steps.
THEOREM TextAlwaysComplete == Spec => []TextComplete
  <1>1. SerialInv => TextComplete
    BY DEF SerialInv
  <1> QED BY SerialInvariant, <1>1, PTL
=============================================================================
