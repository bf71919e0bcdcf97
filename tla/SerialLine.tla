----------------------------- MODULE SerialLine -----------------------------
(***************************************************************************)
(* The serial line and the debug terminal on it.  The receive handler      *)
(* keeps the last byte in rxValue, raises a flag and echoes the byte; the  *)
(* main loop takes the byte, carries its command out and prints.  Both     *)
(* write the same transmit register UDR0, which ignores what is written    *)
(* while it is full: the main loop tests it and then writes it, and the    *)
(* handler may come in between.                                            *)
(*                                                                         *)
(* A command is what it prints and what it does to keyPoll, the mode in    *)
(* which the main loop prints the rows of the key matrix instead of        *)
(* scanning them.  The other things commands do, tones and the multiplexer,*)
(* are steps of UhfTimers and ChannelSelector.  Messages of key handlers   *)
(* are left out; they are printed in the same way.                         *)
(***************************************************************************)
EXTENDS Integers, Sequences

CONSTANTS Commands,   \* bytes the host may type
          Tab, Help,  \* the one that toggles keyPoll, one that clears it
          Text,       \* what each command prints
          Row,        \* what keyPoll prints in a pass
          F_CPU       \* in Hz

UART_BAUD_RATE == 38400

\* What is put on the line in turn: data bytes and the ends of lines.
Puts == {"byte", "\r", "\n", "flush"}

\* Rate the divider gives, and its error in thousandths
REAL_BAUD_RES == F_CPU \div (16 * (F_CPU \div (UART_BAUD_RATE * 16)))
BAUD_ERROR == (REAL_BAUD_RES * 1000) \div UART_BAUD_RATE - 1000

checkBaudError == IF BAUD_ERROR > 20 \/ BAUD_ERROR < -20 THEN -1
                  ELSE IF BAUD_ERROR > 10 \/ BAUD_ERROR < -10 THEN 1 ELSE 0

\* With a clock that misses the rate main stops after initSerial.
ASSUME SerialAssumption ==
  /\ {Tab, Help} \subseteq Commands /\ Tab # Help
  /\ Text \in [Commands -> Seq(Puts)] /\ Row \in Seq(Puts)
  /\ F_CPU \in Nat \ {0} /\ checkBaudError = 0

VARIABLES
  rxValue, rx,    \* the last byte received, and the flag in serialStatus
  data,           \* the byte debug is called with
  keyPoll,
  udr,            \* what waits in UDR0, or "empty"
  shifting,       \* the transmitter is busy with the byte before
  pc,             \* "pass", "take", "poll", "print", "put"
  todo, back,     \* rest of the text, and where the main loop was
  fresh,          \* history: rxValue was not read since it was received
  patient,        \* the host typed only when the last command was done
  typed,          \* keyPoll as the host has typed it
  lost            \* kinds of bytes that were written to a full register

receiver == <<rxValue, rx, fresh, patient, typed>>
vars == <<receiver, data, keyPoll, udr, shifting, pc, todo, back, lost>>

\* TAB toggles keyPoll; of the commands that have a case of their own, no
\* other changes it; help and bytes without a case clear it.
Polls(command, on) == IF command = Tab THEN ~on
                      ELSE IF command = Help THEN FALSE ELSE on

\* The end of the greeting may still be on its way.
Init ==
  /\ rxValue = Help /\ rx = FALSE /\ data = Help
  /\ keyPoll = FALSE /\ udr \in {"empty", "byte"} /\ shifting \in BOOLEAN
  /\ pc = "pass" /\ todo = <<>> /\ back = "pass"
  /\ fresh = FALSE /\ patient = TRUE /\ typed = FALSE /\ lost = {}

-----------------------------------------------------------------------------
\* A write to UDR0: it is ignored, and the byte lost, unless UDR0 is empty.
WriteUdr(what) ==
  /\ udr' = IF udr = "empty" THEN what ELSE udr
  /\ lost' = IF udr = "empty" THEN lost ELSE lost \cup {what}

\* The last command was carried out, and its text written.
Idle == pc = "pass" /\ ~rx

\* The interrupt handler, and the host that typed the byte.
USART_RX(command) ==
  /\ rxValue' = command /\ rx' = TRUE
  /\ WriteUdr("echo")
  /\ fresh' = TRUE
  /\ patient' = (patient /\ Idle)
  /\ typed' = Polls(command, typed)
  /\ UNCHANGED <<data, keyPoll, shifting, pc, todo, back>>

\* The transmitter takes the next byte, and has sent it.
Shift ==
  /\ udr # "empty" /\ ~shifting
  /\ udr' = "empty" /\ shifting' = TRUE
  /\ UNCHANGED <<receiver, data, keyPoll, pc, todo, back, lost>>

ShiftOut ==
  /\ shifting /\ shifting' = FALSE
  /\ UNCHANGED <<receiver, data, keyPoll, udr, pc, todo, back, lost>>

-----------------------------------------------------------------------------
\* The flag is cleared by loading and storing its byte, in which there is
\* nothing else: the store is the step.
ClearFlag == rx' = FALSE /\ UNCHANGED <<data, fresh>>
ReadByte == data' = rxValue /\ fresh' = FALSE /\ UNCHANGED rx

\* Variant: the byte is read before the flag is cleared.
ReadFirst(first) == IF first THEN ReadByte ELSE ClearFlag

\* Variant: rxValue is not volatile, and an old copy of it is used.
StaleCopy(first) ==
  IF first THEN ClearFlag ELSE UNCHANGED <<rx, data, fresh>>

\* The flag is cleared first, then the byte is read.
Take(first) == IF first THEN ClearFlag ELSE ReadByte

StartText(text, place) == pc' = "print" /\ todo' = text /\ back' = place

Pass ==
  /\ pc = "pass"
  /\ IF rx THEN Take(TRUE) /\ pc' = "take"
           ELSE UNCHANGED <<rx, data, fresh>> /\ pc' = "poll"
  /\ UNCHANGED <<rxValue, patient, typed, keyPoll, udr, shifting, todo, back,
                 lost>>

debug ==
  /\ pc = "take"
  /\ Take(FALSE)
  /\ keyPoll' = Polls(data', keyPoll)
  /\ StartText(Text[data'], "poll")
  /\ UNCHANGED <<rxValue, patient, typed, udr, shifting, lost>>

\* The rest of the pass: a row is printed, or keys are scanned.
Poll ==
  /\ pc = "poll"
  /\ IF keyPoll THEN StartText(Row, "pass")
                ELSE pc' = "pass" /\ UNCHANGED <<todo, back>>
  /\ UNCHANGED <<receiver, data, keyPoll, udr, shifting, lost>>

-----------------------------------------------------------------------------
\* Variant: whatever is in the register.
ReadyAlways == TRUE

\* Variant: the wait is for the other level of the flag.
ReadyWhenFull == udr # "empty"

\* The flag UDRE
Ready == udr = "empty"

\* sendUartByte and sendUartNewline wait until UDR0 is empty ...
Wait ==
  /\ pc = "print" /\ todo # <<>> /\ Head(todo) \in {"byte", "\n"}
  /\ Ready
  /\ pc' = "put"
  /\ UNCHANGED <<receiver, data, keyPoll, udr, shifting, todo, back, lost>>

\* ... but sendUartNewline writes its first byte without waiting.
CarriageReturn ==
  /\ pc = "print" /\ todo # <<>> /\ Head(todo) = "\r"
  /\ pc' = "put"
  /\ UNCHANGED <<receiver, data, keyPoll, udr, shifting, todo, back, lost>>

Put ==
  /\ pc = "put" /\ pc' = "print"
  /\ WriteUdr(Head(todo)) /\ todo' = Tail(todo)
  /\ UNCHANGED <<receiver, data, keyPoll, shifting, back>>

Flush ==
  /\ pc = "print" /\ todo # <<>> /\ Head(todo) = "flush"
  /\ Ready
  /\ todo' = Tail(todo)
  /\ UNCHANGED <<receiver, data, keyPoll, udr, shifting, pc, back, lost>>

\* Variant: the loop goes one byte too far.
EndTextLate ==
  /\ pc = "print" /\ todo = <<>> /\ pc' = "put"
  /\ UNCHANGED <<receiver, data, keyPoll, udr, shifting, todo, back, lost>>

EndText ==
  /\ pc = "print" /\ todo = <<>> /\ pc' = back
  /\ UNCHANGED <<receiver, data, keyPoll, udr, shifting, todo, back, lost>>

-----------------------------------------------------------------------------
Program ==
  \/ Pass \/ debug \/ Poll
  \/ Wait \/ CarriageReturn \/ Put \/ Flush \/ EndText

Transmitter == Shift \/ ShiftOut

Next == Program \/ Transmitter \/ \E c \in Commands : USART_RX(c)

Spec == Init /\ [][Next]_vars

\* The processor and the transmitter go on; nobody has to type.
FairSpec == Spec /\ WF_vars(Program) /\ WF_vars(Transmitter)

-----------------------------------------------------------------------------
\* Types.
TypeOK ==
  /\ rxValue \in Commands /\ rx \in BOOLEAN /\ data \in Commands
  /\ keyPoll \in BOOLEAN /\ udr \in Puts \cup {"echo", "empty"}
  /\ shifting \in BOOLEAN
  /\ pc \in {"pass", "take", "poll", "print", "put"}
  /\ todo \in Seq(Puts) /\ back \in {"pass", "poll"}
  /\ fresh \in BOOLEAN /\ patient \in BOOLEAN /\ typed \in BOOLEAN
  /\ lost \subseteq Puts \cup {"echo"}
  /\ pc = "put" => todo # <<>>

\* The last byte is never forgotten: while its flag is down, and the main loop
\* is not about to read it, it has been read, wherever the handler came in.
NewestTaken == ~rx /\ pc # "take" => ~fresh

\* A host that waits for each command to end has each carried out once:
\* keyPoll is as it was typed.
OncePerByte == patient /\ Idle => keyPoll = typed

\* Such a host loses no byte of a text but carriage returns, although its
\* typing is echoed into the same register.
TextComplete == patient => lost \subseteq {"\r", "echo"}

\* When typing stops, the last byte is acted on, and the main loop goes on.
Answered ==
  (<>[][~(\E c \in Commands : USART_RX(c))]_vars)
    => <>[](~rx /\ ~fresh) /\ []<>(pc = "pass")
=============================================================================
