------------------------------- MODULE Keyboard -------------------------------
(***************************************************************************)
(* A keyboard, external to the repository, on the line to PS2_Driver and    *)
(* PS2_Messages.  It tells of keys pressed, repeated and released, one byte  *)
(* after the other: [E0] code and [E0] F0 code.  On the line a bit may be   *)
(* read wrong and an edge may be missed; an edge is never seen twice.       *)
(*                                                                         *)
(* The other variables watch the line, and of the receiver only whether it   *)
(* waits for a start bit: how the frame being received was hurt, and for    *)
(* which keys an undisturbed word has come since the last fault.            *)
(***************************************************************************)
EXTENDS PS2_Messages

CONSTANT Keys    (* the keys of the keyboard, known to PS2_Messages or not *)

ASSUME KeysAssumption ==
  /\ Keys # {} /\ Keys \subseteq [ext : BOOLEAN, code : Byte \ {EXT, BRK}]
  /\ Known \subseteq Keys

VARIABLES
  event,      (* the key and the direction the keyboard tells of          *)
  todo,       (* the bytes it still has to send, the one on the line first *)
  pos,        (* the bits of that byte already sent                       *)
  told,       (* the keys it has told to be down                          *)
  damage,     (* faults since the receiver took a start bit               *)
  whole,      (* no fault in this event so far                            *)
  good,       (* none in the event before it                              *)
  trusted     (* known keys told of since, after a good event             *)

lineVars  == <<event, todo, pos, told>>
watchVars == <<damage, whole, good, trusted>>
vars      == <<driverVars, messageVars, lineVars, watchVars>>

Init ==
  /\ DriverInit /\ MessagesInit
  /\ event = [key |-> CHOOSE k \in Keys : TRUE, down |-> FALSE]
  /\ todo = <<>> /\ pos = 0 /\ told = {}
  /\ damage = "none" /\ whole = TRUE /\ good = TRUE /\ trusted = Known

(* A frame: a start bit, the data, odd parity and a stop bit. *)
Ones(byte) == {i \in 1..DATA_BITS : byte[i]}
Line ==
  CASE pos = 0           -> FALSE
    [] pos \in 1..DATA_BITS -> Head(todo)[pos]
    [] pos = PARITY      -> Cardinality(Ones(Head(todo))) % 2 = 0
    [] pos = STOP        -> TRUE

(* A key held down is told of again and again. *)
Tell ==
  /\ todo = <<>>
  /\ \E k \in Keys, down \in BOOLEAN :
       /\ down \/ k \in told
       /\ event' = [key |-> k, down |-> down]
       /\ todo' = (IF k.ext THEN <<EXT>> ELSE <<>>)
                    \o (IF down THEN <<>> ELSE <<BRK>>) \o <<k.code>>
  /\ whole' = TRUE /\ got' = None
  /\ UNCHANGED <<count, get_data, parity, is_extended, is_break, messageVars,
                 pos, told, damage, good, trusted>>

(* The keyboard goes on to the next bit, byte or event. *)
Sent(clean) ==
  LET over == pos = STOP /\ Len(todo) = 1
      k == event.key
  IN /\ pos' = IF pos = STOP THEN 0 ELSE pos + 1
     /\ todo' = IF pos = STOP THEN Tail(todo) ELSE todo
     /\ told' = CASE ~over -> told
                  [] over /\ event.down -> told \cup {k}
                  [] OTHER -> told \ {k}
     /\ whole' = (whole /\ clean)
     /\ good' = IF over THEN whole' ELSE good /\ clean
     /\ trusted' = CASE ~clean \/ (over /\ ~whole') -> {}
                     [] over /\ whole' /\ good -> trusted \cup ({k} \cap Known)
                     [] OTHER -> trusted
     /\ UNCHANGED event

Harm(kind) == IF damage = "none" THEN kind ELSE "unknown"

Clock ==
  /\ todo # <<>>
  /\ Receive(Line)
  /\ damage' = CASE count # 0 -> damage
                 [] count = 0 /\ pos = 0 -> "none"
                 [] OTHER -> "unknown"
  /\ Sent(damage' = "none")

Flip ==
  /\ todo # <<>>
  /\ Receive(~Line)
  /\ damage' = IF count = 0 THEN "unknown" ELSE Harm("flip")
  /\ Sent(FALSE)

Lose ==
  /\ todo # <<>>
  /\ got' = None
  /\ UNCHANGED <<count, get_data, parity, is_extended, is_break, messageVars>>
  /\ damage' = IF count = 0 THEN "unknown" ELSE Harm("late")
  /\ Sent(FALSE)

Next == Tell \/ Clock \/ Flip \/ Lose

Spec == Init /\ [][Next]_vars

-----------------------------------------------------------------------------
TypeOK ==
  /\ DriverTypeOK /\ MessagesTypeOK
  /\ event \in [key : Keys, down : BOOLEAN] /\ todo \in Seq(Byte)
  /\ pos \in 0..STOP /\ told \subseteq Keys
  /\ damage \in {"none", "flip", "late", "unknown"}
  /\ whole \in BOOLEAN /\ good \in BOOLEAN /\ trusted \subseteq Known

(* One bit read wrong, or one edge missed, in a frame whose start bit was     *)
(* taken for what it is: then no byte is received but the one sent.         *)
OnlySent ==
  [][got' # None /\ damage' # "unknown" =>
       pos = STOP /\ todo # <<>> /\ got' = Head(todo)]_vars

(* A wrong bit after the start bit costs its byte, and not the frames to come. *)
StaysInStep == pos = 0 /\ damage \in {"none", "flip"} => count = 0

(* After a fault the first event may be misread, for a prefix may be left     *)
(* over.  From the second one on, every key told of is as the keyboard told; *)
(* and without a fault every key always is.                                *)
KeysAgree == \A k \in trusted : KeyTable[k] \in pressed_key <=> k \in told

-----------------------------------------------------------------------------
(* Why that is so.  Unless it is anybody's guess, the receiver counts with   *)
(* the keyboard, or is one edge late ...                                    *)
InStep ==
  /\ pos # 0 => todo # <<>>
  /\ damage \in {"none", "flip"} => count = pos
  /\ damage = "late" => count = IF pos = 0 THEN STOP ELSE pos - 1

(* ... it has the data bits that were sent so far, and their parity, which    *)
(* one wrong bit turns round ...                                           *)
Taken  == IF pos <= DATA_BITS THEN pos - 1 ELSE DATA_BITS
Odd(n) == Cardinality(Ones(Head(todo)) \cap 1..n) % 2 = 1
Wanted == pos = STOP \/ Odd(Taken)

FrameSoFar ==
  pos # 0 =>
    /\ damage = "none" =>
         /\ \A i \in 1..Taken : get_data[DATA_BITS - Taken + i] = Head(todo)[i]
         /\ parity = Wanted
    /\ damage = "flip" => parity = ~Wanted

(* ... what is left to send is the end of the event's bytes ...              *)
EventSoFar ==
  LET k == event.key
  IN  \/ todo = <<>> /\ good = whole
      \/ todo = <<k.code>>
      \/ ~event.down /\ todo = <<BRK, k.code>>
      \/ k.ext /\ event.down /\ todo = <<EXT, k.code>>
      \/ k.ext /\ ~event.down /\ todo = <<EXT, BRK, k.code>>

(* ... after a good event the prefixes are those sent so far in this one ... *)
Prefixed ==
  good /\ whole =>
    /\ is_extended = (todo # <<>> /\ event.key.ext /\ Head(todo) # EXT)
    /\ is_break = (todo # <<>> /\ ~event.down /\ Head(todo) = event.key.code)

(* ... and no key is trusted otherwise.                                     *)
Trusting == trusted # {} => good /\ whole

IInv == TypeOK /\ InStep /\ FrameSoFar /\ EventSoFar /\ Prefixed /\ Trusting /\ KeysAgree
=============================================================================
