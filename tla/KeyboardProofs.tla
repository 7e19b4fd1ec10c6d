---------------------------- MODULE KeyboardProofs ----------------------------
(***************************************************************************)
(* Proofs about Keyboard, for bytes of any length and any keys: the types,  *)
(* that a wrong bit does not cost the frames to come, that no byte is made   *)
(* up, and that the pressed keys are those the keyboard has told of.        *)
(***************************************************************************)
EXTENDS Keyboard, FiniteSetTheorems, SequenceTheorems, TLAPS

USE DriverAssumption, TableAssumption, KeysAssumption

-----------------------------------------------------------------------------
(* Bytes and sequences of them *)

(* Shifting a bit in from the left moves the others on. *)
LEMMA Shift ==
  ASSUME NEW b \in Byte, NEW bit \in BOOLEAN
  PROVE  /\ Append(Tail(b), bit) \in Byte
         /\ Append(Tail(b), bit)[DATA_BITS] = bit
         /\ \A i \in 1 .. DATA_BITS - 1 : Append(Tail(b), bit)[i] = b[i + 1]
<1>1. b \in Seq(BOOLEAN) /\ Len(b) = DATA_BITS /\ b # <<>>
  BY DEF Byte
<1>2. /\ Tail(b) \in Seq(BOOLEAN) /\ Len(Tail(b)) = DATA_BITS - 1
      /\ \A i \in 1 .. DATA_BITS - 1 : Tail(b)[i] = b[i + 1]
  BY <1>1
<1>3. /\ Append(Tail(b), bit) \in Seq(BOOLEAN)
      /\ Len(Append(Tail(b), bit)) = DATA_BITS
      /\ Append(Tail(b), bit)[DATA_BITS] = bit
      /\ \A i \in 1 .. DATA_BITS - 1 : Append(Tail(b), bit)[i] = Tail(b)[i]
  BY <1>2
<1>4. Append(Tail(b), bit) \in Byte
  BY <1>3, LenProperties DEF Byte
<1> QED
  BY <1>2, <1>3, <1>4

LEMMA HeadTail ==
  ASSUME NEW s \in Seq(Byte), s # <<>>
  PROVE  Head(s) \in Byte /\ Tail(s) \in Seq(Byte)
OBVIOUS

(* Bytes one after the other. *)
LEMMA Joined ==
  ASSUME NEW S, NEW s \in Seq(S), NEW t \in Seq(S), NEW u \in Seq(S),
         Len(u) = Len(s) + Len(t),
         \A i \in 1..Len(s) : u[i] = s[i],
         \A i \in 1..Len(t) : u[Len(s) + i] = t[i]
  PROVE  s \o t = u
<1> DEFINE c == s \o t
<1>1. /\ c \in Seq(S) /\ Len(c) = Len(s) + Len(t)
      /\ \A i \in 1 .. Len(s) + Len(t) : c[i] = IF i <= Len(s) THEN s[i] ELSE t[i - Len(s)]
  BY ConcatProperties
<1>2. Len(s) \in Nat /\ Len(t) \in Nat
  BY LenProperties
<1> HIDE DEF c
<1>3. ASSUME NEW i \in 1..Len(c) PROVE c[i] = u[i]
  <2>1. CASE i <= Len(s)
    BY <1>1, <1>2, <1>3, <2>1
  <2>2. CASE ~(i <= Len(s))
    <3>1. i - Len(s) \in 1..Len(t) /\ i = Len(s) + (i - Len(s))
      BY <1>1, <1>2, <1>3, <2>2
    <3>2. u[Len(s) + (i - Len(s))] = t[i - Len(s)]
      BY <3>1
    <3> QED
      BY <1>1, <1>2, <1>3, <2>2, <3>1, <3>2
  <2> QED
    BY <2>1, <2>2
<1>4. c = u
  BY <1>1, <1>3, SeqEqual
<1> QED
  BY <1>4 DEF c

LEMMA JoinedBytes ==
  ASSUME NEW a \in Byte, NEW b \in Byte, NEW c \in Byte
  PROVE  /\ (<<>> \o <<>>) \o <<c>> = <<c>>
         /\ (<<>> \o <<b>>) \o <<c>> = <<b, c>>
         /\ (<<a>> \o <<>>) \o <<c>> = <<a, c>>
         /\ (<<a>> \o <<b>>) \o <<c>> = <<a, b, c>>
<1>1. /\ <<>> \in Seq(Byte) /\ <<a>> \in Seq(Byte) /\ <<b>> \in Seq(Byte) /\ <<c>> \in Seq(Byte)
      /\ <<a, b>> \in Seq(Byte) /\ <<a, c>> \in Seq(Byte) /\ <<b, c>> \in Seq(Byte) 
      /\ <<a, b, c>> \in Seq(Byte)
  OBVIOUS
<1>2. /\ <<>> \o <<>> = <<>> /\ <<>> \o <<b>> = <<b>> /\ <<>> \o <<c>> = <<c>>
      /\ <<a>> \o <<>> = <<a>>
  BY <1>1, ConcatEmptySeq
<1>3. ASSUME NEW x \in Byte, NEW y \in Byte PROVE <<x>> \o <<y>> = <<x, y>>
  <2>1. /\ <<x>> \in Seq(Byte) /\ <<y>> \in Seq(Byte) /\ <<x, y>> \in Seq(Byte)
        /\ Len(<<x>>) = 1 /\ Len(<<y>>) = 1 /\ Len(<<x, y>>) = 2
        /\ \A i \in 1..1 : <<x, y>>[i] = <<x>>[i]
        /\ \A i \in 1..1 : <<x, y>>[1 + i] = <<y>>[i]
    OBVIOUS
  <2>2. Len(<<x, y>>) = Len(<<x>>) + Len(<<y>>)
    BY <2>1
  <2> QED
    BY <2>1, <2>2, Joined
<1>4. <<a, b>> \o <<c>> = <<a, b, c>>
  <2>1. /\ Len(<<a, b>>) = 2 /\ Len(<<c>>) = 1 /\ Len(<<a, b, c>>) = 3
        /\ \A i \in 1..2 : <<a, b, c>>[i] = <<a, b>>[i]
        /\ \A i \in 1..1 : <<a, b, c>>[2 + i] = <<c>>[i]
    OBVIOUS
  <2>2. /\ Len(<<a, b, c>>) = Len(<<a, b>>) + Len(<<c>>)
        /\ \A i \in 1..Len(<<a, b>>) : <<a, b, c>>[i] = <<a, b>>[i]
        /\ \A i \in 1..Len(<<c>>) : <<a, b, c>>[Len(<<a, b>>) + i] = <<c>>[i]
    BY <2>1
  <2> QED
    BY <1>1, <2>1, <2>2, Joined
<1> QED
  BY <1>2, <1>3, <1>4
(* The bytes of an event. *)
LEMMA Codes ==
  ASSUME NEW k \in Keys
  PROVE  /\ k.ext \in BOOLEAN /\ k.code \in Byte /\ k.code # EXT /\ k.code # BRK
         /\ <<k.code>> \in Seq(Byte) /\ <<BRK, k.code>> \in Seq(Byte)
         /\ <<EXT, k.code>> \in Seq(Byte) /\ <<EXT, BRK, k.code>> \in Seq(Byte)
         /\ k = [ext |-> k.ext, code |-> k.code]
<1>1. k \in [ext : BOOLEAN, code : Byte \ {EXT, BRK}]
  OBVIOUS
<1>2. k.ext \in BOOLEAN /\ k.code \in Byte /\ k.code # EXT /\ k.code # BRK
  BY <1>1
<1>3. EXT \in Byte /\ BRK \in Byte
  OBVIOUS
<1>4. /\ <<k.code>> \in Seq(Byte) /\ <<BRK, k.code>> \in Seq(Byte)
      /\ <<EXT, k.code>> \in Seq(Byte) /\ <<EXT, BRK, k.code>> \in Seq(Byte)
  BY <1>2, <1>3
<1> QED
  BY <1>1, <1>2, <1>4

(* One more bit turns the parity round if it is a one. *)
LEMMA OneMore ==
  ASSUME NEW b \in Byte, NEW n \in 1 .. DATA_BITS
  PROVE  LET ones(m) == Cardinality(Ones(b) \cap 1..m)
         IN  ones(n) % 2 = 1 <=> ~(ones(n - 1) % 2 = 1 <=> b[n])
<1> DEFINE A(m) == Ones(b) \cap 1..m
<1>1. IsFiniteSet(A(n - 1)) /\ IsFiniteSet(A(n))
  <2>1. n - 1 \in Int /\ n \in Int
    OBVIOUS
  <2>2. IsFiniteSet(1 .. n - 1) /\ IsFiniteSet(1 .. n)
    BY <2>1, FS_Interval
  <2> QED
    BY <2>2, FS_Intersection
<1>2. Cardinality(A(n - 1)) \in Nat
  BY <1>1, FS_CardinalityType
<1>3. b[n] \in BOOLEAN
  BY DEF Byte
<1>4. CASE b[n]
  <2>1. A(n) = A(n - 1) \cup {n} /\ n \notin A(n - 1)
    BY <1>4 DEF Ones
  <2>2. Cardinality(A(n)) = Cardinality(A(n - 1)) + 1
    BY <1>1, <2>1, FS_AddElement
  <2>3. Cardinality(A(n)) % 2 = 1 <=> ~(Cardinality(A(n - 1)) % 2 = 1)
    BY <1>2, <2>2
  <2> QED
    BY <1>4, <2>3
<1>5. CASE ~b[n]
  <2>1. A(n) = A(n - 1)
    BY <1>5 DEF Ones
  <2>2. Cardinality(A(n)) % 2 = 1 <=> Cardinality(A(n - 1)) % 2 = 1
    BY <2>1
  <2> HIDE DEF A
  <2>3. Cardinality(A(n)) % 2 = 1 <=> ~(Cardinality(A(n - 1)) % 2 = 1 <=> b[n])
    BY <1>5, <2>2
  <2> USE DEF A
  <2> QED
    BY <2>3
<1> QED
  BY <1>3, <1>4, <1>5

LEMMA NoneOdd ==
  ASSUME NEW b \in Byte PROVE Cardinality(Ones(b) \cap 1..0) = 0
<1>1. Ones(b) \cap 1..0 = {}
  OBVIOUS
<1> QED
  BY <1>1, FS_EmptySet

LEMMA AllOnes ==
  ASSUME NEW b \in Byte
  PROVE  /\ Ones(b) \cap 1..DATA_BITS = Ones(b)
         /\ Cardinality(Ones(b)) \in Nat
<1>1. Ones(b) \cap 1..DATA_BITS = Ones(b) /\ Ones(b) \subseteq 1..DATA_BITS
  BY DEF Ones
<1>2. IsFiniteSet(1..DATA_BITS)
  BY FS_Interval
<1>3. IsFiniteSet(Ones(b))
  BY <1>1, <1>2, FS_Subset
<1> QED
  BY <1>1, <1>3, FS_CardinalityType

-----------------------------------------------------------------------------
(* Types *)

LEMMA LineType == ASSUME TypeOK, todo # <<>> PROVE Line \in BOOLEAN
<1>1. Head(todo) \in Byte /\ pos \in 0..STOP
  BY HeadTail DEF TypeOK
<1>2. pos \in 1..DATA_BITS => Head(todo)[pos] \in BOOLEAN
  BY <1>1 DEF Byte
<1>3. pos = 0 \/ pos \in 1..DATA_BITS \/ pos = PARITY \/ pos = STOP
  BY <1>1 DEF PARITY, STOP
<1> QED
  BY <1>2, <1>3 DEF Line, PARITY, STOP

LEMMA BlockType == ASSUME NEW keys, block_select \in Digits PROVE Block(keys) \in Digits
<1> DEFINE S == keys \cap Digits
<1>1. CASE S = {}
  BY <1>1 DEF Block
<1>2. CASE S # {}
  <2>1. \E x \in S : \A y \in S : x <= y
    <3>1. S \subseteq 1..6 /\ S # {}
      BY <1>2 DEF Digits
    <3> HIDE DEF S
    <3>2. CASE 1 \in S
      BY <3>1, <3>2
    <3>3. CASE 1 \notin S /\ 2 \in S
      BY <3>1, <3>3
    <3>4. CASE 1 \notin S /\ 2 \notin S /\ 3 \in S
      BY <3>1, <3>4
    <3>5. CASE S \cap {1, 2, 3} = {} /\ 4 \in S
      BY <3>1, <3>5
    <3>6. CASE S \cap {1, 2, 3, 4} = {} /\ 5 \in S
      BY <3>1, <3>6
    <3>7. CASE S \cap {1, 2, 3, 4, 5} = {}
      <4>1. \A y \in S : y = 6
        BY <3>1, <3>7
      <4>2. PICK x \in S : TRUE
        BY <3>1
      <4>3. x = 6 /\ \A y \in S : 6 <= y
        BY <4>1
      <4> QED
        BY <4>3
    <3> QED
      BY <3>2, <3>3, <3>4, <3>5, <3>6, <3>7
  <2>2. Min(S) \in S
    BY <2>1 DEF Min
  <2> QED
    BY <1>2, <2>2 DEF Block
<1> QED
  BY <1>1, <1>2

LEMMA EdgeTypes ==
  ASSUME DriverTypeOK, NEW bit, bit \in BOOLEAN, Edge(bit)
  PROVE  DriverTypeOK'
<1> USE DEF DriverTypeOK, STOP, PARITY
<1>1. CASE StartBit(bit)
  <2>1. Zero \in Byte
    BY DEF Zero, Byte
  <2>2. count' \in 0..STOP /\ get_data' \in Byte /\ parity' \in BOOLEAN
    <3>1. CASE bit
      BY <1>1, <3>1 DEF StartBit
    <3>2. CASE ~bit
      <4>1. count' = 1 /\ get_data' = Zero /\ parity' = FALSE
        BY <1>1, <3>2 DEF StartBit
      <4>2. parity' \in BOOLEAN
        BY <4>1, Zenon
      <4> QED
        BY <2>1, <4>1, <4>2
    <3> QED
      BY <3>1, <3>2
  <2> QED
    BY <1>1, <2>2 DEF StartBit
<1>2. CASE DataBit(bit)
  <2>1. get_data' \in Byte
    BY <1>2, Shift DEF DataBit
  <2>2. parity' \in BOOLEAN
    BY <1>2 DEF DataBit
  <2> QED
    BY <1>2, <2>1, <2>2 DEF DataBit, None
<1>3. CASE ParityBit(bit)
  BY <1>3 DEF ParityBit, None
<1>4. CASE StopBit(bit)
  <2>1. is_extended' \in BOOLEAN /\ is_break' \in BOOLEAN
    BY <1>4 DEF StopBit, Prefixes
  <2>2. got' \in Byte \cup {None}
    BY <1>4 DEF StopBit
  <2> QED
    BY <1>4, <2>1, <2>2 DEF StopBit
<1> QED
  BY <1>1, <1>2, <1>3, <1>4 DEF Edge

LEMMA MessageTypes ==
  ASSUME MessagesTypeOK, NEW bit, Message(bit) PROVE MessagesTypeOK'
<1>1. pressed_key' \subseteq {KeyTable[k] : k \in Known}
  BY DEF MessagesTypeOK, Message, key_index
<1>2. block_select' \in Digits
  BY BlockType DEF MessagesTypeOK, Message
<1> QED
  BY <1>1, <1>2 DEF MessagesTypeOK

LEMMA SentTypes ==
  ASSUME TypeOK, todo # <<>>, NEW clean, clean \in BOOLEAN, Sent(clean)
  PROVE  /\ event' \in [key : Keys, down : BOOLEAN] /\ todo' \in Seq(Byte)
         /\ pos' \in 0..STOP /\ told' \subseteq Keys
         /\ whole' \in BOOLEAN /\ good' \in BOOLEAN /\ trusted' \subseteq Known
<1> USE DEF TypeOK
<1> DEFINE over == pos = STOP /\ Len(todo) = 1
<1>1. event' \in [key : Keys, down : BOOLEAN] /\ event.key \in Keys
  BY DEF Sent
<1>2. todo' \in Seq(Byte)
  BY HeadTail DEF Sent
<1>3. pos' \in 0..STOP
  BY DEF Sent, STOP
<1>4. told' = told \/ told' = told \cup {event.key} \/ told' = told \ {event.key}
  BY DEF Sent
<1>5. whole' \in BOOLEAN
  BY DEF Sent
<1>6. good' \in BOOLEAN
  BY <1>5 DEF Sent
<1>7. trusted' = {} \/ trusted' = trusted \cup ({event.key} \cap Known) \/ trusted' = trusted
  BY DEF Sent
<1> QED
  BY <1>1, <1>2, <1>3, <1>4, <1>5, <1>6, <1>7

(* What the keyboard begins to send. *)
LEMMA TellBytes ==
  ASSUME TypeOK, Tell
  PROVE  LET k == event'.key
         IN  /\ event' \in [key : Keys, down : BOOLEAN]
             /\ \/ ~k.ext /\ event'.down /\ todo' = <<k.code>>
                \/ ~k.ext /\ ~event'.down /\ todo' = <<BRK, k.code>>
                \/ k.ext /\ event'.down /\ todo' = <<EXT, k.code>>
                \/ k.ext /\ ~event'.down /\ todo' = <<EXT, BRK, k.code>>
<1>1. PICK k \in Keys, down \in BOOLEAN :
        /\ event' = [key |-> k, down |-> down]
        /\ todo' = (IF k.ext THEN <<EXT>> ELSE <<>>)
                     \o (IF down THEN <<>> ELSE <<BRK>>) \o <<k.code>>
  BY DEF Tell
<1>2. event' \in [key : Keys, down : BOOLEAN] /\ event'.key = k /\ event'.down = down
  BY <1>1
<1>3. \A a, b, c \in Byte :
        /\ (<<>> \o <<>>) \o <<c>> = <<c>>
        /\ (<<>> \o <<b>>) \o <<c>> = <<b, c>>
        /\ (<<a>> \o <<>>) \o <<c>> = <<a, c>>
        /\ (<<a>> \o <<b>>) \o <<c>> = <<a, b, c>>
  BY JoinedBytes
<1>4. k.ext \in BOOLEAN /\ k.code \in Byte /\ EXT \in Byte /\ BRK \in Byte
  BY Codes
<1>5. CASE k.ext /\ down
  BY <1>1, <1>2, <1>3, <1>4, <1>5
<1>6. CASE k.ext /\ ~down
  BY <1>1, <1>2, <1>3, <1>4, <1>6
<1>7. CASE ~k.ext /\ down
  BY <1>1, <1>2, <1>3, <1>4, <1>7
<1>8. CASE ~k.ext /\ ~down
  BY <1>1, <1>2, <1>3, <1>4, <1>8
<1> QED
  BY <1>4, <1>5, <1>6, <1>7, <1>8

LEMMA TypesStep == ASSUME TypeOK, [Next]_vars PROVE TypeOK'
<1>1. CASE Tell
  <2>1. event' \in [key : Keys, down : BOOLEAN] /\ event'.key \in Keys
    BY <1>1, TellBytes
  <2>2. todo' \in Seq(Byte)
    BY <1>1, <2>1, TellBytes, Codes
  <2> QED
    BY <1>1, <2>1, <2>2
       DEF Tell, TypeOK, DriverTypeOK, MessagesTypeOK, messageVars
<1>2. CASE Clock
  <2>1. DriverTypeOK' /\ MessagesTypeOK'
    BY <1>2, LineType, EdgeTypes, MessageTypes DEF Clock, Receive, TypeOK
  <2>2. damage' \in {"none", "flip", "late", "unknown"}
    BY <1>2 DEF Clock, TypeOK
  <2> QED
    BY <1>2, <2>1, <2>2, SentTypes DEF Clock, TypeOK
<1>3. CASE Flip
  <2>1. (~Line) \in BOOLEAN
    OBVIOUS
  <2>2. DriverTypeOK' /\ MessagesTypeOK'
    BY <1>3, <2>1, EdgeTypes, MessageTypes DEF Flip, Receive, TypeOK
  <2>3. damage' \in {"none", "flip", "late", "unknown"}
    BY <1>3 DEF Flip, Harm
  <2> QED
    BY <1>3, <2>2, <2>3, SentTypes DEF Flip, TypeOK
<1>4. CASE Lose
  <2>1. DriverTypeOK' /\ MessagesTypeOK'
    BY <1>4 DEF Lose, TypeOK, DriverTypeOK, MessagesTypeOK, messageVars
  <2>2. damage' \in {"none", "flip", "late", "unknown"}
    BY <1>4 DEF Lose, Harm
  <2> QED
    BY <1>4, <2>1, <2>2, SentTypes DEF Lose, TypeOK
<1>5. CASE UNCHANGED vars
  BY <1>5 DEF vars, driverVars, messageVars, lineVars, watchVars, TypeOK,
              DriverTypeOK, MessagesTypeOK
<1> QED
  BY <1>1, <1>2, <1>3, <1>4, <1>5 DEF Next

-----------------------------------------------------------------------------
(* Counting bits *)

LEMMA EdgeCount ==
  ASSUME TypeOK, NEW bit, Edge(bit)
  PROVE  count' = IF count = 0 THEN IF bit THEN 0 ELSE 1
                  ELSE IF count = STOP THEN 0 ELSE count + 1
<1> USE DEF TypeOK, DriverTypeOK, STOP, PARITY
<1>1. CASE StartBit(bit)
  BY <1>1 DEF StartBit
<1>2. CASE DataBit(bit)
  BY <1>2 DEF DataBit
<1>3. CASE ParityBit(bit)
  BY <1>3 DEF ParityBit
<1>4. CASE StopBit(bit)
  BY <1>4 DEF StopBit
<1> QED
  BY <1>1, <1>2, <1>3, <1>4 DEF Edge

LEMMA TailEmpty ==
  ASSUME NEW s \in Seq(Byte), s # <<>> PROVE Tail(s) = <<>> <=> Len(s) = 1
<1>1. Tail(s) \in Seq(Byte) /\ Len(Tail(s)) = Len(s) - 1
  OBVIOUS
<1>2. Tail(s) = <<>> <=> Len(Tail(s)) = 0
  BY <1>1, EmptySeq
<1> QED
  BY <1>1, <1>2

LEMMA SentPos ==
  ASSUME TypeOK, todo # <<>>, NEW clean, Sent(clean)
  PROVE  /\ pos' = IF pos = STOP THEN 0 ELSE pos + 1
         /\ pos' # 0 => pos # STOP /\ todo' = todo
         /\ pos' # 0 => todo' # <<>>
BY DEF Sent, TypeOK

LEMMA InStepStep == ASSUME IInv, [Next]_vars PROVE InStep'
<1> USE DEF IInv, InStep
<1>0. TypeOK /\ STOP \in Nat /\ STOP > 2 /\ pos \in 0..STOP /\ count \in 0..STOP
  BY DEF STOP, TypeOK, DriverTypeOK
<1>1. CASE Tell
  BY <1>1 DEF Tell
<1>2. CASE Clock
  <2>1. todo # <<>> /\ Edge(Line) /\ Sent(damage' = "none")
    BY <1>2 DEF Clock, Receive
  <2>2. count' = IF count = 0 THEN IF Line THEN 0 ELSE 1
                 ELSE IF count = STOP THEN 0 ELSE count + 1
    BY <2>1, EdgeCount
  <2>3. /\ pos' = IF pos = STOP THEN 0 ELSE pos + 1
        /\ pos' # 0 => todo' # <<>>
    BY <2>1, SentPos
  <2>4. pos = 0 => ~Line
    <3>1. pos = 0 => pos \notin 1..DATA_BITS /\ pos # PARITY /\ pos # STOP
      BY DEF PARITY, STOP
    <3> QED
      BY <3>1 DEF Line
  <2>5. CASE count = 0
    BY <1>0, <1>2, <2>2, <2>3, <2>4, <2>5 DEF Clock
  <2>6. CASE count # 0
    <3>1. damage' = damage
      BY <1>2, <2>6 DEF Clock
    <3> QED
      BY <1>0, <2>2, <2>3, <2>6, <3>1
  <2> QED
    BY <2>5, <2>6
<1>3. CASE Flip
  <2>1. todo # <<>> /\ Edge(~Line) /\ Sent(FALSE)
    BY <1>3 DEF Flip, Receive
  <2>2. count # 0 => count' = IF count = STOP THEN 0 ELSE count + 1
    BY <2>1, EdgeCount
  <2>3. /\ pos' = IF pos = STOP THEN 0 ELSE pos + 1
        /\ pos' # 0 => todo' # <<>>
    BY <2>1, SentPos
  <2> QED
    BY <1>0, <1>3, <2>2, <2>3 DEF Flip, Harm
<1>4. CASE Lose
  <2>1. /\ pos' = IF pos = STOP THEN 0 ELSE pos + 1
        /\ pos' # 0 => todo' # <<>>
    BY <1>4, SentPos DEF Lose
  <2> QED
    BY <1>0, <1>4, <2>1 DEF Lose, Harm
<1>5. CASE UNCHANGED vars
  BY <1>5 DEF vars, driverVars, lineVars, watchVars
<1> QED
  BY <1>1, <1>2, <1>3, <1>4, <1>5 DEF Next


-----------------------------------------------------------------------------
(* What is left to send *)

(* The bytes of an event, and what is left of them after one. *)
LEMMA Rest ==
  ASSUME NEW a \in Byte, NEW b \in Byte, NEW c \in Byte
  PROVE  /\ Head(<<a>>) = a /\ Tail(<<a>>) = <<>> /\ Len(<<a>>) = 1 /\ <<a>> # <<>>
         /\ Head(<<a, b>>) = a /\ Tail(<<a, b>>) = <<b>> /\ Len(<<a, b>>) = 2
         /\ <<a, b>> # <<>>
         /\ Head(<<a, b, c>>) = a /\ Tail(<<a, b, c>>) = <<b, c>>
         /\ Len(<<a, b, c>>) = 3 /\ <<a, b, c>> # <<>>
<1>1. Head(<<a>>) = a /\ Len(<<a>>) = 1 /\ <<a>> # <<>>
  OBVIOUS
<1>2. Head(<<a, b>>) = a /\ Len(<<a, b>>) = 2 /\ <<a, b>> # <<>>
  OBVIOUS
<1>3. Head(<<a, b, c>>) = a /\ Len(<<a, b, c>>) = 3 /\ <<a, b, c>> # <<>>
  OBVIOUS
<1>4. Tail(<<a>>) = <<>> /\ Tail(<<a, b>>) = <<b>> /\ Tail(<<a, b, c>>) = <<b, c>>
  OBVIOUS
<1> QED
  BY <1>1, <1>2, <1>3, <1>4

(* What there is to say of the bytes left. *)
LEMMA Left ==
  ASSUME TypeOK, EventSoFar
  PROVE  /\ event.key \in Keys /\ event.down \in BOOLEAN
         /\ todo # <<>> =>
              /\ Len(todo) = 1 <=> Head(todo) = event.key.code
              /\ Head(todo) = BRK => ~event.down
              /\ Head(todo) = EXT => event.key.ext
              /\ Head(todo) \in {event.key.code, BRK, EXT}
         /\ todo # <<>> => LET s == Tail(todo)
                            IN  \/ Len(todo) = 1 /\ s = <<>>
                                \/ Len(todo) # 1 /\ s = <<event.key.code>>
                                   /\ (event.down \/ Head(todo) = BRK)
                                   /\ (~event.down \/ Head(todo) = EXT)
                                \/ Len(todo) # 1 /\ s = <<BRK, event.key.code>>
                                   /\ ~event.down /\ Head(todo) = EXT
         /\ todo # <<>> /\ Head(todo) = BRK => todo = <<BRK, event.key.code>>
<1> DEFINE c == event.key.code
<1>1. event.key \in Keys /\ event.down \in BOOLEAN
  BY DEF TypeOK
<1>2. c \in Byte /\ c # EXT /\ c # BRK /\ EXT \in Byte /\ BRK \in Byte
  BY <1>1, Codes
<1> HIDE DEF c
<1>3. CASE todo = <<>>
  BY <1>1, <1>3
<1>4. CASE todo = <<c>>
  <2>1. Head(todo) = c /\ Len(todo) = 1 /\ Tail(todo) = <<>> /\ todo # <<>>
    BY <1>2, <1>4, Rest
  <2> QED
    BY <1>1, <1>2, <2>1 DEF c
<1>5. CASE ~event.down /\ todo = <<BRK, c>>
  <2>1. Head(todo) = BRK /\ Len(todo) = 2 /\ Tail(todo) = <<c>> /\ todo # <<>>
    BY <1>2, <1>5, Rest
  <2> QED
    BY <1>1, <1>2, <1>5, <2>1 DEF c
<1>6. CASE event.key.ext /\ event.down /\ todo = <<EXT, c>>
  <2>1. Head(todo) = EXT /\ Len(todo) = 2 /\ Tail(todo) = <<c>> /\ todo # <<>>
    BY <1>2, <1>6, Rest
  <2> QED
    BY <1>1, <1>2, <1>6, <2>1 DEF c
<1>7. CASE event.key.ext /\ ~event.down /\ todo = <<EXT, BRK, c>>
  <2>1. Head(todo) = EXT /\ Len(todo) = 3 /\ Tail(todo) = <<BRK, c>> /\ todo # <<>>
    BY <1>2, <1>7, Rest
  <2> QED
    BY <1>1, <1>2, <1>7, <2>1 DEF c
<1> QED
  BY <1>3, <1>4, <1>5, <1>6, <1>7 DEF EventSoFar, c

LEMMA SentEvent ==
  ASSUME TypeOK, EventSoFar, todo # <<>>, NEW clean, Sent(clean)
  PROVE  EventSoFar'
<1>1. event' = event
  BY DEF Sent
<1>2. CASE pos # STOP
  <2>1. todo' = todo
    BY <1>2 DEF Sent
  <2> QED
    BY <1>1, <2>1 DEF EventSoFar
<1>3. CASE pos = STOP /\ Len(todo) = 1
  <2>1. todo' = <<>> /\ good' = whole'
    BY <1>3, TailEmpty DEF Sent, TypeOK
  <2> QED
    BY <2>1 DEF EventSoFar
<1>4. CASE pos = STOP /\ Len(todo) # 1
  <2>1. todo' = Tail(todo)
    BY <1>4 DEF Sent
  <2> QED
    BY <1>1, <1>4, <2>1, Left DEF EventSoFar
<1> QED
  BY <1>2, <1>3, <1>4

LEMMA EventStep == ASSUME TypeOK, EventSoFar, [Next]_vars PROVE EventSoFar'
<1>1. CASE Tell
  <2>1. event'.down \in BOOLEAN /\ event'.key.ext \in BOOLEAN
    BY <1>1, TellBytes, Codes
  <2> QED
    BY <1>1, <2>1, TellBytes DEF EventSoFar
<1>2. CASE Clock
  BY <1>2, SentEvent DEF Clock
<1>3. CASE Flip
  BY <1>3, SentEvent DEF Flip
<1>4. CASE Lose
  BY <1>4, SentEvent DEF Lose
<1>5. CASE UNCHANGED vars
  BY <1>5 DEF vars, lineVars, watchVars, EventSoFar
<1> QED
  BY <1>1, <1>2, <1>3, <1>4, <1>5 DEF Next

-----------------------------------------------------------------------------
(* The frame being received *)

LEMMA DataLine == ASSUME pos \in 1..DATA_BITS PROVE Line = Head(todo)[pos]
<1>1. pos # 0 /\ pos # PARITY /\ pos # STOP
  BY DEF PARITY, STOP
<1> QED
  BY <1>1, Zenon DEF Line

(* The parity of what was sent goes on with the line, that of what was read   *)
(* with the bit.                                                           *)
LEMMA ParityOn ==
  ASSUME TypeOK, todo # <<>>, count = pos, pos \in 1..PARITY,
         NEW bit, Edge(bit), pos' = pos + 1, todo' = todo
  PROVE  /\ parity' = (parity # bit)
         /\ Wanted' <=> ~(Wanted <=> Line)
<1> DEFINE b == Head(todo)
<1>1. b \in Byte
  BY HeadTail DEF TypeOK
<1>2. CASE pos \in 1..DATA_BITS
  <2>1. DataBit(bit)
    BY <1>2 DEF Edge, StartBit, ParityBit, StopBit, PARITY, STOP
  <2>2. pos # STOP /\ pos' # STOP /\ Taken = pos - 1 /\ Taken' = pos
    BY <1>2 DEF STOP, Taken
  <2>3. Wanted <=> Cardinality(Ones(b) \cap 1 .. pos - 1) % 2 = 1
    BY <2>2 DEF Wanted, Odd
  <2>4. Wanted' <=> Cardinality(Ones(b) \cap 1 .. pos) % 2 = 1
    BY <2>2 DEF Wanted, Odd
  <2>5. Line = b[pos]
    BY <1>2, DataLine
  <2>6. Cardinality(Ones(b) \cap 1..pos) % 2 = 1
          <=> ~(Cardinality(Ones(b) \cap 1 .. pos - 1) % 2 = 1 <=> b[pos])
    BY <1>1, <1>2, OneMore
  <2>7. parity' = (parity # bit)
    BY <2>1 DEF DataBit
  <2> HIDE DEF b
  <2> QED
    BY <2>3, <2>4, <2>5, <2>6, <2>7
<1>3. CASE pos = PARITY
  <2>1. ParityBit(bit)
    BY <1>3 DEF Edge, StartBit, DataBit, StopBit, PARITY, STOP
  <2>2. pos # STOP /\ pos' = STOP /\ Taken = DATA_BITS
    BY <1>3 DEF PARITY, STOP, Taken
  <2>3. Wanted'
    BY <2>2 DEF Wanted
  <2>4. Wanted <=> Cardinality(Ones(b)) % 2 = 1
    BY <1>1, <2>2, AllOnes DEF Wanted, Odd
  <2>5. Line <=> Cardinality(Ones(b)) % 2 = 0
    <3>1. pos # 0 /\ pos \notin 1..DATA_BITS
      BY <1>3 DEF PARITY
    <3> QED
      BY <1>3, <3>1, <2>2 DEF Line
  <2>6. Cardinality(Ones(b)) \in Nat
    BY <1>1, AllOnes
  <2>7. Cardinality(Ones(b)) % 2 = 0 <=> ~(Cardinality(Ones(b)) % 2 = 1)
    BY <2>6
  <2>8. parity' = (parity # bit)
    BY <2>1 DEF ParityBit
  <2> HIDE DEF b
  <2> QED
    BY <2>3, <2>4, <2>5, <2>7, <2>8
<1> QED
  BY <1>2, <1>3 DEF PARITY

(* The data bits are those sent. *)
LEMMA DataOn ==
  ASSUME TypeOK, todo # <<>>, count = pos, pos \in 1..PARITY, Edge(Line),
         pos' = pos + 1, todo' = todo,
         \A i \in 1..Taken : get_data[DATA_BITS - Taken + i] = Head(todo)[i]
  PROVE  \A i \in 1..Taken' : get_data'[DATA_BITS - Taken' + i] = Head(todo')[i]
<1>1. CASE pos \in 1..DATA_BITS
  <2>1. DataBit(Line)
    BY <1>1 DEF Edge, StartBit, ParityBit, StopBit, PARITY, STOP
  <2>2. Taken = pos - 1 /\ Taken' = pos
    BY <1>1 DEF Taken
  <2>3. Line = Head(todo)[pos]
    BY <1>1, DataLine
  <2>4. /\ get_data'[DATA_BITS] = Line
        /\ \A i \in 1 .. DATA_BITS - 1 : get_data'[i] = get_data[i + 1]
    <3>1. Line \in BOOLEAN /\ get_data \in Byte
      BY LineType DEF TypeOK, DriverTypeOK
    <3>2. get_data' = Append(Tail(get_data), Line)
      BY <2>1 DEF DataBit
    <3> QED
      BY <3>1, <3>2, Shift
  <2>5. ASSUME NEW i \in 1..pos
        PROVE  get_data'[DATA_BITS - pos + i] = Head(todo)[i]
    <3>1. CASE i = pos
      BY <1>1, <2>3, <2>4, <3>1
    <3>2. CASE i < pos
      <4>1. /\ DATA_BITS - pos + i \in 1 .. DATA_BITS - 1
            /\ (DATA_BITS - pos + i) + 1 = DATA_BITS - (pos - 1) + i
            /\ i \in 1 .. pos - 1
        BY <1>1, <2>5, <3>2
      <4>2. get_data'[DATA_BITS - pos + i] = get_data[DATA_BITS - (pos - 1) + i]
        BY <2>4, <4>1
      <4> QED
        BY <2>2, <4>1, <4>2
    <3> QED
      BY <1>1, <2>5, <3>1, <3>2
  <2> QED
    BY <2>2, <2>5
<1>2. CASE pos = PARITY
  <2>1. ParityBit(Line)
    BY <1>2 DEF Edge, StartBit, DataBit, StopBit, PARITY, STOP
  <2>2. get_data' = get_data /\ Taken = DATA_BITS /\ Taken' = DATA_BITS
    BY <1>2, <2>1 DEF ParityBit, Taken, PARITY
  <2> QED
    BY <2>2
<1> QED
  BY <1>1, <1>2 DEF PARITY

LEMMA FrameStep == ASSUME IInv, [Next]_vars PROVE FrameSoFar'
<1> USE DEF IInv
<1>0. /\ TypeOK /\ pos \in 0..STOP /\ count \in 0..STOP /\ STOP = PARITY + 1
      /\ PARITY \in Nat /\ parity \in BOOLEAN
  BY DEF STOP, PARITY, TypeOK, DriverTypeOK
<1>1. CASE Tell
  BY <1>1 DEF Tell, InStep, FrameSoFar
<1>2. CASE Clock
  <2>1. todo # <<>> /\ Edge(Line) /\ Sent(damage' = "none")
    BY <1>2 DEF Clock, Receive
  <2> SUFFICES ASSUME pos' # 0
               PROVE  /\ damage' = "none" =>
                            /\ \A i \in 1..Taken' : get_data'[DATA_BITS - Taken' + i] = Head(todo')[i]
                            /\ parity' = Wanted'
                      /\ damage' = "flip" => parity' = ~Wanted'
    BY DEF FrameSoFar
  <2>2. pos # STOP /\ pos' = pos + 1 /\ todo' = todo
    BY <2>1, SentPos
  <2>3. damage' \in {"none", "flip"} => count = pos /\ (pos # 0 => damage' = damage)
    BY <1>2 DEF Clock, InStep
  <2>4. CASE damage' \in {"none", "flip"} /\ pos # 0
    <3>1. count = pos /\ damage' = damage /\ pos \in 1..PARITY
      BY <1>0, <2>2, <2>3, <2>4
    <3>2. parity' = (parity # Line) /\ (Wanted' <=> ~(Wanted <=> Line))
      BY <2>1, <2>2, <3>1, ParityOn
    <3>3. Line \in BOOLEAN
      BY <2>1, LineType
    <3>4. parity' \in BOOLEAN /\ Wanted \in BOOLEAN /\ Wanted' \in BOOLEAN
      BY <3>2 DEF Wanted
    <3>5. CASE damage' = "none"
      <4>1. /\ \A i \in 1..Taken : get_data[DATA_BITS - Taken + i] = Head(todo)[i]
            /\ parity = Wanted
        BY <2>4, <3>1, <3>5 DEF FrameSoFar
      <4>2. \A i \in 1..Taken' : get_data'[DATA_BITS - Taken' + i] = Head(todo')[i]
        BY <2>1, <2>2, <3>1, <4>1, DataOn
      <4>3. Wanted' = (Wanted # Line)
        BY <3>2, <3>3, <3>4, Zenon
      <4>4. parity' = Wanted'
        BY <3>2, <4>1, <4>3
      <4> QED
        BY <3>5, <4>2, <4>4
    <3>6. CASE damage' = "flip"
      <4>1. parity = ~Wanted
        BY <2>4, <3>1, <3>6 DEF FrameSoFar
      <4>2. parity' = ~Wanted'
        BY <1>0, <3>2, <3>3, <3>4, <4>1, Zenon
      <4> QED
        BY <3>6, <4>2
    <3> QED
      BY <2>4, <3>5, <3>6
  <2>5. CASE damage' \in {"none", "flip"} /\ pos = 0
    <3>1. count = 0 /\ damage' = "none"
      BY <1>2, <2>3, <2>5 DEF Clock
    <3>2. ~Line
      <4>1. pos \notin 1..DATA_BITS /\ pos # PARITY /\ pos # STOP
        BY <2>5 DEF PARITY, STOP
      <4> QED
        BY <2>5, <4>1 DEF Line
    <3>3. StartBit(Line)
      BY <2>1, <3>1 DEF Edge, DataBit, ParityBit, StopBit, PARITY, STOP
    <3>4. parity' = FALSE
      BY <3>2, <3>3 DEF StartBit
    <3>5. pos' = 1 /\ pos' # STOP /\ Taken' = 0
      BY <2>2, <2>5 DEF Taken, STOP
    <3>6. ~Wanted'
      <4>1. Head(todo) \in Byte
        BY <2>1, HeadTail DEF TypeOK
      <4>2. Cardinality(Ones(Head(todo)) \cap 1..0) = 0
        BY <4>1, NoneOdd
      <4> QED
        BY <2>2, <3>5, <4>2 DEF Wanted, Odd
    <3>7. Wanted' = FALSE
      BY <3>6 DEF Wanted
    <3>8. parity' = Wanted'
      BY <3>4, <3>7
    <3>9. \A i \in 1..Taken' : get_data'[DATA_BITS - Taken' + i] = Head(todo')[i]
      BY <3>5
    <3> QED
      BY <3>1, <3>8, <3>9
  <2> QED
    BY <2>4, <2>5
<1>3. CASE Flip
  <2>1. todo # <<>> /\ Edge(~Line) /\ Sent(FALSE)
    BY <1>3 DEF Flip, Receive
  <2> SUFFICES ASSUME pos' # 0, damage' = "flip" PROVE parity' = ~Wanted'
    BY <1>3 DEF FrameSoFar, Flip, Harm
  <2>2. pos # STOP /\ pos' = pos + 1 /\ todo' = todo
    BY <2>1, SentPos
  <2>3. damage = "none" /\ count = pos /\ pos # 0
    BY <1>3 DEF Flip, Harm, InStep
  <2>4. pos \in 1..PARITY
    BY <1>0, <2>2, <2>3
  <2>5. parity' = (parity # ~Line) /\ (Wanted' <=> ~(Wanted <=> Line))
    BY <2>1, <2>2, <2>3, <2>4, ParityOn
  <2>6. parity = Wanted
    BY <2>3 DEF FrameSoFar
  <2>7. Line \in BOOLEAN /\ parity' \in BOOLEAN /\ Wanted \in BOOLEAN /\ Wanted' \in BOOLEAN
    BY <2>1, <2>5, LineType DEF Wanted
  <2> QED
    BY <1>0, <2>5, <2>6, <2>7, Zenon
<1>4. CASE Lose
  BY <1>4 DEF Lose, Harm, FrameSoFar
<1>5. CASE UNCHANGED vars
  BY <1>5 DEF vars, driverVars, lineVars, watchVars, FrameSoFar, Taken, Wanted, Odd
<1> QED
  BY <1>1, <1>2, <1>3, <1>4, <1>5 DEF Next

-----------------------------------------------------------------------------
(* What comes of a frame *)

(* An undisturbed frame ends in the byte that was sent ... *)
LEMMA CleanByte ==
  ASSUME IInv, todo # <<>>, pos = STOP, damage = "none"
  PROVE  count = STOP /\ parity = TRUE /\ Line = TRUE /\ get_data = Head(todo)
<1> USE DEF IInv
<1>1. pos # 0 /\ pos \notin 1..DATA_BITS /\ pos # PARITY /\ DATA_BITS < STOP
  BY DEF STOP, PARITY
<1>2. count = STOP
  BY DEF InStep
<1>3. parity = TRUE
  BY <1>1 DEF FrameSoFar, Wanted
<1>4. Line = TRUE
  BY <1>1, Zenon DEF Line
<1>5. Taken = DATA_BITS
  BY DEF Taken, STOP
<1>6. \A i \in 1..DATA_BITS : get_data[i] = Head(todo)[i]
  <2>1. \A i \in 1..DATA_BITS : get_data[DATA_BITS - DATA_BITS + i] = Head(todo)[i]
    BY <1>1, <1>5 DEF FrameSoFar
  <2>2. \A i \in 1..DATA_BITS : DATA_BITS - DATA_BITS + i = i
    OBVIOUS
  <2> QED
    BY <2>1, <2>2
<1>7. get_data \in Byte /\ Head(todo) \in Byte
  BY HeadTail DEF TypeOK, DriverTypeOK
<1>8. get_data = Head(todo)
  BY <1>6, <1>7 DEF Byte
<1> QED
  BY <1>2, <1>3, <1>4, <1>8

(* ... and before its end there is none. *)
LEMMA NoByte ==
  ASSUME TypeOK, NEW bit, bit \in BOOLEAN, Receive(bit), count # STOP
  PROVE  got' = None /\ UNCHANGED <<is_extended, is_break, pressed_key>>
<1>1. StartBit(bit) \/ DataBit(bit) \/ ParityBit(bit)
  BY DEF Receive, Edge, StopBit
<1>2. got' = None /\ UNCHANGED <<is_extended, is_break>>
  BY <1>1 DEF StartBit, DataBit, ParityBit
<1>3. key_index(bit) = {}
  BY DEF key_index
<1>4. pressed_key' = pressed_key
  BY <1>3 DEF Receive, Message
<1> QED
  BY <1>2, <1>4

(* A bit read right ends a byte only where the keyboard does. *)
LEMMA CleanClock ==
  ASSUME IInv, Clock, damage' = "none"
  PROVE  /\ todo # <<>> /\ Receive(Line) /\ Sent(TRUE) /\ Line \in BOOLEAN
         /\ count = pos
         /\ pos = STOP => damage = "none"
<1>1. todo # <<>> /\ Receive(Line) /\ Sent(TRUE)
  <2>1. Sent(damage' = "none") /\ (damage' = "none") = TRUE
    BY DEF Clock
  <2> QED
    BY <2>1 DEF Clock
<1>2. count = pos /\ (pos # 0 => damage' = damage)
  BY DEF Clock, IInv, InStep
<1>3. STOP # 0
  BY DEF STOP
<1> QED
  BY <1>1, <1>2, <1>3, LineType DEF IInv

LEMMA CleanStop ==
  ASSUME IInv, Clock, damage' = "none", pos = STOP
  PROVE  /\ got' = Head(todo) /\ Prefixes(Head(todo))
         /\ pressed_key' = IF is_break THEN pressed_key \ key_index(TRUE)
                                       ELSE pressed_key \cup key_index(TRUE)
         /\ key_index(TRUE) = {KeyTable[k] : k \in {j \in Known :
                                j = [ext |-> is_extended, code |-> Head(todo)]}}
<1>1. count = STOP /\ parity = TRUE /\ Line = TRUE /\ get_data = Head(todo)
  BY CleanClock, CleanByte
<1>2. Receive(TRUE)
  BY <1>1, CleanClock
<1>3. StopBit(TRUE)
  <2>1. STOP # 0 /\ STOP \notin 1..DATA_BITS /\ STOP # PARITY
    BY DEF STOP, PARITY
  <2> QED
    BY <1>1, <1>2, <2>1 DEF Receive, Edge, StartBit, DataBit, ParityBit
<1>4. Accepts(TRUE)
  BY <1>1 DEF Accepts
<1>5. got' = Head(todo) /\ Prefixes(Head(todo))
  BY <1>1, <1>3, <1>4 DEF StopBit
<1>6. key_index(TRUE) = {KeyTable[k] : k \in {j \in Known :
                           j = [ext |-> is_extended, code |-> Head(todo)]}}
  BY <1>1, <1>4 DEF key_index
<1> QED
  BY <1>2, <1>5, <1>6 DEF Receive, Message

LEMMA PrefixedStep == ASSUME IInv, [Next]_vars PROVE Prefixed'
<1> USE DEF IInv
<1> DEFINE c == event.key.code
<1>0. /\ event.key \in Keys /\ event.down \in BOOLEAN /\ event.key.ext \in BOOLEAN
      /\ c \in Byte /\ EXT \in Byte /\ BRK \in Byte
      /\ c # EXT /\ c # BRK /\ BRK # EXT
      /\ is_extended \in BOOLEAN /\ is_break \in BOOLEAN
  BY Codes DEF TypeOK, DriverTypeOK
<1>1. CASE Tell
  <2>1. todo = <<>> /\ good' = good /\ UNCHANGED <<is_extended, is_break>>
    BY <1>1 DEF Tell
  <2>2. good = whole
    BY <1>0, <2>1, Rest DEF EventSoFar
  <2> SUFFICES ASSUME good'
               PROVE  /\ is_extended' = (todo' # <<>> /\ event'.key.ext /\ Head(todo') # EXT)
                      /\ is_break' = (todo' # <<>> /\ ~event'.down /\ Head(todo') = event'.key.code)
    BY DEF Prefixed
  <2>3. is_extended' = FALSE /\ is_break' = FALSE
    BY <2>1, <2>2 DEF Prefixed
  <2>4. /\ event'.key.code \in Byte /\ event'.key.code # EXT /\ event'.key.code # BRK
        /\ event'.key \in Keys
    BY <1>1, TellBytes, Codes
  <2>5. /\ event'.key.ext => Head(todo') = EXT
        /\ ~event'.down => Head(todo') # event'.key.code
    <3>1. CASE ~event'.key.ext /\ event'.down
      BY <3>1
    <3>2. CASE ~event'.key.ext /\ ~event'.down /\ todo' = <<BRK, event'.key.code>>
      <4>1. Head(todo') = BRK
        BY <1>0, <2>4, <3>2, Rest
      <4> QED
        BY <2>4, <3>2, <4>1
    <3>3. CASE event'.key.ext /\ event'.down /\ todo' = <<EXT, event'.key.code>>
      <4>1. Head(todo') = EXT
        BY <1>0, <2>4, <3>3, Rest
      <4> QED
        BY <3>3, <4>1
    <3>4. CASE event'.key.ext /\ ~event'.down /\ todo' = <<EXT, BRK, event'.key.code>>
      <4>1. Head(todo') = EXT
        BY <1>0, <2>4, <3>4, Rest
      <4> QED
        BY <2>4, <4>1
    <3> QED
      BY <1>1, <3>1, <3>2, <3>3, <3>4, TellBytes
  <2> QED
    BY <2>3, <2>5
<1>2. CASE Clock /\ damage' = "none"
  <2>1. todo # <<>> /\ Receive(Line) /\ Sent(TRUE) /\ Line \in BOOLEAN /\ count = pos
    BY <1>2, CleanClock
  <2>2. event' = event
    BY <2>1 DEF Sent
  <2>3. CASE pos # STOP
    <3>1. UNCHANGED <<is_extended, is_break>>
      BY <2>1, <2>3, NoByte
    <3>2. todo' = todo /\ whole' = whole /\ good' = good
      BY <2>1, <2>3 DEF Sent, TypeOK
    <3> QED
      BY <2>2, <3>1, <3>2 DEF Prefixed
  <2>4. CASE pos = STOP /\ Len(todo) = 1
    <3>1. todo' = <<>>
      BY <2>1, <2>4, TailEmpty DEF Sent, TypeOK
    <3>2. Prefixes(c)
      BY <1>2, <2>1, <2>4, CleanStop, Left
    <3>3. is_extended' = FALSE /\ is_break' = FALSE
      BY <1>0, <3>2 DEF Prefixes
    <3> QED
      BY <3>1, <3>3 DEF Prefixed
  <2>5. CASE pos = STOP /\ Len(todo) # 1
    <3>1. todo' = Tail(todo) /\ good' = good /\ whole' = whole
      BY <2>1, <2>5 DEF Sent, TypeOK
    <3>2. Prefixes(Head(todo))
      BY <1>2, <2>5, CleanStop
    <3> SUFFICES ASSUME good, whole
                 PROVE  /\ is_extended' = (todo' # <<>> /\ event.key.ext /\ Head(todo') # EXT)
                        /\ is_break' = (todo' # <<>> /\ ~event.down /\ Head(todo') = c)
      BY <2>2, <3>1 DEF Prefixed
    <3>3. /\ is_extended = (event.key.ext /\ Head(todo) # EXT)
          /\ is_break = (~event.down /\ Head(todo) = c)
      BY <2>1 DEF Prefixed
    <3>4. \/ todo' = <<c>> /\ event.down /\ Head(todo) = EXT /\ event.key.ext
          \/ todo' = <<c>> /\ ~event.down /\ Head(todo) = BRK
          \/ todo' = <<BRK, c>> /\ ~event.down /\ Head(todo) = EXT /\ event.key.ext
      BY <1>0, <2>1, <2>5, <3>1, Left
    <3> HIDE DEF c
    <3>5. CASE todo' = <<c>> /\ event.down /\ Head(todo) = EXT /\ event.key.ext
      <4>1. todo' # <<>> /\ Head(todo') = c
        BY <1>0, <3>5, Rest
      <4>2. is_extended' = TRUE /\ is_break' = FALSE
        BY <1>0, <3>2, <3>3, <3>5 DEF Prefixes
      <4> QED
        BY <1>0, <3>5, <4>1, <4>2
    <3>6. CASE todo' = <<c>> /\ ~event.down /\ Head(todo) = BRK
      <4>1. todo' # <<>> /\ Head(todo') = c
        BY <1>0, <3>6, Rest
      <4>2. is_extended' = event.key.ext /\ is_break' = TRUE
        BY <1>0, <3>2, <3>3, <3>6 DEF Prefixes
      <4> QED
        BY <1>0, <3>6, <4>1, <4>2
    <3>7. CASE todo' = <<BRK, c>> /\ ~event.down /\ Head(todo) = EXT /\ event.key.ext
      <4>1. todo' # <<>> /\ Head(todo') = BRK
        BY <1>0, <3>7, Rest
      <4>2. is_extended' = TRUE /\ is_break' = FALSE
        BY <1>0, <3>2, <3>3, <3>7 DEF Prefixes
      <4> QED
        BY <1>0, <3>7, <4>1, <4>2
    <3> QED
      BY <3>4, <3>5, <3>6, <3>7
  <2> QED
    BY <2>3, <2>4, <2>5
<1>3. CASE Clock /\ damage' # "none"
  <2>1. Sent(FALSE)
    <3>1. (damage' = "none") = FALSE
      BY <1>3
    <3> QED
      BY <1>3, <3>1 DEF Clock
  <2> QED
    BY <2>1 DEF Sent, Prefixed
<1>4. CASE Flip \/ Lose
  BY <1>4 DEF Flip, Lose, Sent, Prefixed
<1>5. CASE UNCHANGED vars
  BY <1>5 DEF vars, driverVars, lineVars, watchVars, Prefixed
<1> QED
  BY <1>1, <1>2, <1>3, <1>4, <1>5 DEF Next

LEMMA SentTrusting ==
  ASSUME TypeOK, Trusting, NEW clean \in BOOLEAN, Sent(clean)
  PROVE  Trusting'
<1> SUFFICES ASSUME trusted' # {} PROVE good' /\ whole'
  BY DEF Trusting
<1> DEFINE over == pos = STOP /\ Len(todo) = 1
<1>1. clean /\ (over => whole')
  BY DEF Sent
<1>2. CASE over
  BY <1>1, <1>2 DEF Sent
<1>3. CASE ~over
  <2>1. trusted' = trusted
    BY <1>1, <1>3 DEF Sent
  <2>2. good /\ whole
    BY <2>1 DEF Trusting
  <2> QED
    BY <1>1, <1>3, <2>2 DEF Sent
<1> QED
  BY <1>2, <1>3

LEMMA TrustingStep == ASSUME IInv, [Next]_vars PROVE Trusting'
<1> USE DEF IInv
<1>1. CASE Tell
  BY <1>1 DEF Tell, Trusting
<1>2. CASE Clock
  <2>1. (damage' = "none") \in BOOLEAN
    OBVIOUS
  <2> QED
    BY <1>2, <2>1, SentTrusting DEF Clock
<1>3. CASE Flip \/ Lose
  BY <1>3, SentTrusting DEF Flip, Lose
<1>4. CASE UNCHANGED vars
  BY <1>4 DEF vars, watchVars, Trusting
<1> QED
  BY <1>1, <1>2, <1>3, <1>4 DEF Next

LEMMA AgreeStep == ASSUME IInv, [Next]_vars PROVE KeysAgree'
<1> USE DEF IInv
<1> DEFINE e == event.key
<1>0. /\ e \in Keys /\ event.down \in BOOLEAN /\ e.ext \in BOOLEAN
      /\ e.code # EXT /\ e.code # BRK
      /\ e = [ext |-> e.ext, code |-> e.code]
  BY Codes DEF TypeOK
<1>1. CASE Tell
  BY <1>1 DEF Tell, messageVars, KeysAgree
<1>2. CASE Clock /\ damage' = "none"
  <2>1. todo # <<>> /\ Receive(Line) /\ Sent(TRUE) /\ Line \in BOOLEAN /\ count = pos
    BY <1>2, CleanClock
  <2>2. CASE pos # STOP
    <3>1. pressed_key' = pressed_key
      BY <2>1, <2>2, NoByte
    <3>2. told' = told /\ trusted' = trusted
      BY <2>1, <2>2 DEF Sent
    <3> QED
      BY <3>1, <3>2 DEF KeysAgree
  <2>3. CASE pos = STOP /\ Len(todo) # 1
    <3>1. told' = told /\ trusted' = trusted
      BY <2>1, <2>3 DEF Sent
    <3>2. Head(todo) \in {EXT, BRK}
      BY <2>1, <2>3, Left
    <3>3. \A j \in Known : j.code # EXT /\ j.code # BRK
      OBVIOUS
    <3>4. key_index(TRUE) = {}
      <4>1. key_index(TRUE) = {KeyTable[k] : k \in {j \in Known :
                                 j = [ext |-> is_extended, code |-> Head(todo)]}}
        BY <1>2, <2>3, CleanStop
      <4>2. \A j \in Known : j # [ext |-> is_extended, code |-> Head(todo)]
        BY <3>2, <3>3
      <4> QED
        BY <4>1, <4>2
    <3>5. pressed_key' = pressed_key
      BY <1>2, <2>3, <3>4, CleanStop
    <3> QED
      BY <3>1, <3>5 DEF KeysAgree
  <2>4. CASE pos = STOP /\ Len(todo) = 1
    <3>1. CASE trusted' = {}
      BY <3>1 DEF KeysAgree
    <3>2. CASE ~good
      <4>1. trusted = {}
        BY <3>2 DEF Trusting
      <4>2. trusted' = {}
        BY <2>1, <3>2, <4>1 DEF Sent
      <4> QED
        BY <4>2 DEF KeysAgree
    <3>3. CASE good /\ trusted' # {}
      <4>1. whole' /\ whole
        BY <2>1, <2>4, <3>3 DEF Sent
      <4>2. trusted' = trusted \cup ({e} \cap Known)
        BY <2>1, <2>4, <3>3, <4>1 DEF Sent
      <4>3. told' = IF event.down THEN told \cup {e} ELSE told \ {e}
        BY <2>1, <2>4 DEF Sent
      <4>4. Head(todo) = e.code
        BY <2>1, <2>4, Left
      <4>5. is_extended = e.ext /\ is_break = ~event.down
        BY <1>0, <2>1, <3>3, <4>1, <4>4 DEF Prefixed
      <4>6. key_index(TRUE) = {KeyTable[k] : k \in {e} \cap Known}
        <5>1. key_index(TRUE) = {KeyTable[k] : k \in {j \in Known : j = e}}
          BY <1>0, <1>2, <2>4, <4>4, <4>5, CleanStop
        <5>2. {j \in Known : j = e} = {e} \cap Known
          OBVIOUS
        <5> QED
          BY <5>1, <5>2
      <4>7. pressed_key' = IF event.down THEN pressed_key \cup key_index(TRUE)
                                         ELSE pressed_key \ key_index(TRUE)
        BY <1>0, <1>2, <2>4, <4>5, CleanStop
      <4> HIDE DEF e
      <4> SUFFICES ASSUME NEW k \in trusted'
                   PROVE  KeyTable[k] \in pressed_key' <=> k \in told'
        BY DEF KeysAgree
      <4>8. CASE k = e
        <5>1. key_index(TRUE) = {KeyTable[e]}
          BY <4>2, <4>6, <4>8 DEF TypeOK
        <5> QED
          BY <4>3, <4>7, <4>8, <5>1
      <4>9. CASE k # e
        <5>1. k \in trusted /\ k \in Known
          BY <4>2, <4>9 DEF TypeOK
        <5>2. KeyTable[k] \notin key_index(TRUE)
          BY <4>6, <4>9, <5>1 DEF Known
        <5>3. KeyTable[k] \in pressed_key <=> k \in told
          BY <5>1 DEF KeysAgree
        <5> QED
          BY <4>3, <4>7, <4>9, <5>2, <5>3
      <4> QED
        BY <4>8, <4>9
    <3> QED
      BY <3>1, <3>2, <3>3
  <2> QED
    BY <2>2, <2>3, <2>4
<1>3. CASE Clock /\ damage' # "none"
  <2>1. Sent(FALSE)
    <3>1. (damage' = "none") = FALSE
      BY <1>3
    <3> QED
      BY <1>3, <3>1 DEF Clock
  <2>2. trusted' = {}
    BY <2>1 DEF Sent
  <2> QED
    BY <2>2 DEF KeysAgree
<1>4. CASE Flip \/ Lose
  <2>1. trusted' = {}
    BY <1>4 DEF Flip, Lose, Sent
  <2> QED
    BY <2>1 DEF KeysAgree
<1>5. CASE UNCHANGED vars
  BY <1>5 DEF vars, messageVars, lineVars, watchVars, KeysAgree
<1> QED
  BY <1>1, <1>2, <1>3, <1>4, <1>5 DEF Next

-----------------------------------------------------------------------------
(* The theorems *)

LEMMA InitInv == ASSUME Init PROVE IInv
<1> USE DEF Init, DriverInit, MessagesInit
<1>1. (CHOOSE k \in Keys : TRUE) \in Keys
  OBVIOUS
<1>2. Zero \in Byte
  BY DEF Zero, Byte
<1>3. TypeOK
  <2>1. DriverTypeOK
    <3>1. parity \in BOOLEAN /\ is_extended \in BOOLEAN /\ is_break \in BOOLEAN
      BY Zenon
    <3>2. count \in 0..STOP /\ get_data \in Byte /\ got \in Byte \cup {None}
      BY <1>2 DEF STOP
    <3> QED
      BY <3>1, <3>2 DEF DriverTypeOK
  <2>2. MessagesTypeOK
    BY DEF MessagesTypeOK, Digits
  <2>3. event \in [key : Keys, down : BOOLEAN] /\ todo \in Seq(Byte)
    BY <1>1
  <2> QED
    BY <2>1, <2>2, <2>3 DEF TypeOK, STOP
<1>4. InStep /\ FrameSoFar
  BY DEF InStep, FrameSoFar
<1>5. EventSoFar /\ Trusting
  BY DEF EventSoFar, Trusting
<1>6. Prefixed
  BY DEF Prefixed
<1>7. KeysAgree
  BY DEF KeysAgree
<1> QED
  BY <1>3, <1>4, <1>5, <1>6, <1>7 DEF IInv

LEMMA InvStep == ASSUME IInv, [Next]_vars PROVE IInv'
BY TypesStep, InStepStep, FrameStep, EventStep, PrefixedStep, TrustingStep, AgreeStep
   DEF IInv

(* The receiver's state is what the line has made of it, in every state.      *)
THEOREM KeyboardInvariant == Spec => []IInv
<1>1. Init => IInv
  BY InitInv
<1>2. IInv /\ [Next]_vars => IInv'
  BY InvStep
<1> QED
  BY <1>1, <1>2, PTL DEF Spec

(* Every variable of the receiver, the key map and the line has its type.     *)
THEOREM KeyboardTypes == Spec => []TypeOK
<1>1. IInv => TypeOK
  BY DEF IInv
<1> QED
  BY <1>1, KeyboardInvariant, PTL

(* A wrong bit after the start bit does not cost the frames to come: at the   *)
(* next start bit the receiver waits for one.                              *)
THEOREM KeyboardInStep == Spec => []StaysInStep
<1>1. IInv => StaysInStep
  BY DEF IInv, InStep, StaysInStep
<1> QED
  BY <1>1, KeyboardInvariant, PTL

(* A key the keyboard has told of since the last fault, after a good event, is *)
(* in pressed_key exactly when the keyboard has it down.                    *)
THEOREM KeyboardAgrees == Spec => []KeysAgree
<1>1. IInv => KeysAgree
  BY DEF IInv
<1> QED
  BY <1>1, KeyboardInvariant, PTL

(* One wrong bit or one missed edge never makes up a byte: a byte is received  *)
(* where one ends on the line, and it is that byte.                         *)
LEMMA OnlySentStep ==
  ASSUME IInv, Next, got' # None, damage' # "unknown"
  PROVE  pos = STOP /\ todo # <<>> /\ got' = Head(todo)
<1> USE DEF IInv
<1>0. /\ pos \in 0..STOP /\ STOP # 0 /\ STOP = PARITY + 1 /\ PARITY = DATA_BITS + 1
  BY DEF TypeOK, STOP, PARITY
<1>1. CASE Tell \/ Lose
  BY <1>1 DEF Tell, Lose
<1>2. CASE Clock
  <2>1. todo # <<>> /\ Receive(Line) /\ Line \in BOOLEAN
    BY <1>2, LineType DEF Clock
  <2>2. count = STOP
    BY <2>1, NoByte
  <2>3. damage' = damage
    BY <1>0, <1>2, <2>2 DEF Clock
  <2>4. StopBit(Line) /\ Accepts(Line)
    <3>1. StopBit(Line)
      BY <1>0, <2>1, <2>2 DEF Receive, Edge, StartBit, DataBit, ParityBit
    <3> QED
      BY <3>1 DEF StopBit
  <2>5. parity /\ Line
    BY <2>4 DEF Accepts
  <2>6. CASE damage = "none"
    <3>1. pos = STOP
      BY <2>2, <2>6 DEF InStep
    <3>2. damage' = "none"
      BY <2>3, <2>6
    <3> QED
      BY <1>2, <2>1, <3>1, <3>2, CleanStop
  <2>7. CASE damage = "flip"
    <3>1. pos = STOP
      BY <2>2, <2>7 DEF InStep
    <3>2. Wanted = TRUE
      BY <3>1 DEF Wanted
    <3>3. parity = FALSE
      BY <1>0, <2>7, <3>1, <3>2 DEF FrameSoFar
    <3> QED
      BY <2>5, <3>3
  <2>8. CASE damage = "late"
    <3>1. pos = 0
      BY <1>0, <2>2, <2>8 DEF InStep
    <3>2. ~Line
      <4>1. pos \notin 1..DATA_BITS /\ pos # PARITY /\ pos # STOP
        BY <1>0, <3>1
      <4> QED
        BY <3>1, <4>1 DEF Line
    <3> QED
      BY <2>5, <3>2
  <2> QED
    BY <2>3, <2>6, <2>7, <2>8 DEF TypeOK
<1>3. CASE Flip
  <2>1. todo # <<>> /\ Receive(~Line) /\ Line \in BOOLEAN /\ (~Line) \in BOOLEAN
    BY <1>3, LineType DEF Flip
  <2>2. count = STOP
    BY <2>1, NoByte
  <2>3. damage = "none"
    BY <1>0, <1>3, <2>2 DEF Flip, Harm
  <2>4. pos = STOP
    BY <2>2, <2>3 DEF InStep
  <2>5. Line = TRUE
    BY <2>1, <2>3, <2>4, CleanByte
  <2>6. StopBit(~Line)
    BY <1>0, <2>1, <2>2 DEF Receive, Edge, StartBit, DataBit, ParityBit
  <2>7. Accepts(~Line)
    BY <2>6 DEF StopBit
  <2> QED
    BY <2>5, <2>7 DEF Accepts
<1> QED
  BY <1>1, <1>2, <1>3 DEF Next

(* The property that one wrong bit or one missed edge makes up no byte.       *)
THEOREM KeyboardOnlySent == Spec => OnlySent
<1>1. IInv /\ [Next]_vars
        => [got' # None /\ damage' # "unknown" =>
              pos = STOP /\ todo # <<>> /\ got' = Head(todo)]_vars
  BY OnlySentStep
<1> QED
  BY <1>1, KeyboardInvariant, PTL DEF Spec, OnlySent

=============================================================================
