---------------------------- MODULE GameLoopProofs ----------------------------
(***************************************************************************)
(* Proofs about GameLoop for any number of slots and any set of key         *)
(* combinations.                                                           *)
(***************************************************************************)
EXTENDS GameLoop, TLAPS

(* Operators *)

(* A remainder of a division by SLOTS is a slot, so FileOf, Around and the     *)
(* turns of SAVE_LOOP never leave the range of slots.                        *)
LEMMA SlotRange == ASSUME NEW n \in Int PROVE n % SLOTS \in Slot
BY SlotAssumption DEF Slot

LEMMA SlotFacts ==
  /\ Slot \cup {NoSlot} \subseteq Int
  /\ {0, 1} \subseteq Slot \cup {NoSlot}
  /\ \A s \in Slot \cup {NoSlot} :
       FileOf(s) \in Slot /\ (s + 1) % SLOTS \in Slot
         /\ (s + SLOTS - 1) % SLOTS \in Slot
<1>1. SLOTS \in Int /\ SLOTS > 0
  BY SlotAssumption
<1>2. Slot \cup {NoSlot} \subseteq Int /\ {0, 1} \subseteq Slot \cup {NoSlot}
  BY <1>1 DEF Slot, NoSlot
<1>3. ASSUME NEW s \in Slot \cup {NoSlot}
      PROVE  /\ s % SLOTS \in Slot /\ (s + 1) % SLOTS \in Slot
             /\ (s + SLOTS - 1) % SLOTS \in Slot
  <2>1. s \in Int /\ s + 1 \in Int /\ s + SLOTS - 1 \in Int
    BY <1>1, <1>2
  <2> QED
    BY <2>1, SlotRange
<1> QED
  BY <1>2, <1>3 DEF FileOf

(* Whatever the card holds, the search of the slots yields a slot or none.    *)
LEMMA SearchRange ==
  /\ \A there : FirstSlot(Existing(there)) \subseteq Slot \cup {NoSlot}
  /\ \A there : FirstSlot(Slot \ Existing(there)) \subseteq Slot \cup {NoSlot}
  /\ temp \in Slot \cup {NoSlot} =>
       \A d \in {-1, 1} : NextSlot(d) \subseteq Slot
<1>1. \A there : Existing(there) \subseteq Slot
  BY DEF Existing
<1>2. ASSUME temp \in Slot \cup {NoSlot}, NEW d \in {-1, 1}, NEW k \in 1..SLOTS
      PROVE  Around(k, d) \in Slot
  <2>1. temp \in Int /\ SLOTS \in Int /\ k \in Int /\ d * k \in Int
    BY <1>2, SlotFacts, SlotAssumption
  <2>2. temp + d * k + 2 * SLOTS \in Int
    BY <2>1
  <2> QED
    BY <2>2, SlotRange DEF Around
<1> QED
  BY <1>1, <1>2 DEF FirstSlot, NextSlot

(* UP and DOWN keep the choice on a line.                                    *)
LEMMA ChosenRange ==
  ASSUME NEW n \in {2, 3}, select \in 0..2
  PROVE  Chosen(n) \in 0..2
BY DEF Chosen

(* Drawing text keeps the screen well formed and touches no register; the      *)
(* mode is set with it.                                                    *)
Line == [word : Word, digit : Slot \cup {NoSlot, NoDigit}, label : Tag]

LEMMA LineRange ==
  /\ Blank \in Line
  /\ \A s \in Slot \cup {NoSlot} : SlotLine(s) \in Line /\ SaveLine(s) \in Line
BY DEF Line, Word, Tag, Blank, SlotLine, SaveLine, Label

LEMMA TextDraws ==
  ASSUME screen \in Screen, NEW text \in Line, NEW m \in 0..6
  PROVE  /\ Text(text) \in Screen /\ TextMode(text, m) \in Screen
         /\ Text(text).mode = screen.mode /\ TextMode(text, m).mode = m
         /\ \A t \in {Text(text), TextMode(text, m)} :
              /\ t.clear = screen.clear /\ t.cursor = screen.cursor
              /\ t.word = text.word /\ t.digit = text.digit
              /\ t.label = text.label
BY DEF Screen, Line, Text, TextMode

(* Setting one field of the screen keeps it well formed and the others.       *)
LEMMA ScreenEdits ==
  ASSUME NEW s \in Screen
  PROVE  /\ \A c \in {MenuClear, GameClear} :
              LET t == [s EXCEPT !.clear = c]
              IN  /\ t \in Screen /\ t.clear = c /\ t.mode = s.mode
                  /\ t.word = s.word /\ t.digit = s.digit /\ t.label = s.label
         /\ \A n \in 0..2 :
              LET t == [s EXCEPT !.cursor = n]
              IN  /\ t \in Screen /\ t.cursor = n
                  /\ t.mode = s.mode /\ t.clear = s.clear
                  /\ t.word = s.word /\ t.digit = s.digit /\ t.label = s.label
         /\ \A d \in Slot, n \in 0..2 :
              LET t == [s EXCEPT !.digit = d, !.cursor = n]
              IN  /\ t \in Screen /\ t.digit = d /\ t.cursor = n
                  /\ t.mode = s.mode /\ t.clear = s.clear
                  /\ t.word = s.word /\ t.label = s.label
BY DEF Screen

(* The three ways into GAME set up the same screen.                          *)
LEMMA GameScreen ==
  ASSUME screen \in Screen, StartGame
  PROVE  /\ state' = "GAME" /\ screen' \in Screen
         /\ screen'.mode = 5 /\ screen'.clear = GameClear
<1>1. TextMode(Blank, 5) \in Screen /\ TextMode(Blank, 5).mode = 5
  BY LineRange, TextDraws
<1> QED
  BY <1>1, ScreenEdits DEF StartGame

-----------------------------------------------------------------------------
(* Type correctness: the flags and the other variables *)

LEMMA TypeInit == Init => TypeOK
<1> SUFFICES ASSUME Init PROVE TypeOK
  OBVIOUS
<1>1. /\ pc = "top" /\ state = "IDLE" /\ select = 0 /\ temp = 0
      /\ use_slot = NoSlot /\ origin = NoSlot /\ world = "none"
      /\ g_input = {} /\ keys = {} /\ files \in SUBSET Slot
      /\ screen = [mode |-> 0, clear |-> GameClear, cursor |-> 0, word |-> "blank",
                   digit |-> NoDigit, label |-> "blank"]
  BY DEF Init
<1>2. screen \in Screen
  BY <1>1 DEF Screen, Word, Tag, NoDigit, GameClear, MenuClear
<1>3. temp \in Slot \cup {NoSlot} /\ select \in 0..2
  BY <1>1, SlotAssumption DEF Slot, NoSlot
<1>4. DataOK
  BY <1>1, <1>2, <1>3, KeyAssumption DEF DataOK, States
<1>5. FlagsOK
  BY DEF Init, FlagsOK
<1> QED
  BY <1>4, <1>5 DEF TypeOK

LEMMA FlagsStep == TypeOK /\ [Next]_vars => FlagsOK'
<1> SUFFICES ASSUME FlagsOK, [Next]_vars PROVE FlagsOK'
  BY DEF TypeOK
<1> USE DEF FlagsOK, flagVars, cardVars, worldVars, keyVars
<1>1. CASE Mount
  BY <1>1 DEF Mount
<1>2. CASE IdleStep
  BY <1>2 DEF IdleStep
<1>3. CASE Menu
  BY <1>3 DEF Menu
<1>4. CASE MenuLoop
  BY <1>4 DEF MenuLoop, MenuPoll, Poll, EnterActs, NoAct
<1>5. CASE MenuAct
  BY <1>5 DEF MenuAct
<1>6. CASE Load
  BY <1>6 DEF Load
<1>7. CASE LoadStop
  BY <1>7 DEF LoadStop
<1>8. CASE LoadLoop
  BY <1>8 DEF LoadLoop, Poll, EnterActs, NoAct
<1>9. CASE LoadMissing
  BY <1>9 DEF LoadMissing, LoadActEnds
<1>10. CASE LoadSucceeds
  BY <1>10 DEF LoadSucceeds, LoadActEnds
<1>11. CASE LoadFails
  BY <1>11 DEF LoadFails, LoadActEnds
<1>12. CASE RemoveSave
  BY <1>12 DEF RemoveSave, LoadActEnds
<1>13. CASE LoadExit
  BY <1>13 DEF LoadExit, LoadActEnds
<1>14. CASE MapGen
  BY <1>14 DEF MapGen
<1>15. CASE MapGenStop
  BY <1>15 DEF MapGenStop
<1>16. CASE MapGenLoop
  BY <1>16 DEF MapGenLoop, MenuPoll, Poll, EnterActs, NoAct
<1>17. CASE MapGenFlat
  BY <1>17 DEF MapGenFlat
<1>18. CASE MapGenStart
  BY <1>18 DEF MapGenStart
<1>19. CASE GameStop
  BY <1>19 DEF GameStop
<1>20. CASE GameTick
  BY <1>20 DEF GameTick
<1>21. CASE Stop
  BY <1>21 DEF Stop
<1>22. CASE StopStop
  BY <1>22 DEF StopStop
<1>23. CASE StopLoop
  BY <1>23 DEF StopLoop, MenuPoll, Poll, EnterActs, NoAct
<1>24. CASE StopAct
  BY <1>24 DEF StopAct
<1>25. CASE Save
  BY <1>25 DEF Save
<1>26. CASE SaveStop
  BY <1>26 DEF SaveStop
<1>27. CASE SaveLoop
  BY <1>27 DEF SaveLoop, Poll, EnterActs, NoAct
<1>28. CASE SaveAct
  BY <1>28 DEF SaveAct
<1>29. CASE TickIsr
  BY <1>29 DEF TickIsr
<1>30. CASE StateKeyIsr
  BY <1>30 DEF StateKeyIsr
<1>31. CASE MoveKeys
  BY <1>31 DEF MoveKeys
<1>32. CASE MoveCard
  BY <1>32 DEF MoveCard
<1>33. CASE UNCHANGED vars
  BY <1>33 DEF vars
<1> QED
  BY <1>1, <1>2, <1>3, <1>4, <1>5, <1>6, <1>7, <1>8, <1>9, <1>10, <1>11, <1>12, <1>13, <1>14, <1>15, <1>16, <1>17, <1>18, <1>19, <1>20, <1>21, <1>22, <1>23, <1>24, <1>25, <1>26, <1>27, <1>28, <1>29, <1>30, <1>31, <1>32, <1>33 DEF Next, Loop, LoadAct, Environment

LEMMA DataStep == TypeOK /\ [Next]_vars => DataOK'
<1> SUFFICES ASSUME DataOK, [Next]_vars PROVE DataOK'
  BY DEF TypeOK
<1> USE DEF DataOK, States, flagVars, cardVars, worldVars, keyVars
<1>1. CASE Mount
  BY <1>1 DEF Mount
<1>2. CASE IdleStep
  BY <1>2, LineRange, TextDraws DEF IdleStep
<1>3. CASE Menu
  <2>1. screen' \in Screen
    <3>1. TextMode(Blank, 1) \in Screen
      BY LineRange, TextDraws
    <3> QED
      BY <1>3, <3>1, ScreenEdits DEF Menu
  <2> QED
    BY <1>3, <2>1 DEF Menu
<1>4. CASE MenuLoop
  BY <1>4, ChosenRange, ScreenEdits DEF MenuLoop, MenuPoll, Poll, EnterActs, NoAct
<1>5. CASE MenuAct
  BY <1>5 DEF MenuAct
<1>6. CASE Load
  <2>1. temp' \in Slot \cup {NoSlot}
    BY <1>6, SearchRange DEF Load
  <2>2. SlotLine(temp') \in Line /\ 3 \in 0..6
    BY <2>1, LineRange
  <2>3. screen' \in Screen
    BY <1>6, <2>2, TextDraws DEF Load
  <2> QED
    BY <1>6, <2>1, <2>3 DEF Load
<1>7. CASE LoadStop
  BY <1>7, LineRange, TextDraws DEF LoadStop
<1>8. CASE LoadLoop
  <2>1. select' \in 0..2 /\ g_input' = keys /\ keys' = keys /\ pc' \in {"act", "top"}
    BY <1>8, ChosenRange DEF LoadLoop, Poll, EnterActs, NoAct
  <2>2. temp' \in Slot \cup {NoSlot} /\ screen' \in Screen
    <3>1. ASSUME NEW d \in {-1, 1}, Turn(d)
          PROVE  temp' \in Slot \cup {NoSlot} /\ screen' \in Screen
      <4>1. Text(SlotLine(NoSlot)) \in Screen
        BY LineRange, TextDraws
      <4>2. NextSlot(d) \subseteq Slot
        BY SearchRange
      <4>3. CASE NextSlot(d) = {} /\ UNCHANGED temp
                 /\ screen' = [Text(SlotLine(NoSlot)) EXCEPT !.cursor = select]
        BY <4>1, <4>3, ScreenEdits
      <4>4. ASSUME NEW s \in NextSlot(d), temp' = s,
                   screen' = [screen EXCEPT !.digit = s, !.cursor = select]
            PROVE  temp' \in Slot \cup {NoSlot} /\ screen' \in Screen
        BY <4>2, <4>4, ScreenEdits
      <4> QED
        BY <3>1, <4>3, <4>4 DEF Turn
    <3>2. ASSUME screen' = [screen EXCEPT !.cursor = select], temp' = temp
          PROVE  temp' \in Slot \cup {NoSlot} /\ screen' \in Screen
      BY <3>2, ScreenEdits
    <3> QED
      BY <1>8, <3>1, <3>2 DEF LoadLoop
  <2> QED
    BY <1>8, <2>1, <2>2 DEF LoadLoop
<1>9. CASE LoadMissing
  BY <1>9, LineRange, TextDraws DEF LoadMissing, LoadActEnds
<1>10. CASE LoadSucceeds
  BY <1>10, SlotFacts, GameScreen DEF LoadSucceeds, LoadActEnds
<1>11. CASE LoadFails
  BY <1>11, LineRange, TextDraws DEF LoadFails, LoadActEnds
<1>12. CASE RemoveSave
  <2>1. temp' \in Slot \cup {NoSlot}
    BY <1>12, SearchRange DEF RemoveSave
  <2>2. SlotLine(temp') \in Line /\ 0 \in 0..6
    BY <2>1, LineRange
  <2>3. screen' \in Screen
    BY <1>12, <2>2, TextDraws DEF RemoveSave
  <2>4. files' \in SUBSET Slot
    BY <1>12 DEF RemoveSave
  <2> QED
    BY <1>12, <2>1, <2>3, <2>4 DEF RemoveSave, LoadActEnds
<1>13. CASE LoadExit
  BY <1>13, LineRange, TextDraws DEF LoadExit, LoadActEnds
<1>14. CASE MapGen
  <2>1. screen' \in Screen
    BY <1>14, LineRange, TextDraws DEF MapGen
  <2> QED
    BY <1>14, <2>1, SlotFacts DEF MapGen
<1>15. CASE MapGenStop
  BY <1>15, LineRange, TextDraws DEF MapGenStop
<1>16. CASE MapGenLoop
  BY <1>16, ChosenRange, ScreenEdits DEF MapGenLoop, MenuPoll, Poll, EnterActs, NoAct
<1>17. CASE MapGenFlat
  BY <1>17, SlotFacts DEF MapGenFlat
<1>18. CASE MapGenStart
  BY <1>18, GameScreen DEF MapGenStart
<1>19. CASE GameStop
  BY <1>19 DEF GameStop
<1>20. CASE GameTick
  BY <1>20 DEF GameTick
<1>21. CASE Stop
  <2>1. screen' \in Screen
    <3>1. TextMode(Blank, 6) \in Screen
      BY LineRange, TextDraws
    <3> QED
      BY <1>21, <3>1, ScreenEdits DEF Stop
  <2> QED
    BY <1>21, <2>1 DEF Stop
<1>22. CASE StopStop
  BY <1>22, GameScreen DEF StopStop
<1>23. CASE StopLoop
  BY <1>23, ChosenRange, ScreenEdits DEF StopLoop, MenuPoll, Poll, EnterActs, NoAct
<1>24. CASE StopAct
  BY <1>24, LineRange, TextDraws, GameScreen DEF StopAct
<1>25. CASE Save
  <2>1. temp' \in Slot \cup {NoSlot}
    BY <1>25, SearchRange DEF Save
  <2>2. SaveLine(temp') \in Line /\ 2 \in 0..6
    BY <2>1, LineRange
  <2>3. screen' \in Screen
    BY <1>25, <2>2, TextDraws DEF Save
  <2> QED
    BY <1>25, <2>1, <2>3 DEF Save
<1>26. CASE SaveStop
  BY <1>26, LineRange, TextDraws DEF SaveStop
<1>27. CASE SaveLoop
  <2>1. select' \in 0..2 /\ g_input' = keys /\ keys' = keys /\ pc' \in {"act", "top"}
    BY <1>27, ChosenRange DEF SaveLoop, Poll, EnterActs, NoAct
  <2>2. temp' \in Slot \cup {NoSlot} /\ screen' \in Screen
    <3>1. ASSUME NEW s \in Slot, SaveTurn(s)
          PROVE  temp' \in Slot \cup {NoSlot} /\ screen' \in Screen
      <4>1. Text(SaveLine(s)) \in Screen
        BY LineRange, TextDraws
      <4> QED
        BY <3>1, <4>1, ScreenEdits DEF SaveTurn
    <3>2. ASSUME screen' = [screen EXCEPT !.cursor = select], temp' = temp
          PROVE  temp' \in Slot \cup {NoSlot} /\ screen' \in Screen
      BY <3>2, ScreenEdits
    <3> QED
      BY <1>27, <3>1, <3>2, SlotFacts DEF SaveLoop
  <2> QED
    BY <1>27, <2>1, <2>2 DEF SaveLoop
<1>28. CASE SaveAct
  <2>1. screen' \in Screen
    BY <1>28, LineRange, TextDraws DEF SaveAct
  <2>2. files' \in SUBSET Slot
    BY <1>28, SlotFacts DEF SaveAct
  <2> QED
    BY <1>28, <2>1, <2>2 DEF SaveAct
<1>29. CASE TickIsr
  BY <1>29 DEF TickIsr
<1>30. CASE StateKeyIsr
  BY <1>30 DEF StateKeyIsr
<1>31. CASE MoveKeys
  BY <1>31 DEF MoveKeys
<1>32. CASE MoveCard
  BY <1>32 DEF MoveCard
<1>33. CASE UNCHANGED vars
  BY <1>33 DEF vars
<1> QED
  BY <1>1, <1>2, <1>3, <1>4, <1>5, <1>6, <1>7, <1>8, <1>9, <1>10, <1>11, <1>12, <1>13, <1>14, <1>15, <1>16, <1>17, <1>18, <1>19, <1>20, <1>21, <1>22, <1>23, <1>24, <1>25, <1>26, <1>27, <1>28, <1>29, <1>30, <1>31, <1>32, <1>33 DEF Next, Loop, LoadAct, Environment

(* Every variable keeps its range.                                           *)
THEOREM TypeCorrect == Spec => []TypeOK
<1>1. TypeOK /\ [Next]_vars => TypeOK'
  BY FlagsStep, DataStep DEF TypeOK
<1> QED
  BY <1>1, TypeInit, PTL DEF Spec

-----------------------------------------------------------------------------
(* Safety *)

(* Mounting and the environment leave the program's own state alone.         *)
LEMMA QuietStep ==
  ASSUME Mount \/ Environment \/ UNCHANGED vars
  PROVE  UNCHANGED <<state, select, temp, use_slot, origin, world, screen>>
BY DEF Mount, Environment, TickIsr, StateKeyIsr, MoveKeys, MoveCard,
       vars, flagVars, cardVars, worldVars, keyVars

(* Only generating and loading to the end lead from the menus into the game,   *)
(* and they set use_slot with the world's origin.                           *)
LEMMA WorldStep == DataOK /\ WorldWhole /\ SlotOfOrigin /\ [Next]_vars => WorldWhole' /\ SlotOfOrigin'
<1> SUFFICES ASSUME DataOK /\ WorldWhole /\ SlotOfOrigin, [Next]_vars PROVE WorldWhole' /\ SlotOfOrigin'
  OBVIOUS
<1> USE DEF WorldWhole, SlotOfOrigin, InGame, worldVars
<1>1. CASE IdleStep
  BY <1>1 DEF IdleStep
<1>2. CASE Menu
  BY <1>2 DEF Menu
<1>3. CASE MenuLoop
  BY <1>3 DEF MenuLoop, MenuPoll, Poll, EnterActs, NoAct
<1>4. CASE MenuAct
  BY <1>4 DEF MenuAct
<1>5. CASE Load
  BY <1>5 DEF Load
<1>6. CASE LoadStop
  BY <1>6 DEF LoadStop
<1>7. CASE LoadLoop
  BY <1>7 DEF LoadLoop, Poll, EnterActs, NoAct
<1>8. CASE LoadMissing
  BY <1>8 DEF LoadMissing, LoadActEnds
<1>9. CASE LoadSucceeds
  <2>1. temp \in Slot => FileOf(temp) = temp
    BY SlotAssumption DEF Slot, FileOf
  <2> QED
    BY <1>9, <2>1 DEF LoadSucceeds, DataOK
<1>10. CASE LoadFails
  BY <1>10 DEF LoadFails, LoadActEnds
<1>11. CASE RemoveSave
  BY <1>11 DEF RemoveSave, LoadActEnds
<1>12. CASE LoadExit
  BY <1>12 DEF LoadExit, LoadActEnds
<1>13. CASE MapGen
  BY <1>13 DEF MapGen
<1>14. CASE MapGenStop
  BY <1>14 DEF MapGenStop
<1>15. CASE MapGenLoop
  BY <1>15 DEF MapGenLoop, MenuPoll, Poll, EnterActs, NoAct
<1>16. CASE MapGenFlat
  BY <1>16 DEF MapGenFlat
<1>17. CASE MapGenStart
  BY <1>17 DEF MapGenStart, StartGame
<1>18. CASE GameStop
  BY <1>18 DEF GameStop
<1>19. CASE GameTick
  BY <1>19 DEF GameTick
<1>20. CASE Stop
  BY <1>20 DEF Stop
<1>21. CASE StopStop
  BY <1>21 DEF StopStop, StartGame
<1>22. CASE StopLoop
  BY <1>22 DEF StopLoop, MenuPoll, Poll, EnterActs, NoAct
<1>23. CASE StopAct
  BY <1>23 DEF StopAct, StartGame
<1>24. CASE Save
  BY <1>24 DEF Save
<1>25. CASE SaveStop
  BY <1>25 DEF SaveStop
<1>26. CASE SaveLoop
  BY <1>26 DEF SaveLoop, Poll, EnterActs, NoAct
<1>27. CASE SaveAct
  BY <1>27 DEF SaveAct
<1>28. CASE Mount \/ Environment \/ UNCHANGED vars
  BY <1>28, QuietStep
<1> QED
  BY <1>1, <1>2, <1>3, <1>4, <1>5, <1>6, <1>7, <1>8, <1>9, <1>10, <1>11, <1>12, <1>13, <1>14, <1>15, <1>16, <1>17, <1>18, <1>19, <1>20, <1>21, <1>22, <1>23, <1>24, <1>25, <1>26, <1>27, <1>28 DEF Next, Loop, LoadAct

(* Turning round the slots draws the new slot, or EMPTY!, and leaves the       *)
(* registers.                                                              *)
LEMMA TurnDraws ==
  ASSUME DataOK, NEW d \in {-1, 1}, Turn(d)
  PROVE  /\ screen' \in Screen /\ temp' \in Slot \cup {NoSlot}
         /\ screen'.mode = screen.mode /\ screen'.clear = screen.clear
         /\ \/ screen'.word = "empty"
            \/ screen'.word = screen.word /\ screen'.digit = temp' /\ temp' \in Slot
<1> USE DEF DataOK
<1>1. SlotLine(NoSlot).word = "empty"
  BY DEF SlotLine, Blank
<1>2. /\ Text(SlotLine(NoSlot)) \in Screen
      /\ Text(SlotLine(NoSlot)).word = "empty"
      /\ Text(SlotLine(NoSlot)).mode = screen.mode
      /\ Text(SlotLine(NoSlot)).clear = screen.clear
  <2>1. SlotLine(NoSlot) \in Line /\ 0 \in 0..6
    BY LineRange
  <2> QED
    BY <1>1, <2>1, TextDraws
<1>3. NextSlot(d) \subseteq Slot
  BY SearchRange
<1>4. CASE NextSlot(d) = {} /\ UNCHANGED temp
             /\ screen' = [Text(SlotLine(NoSlot)) EXCEPT !.cursor = select]
  BY <1>2, <1>4, ScreenEdits
<1>5. ASSUME NEW s \in NextSlot(d), temp' = s,
             screen' = [screen EXCEPT !.digit = s, !.cursor = select]
      PROVE  /\ screen' \in Screen /\ temp' \in Slot
             /\ screen'.mode = screen.mode /\ screen'.clear = screen.clear
             /\ screen'.word = screen.word /\ screen'.digit = temp'
  <2>1. s \in Slot
    BY <1>3, <1>5
  <2>2. /\ screen' \in Screen /\ screen'.digit = s
        /\ screen'.mode = screen.mode /\ screen'.clear = screen.clear
        /\ screen'.word = screen.word
    BY <2>1, <1>5 DEF Screen
  <2> QED
    BY <2>1, <2>2, <1>5
<1> QED
  BY <1>4, <1>5 DEF Turn

LEMMA SaveTurnDraws ==
  ASSUME DataOK, NEW s \in Slot, SaveTurn(s)
  PROVE  /\ screen' \in Screen
         /\ screen'.mode = screen.mode /\ screen'.clear = screen.clear
         /\ screen'.label = Label(s) /\ screen'.digit = s
<1> USE DEF DataOK
<1>1. /\ SaveLine(s) \in Line /\ SaveLine(s).label = Label(s)
      /\ SaveLine(s).digit = s /\ 0 \in 0..6
  BY LineRange DEF SaveLine
<1>2. /\ Text(SaveLine(s)) \in Screen
      /\ Text(SaveLine(s)).label = Label(s) /\ Text(SaveLine(s)).digit = s
      /\ Text(SaveLine(s)).mode = screen.mode
      /\ Text(SaveLine(s)).clear = screen.clear
  BY <1>1, TextDraws
<1> QED
  BY <1>2, ScreenEdits DEF SaveTurn

ScreenInv == ScreenMatchesState /\ ClearInherited

(* The registers follow the state.                                          *)
LEMMA ScreenStep == DataOK /\ ScreenInv /\ [Next]_vars => ScreenInv'
<1> SUFFICES ASSUME DataOK /\ ScreenInv, [Next]_vars PROVE ScreenInv'
  OBVIOUS
<1> USE DEF DataOK, ScreenInv, ScreenMatchesState, ClearInherited, ModeOf
<1>1. CASE IdleStep
  BY <1>1, LineRange, TextDraws DEF IdleStep, Blank
<1>2. CASE Menu
  <2>1. TextMode(Blank, 1) \in Screen /\ TextMode(Blank, 1).mode = 1
    BY LineRange, TextDraws
  <2>2. screen'.mode = 1 /\ screen'.clear = MenuClear
    BY <1>2, <2>1, ScreenEdits DEF Menu
  <2> QED
    BY <1>2, <2>2 DEF Menu
<1>3. CASE MenuLoop
  <2>1. screen' = [screen EXCEPT !.cursor = select] /\ state' = state
    BY <1>3 DEF MenuLoop
  <2>2. screen'.mode = screen.mode /\ screen'.clear = screen.clear
    BY <2>1, ScreenEdits
  <2> QED
    BY <2>1, <2>2
<1>4. CASE MenuAct
  BY <1>4 DEF MenuAct
<1>5. CASE Load
  <2>1. temp' \in Slot \cup {NoSlot}
    BY <1>5, SearchRange DEF Load
  <2>2. SlotLine(temp') \in Line /\ 3 \in 0..6
    BY <2>1, LineRange
  <2>3. screen'.mode = 3 /\ screen'.clear = screen.clear
    BY <1>5, <2>2, TextDraws DEF Load
  <2> QED
    BY <1>5, <2>3 DEF Load
<1>6. CASE LoadStop
  BY <1>6, LineRange, TextDraws DEF LoadStop, Blank
<1>7. CASE LoadLoop
  <2>1. state' = state
    BY <1>7 DEF LoadLoop
  <2>2. screen'.mode = screen.mode /\ screen'.clear = screen.clear
    <3>1. ASSUME NEW d \in {-1, 1}, Turn(d)
          PROVE  screen'.mode = screen.mode /\ screen'.clear = screen.clear
      BY <3>1, TurnDraws
    <3>2. CASE screen' = [screen EXCEPT !.cursor = select]
      BY <3>2, ScreenEdits
    <3> QED
      BY <1>7, <3>1, <3>2 DEF LoadLoop
  <2> QED
    BY <2>1, <2>2
<1>8. CASE LoadMissing
  BY <1>8, LineRange, TextDraws DEF LoadMissing, LoadActEnds, Blank
<1>9. CASE LoadSucceeds
  BY <1>9, GameScreen DEF LoadSucceeds, LoadActEnds
<1>10. CASE LoadFails
  BY <1>10, LineRange, TextDraws DEF LoadFails, LoadActEnds, Blank
<1>11. CASE RemoveSave
  <2>1. temp' \in Slot \cup {NoSlot}
    BY <1>11, SearchRange DEF RemoveSave
  <2>2. SlotLine(temp') \in Line /\ 0 \in 0..6
    BY <2>1, LineRange
  <2>3. screen'.mode = screen.mode /\ screen'.clear = screen.clear
    BY <1>11, <2>2, TextDraws DEF RemoveSave
  <2> QED
    BY <1>11, <2>3 DEF RemoveSave, LoadActEnds
<1>12. CASE LoadExit
  BY <1>12, LineRange, TextDraws DEF LoadExit, LoadActEnds, Blank
<1>13. CASE MapGen
  BY <1>13, LineRange, TextDraws DEF MapGen, Blank
<1>14. CASE MapGenStop
  BY <1>14, LineRange, TextDraws DEF MapGenStop, Blank
<1>15. CASE MapGenLoop
  <2>1. screen' = [screen EXCEPT !.cursor = select] /\ state' = state
    BY <1>15 DEF MapGenLoop
  <2>2. screen'.mode = screen.mode /\ screen'.clear = screen.clear
    BY <2>1, ScreenEdits
  <2> QED
    BY <2>1, <2>2
<1>16. CASE MapGenFlat
  BY <1>16 DEF MapGenFlat
<1>17. CASE MapGenStart
  BY <1>17, GameScreen DEF MapGenStart
<1>18. CASE GameStop
  BY <1>18 DEF GameStop
<1>19. CASE GameTick
  BY <1>19 DEF GameTick
<1>20. CASE Stop
  <2>1. TextMode(Blank, 6) \in Screen /\ TextMode(Blank, 6).mode = 6
    BY LineRange, TextDraws
  <2>2. screen'.mode = 6 /\ screen'.clear = MenuClear
    BY <1>20, <2>1, ScreenEdits DEF Stop
  <2> QED
    BY <1>20, <2>2 DEF Stop
<1>21. CASE StopStop
  BY <1>21, GameScreen DEF StopStop
<1>22. CASE StopLoop
  <2>1. screen' = [screen EXCEPT !.cursor = select] /\ state' = state
    BY <1>22 DEF StopLoop
  <2>2. screen'.mode = screen.mode /\ screen'.clear = screen.clear
    BY <2>1, ScreenEdits
  <2> QED
    BY <2>1, <2>2
<1>23. CASE StopAct
  BY <1>23, LineRange, TextDraws, GameScreen DEF StopAct, Blank
<1>24. CASE Save
  <2>1. temp' \in Slot \cup {NoSlot}
    BY <1>24, SearchRange DEF Save
  <2>2. SaveLine(temp') \in Line /\ 2 \in 0..6
    BY <2>1, LineRange
  <2>3. screen'.mode = 2 /\ screen'.clear = screen.clear
    BY <1>24, <2>2, TextDraws DEF Save
  <2> QED
    BY <1>24, <2>3 DEF Save
<1>25. CASE SaveStop
  BY <1>25, LineRange, TextDraws DEF SaveStop, Blank
<1>26. CASE SaveLoop
  <2>1. state' = state
    BY <1>26 DEF SaveLoop
  <2>2. screen'.mode = screen.mode /\ screen'.clear = screen.clear
    <3>1. ASSUME NEW s \in Slot, SaveTurn(s)
          PROVE  screen'.mode = screen.mode /\ screen'.clear = screen.clear
      BY <3>1, SaveTurnDraws
    <3>2. CASE screen' = [screen EXCEPT !.cursor = select]
      BY <3>2, ScreenEdits
    <3> QED
      BY <1>26, <3>1, <3>2, SlotFacts DEF SaveLoop
  <2> QED
    BY <2>1, <2>2
<1>27. CASE SaveAct
  BY <1>27, LineRange, TextDraws DEF SaveAct, Blank
<1>28. CASE Mount \/ Environment \/ UNCHANGED vars
  BY <1>28, QuietStep
<1> QED
  BY <1>1, <1>2, <1>3, <1>4, <1>5, <1>6, <1>7, <1>8, <1>9, <1>10, <1>11, <1>12, <1>13, <1>14, <1>15, <1>16, <1>17, <1>18, <1>19, <1>20, <1>21, <1>22, <1>23, <1>24, <1>25, <1>26, <1>27, <1>28 DEF Next, Loop, LoadAct

(* The slot line that LOAD and REMOVE draw, and the one SAVE draws.          *)
LEMMA SlotLineSays ==
  \A s \in Slot \cup {NoSlot} :
    SlotLine(s).word = "world" => SlotLine(s).digit = s /\ s \in Slot
BY DEF SlotLine, Blank

LEMMA SaveLineSays ==
  \A s \in Slot \cup {NoSlot} :
    /\ SaveLine(s).digit = s
    /\ SaveLine(s).label = "used" => s = use_slot
BY DEF SaveLine, Label

LinesInv == LoadShowsTarget /\ UsedLabelIsUsed

(* Whoever draws the slot line draws the slot in temp.                       *)
LEMMA LinesStep == DataOK /\ LinesInv /\ [Next]_vars => LinesInv'
<1> SUFFICES ASSUME DataOK /\ LinesInv, [Next]_vars PROVE LinesInv'
  OBVIOUS
<1> USE DEF DataOK, LinesInv, LoadShowsTarget, UsedLabelIsUsed
<1>1. CASE IdleStep
  BY <1>1 DEF IdleStep
<1>2. CASE Menu
  BY <1>2 DEF Menu
<1>3. CASE MenuLoop
  BY <1>3 DEF MenuLoop
<1>4. CASE MenuAct
  BY <1>4 DEF MenuAct
<1>5. CASE Load
  <2>1. temp' \in Slot \cup {NoSlot}
    BY <1>5, SearchRange DEF Load
  <2>2. SlotLine(temp') \in Line /\ 3 \in 0..6
    BY <2>1, LineRange
  <2>3. screen'.word = SlotLine(temp').word /\ screen'.digit = SlotLine(temp').digit
    BY <1>5, <2>2, TextDraws DEF Load
  <2>4. state' = "LOAD_LOOP"
    BY <1>5 DEF Load, LoadActEnds
  <2> QED
    BY <2>1, <2>3, <2>4, SlotLineSays
<1>6. CASE LoadStop
  BY <1>6 DEF LoadStop
<1>7. CASE LoadLoop
  <2>1. state' = "LOAD_LOOP" /\ state = "LOAD_LOOP"
    BY <1>7 DEF LoadLoop
  <2>2. LoadShowsTarget'
    <3>1. ASSUME NEW d \in {-1, 1}, Turn(d) PROVE LoadShowsTarget'
      BY <2>1, <3>1, TurnDraws
    <3>2. CASE screen' = [screen EXCEPT !.cursor = select] /\ temp' = temp
      BY <2>1, <3>2, ScreenEdits
    <3> QED
      BY <1>7, <3>1, <3>2 DEF LoadLoop
  <2> QED
    BY <2>1, <2>2
<1>8. CASE LoadMissing
  BY <1>8 DEF LoadMissing, LoadActEnds
<1>9. CASE LoadSucceeds
  BY <1>9 DEF LoadSucceeds, LoadActEnds, StartGame
<1>10. CASE LoadFails
  BY <1>10 DEF LoadFails, LoadActEnds
<1>11. CASE RemoveSave
  <2>1. temp' \in Slot \cup {NoSlot}
    BY <1>11, SearchRange DEF RemoveSave
  <2>2. SlotLine(temp') \in Line /\ 3 \in 0..6
    BY <2>1, LineRange
  <2>3. screen'.word = SlotLine(temp').word /\ screen'.digit = SlotLine(temp').digit
    BY <1>11, <2>2, TextDraws DEF RemoveSave
  <2>4. state' = "LOAD_LOOP"
    BY <1>11 DEF RemoveSave, LoadActEnds
  <2> QED
    BY <2>1, <2>3, <2>4, SlotLineSays
<1>12. CASE LoadExit
  BY <1>12 DEF LoadExit, LoadActEnds
<1>13. CASE MapGen
  BY <1>13 DEF MapGen
<1>14. CASE MapGenStop
  BY <1>14 DEF MapGenStop
<1>15. CASE MapGenLoop
  BY <1>15 DEF MapGenLoop
<1>16. CASE MapGenFlat
  BY <1>16 DEF MapGenFlat
<1>17. CASE MapGenStart
  BY <1>17 DEF MapGenStart, StartGame
<1>18. CASE GameStop
  BY <1>18 DEF GameStop
<1>19. CASE GameTick
  BY <1>19 DEF GameTick
<1>20. CASE Stop
  BY <1>20 DEF Stop
<1>21. CASE StopStop
  BY <1>21 DEF StopStop, StartGame
<1>22. CASE StopLoop
  BY <1>22 DEF StopLoop
<1>23. CASE StopAct
  BY <1>23 DEF StopAct, StartGame
<1>24. CASE Save
  <2>1. temp' \in Slot \cup {NoSlot}
    BY <1>24, SearchRange DEF Save
  <2>2. SaveLine(temp') \in Line /\ 2 \in 0..6
    BY <2>1, LineRange
  <2>3. screen'.label = SaveLine(temp').label /\ screen'.digit = SaveLine(temp').digit
    BY <1>24, <2>2, TextDraws DEF Save
  <2>4. state' = "SAVE_LOOP" /\ use_slot' = use_slot
    BY <1>24 DEF Save, worldVars
  <2> QED
    BY <2>1, <2>3, <2>4, SaveLineSays
<1>25. CASE SaveStop
  BY <1>25 DEF SaveStop
<1>26. CASE SaveLoop
  <2>1. state' = "SAVE_LOOP" /\ state = "SAVE_LOOP" /\ use_slot' = use_slot
    BY <1>26 DEF SaveLoop, worldVars
  <2>2. UsedLabelIsUsed'
    <3>1. ASSUME NEW s \in Slot, SaveTurn(s) PROVE UsedLabelIsUsed'
      BY <2>1, <3>1, SaveTurnDraws DEF Label
    <3>2. CASE screen' = [screen EXCEPT !.cursor = select]
      <4>1. screen'.label = screen.label /\ screen'.digit = screen.digit
        BY <3>2, ScreenEdits
      <4> QED
        BY <2>1, <4>1
    <3> QED
      BY <1>26, <3>1, <3>2, SlotFacts DEF SaveLoop
  <2> QED
    BY <2>1, <2>2
<1>27. CASE SaveAct
  BY <1>27 DEF SaveAct
<1>28. CASE Mount \/ Environment \/ UNCHANGED vars
  BY <1>28, QuietStep
<1> QED
  BY <1>1, <1>2, <1>3, <1>4, <1>5, <1>6, <1>7, <1>8, <1>9, <1>10, <1>11, <1>12, <1>13, <1>14, <1>15, <1>16, <1>17, <1>18, <1>19, <1>20, <1>21, <1>22, <1>23, <1>24, <1>25, <1>26, <1>27, <1>28 DEF Next, Loop, LoadAct

ActsInv == ActsInLoops /\ MenuActsOnCursor

(* The environment does not move the program on to an act.                  *)
LEMMA QuietPc ==
  ASSUME Mount \/ Environment \/ UNCHANGED vars
  PROVE  pc' = pc \/ pc' = "switch"
BY DEF Mount, Environment, TickIsr, StateKeyIsr, MoveKeys, MoveCard,
       vars

(* ENTER counts in the menus only if nothing moves the choice.               *)
LEMMA ActsStep == DataOK /\ ActsInv /\ [Next]_vars => ActsInv'
<1> SUFFICES ASSUME DataOK /\ ActsInv, [Next]_vars PROVE ActsInv'
  OBVIOUS
<1> USE DEF DataOK, ActsInv, ActsInLoops, MenuActsOnCursor
<1>1. CASE IdleStep
  BY <1>1 DEF IdleStep
<1>2. CASE Menu
  BY <1>2 DEF Menu
<1>3. CASE MenuLoop
  <2>1. screen'.cursor = select /\ state' = state
    BY <1>3, ScreenEdits DEF MenuLoop
  <2>2. pc' = "act" => select' = select
    BY <1>3 DEF MenuLoop, MenuPoll, EnterActs, NoAct, Chosen
  <2> QED
    BY <1>3, <2>1, <2>2 DEF MenuLoop
<1>4. CASE MenuAct
  BY <1>4 DEF MenuAct
<1>5. CASE Load
  BY <1>5 DEF Load
<1>6. CASE LoadStop
  BY <1>6 DEF LoadStop
<1>7. CASE LoadLoop
  BY <1>7 DEF LoadLoop
<1>8. CASE LoadMissing
  BY <1>8 DEF LoadMissing, LoadActEnds
<1>9. CASE LoadSucceeds
  BY <1>9 DEF LoadSucceeds, LoadActEnds
<1>10. CASE LoadFails
  BY <1>10 DEF LoadFails, LoadActEnds
<1>11. CASE RemoveSave
  BY <1>11 DEF RemoveSave, LoadActEnds
<1>12. CASE LoadExit
  BY <1>12 DEF LoadExit, LoadActEnds
<1>13. CASE MapGen
  BY <1>13 DEF MapGen
<1>14. CASE MapGenStop
  BY <1>14 DEF MapGenStop
<1>15. CASE MapGenLoop
  <2>1. screen'.cursor = select /\ state' = state
    BY <1>15, ScreenEdits DEF MapGenLoop
  <2>2. pc' = "act" => select' = select
    BY <1>15 DEF MapGenLoop, MenuPoll, EnterActs, NoAct, Chosen
  <2> QED
    BY <1>15, <2>1, <2>2 DEF MapGenLoop
<1>16. CASE MapGenFlat
  BY <1>16 DEF MapGenFlat
<1>17. CASE MapGenStart
  BY <1>17 DEF MapGenStart
<1>18. CASE GameStop
  BY <1>18 DEF GameStop
<1>19. CASE GameTick
  BY <1>19 DEF GameTick
<1>20. CASE Stop
  BY <1>20 DEF Stop
<1>21. CASE StopStop
  BY <1>21 DEF StopStop
<1>22. CASE StopLoop
  <2>1. screen'.cursor = select /\ state' = state
    BY <1>22, ScreenEdits DEF StopLoop
  <2>2. pc' = "act" => select' = select
    BY <1>22 DEF StopLoop, MenuPoll, EnterActs, NoAct, Chosen
  <2> QED
    BY <1>22, <2>1, <2>2 DEF StopLoop
<1>23. CASE StopAct
  BY <1>23 DEF StopAct
<1>24. CASE Save
  BY <1>24 DEF Save
<1>25. CASE SaveStop
  BY <1>25 DEF SaveStop
<1>26. CASE SaveLoop
  BY <1>26 DEF SaveLoop
<1>27. CASE SaveAct
  BY <1>27 DEF SaveAct
<1>28. CASE Mount \/ Environment \/ UNCHANGED vars
  BY <1>28, QuietStep, QuietPc
<1> QED
  BY <1>1, <1>2, <1>3, <1>4, <1>5, <1>6, <1>7, <1>8, <1>9, <1>10, <1>11, <1>12, <1>13, <1>14, <1>15, <1>16, <1>17, <1>18, <1>19, <1>20, <1>21, <1>22, <1>23, <1>24, <1>25, <1>26, <1>27, <1>28 DEF Next, Loop, LoadAct

(* From the poll in which it acts until it is up, ENTER is held and known.    *)
LEMMA EnterStep == EnterRemembered /\ [Next]_vars => EnterRemembered'
<1> SUFFICES ASSUME EnterRemembered, [Next]_vars PROVE EnterRemembered'
  OBVIOUS
<1> USE DEF EnterRemembered, keyVars
<1>1. CASE IdleStep
  BY <1>1 DEF IdleStep
<1>2. CASE Menu
  BY <1>2 DEF Menu
<1>3. CASE MenuLoop
  BY <1>3 DEF MenuLoop, MenuPoll, Poll, EnterActs, NoAct, Pressed
<1>4. CASE MenuAct
  BY <1>4 DEF MenuAct
<1>5. CASE Load
  BY <1>5 DEF Load
<1>6. CASE LoadStop
  BY <1>6 DEF LoadStop
<1>7. CASE LoadLoop
  BY <1>7 DEF LoadLoop, Poll, EnterActs, NoAct, Pressed
<1>8. CASE LoadMissing
  BY <1>8 DEF LoadMissing, LoadActEnds
<1>9. CASE LoadSucceeds
  BY <1>9 DEF LoadSucceeds, LoadActEnds
<1>10. CASE LoadFails
  BY <1>10 DEF LoadFails, LoadActEnds
<1>11. CASE RemoveSave
  BY <1>11 DEF RemoveSave, LoadActEnds
<1>12. CASE LoadExit
  BY <1>12 DEF LoadExit, LoadActEnds
<1>13. CASE MapGen
  BY <1>13 DEF MapGen
<1>14. CASE MapGenStop
  BY <1>14 DEF MapGenStop
<1>15. CASE MapGenLoop
  BY <1>15 DEF MapGenLoop, MenuPoll, Poll, EnterActs, NoAct, Pressed
<1>16. CASE MapGenFlat
  BY <1>16 DEF MapGenFlat
<1>17. CASE MapGenStart
  BY <1>17 DEF MapGenStart
<1>18. CASE GameStop
  BY <1>18 DEF GameStop
<1>19. CASE GameTick
  BY <1>19 DEF GameTick
<1>20. CASE Stop
  BY <1>20 DEF Stop
<1>21. CASE StopStop
  BY <1>21 DEF StopStop
<1>22. CASE StopLoop
  BY <1>22 DEF StopLoop, MenuPoll, Poll, EnterActs, NoAct, Pressed
<1>23. CASE StopAct
  BY <1>23 DEF StopAct
<1>24. CASE Save
  BY <1>24 DEF Save
<1>25. CASE SaveStop
  BY <1>25 DEF SaveStop
<1>26. CASE SaveLoop
  BY <1>26 DEF SaveLoop, Poll, EnterActs, NoAct, Pressed
<1>27. CASE SaveAct
  BY <1>27 DEF SaveAct
<1>28. CASE Mount \/ Environment \/ UNCHANGED vars
  BY <1>28 DEF Mount, Environment, TickIsr, StateKeyIsr,
     MoveKeys, MoveCard, vars
<1> QED
  BY <1>1, <1>2, <1>3, <1>4, <1>5, <1>6, <1>7, <1>8, <1>9, <1>10, <1>11, <1>12, <1>13, <1>14, <1>15, <1>16, <1>17, <1>18, <1>19, <1>20, <1>21, <1>22, <1>23, <1>24, <1>25, <1>26, <1>27, <1>28 DEF Next, Loop, LoadAct

-----------------------------------------------------------------------------
(* Theorems *)

LEMMA InvInit == Init => IInv
<1> SUFFICES ASSUME Init PROVE IInv
  OBVIOUS
<1>1. TypeOK
  BY TypeInit
<1>2. pc = "top" /\ state = "IDLE" /\ fresh = TRUE
  BY DEF Init
<1> QED
  BY <1>1, <1>2
  DEF IInv, WorldWhole, InGame, ScreenMatchesState, ModeOf, ClearInherited,
      LoadShowsTarget, SlotOfOrigin, UsedLabelIsUsed, ActsInLoops,
      MenuActsOnCursor, EnterRemembered

LEMMA InvStep == IInv /\ [Next]_vars => IInv'
BY FlagsStep, DataStep, WorldStep, ScreenStep, LinesStep, ActsStep, EnterStep
DEF IInv, TypeOK, ScreenInv, LinesInv, ActsInv

(* The strengthening of the safety invariants is an invariant.               *)
THEOREM Invariance == Spec => []IInv
BY InvInit, InvStep, PTL DEF Spec

(* Only a world generated or loaded to its end is played, paused or saved.     *)
THEOREM WorldSafety == Spec => []WorldWhole
<1>1. IInv => WorldWhole
  BY DEF IInv
<1> QED
  BY <1>1, Invariance, PTL

(* Every path into a screen leaves its mode and clear register set.           *)
THEOREM ScreenSafety == Spec => []ScreenMatchesState
<1>1. IInv => ScreenMatchesState
  BY DEF IInv
<1> QED
  BY <1>1, Invariance, PTL

(* The slot shown by LOAD_LOOP is the one loaded or removed.                  *)
THEOREM LoadTargetSafety == Spec => []LoadShowsTarget
<1>1. IInv => LoadShowsTarget
  BY DEF IInv
<1> QED
  BY <1>1, Invariance, PTL

(* The label [USED] is on the slot the world was loaded from.                 *)
THEOREM UsedLabelSafety == Spec => []UsedLabelIsOrigin
<1>1. IInv => UsedLabelIsOrigin
  BY DEF IInv, UsedLabelIsUsed, SlotOfOrigin, InGame, UsedLabelIsOrigin
<1> QED
  BY <1>1, Invariance, PTL

(* ENTER does what the cursor is at, in the three menus with an else.          *)
THEOREM MenuCursorSafety == Spec => []MenuActsOnCursor
<1>1. IInv => MenuActsOnCursor
  BY DEF IInv
<1> QED
  BY <1>1, Invariance, PTL

(* Only a poll in which ENTER is new makes it act.                            *)
LEMMA ActIsPress ==
  ASSUME [Next]_vars, pc # "act", pc' = "act"
  PROVE  "enter" \in Pressed
<1>1. CASE MenuLoop \/ MapGenLoop \/ StopLoop
  BY <1>1 DEF MenuLoop, MapGenLoop, StopLoop, MenuPoll, NoAct
<1>2. CASE LoadLoop \/ SaveLoop
  BY <1>2 DEF LoadLoop, SaveLoop, NoAct
<1>3. CASE Mount \/ Environment \/ UNCHANGED vars
  BY <1>3, QuietPc
<1>4. CASE LoadAct
  BY <1>4 DEF LoadAct, LoadMissing, LoadSucceeds, LoadFails, RemoveSave,
              LoadExit, LoadActEnds
<1>5. CASE IdleStep \/ Menu \/ MenuAct \/ Load \/ LoadStop \/ MapGen \/ MapGenStop
           \/ MapGenFlat \/ MapGenStart
  BY <1>5 DEF IdleStep, Menu, MenuAct, Load, LoadStop, MapGen, MapGenStop,
              MapGenFlat, MapGenStart
<1>6. CASE GameStop \/ GameTick \/ Stop \/ StopStop \/ StopAct \/ Save \/ SaveStop
           \/ SaveAct
  BY <1>6 DEF GameStop, GameTick, Stop, StopStop, StopAct, Save, SaveStop, SaveAct
<1> QED
  BY <1>1, <1>2, <1>3, <1>4, <1>5, <1>6 DEF Next, Loop

(* One press of ENTER acts once.                                             *)
THEOREM OnePress == Spec => OnePressOneAct
<1>1. IInv /\ [Next]_vars => (pc # "act" /\ pc' = "act" => fresh)
  BY ActIsPress DEF IInv, EnterRemembered, Pressed
<1>2. IInv /\ [Next]_vars => [pc # "act" /\ pc' = "act" => fresh]_vars
  BY <1>1
<1> QED
  BY <1>2, Invariance, PTL DEF Spec, OnePressOneAct


(* A game starts with the stop flag down.                                    *)
THEOREM NoStale == Spec => NoStaleStop
<1>1. ASSUME [Next]_vars, state # "GAME", state' = "GAME" PROVE ~stop_game'
  <2>1. CASE LoadAct
    BY <1>1, <2>1 DEF LoadAct, LoadMissing, LoadSucceeds, LoadFails,
                      RemoveSave, LoadExit, LoadActEnds
  <2>2. CASE MapGenStart \/ StopStop \/ StopAct
    BY <1>1, <2>2 DEF MapGenStart, StopStop, StopAct
  <2>3. CASE MenuLoop \/ MapGenLoop \/ StopLoop \/ LoadLoop \/ SaveLoop
    BY <1>1, <2>3 DEF MenuLoop, MapGenLoop, StopLoop, LoadLoop, SaveLoop
  <2>4. CASE Mount \/ Environment \/ UNCHANGED vars
    BY <1>1, <2>4, QuietStep
  <2>5. CASE IdleStep \/ Menu \/ MenuAct \/ Load \/ LoadStop \/ MapGen
             \/ MapGenStop \/ MapGenFlat
    BY <1>1, <2>5 DEF IdleStep, Menu, MenuAct, Load, LoadStop, MapGen,
                      MapGenStop, MapGenFlat
  <2>6. CASE GameStop \/ GameTick \/ Stop \/ Save \/ SaveStop \/ SaveAct
    BY <1>1, <2>6 DEF GameStop, GameTick, Stop, Save, SaveStop, SaveAct
  <2> QED
    BY <1>1, <2>1, <2>2, <2>3, <2>4, <2>5, <2>6 DEF Next, Loop
<1>2. [Next]_vars => [state # "GAME" /\ state' = "GAME" => ~stop_game']_vars
  BY <1>1
<1> QED
  BY <1>2, PTL DEF Spec, NoStaleStop

-----------------------------------------------------------------------------
(* Refinement: the loop implements GameSession *)

LEMMA SessionInitially == Init => Session!SessionInit
<1> SUFFICES ASSUME Init PROVE Session!SessionInit
  OBVIOUS
<1>1. state = "IDLE" /\ world = "none"
  BY DEF Init
<1> QED
  BY <1>1 DEF Session!SessionInit, Phase, InGame

LEMMA SessionStep == IInv /\ IInv' /\ [Next]_vars => [Session!SessionNext]_<<Phase, world>>
<1> SUFFICES ASSUME IInv, IInv', [Next]_vars
             PROVE  [Session!SessionNext]_<<Phase, world>>
  OBVIOUS
<1> USE DEF Phase, InGame, Session!SessionNext, worldVars
<1>1. world' \in Session!WorldStatus
  BY DEF IInv, TypeOK, DataOK, Session!WorldStatus
(* In the menus. *)
<1>2. CASE IdleStep \/ Menu \/ MenuLoop \/ MenuAct \/ Load \/ LoadStop \/ LoadLoop
           \/ LoadMissing \/ LoadFails \/ RemoveSave \/ LoadExit
           \/ MapGen \/ MapGenStop \/ MapGenLoop \/ MapGenFlat
  <2>1. Phase = "choosing" /\ Phase' = "choosing"
    BY <1>2 DEF IdleStep, Menu, MenuLoop, MenuAct, Load, LoadStop, LoadLoop,
         LoadMissing, LoadFails, RemoveSave, LoadExit, LoadActEnds, MapGen,
         MapGenStop, MapGenLoop, MapGenFlat
  <2> QED
    BY <1>1, <2>1 DEF Session!Choose
(* Into the game. *)
<1>3. CASE LoadSucceeds \/ MapGenStart
  <2>1. state \in {"LOAD_LOOP", "MAP_GEN_LOOP"} /\ state' = "GAME" /\ world' = "whole"
    BY <1>3 DEF LoadSucceeds, LoadActEnds, MapGenStart, StartGame
  <2> QED
    BY <2>1 DEF Session!Start
(* Between playing and pausing. *)
<1>4. CASE GameStop
  <2>1. state = "GAME" /\ state' = "STOP" /\ world' = world
    BY <1>4 DEF GameStop
  <2> QED
    BY <2>1 DEF Session!Pause
<1>5. CASE StopStop
  <2>1. state = "STOP_LOOP" /\ state' = "GAME" /\ world' = world
    BY <1>5 DEF StopStop, StartGame
  <2> QED
    BY <2>1 DEF Session!Resume
<1>6. CASE StopAct
  <2>1. state = "STOP_LOOP" /\ state' \in {"GAME", "SAVE", "MENU"} /\ world' = world
    BY <1>6 DEF StopAct, StartGame
  <2> QED
    BY <2>1 DEF Session!Resume, Session!Quit
(* Within them. *)
<1>7. CASE GameTick \/ Stop \/ StopLoop \/ Save \/ SaveStop \/ SaveLoop \/ SaveAct
  <2>1. Phase' = Phase /\ world' = world
    BY <1>7 DEF GameTick, Stop, StopLoop, Save, SaveStop, SaveLoop, SaveAct
  <2> QED
    BY <2>1
<1>8. CASE Mount \/ Environment \/ UNCHANGED vars
  BY <1>8, QuietStep
<1> QED
  BY <1>2, <1>3, <1>4, <1>5, <1>6, <1>7, <1>8 DEF Next, Loop, LoadAct

(* The loop implements the session the screens promise.                      *)
THEOREM Refinement == Spec => ImplementsSession
<1>1. IInv /\ IInv' /\ [Next]_vars => [Session!SessionNext]_<<Phase, world>>
  BY SessionStep
<1> QED
  BY <1>1, SessionInitially, Invariance, PTL
  DEF Spec, ImplementsSession, Session!SessionSpec

=============================================================================
