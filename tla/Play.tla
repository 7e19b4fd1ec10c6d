--------------------------------- MODULE Play ---------------------------------
(***************************************************************************)
(* A game being played: what main's GAME state does on a tick              *)
(* (software/main.c).  A tick moves the body, edits the world by the       *)
(* action keys, on every WATER_TICKS-th tick lets water flow, and casts     *)
(* the ray that finds the block the next edit is about.                    *)
(*                                                                         *)
(* waterSim goes through the box around the player in place, a cell a step: *)
(* cells later in the scan see what the pass wrote before.                  *)
(*                                                                         *)
(* The ray is abstract: its direction and the lengths it compares only      *)
(* decide which axis it steps along next, so it is any walk that keeps to   *)
(* one sign per axis; whether the hit is near enough to be faced is open.   *)
(***************************************************************************)
EXTENDS Player

CONSTANTS
  MAX_SIM_DIST,      (* half the box that waterSim goes through: 8         *)
  MAX_RAY_STEPS,     (* 24                                                 *)
  WATER_TICKS,       (* ticks from one flow of water to the next: 8        *)
  Steps,             (* the <<dx, dz>> that the move keys can give         *)
  Selectable,        (* the blocks the number keys choose from: 1..6       *)
  Maps,              (* worlds and places that genMap or genMapFlat give   *)
  Saves,             (* worlds and bodies that LoadMapFromSD restores      *)
  MAX_INPUTS         (* bound on what the person does in a behaviour       *)

ASSUME TickAssumption ==
  /\ MAX_SIM_DIST \in Nat /\ MAX_RAY_STEPS \in Nat
  /\ WATER_TICKS \in Nat \ {0} /\ MAX_INPUTS \in Nat
ASSUME KeysAssumption ==
  /\ Steps \subseteq Int \X Int /\ <<0, 0>> \in Steps
  /\ Selectable \subseteq 1..6 /\ 1 \in Selectable

(* New and saved games put the body into the open; a saved body was in a game, *)
(* where none rises faster than it can jump.                               *)
ASSUME MapsAssumption ==
  \A m \in Maps : /\ m.world \in World
                  /\ m.x \in Int /\ m.y \in Int /\ m.z \in Int
                  /\ ~checkHitAABB(m.world, [x |-> m.x, y |-> m.y, z |-> m.z])
ASSUME SavesAssumption ==
  \A s \in Saves : /\ s.world \in World /\ s.player \in Body
                   /\ s.selectBlockType \in Selectable
                   /\ ~checkHitAABB(s.world, s.player)
                   /\ s.player.vy <= JUMP_VELOCITY

(* The speed at which a body can still not pass a floor of two blocks. *)
ASSUME FallAssumption ==
  /\ TERMINAL_VELOCITY <= 2 * SCALE + h
  /\ TERMINAL_VELOCITY_WATER <= TERMINAL_VELOCITY

ActionKeys == {"break", "place"}
NoFace     == [faceBlock |-> FALSE]

VARIABLES
  world, player,
  selectBlockType,
  lastHit,            (* NoFace, or the faced block: its type and cell and  *)
                      (* the cell the ray came from                        *)
  last_action_keys,
  water_tick_counter,
  pc,                 (* where main is: "menu" and "stop" outside GAME;     *)
                      (* "tick", "edit", "water", "look" in GAME            *)
  todo,               (* cells the pass of waterSim has yet to come to      *)
  inputs,             (* what the person did so far, up to MAX_INPUTS       *)
  base                (* history: height at which the body last came down   *)
                      (* on a block, swam or was put                       *)

bodyVars == <<player, base>>
editVars == <<last_action_keys, selectBlockType>>
vars == <<world, player, selectBlockType, lastHit, last_action_keys,
          water_tick_counter, pc, todo, inputs, base>>

-----------------------------------------------------------------------------
(* Rays *)

Eye(p) == <<toInt(p.x), toInt(p.y + h), toInt(p.z)>>

(* The cells a ray can come to next: it never turns back on any axis. *)
Onto(eye, c) ==
  Cell \cap UNION {{Beside(c, a, s) : s \in {s \in {-1, 1} : s * (c[a] - eye[a]) >= 0}} :
                    a \in 1..3}

(* The cells it may be in after fewer than MAX_RAY_STEPS steps through what  *)
(* can be seen through; the cell of the eye itself is not looked at.       *)
Passed(wd, eye) ==
  LET upto[n \in Nat] ==
        IF n = 0 THEN {eye}
        ELSE UNION {{c} \cup {d \in Onto(eye, c) : ~Solid(wd, d)} : c \in upto[n - 1]}
  IN  upto[MAX_RAY_STEPS - 1]

castRay(wd, eye) ==
  UNION {{[faceBlock |-> TRUE, hit |-> wd[d], cell |-> d, before |-> c] :
            d \in {d \in Onto(eye, c) : Solid(wd, d)}} : c \in Passed(wd, eye)}

(* Nothing faced: the ray hit nothing, or too far away. *)
CalcPlayStatus(wd, p) == lastHit' \in castRay(wd, Eye(p)) \cup {NoFace}

-----------------------------------------------------------------------------
(* Edits *)

(* A block that is broken uncovers the dirt below it. *)
BreakBlock(wd) ==
  LET c       == lastHit.cell
      broken  == setBlock(wd, c, AIR)
  IN  IF ~lastHit.faceBlock \/ ~Destructible(lastHit.hit) THEN wd
      ELSE IF getBlock(broken, Below(c)) = DIRT
           THEN setBlock(broken, Below(c), GRASS) ELSE broken

(* Mutant of PlaceBlock: nobody looks whether the body is in the way. *)
PlaceBlockAnyway(wd, p) ==
  LET c == IF isSolid(lastHit.hit) THEN lastHit.before ELSE lastHit.cell
  IN  IF ~lastHit.faceBlock \/ Solid(wd, c) THEN wd
      ELSE setBlock(wd, c, selectBlockType)

(* A block is put in front of the faced one, taken back if the body is in   *)
(* its way, and covers the grass below it.                                 *)
PlaceBlock(wd, p) ==
  LET c      == IF isSolid(lastHit.hit) THEN lastHit.before ELSE lastHit.cell
      placed == setBlock(wd, c, selectBlockType)
  IN  IF ~lastHit.faceBlock \/ Solid(wd, c) THEN wd
      ELSE IF checkHitAABB(placed, p) THEN setBlock(placed, c, AIR)
      ELSE IF getBlock(placed, Below(c)) = GRASS
           THEN setBlock(placed, Below(c), DIRT) ELSE placed

-----------------------------------------------------------------------------
(* Water *)

(* Mutant of Feeders: water also comes from cells over a drop. *)
AllNeighbours(wd, c) == {Beside(c, a, s) : a \in {1, 3}, s \in {-1, 1}}

(* The cells next to c in its layer from which water can come: the block    *)
(* under them carries it.                                                  *)
Feeders(wd, c) ==
  {n \in {Beside(c, a, s) : a \in {1, 3}, s \in {-1, 1}} : Solid(wd, Below(n))}

(* What a cell of air or flowing water should be: one level further than     *)
(* the nearest water that feeds it.                                        *)
Ideal(wd, c) ==
  LET Fed(l) == \E n \in Feeders(wd, c) : getBlock(wd, n) = l
  IN  CASE getBlock(wd, Above(c)) \in Water -> 7
        [] OTHER -> IF Fed(6) THEN 7 ELSE IF Fed(7) THEN 8
                    ELSE IF Fed(8) THEN 9 ELSE AIR

(* The cells of air or flowing water among cells that are not as they should be. *)
Changing(wd, cells) ==
  {c \in cells : wd[c] \in Flowing \cup {AIR} /\ wd[c] # Ideal(wd, c)}

SimBox(p) ==
  {c \in Cell : /\ c[1] - toInt(p.x) \in -MAX_SIM_DIST .. MAX_SIM_DIST
                /\ c[2] - toInt(p.y) \in -MAX_SIM_DIST .. MAX_SIM_DIST
                /\ c[3] - toInt(p.z) \in -MAX_SIM_DIST .. MAX_SIM_DIST}

(* The order of the scan: by layer, then by row, then along the row. *)
Earlier(c, d) == \/ c[2] < d[2]
                 \/ c[2] = d[2] /\ c[3] < d[3]
                 \/ c[2] = d[2] /\ c[3] = d[3] /\ c[1] < d[1]

-----------------------------------------------------------------------------
Spend(n) == inputs + n <= MAX_INPUTS /\ inputs' = inputs + n

Middle(n) == toFixed(n \div 2) + SCALE \div 2

(* Power on: the ray cast in IDLE is done again before any game begins. *)
Init ==
  /\ pc = "menu" /\ todo = {} /\ inputs = 0
  /\ world \in {m.world : m \in Maps \cup Saves}
  /\ player = [x |-> Middle(WORLD_X), y |-> toFixed(WORLD_Y \div 2),
               z |-> Middle(WORLD_Z), vy |-> 0, onGround |-> FALSE]
  /\ base = player.y
  /\ selectBlockType = 1
  /\ lastHit = NoFace
  /\ last_action_keys = ActionKeys
  /\ water_tick_counter = 0

(* A generated map: only the place of the body is set anew. *)
GenMap(m) ==
  /\ pc = "menu" /\ pc' = "tick" /\ Spend(1)
  /\ world' = m.world
  /\ player' = [player EXCEPT !.x = m.x, !.y = m.y, !.z = m.z]
  /\ base' = m.y
  /\ CalcPlayStatus(world', player')
  /\ UNCHANGED <<editVars, water_tick_counter, todo>>

(* A save that loads: the whole record is restored. *)
LoadMap(s) ==
  /\ pc = "menu" /\ pc' = "tick" /\ Spend(1)
  /\ world' = s.world /\ player' = s.player
  /\ selectBlockType' = s.selectBlockType
  /\ base' = s.player.y
  /\ CalcPlayStatus(world', player')
  /\ UNCHANGED <<last_action_keys, water_tick_counter, todo>>

Stop   == pc = "tick" /\ pc' = "stop" /\ Spend(1)
Resume == pc = "stop" /\ pc' = "tick" /\ Spend(1)
Exit   == pc = "stop" /\ pc' = "menu" /\ Spend(1)

Menus == /\ Stop \/ Resume \/ Exit
         /\ UNCHANGED <<world, bodyVars, editVars, lastHit,
                        water_tick_counter, todo>>

(* The fall of a tick has really ended on a block, right under the feet of   *)
(* the body before its step along z; onGround alone does not say so.        *)
Landed(wd, p, moved) == moved.onGround /\ OnBlock(wd, [moved EXCEPT !.z = p.z])

(* updatePlayerLogic *)
Move(step, jump) ==
  /\ pc = "tick" /\ pc' = "edit"
  /\ Spend(IF jump \/ step # <<0, 0>> THEN 1 ELSE 0)
  /\ updatePlayerLogic(world, player, step, jump, player')
  /\ base' = IF Landed(world, player, player') \/ isUnderwater(world, player)
             THEN player'.y ELSE base
  /\ UNCHANGED <<world, editVars, lastHit, water_tick_counter, todo>>

(* handleActionKeys.  The keys are bits that are 1 while the key is held; an *)
(* edit is made when a bit has gone from 1 to 0.                            *)
Edit(curr_keys) ==
  LET fall_edges == last_action_keys \ curr_keys
      after      == IF "break" \in fall_edges THEN BreakBlock(world) ELSE world
  IN  world' = IF "place" \in fall_edges THEN PlaceBlock(after, player) ELSE after

HandleActionKeys(curr_keys, block_select) ==
  /\ pc = "edit"
  /\ Spend(IF <<curr_keys, block_select>> # <<last_action_keys, selectBlockType>>
           THEN 1 ELSE 0)
  /\ Edit(curr_keys)
  /\ last_action_keys' = curr_keys
  /\ selectBlockType' = block_select
  /\ UNCHANGED <<bodyVars, lastHit>>

(* Mutant of CountTick: the counter starts over on every tick. *)
CountTickNever ==
  /\ water_tick_counter' = 0
  /\ pc' = "look" /\ UNCHANGED todo

(* Every WATER_TICKS-th tick waterSim is called. *)
CountTick ==
  IF water_tick_counter + 1 >= WATER_TICKS
  THEN /\ water_tick_counter' = 0
       /\ pc' = "water" /\ todo' = SimBox(player)
  ELSE /\ water_tick_counter' = water_tick_counter + 1
       /\ pc' = "look" /\ UNCHANGED todo

EditTick(curr_keys, block_select) ==
  HandleActionKeys(curr_keys, block_select) /\ CountTick

(* waterSim comes to the next cell that it has to change; the cells it       *)
(* passes over on the way stay as they are.                                *)
WaterCell ==
  /\ pc = "water"
  /\ \E c \in Changing(world, todo) :
       /\ \A d \in Changing(world, todo) \ {c} : Earlier(c, d)
       /\ world' = [world EXCEPT ![c] = Ideal(world, c)]
       /\ todo' = {d \in todo : Earlier(c, d)}
  /\ UNCHANGED <<bodyVars, editVars, lastHit, water_tick_counter, pc, inputs>>

(* calcPlayStatus, when waterSim is through or was not due. *)
Look ==
  /\ pc = "look" \/ (pc = "water" /\ Changing(world, todo) = {})
  /\ pc' = "tick" /\ todo' = {}
  /\ CalcPlayStatus(world, player)
  /\ UNCHANGED <<world, bodyVars, editVars, water_tick_counter, inputs>>

Tick == \/ \E step \in Steps, jump \in BOOLEAN : Move(step, jump)
        \/ \E keys \in SUBSET ActionKeys, b \in Selectable : EditTick(keys, b)
        \/ WaterCell
        \/ Look

Next == \/ \E m \in Maps : GenMap(m)
        \/ \E s \in Saves : LoadMap(s)
        \/ Menus
        \/ Tick

Spec == Init /\ [][Next]_vars

(* The tick interrupt keeps coming, and main's loop comes round. *)
FairSpec == Spec /\ WF_vars(Tick)

-----------------------------------------------------------------------------
InGame == pc # "menu"

TypeOK ==
  /\ world \in World /\ player \in Body
  /\ selectBlockType \in Selectable
  /\ last_action_keys \in SUBSET ActionKeys
  /\ water_tick_counter \in 0 .. WATER_TICKS - 1
  /\ pc \in {"menu", "stop", "tick", "edit", "water", "look"}
  /\ todo \in SUBSET Cell
  /\ inputs \in 0 .. MAX_INPUTS /\ base \in Int

(* Whatever is built, dug or flooded around it, and however it runs, jumps   *)
(* and falls, the body never overlaps a solid block: movePlayer sets it      *)
(* against blocks it would touch, placeBlockAction takes a block back that   *)
(* it would stand in, and nothing else makes a cell solid.                 *)
NeverInside == InGame => ~checkHitAABB(world, player)

(* Only the end of a tick's fall is looked at, and a fall can be three       *)
(* blocks in a tick: a floor one block thick may be missed, a floor of two  *)
(* never is.                                                               *)
Floor(n) == \A c \in Cell : c[2] \in {n, n + 1} => Solid(world, c)
DoubleFloorsHold ==
  [][pc = "tick" /\ pc' = "edit" =>
       \A n \in 0 .. WORLD_Y - 2 :
         Floor(n) /\ player.y >= toFixed(n + 2) => player'.y >= toFixed(n + 2)]_vars

(* No height is won in the air: out of the water the body never comes more   *)
(* than 1.5 blocks above the block it last stood on, the water it swam in or *)
(* the place a load or a new map put it at (main.c:111 makes that the       *)
(* height of a jump).  It may well jump off nothing: a fast fall that is     *)
(* stopped in the air sets onGround (main.c:619), and genMap and genMapFlat  *)
(* leave onGround and vy from the game before.  But such a fall has come     *)
(* from higher up than the jump goes, and there is one such jump, not two.  *)
NoHeightFromAir == InGame => 2 * (player.y - base) <= toFixed(3)

(* Left alone, the body comes to stand on a block, whatever was dug away     *)
(* under it and wherever a fast fall was stopped.                          *)
Stands == player.onGround /\ OnBlock(world, player)
Rests == <>[](pc \notin {"menu", "stop"} => Stands)

-----------------------------------------------------------------------------
(* Where water should be *)

FlowCells == {c \in Cell : world[c] \in Flowing \cup {AIR}}
Settled   == Changing(world, Cell) = {}

(* The paths of water from the sources, as pairs of a cell and a level:      *)
(* down one cell to level 7, or sideways off a cell that rests on a block,   *)
(* one level further.                                                      *)
Onward(c, l) ==
  {<<Below(c), 7>>} \cup
  (IF l <= 8 /\ Solid(world, Below(c))
   THEN {<<Beside(c, a, s), l + 1>> : a \in {1, 3}, s \in {-1, 1}} ELSE {})

Springs        == {<<c, SOURCE>> : c \in {c \in Cell : world[c] = SOURCE}}
Spread(places) == UNION {{f} \cup {g \in Onward(f[1], f[2]) : g[1] \in FlowCells} :
                           f \in places}

(* After n steps; three go sideways before one must go down a layer. *)
ReachedIn[n \in Nat] == IF n = 0 THEN Springs ELSE Spread(ReachedIn[n - 1])
Reached == ReachedIn[3 * WORLD_Y]

(* Water that has settled is what the sources feed and nothing else, at the *)
(* level of the shortest way: none keeps itself alive after it was cut off,  *)
(* though waterSim only looks at neighbours and overwrites them as it goes.  *)
SettledIsFlow ==
  pc = "tick" /\ Settled =>
    LET reached == Reached
    IN  \A c \in FlowCells :
          LET levels == {f[2] : f \in {f \in reached : f[1] = c}}
          IN  IF levels = {} THEN world[c] = AIR
              ELSE world[c] \in levels /\ \A l \in levels : world[c] <= l

(* When the person leaves the world alone, the water around the body settles, *)
(* whatever it gets from outside: waterSim works in the box around the body   *)
(* only (main.c:356), so water further away may stay as it is for good.     *)
WaterSettles ==
  <>[](pc \notin {"menu", "stop"} => Changing(world, SimBox(player)) = {})
=============================================================================
