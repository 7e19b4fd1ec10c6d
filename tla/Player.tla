-------------------------------- MODULE Player --------------------------------
(***************************************************************************)
(* The player's body: checkHitAABB, movePlayer and updatePlayerLogic of    *)
(* software/main.c.                                                        *)
(*                                                                         *)
(* Positions are fixed point: SCALE units to a block.  The body is a box,   *)
(* 2w wide each way and h high, that stands on y.  The turning of the view  *)
(* and the trigonometry that makes a step (dx, dz) of the move keys are     *)
(* abstracted: a step is any of a given set.                               *)
(***************************************************************************)
EXTENDS Blocks

CONSTANTS
  SCALE,                                      (* 65536                     *)
  w, h,                                       (* 0.3 and 1.8 blocks        *)
  GRAVITY,                                    (* 0.075 blocks per tick^2   *)
  TERMINAL_VELOCITY, TERMINAL_VELOCITY_WATER, (* 3 and 0.1 blocks per tick *)
  JUMP_VELOCITY, JUMP_VELOCITY_WATER          (* 0.47 and 0.27             *)

(* The box is narrower than a block, and the part of h beyond whole blocks   *)
(* leaves room for the unit by which a body is set off the floor.           *)
ASSUME BoxAssumption ==
  /\ SCALE \in Nat \ {0} /\ w \in Nat /\ h \in Nat
  /\ 2 * w + 1 < SCALE /\ h - (h \div SCALE) * SCALE + 1 < SCALE
ASSUME SpeedAssumption ==
  /\ GRAVITY \in Nat /\ TERMINAL_VELOCITY \in Nat
  /\ TERMINAL_VELOCITY_WATER \in Nat
  /\ JUMP_VELOCITY \in Nat /\ JUMP_VELOCITY_WATER \in Nat
(* A jump, whose speed is first lowered by the gravity of its own tick, and    *)
(* which may start a unit above the base, rises to 1.5 blocks at the most:    *)
(* twice 9.4868 / 20 less 0.075, squared, is 0.76, and 12 * 0.075 is 0.9.     *)
(* And a fall of more than a block in one tick, which has 4 * 0.925 there,    *)
(* has come from higher up than a jump reaches.                            *)
JumpReach == (2 * JUMP_VELOCITY - GRAVITY) * (2 * JUMP_VELOCITY - GRAVITY)
             + 8 * GRAVITY
ASSUME JumpAssumption ==
  /\ GRAVITY > 0 /\ GRAVITY <= JUMP_VELOCITY /\ GRAVITY <= SCALE
  /\ JUMP_VELOCITY_WATER <= JUMP_VELOCITY
  /\ JumpReach <= 12 * GRAVITY * SCALE
  /\ JumpReach <= 4 * SCALE * (SCALE - GRAVITY)

(* The fields of the player record that moving uses. *)
Body == [x : Int, y : Int, z : Int, vy : Int, onGround : BOOLEAN]

toInt(f)   == f \div SCALE
toFixed(n) == n * SCALE

(* The cells the box overlaps, and whether one of them is solid. *)
Box(p) == (toInt(p.x - w) .. toInt(p.x + w))
          \X (toInt(p.y) .. toInt(p.y + h))
          \X (toInt(p.z - w) .. toInt(p.z + w))

(* Mutant of checkHitAABB: only the layer of the feet is looked at. *)
checkHitFeet(world, p) ==
  \E c \in Box(p) : c[2] = toInt(p.y) /\ Solid(world, c)

checkHitAABB(world, p) == \E c \in Box(p) : Solid(world, c)

(* Where a step along one horizontal axis ends that would touch a block:    *)
(* against the side of the cell the middle is in.                           *)
Against(f, d) == IF d > 0 THEN toFixed(toInt(f) + 1) - w - 1
                          ELSE toFixed(toInt(f)) + w + 1

MoveX(world, p, dx) ==
  LET q == [p EXCEPT !.x = @ + dx]
  IN  IF checkHitAABB(world, q) THEN [p EXCEPT !.x = Against(@, dx)] ELSE q

MoveZ(world, p, dz) ==
  LET q == [p EXCEPT !.z = @ + dz]
  IN  IF checkHitAABB(world, q) THEN [p EXCEPT !.z = Against(@, dz)] ELSE q

(* Where a step up or down ends that would touch a block: the head or the    *)
(* feet stay in the layer they were in.                                    *)
UnderRoof(f) == toFixed(toInt(f + h) + 1) - h - 1
OnFloor(f)   == toFixed(toInt(f)) + 1

(* Whether it rests on a block: one in the layer right under its feet. *)
OnBlock(world, p) ==
  \E c \in Box(p) : c[2] = toInt(p.y) /\ Solid(world, Below(c))

Rise(p) == [p EXCEPT !.y = UnderRoof(@), !.vy = 0, !.onGround = FALSE]
Land(p) == [p EXCEPT !.y = OnFloor(@), !.vy = 0, !.onGround = TRUE]

(* Mutant of MoveY: flight does not clear onGround. *)
MoveYStillOnGround(world, p, dy) ==
  LET q == [p EXCEPT !.y = @ + dy]
  IN  IF ~checkHitAABB(world, q) THEN q
      ELSE IF dy > 0 THEN Rise(p) ELSE Land(p)

MoveY(world, p, dy) ==
  LET q == [p EXCEPT !.y = @ + dy, !.onGround = FALSE]
  IN  IF ~checkHitAABB(world, q) THEN q
      ELSE IF dy > 0 THEN Rise(p) ELSE Land(p)

isUnderwater(world, p) ==
  getBlock(world, <<toInt(p.x), toInt(p.y), toInt(p.z)>>) \in Water

AtLeast(v, least) == IF v < least THEN least ELSE v

(* Mutant of Fall: no pull on a body that stands. *)
FallUnlessGrounded(p, v, terminal) ==
  IF p.onGround /\ v <= 0 THEN 0 ELSE AtLeast(v - GRAVITY, -terminal)

Fall(p, v, terminal) == AtLeast(v - GRAVITY, -terminal)

(* The vertical speed for this tick. *)
Speed(world, p, jump) ==
  LET wet == isUnderwater(world, p)
      v   == CASE jump /\ wet                -> JUMP_VELOCITY_WATER
               [] jump /\ ~wet /\ p.onGround -> JUMP_VELOCITY
               [] OTHER                      -> p.vy
  IN  Fall(p, v, IF wet THEN TERMINAL_VELOCITY_WATER ELSE TERMINAL_VELOCITY)

(* updatePlayerLogic ends in movePlayer: one axis after the other, each from *)
(* where the one before has put the body.                                  *)
updatePlayerLogic(world, p, step, jump, moved) ==
  \E a \in {[p EXCEPT !.vy = Speed(world, p, jump)]} :
  \E b \in {MoveX(world, a, step[1])} :
  \E c \in {MoveY(world, b, a.vy)} :
    moved = MoveZ(world, c, step[2])
=============================================================================
