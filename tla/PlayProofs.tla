------------------------------ MODULE PlayProofs ------------------------------
(***************************************************************************)
(* Proofs about the player and the world it edits: the types, that the     *)
(* body never overlaps a solid block, that no fall passes a floor of two    *)
(* blocks, that no height is won in the air, and that water that has         *)
(* settled is what the sources feed, at the level of the shortest way.      *)
(***************************************************************************)
EXTENDS Play, WellFoundedInduction, TLAPS

-----------------------------------------------------------------------------
(* Blocks and fixed point numbers *)

LEMMA IntPart ==
  ASSUME NEW f \in Int
  PROVE  /\ toInt(f) \in Int
         /\ toFixed(toInt(f)) <= f
         /\ f < toFixed(toInt(f) + 1)
BY BoxAssumption DEF toInt, toFixed

LEMMA IntPartIs ==
  ASSUME NEW f \in Int, NEW q \in Int, toFixed(q) <= f, f < toFixed(q + 1)
  PROVE  toInt(f) = q
BY BoxAssumption, IntPart DEF toInt, toFixed

LEMMA IntPartMonotone ==
  ASSUME NEW f \in Int, NEW g \in Int, f <= g
  PROVE  toInt(f) <= toInt(g)
BY BoxAssumption, IntPart DEF toInt, toFixed

LEMMA CellEdges ==
  ASSUME NEW q \in Int
  PROVE  toFixed(q) \in Int /\ toFixed(q + 1) = toFixed(q) + SCALE
BY BoxAssumption DEF toFixed

LEMMA CellsAdd ==
  ASSUME NEW q \in Int, NEW k \in Int
  PROVE  toFixed(q + k) = toFixed(q) + toFixed(k)
BY BoxAssumption DEF toFixed

(* A body set against the side of a cell is all within the cell its middle   *)
(* was in.                                                                 *)
LEMMA AgainstWithin ==
  ASSUME NEW f \in Int, NEW d \in Int
  PROVE  /\ Against(f, d) \in Int
         /\ toInt(Against(f, d) - w) = toInt(f)
         /\ toInt(Against(f, d) + w) = toInt(f)
<1> DEFINE q == toInt(f)
           g == Against(f, d)
<1>1. q \in Int /\ toFixed(q) \in Int /\ toFixed(q + 1) = toFixed(q) + SCALE
  BY IntPart, CellEdges
<1>2. /\ g \in Int
      /\ toFixed(q) <= g - w /\ g - w < toFixed(q + 1)
      /\ toFixed(q) <= g + w /\ g + w < toFixed(q + 1)
  BY <1>1, BoxAssumption DEF Against
<1> QED
  BY <1>1, <1>2, IntPartIs, BoxAssumption

(* Up against the layer above the head: the head stays in its cell.         *)
LEMMA RiseWithin ==
  ASSUME NEW f \in Int
  PROVE  /\ UnderRoof(f) \in Int
         /\ f <= UnderRoof(f)
         /\ toInt(UnderRoof(f) + h) = toInt(f + h)
<1> DEFINE q == toInt(f + h)
           g == toFixed(q + 1) - h - 1
<1>1. f + h \in Int
  BY BoxAssumption
<1>2. /\ q \in Int /\ toFixed(q) \in Int /\ toFixed(q + 1) = toFixed(q) + SCALE
      /\ toFixed(q) <= f + h /\ f + h < toFixed(q + 1)
  BY <1>1, IntPart, CellEdges
<1>3. g \in Int /\ f <= g /\ toFixed(q) <= g + h /\ g + h < toFixed(q + 1)
  BY <1>2, BoxAssumption
<1>4. toInt(g + h) = q
  BY <1>2, <1>3, IntPartIs, BoxAssumption
<1> QED
  BY <1>3, <1>4 DEF UnderRoof

(* Down on the floor of the cell of the feet: the head comes no higher.     *)
LEMMA LandWithin ==
  ASSUME NEW f \in Int
  PROVE  /\ OnFloor(f) \in Int
         /\ toInt(OnFloor(f)) = toInt(f)
         /\ toInt(OnFloor(f) + h) <= toInt(f + h)
<1> DEFINE q == toInt(f)
           g == toFixed(q) + 1
           k == h \div SCALE
           r == h - toFixed(k)
<1>1. /\ q \in Int /\ toFixed(q) \in Int /\ toFixed(q + 1) = toFixed(q) + SCALE
      /\ toFixed(q) <= f /\ f < toFixed(q + 1)
  BY IntPart, CellEdges
<1>2. g \in Int /\ toFixed(q) <= g /\ g < toFixed(q + 1) /\ g <= f + 1
  BY <1>1, BoxAssumption
<1>3. toInt(g) = q
  BY <1>1, <1>2, IntPartIs
<1>4. /\ k \in Int /\ toFixed(k) \in Int
      /\ r \in Int /\ 0 <= r /\ r + 1 < SCALE
  <2>1. h \in Int
    BY BoxAssumption
  <2>2. k = toInt(h)
    BY DEF toInt
  <2> QED
    BY <2>1, <2>2, IntPart, CellEdges, BoxAssumption DEF toFixed
<1>5. /\ toFixed(q + k) = toFixed(q) + toFixed(k)
      /\ q + k \in Int /\ toFixed(q + k) \in Int
      /\ toFixed(q + k + 1) = toFixed(q + k) + SCALE
  <2> HIDE DEF q, k
  <2>1. q \in Int /\ k \in Int /\ q + k \in Int
    BY <1>1, <1>4
  <2> QED
    BY <2>1, CellsAdd, CellEdges
<1>6. toInt(g + h) = q + k
  <2>1. toFixed(q + k) <= g + h /\ g + h < toFixed(q + k + 1)
    BY <1>1, <1>4, <1>5, BoxAssumption
  <2> QED
    BY <2>1, <1>1, <1>2, <1>4, IntPartIs, BoxAssumption
<1>7. q + k <= toInt(f + h)
  <2>1. toFixed(q + k) <= f + h
    BY <1>1, <1>4, <1>5, BoxAssumption DEF toFixed
  <2>2. toInt(toFixed(q + k)) = q + k
    BY <1>1, <1>4, <1>5, IntPartIs, BoxAssumption
  <2> QED
    BY <2>1, <2>2, <1>1, <1>4, <1>5, IntPartMonotone, BoxAssumption
<1> QED
  BY <1>2, <1>3, <1>6, <1>7 DEF OnFloor

-----------------------------------------------------------------------------
(* Moves *)

LEMMA BoxWithin ==
  ASSUME NEW wd, NEW p \in Body, NEW b \in Body,
         ~checkHitAABB(wd, p),
         toInt(p.x - w) <= toInt(b.x - w), toInt(b.x + w) <= toInt(p.x + w),
         toInt(p.y) <= toInt(b.y), toInt(b.y + h) <= toInt(p.y + h),
         toInt(p.z - w) <= toInt(b.z - w), toInt(b.z + w) <= toInt(p.z + w)
  PROVE  ~checkHitAABB(wd, b)
<1>1. /\ toInt(p.x - w) \in Int /\ toInt(p.x + w) \in Int
      /\ toInt(p.y) \in Int /\ toInt(p.y + h) \in Int
      /\ toInt(p.z - w) \in Int /\ toInt(p.z + w) \in Int
      /\ toInt(b.x - w) \in Int /\ toInt(b.x + w) \in Int
      /\ toInt(b.y) \in Int /\ toInt(b.y + h) \in Int
      /\ toInt(b.z - w) \in Int /\ toInt(b.z + w) \in Int
  BY IntPart, BoxAssumption DEF Body
<1>2. /\ toInt(b.x - w) .. toInt(b.x + w) \subseteq toInt(p.x - w) .. toInt(p.x + w)
      /\ toInt(b.y) .. toInt(b.y + h) \subseteq toInt(p.y) .. toInt(p.y + h)
      /\ toInt(b.z - w) .. toInt(b.z + w) \subseteq toInt(p.z - w) .. toInt(p.z + w)
  BY <1>1
<1>3. Box(b) \subseteq Box(p)
  BY <1>2 DEF Box
<1> QED
  BY <1>3 DEF checkHitAABB

LEMMA MiddleBetween ==
  ASSUME NEW f \in Int
  PROVE  toInt(f - w) <= toInt(f) /\ toInt(f) <= toInt(f + w)
BY IntPartMonotone, BoxAssumption

LEMMA BodyWith ==
  ASSUME NEW p \in Body, NEW u \in Int, NEW v \in Int, NEW g \in BOOLEAN
  PROVE  [p EXCEPT !.y = u, !.vy = v, !.onGround = g] \in Body
BY DEF Body

(* Each move of an axis keeps a body free that is free.                     *)
LEMMA MoveXFree ==
  ASSUME NEW wd, NEW p \in Body, NEW d \in Int, ~checkHitAABB(wd, p)
  PROVE  /\ MoveX(wd, p, d) \in Body
         /\ ~checkHitAABB(wd, MoveX(wd, p, d))
         /\ MoveX(wd, p, d).y = p.y
<1> DEFINE g == Against(p.x, d)
           a == [p EXCEPT !.x = g]
           q == [p EXCEPT !.x = @ + d]
<1>1. g \in Int /\ toInt(g - w) = toInt(p.x) /\ toInt(g + w) = toInt(p.x)
  BY AgainstWithin DEF Body
<1>2. /\ a \in Body /\ a.x = g /\ a.y = p.y /\ a.z = p.z
      /\ q \in Body /\ q.y = p.y
  BY <1>1 DEF Body
<1>3. ~checkHitAABB(wd, a)
  <2> HIDE DEF a, g
  <2>1. toInt(p.x - w) <= toInt(a.x - w) /\ toInt(a.x + w) <= toInt(p.x + w)
    BY <1>1, <1>2, MiddleBetween DEF Body
  <2>2. toInt(p.y) <= toInt(a.y) /\ toInt(a.y + h) <= toInt(p.y + h)
    BY <1>2, IntPart, BoxAssumption DEF Body
  <2>3. toInt(p.z - w) <= toInt(a.z - w) /\ toInt(a.z + w) <= toInt(p.z + w)
    BY <1>2, IntPart, BoxAssumption DEF Body
  <2> QED
    BY <1>2, <2>1, <2>2, <2>3, BoxWithin
<1> QED
  BY <1>2, <1>3 DEF MoveX

LEMMA MoveZFree ==
  ASSUME NEW wd, NEW p \in Body, NEW d \in Int, ~checkHitAABB(wd, p)
  PROVE  /\ MoveZ(wd, p, d) \in Body
         /\ ~checkHitAABB(wd, MoveZ(wd, p, d))
         /\ MoveZ(wd, p, d).y = p.y
<1> DEFINE g == Against(p.z, d)
           a == [p EXCEPT !.z = g]
           q == [p EXCEPT !.z = @ + d]
<1>1. g \in Int /\ toInt(g - w) = toInt(p.z) /\ toInt(g + w) = toInt(p.z)
  BY AgainstWithin DEF Body
<1>2. /\ a \in Body /\ a.z = g /\ a.y = p.y /\ a.x = p.x
      /\ q \in Body /\ q.y = p.y
  BY <1>1 DEF Body
<1>3. ~checkHitAABB(wd, a)
  <2> HIDE DEF a, g
  <2>1. toInt(p.z - w) <= toInt(a.z - w) /\ toInt(a.z + w) <= toInt(p.z + w)
    BY <1>1, <1>2, MiddleBetween DEF Body
  <2>2. toInt(p.y) <= toInt(a.y) /\ toInt(a.y + h) <= toInt(p.y + h)
    BY <1>2, IntPart, BoxAssumption DEF Body
  <2>3. toInt(p.x - w) <= toInt(a.x - w) /\ toInt(a.x + w) <= toInt(p.x + w)
    BY <1>2, IntPart, BoxAssumption DEF Body
  <2> QED
    BY <1>2, <2>1, <2>2, <2>3, BoxWithin
<1> QED
  BY <1>2, <1>3 DEF MoveZ

LEMMA MoveYFree ==
  ASSUME NEW wd, NEW p \in Body, NEW d \in Int, ~checkHitAABB(wd, p)
  PROVE  MoveY(wd, p, d) \in Body /\ ~checkHitAABB(wd, MoveY(wd, p, d))
<1> DEFINE q == [p EXCEPT !.y = @ + d, !.onGround = FALSE]
           r == Rise(p)
           l == Land(p)
<1>1. p.x \in Int /\ p.y \in Int /\ p.z \in Int
  BY DEF Body
<1>2. /\ toInt(p.x - w) \in Int /\ toInt(p.x + w) \in Int
      /\ toInt(p.y) \in Int /\ toInt(p.y + h) \in Int
      /\ toInt(p.z - w) \in Int /\ toInt(p.z + w) \in Int
  BY <1>1, IntPart, BoxAssumption
<1>3. q \in Body
  <2>1. p.y + d \in Int
    BY <1>1
  <2> QED
    BY <2>1 DEF Body
<1>4. r \in Body /\ ~checkHitAABB(wd, r)
  <2>1. /\ UnderRoof(p.y) \in Int /\ p.y <= UnderRoof(p.y)
        /\ toInt(UnderRoof(p.y) + h) = toInt(p.y + h)
    BY <1>1, RiseWithin
  <2>2. r \in Body /\ r.y = UnderRoof(p.y) /\ r.x = p.x /\ r.z = p.z
    <3>1. r.y = UnderRoof(p.y)
      BY <1>1, <2>1 DEF Rise, Body
    <3>2. r.x = p.x /\ r.z = p.z
      BY <1>1, <2>1 DEF Rise, Body
    <3>3. r \in Body
      <4>1. 0 \in Int /\ FALSE \in BOOLEAN
        OBVIOUS
      <4>2. [p EXCEPT !.y = UnderRoof(p.y), !.vy = 0, !.onGround = FALSE] \in Body
        BY <2>1, <4>1, BodyWith, Zenon
      <4> QED
        BY <4>2, Zenon DEF Rise
    <3> QED
      BY <3>1, <3>2, <3>3
  <2> HIDE DEF r
  <2>3. toInt(p.y) <= toInt(r.y) /\ toInt(r.y + h) <= toInt(p.y + h)
    BY <1>1, <1>2, <2>1, <2>2, IntPartMonotone
  <2>4. /\ toInt(p.x - w) <= toInt(r.x - w) /\ toInt(r.x + w) <= toInt(p.x + w)
        /\ toInt(p.z - w) <= toInt(r.z - w) /\ toInt(r.z + w) <= toInt(p.z + w)
    BY <1>2, <2>2
  <2> QED
    BY <2>2, <2>3, <2>4, BoxWithin
<1>5. l \in Body /\ ~checkHitAABB(wd, l)
  <2>1. /\ OnFloor(p.y) \in Int /\ toInt(OnFloor(p.y)) = toInt(p.y)
        /\ toInt(OnFloor(p.y) + h) <= toInt(p.y + h)
    BY <1>1, LandWithin
  <2>2. l \in Body /\ l.y = OnFloor(p.y) /\ l.x = p.x /\ l.z = p.z
    <3>1. l.y = OnFloor(p.y)
      BY <1>1, <2>1 DEF Land, Body
    <3>2. l.x = p.x /\ l.z = p.z
      BY <1>1, <2>1 DEF Land, Body
    <3>3. l \in Body
      <4>1. 0 \in Int /\ TRUE \in BOOLEAN
        OBVIOUS
      <4>2. [p EXCEPT !.y = OnFloor(p.y), !.vy = 0, !.onGround = TRUE] \in Body
        BY <2>1, <4>1, BodyWith, Zenon
      <4> QED
        BY <4>2, Zenon DEF Land
    <3> QED
      BY <3>1, <3>2, <3>3
  <2> HIDE DEF l
  <2>3. toInt(p.y) <= toInt(l.y) /\ toInt(l.y + h) <= toInt(p.y + h)
    BY <1>2, <2>1, <2>2
  <2>4. /\ toInt(p.x - w) <= toInt(l.x - w) /\ toInt(l.x + w) <= toInt(p.x + w)
        /\ toInt(p.z - w) <= toInt(l.z - w) /\ toInt(l.z + w) <= toInt(p.z + w)
    BY <1>2, <2>2
  <2> QED
    BY <2>2, <2>3, <2>4, BoxWithin
<1> QED
  BY <1>3, <1>4, <1>5 DEF MoveY

LEMMA SpeedBound ==
  ASSUME NEW wd, NEW p \in Body, NEW jump
  PROVE  Speed(wd, p, jump) \in Int /\ -TERMINAL_VELOCITY <= Speed(wd, p, jump)
<1> DEFINE wet == isUnderwater(wd, p)
           v   == CASE jump /\ wet                -> JUMP_VELOCITY_WATER
                    [] jump /\ ~wet /\ p.onGround -> JUMP_VELOCITY
                    [] OTHER                      -> p.vy
           t   == IF wet THEN TERMINAL_VELOCITY_WATER ELSE TERMINAL_VELOCITY
<1>1. v \in Int
  <2>1. p.vy \in Int /\ JUMP_VELOCITY \in Int /\ JUMP_VELOCITY_WATER \in Int
    BY SpeedAssumption DEF Body
  <2> HIDE DEF wet
  <2> QED
    BY <2>1
<1>2. t \in Int /\ t <= TERMINAL_VELOCITY
  BY SpeedAssumption, FallAssumption
<1>3. Speed(wd, p, jump) = AtLeast(v - GRAVITY, -t)
  BY DEF Speed, Fall
<1> HIDE DEF v, t
<1> QED
  BY <1>1, <1>2, <1>3, SpeedAssumption DEF AtLeast

LEMMA MoveFree ==
  ASSUME NEW wd, NEW p \in Body, NEW step \in Int \X Int, NEW jump, NEW moved,
         ~checkHitAABB(wd, p), updatePlayerLogic(wd, p, step, jump, moved)
  PROVE  moved \in Body /\ ~checkHitAABB(wd, moved)
<1> DEFINE v == Speed(wd, p, jump)
           a == [p EXCEPT !.vy = v]
           b == MoveX(wd, a, step[1])
           c == MoveY(wd, b, a.vy)
<1>1. moved = MoveZ(wd, c, step[2])
  BY DEF updatePlayerLogic
<1>2. a \in Body /\ a.vy \in Int /\ a.x = p.x /\ a.y = p.y /\ a.z = p.z
  BY SpeedBound DEF Body
<1>3. ~checkHitAABB(wd, a)
  BY <1>2 DEF checkHitAABB, Box
<1>4. step[1] \in Int /\ step[2] \in Int
  OBVIOUS
<1> HIDE DEF a
<1>5. b \in Body /\ ~checkHitAABB(wd, b)
  BY <1>2, <1>3, <1>4, MoveXFree
<1> HIDE DEF b
<1>6. c \in Body /\ ~checkHitAABB(wd, c)
  BY <1>2, <1>5, MoveYFree
<1> HIDE DEF c
<1> QED
  BY <1>1, <1>4, <1>6, MoveZFree

(* A free body whose feet are not above two solid layers is below them.      *)
LEMMA LayersSolid ==
  ASSUME NEW n \in 0 .. WORLD_Y - 2, Floor(n),
         NEW c \in Int \X Int \X Int, c[2] \in {n, n + 1}
  PROVE  Solid(world, c)
<1>1. CASE c \in Cell
  BY <1>1 DEF Floor
<1>2. CASE c \notin Cell
  <2>1. ~AboveMap(c)
    BY WorldAssumption DEF AboveMap
  <2> QED
    BY <1>2, <2>1 DEF Solid, getBlock, isSolid, Water, Flowing, SOURCE, AIR, BEDROCK
<1> QED
  BY <1>1, <1>2

LEMMA FreeAbove ==
  ASSUME NEW n \in 0 .. WORLD_Y - 2, Floor(n), NEW q \in Body,
         ~checkHitAABB(world, q), toFixed(n) <= q.y + h
  PROVE  toFixed(n + 2) <= q.y
<1>1. /\ q.x \in Int /\ q.y \in Int /\ q.z \in Int
      /\ n \in Int /\ n + 1 \in Int /\ n + 2 \in Int /\ q.y + h \in Int
  BY WorldAssumption, BoxAssumption DEF Body
<1>2. /\ toInt(q.x) \in Int /\ toInt(q.y) \in Int /\ toInt(q.z) \in Int
      /\ toInt(q.x - w) \in Int /\ toInt(q.x + w) \in Int
      /\ toInt(q.z - w) \in Int /\ toInt(q.z + w) \in Int
      /\ toInt(q.y + h) \in Int
  BY <1>1, IntPart, BoxAssumption
<1>3. /\ toInt(q.x - w) <= toInt(q.x) /\ toInt(q.x) <= toInt(q.x + w)
      /\ toInt(q.z - w) <= toInt(q.z) /\ toInt(q.z) <= toInt(q.z + w)
  BY <1>1, MiddleBetween
<1>4. toInt(q.y) <= toInt(q.y + h)
  BY <1>1, IntPartMonotone, BoxAssumption
<1> SUFFICES ASSUME q.y < toFixed(n + 2) PROVE FALSE
  BY <1>1, CellEdges
<1>5. n <= toInt(q.y + h)
  <2>1. toFixed(n) \in Int /\ toFixed(n) < toFixed(n + 1)
    BY <1>1, CellEdges, BoxAssumption
  <2>2. toInt(toFixed(n)) = n
    BY <1>1, <2>1, IntPartIs
  <2>3. toInt(toFixed(n)) <= toInt(q.y + h)
    BY <1>1, <2>1, IntPartMonotone
  <2> QED
    BY <2>2, <2>3
<1>6. toInt(q.y) <= n + 1
  <2>1. toFixed(toInt(q.y)) <= q.y
    BY <1>1, IntPart
  <2>2. toFixed(toInt(q.y)) < toFixed(n + 2)
    BY <1>1, <1>2, <2>1, CellEdges
  <2> QED
    BY <1>1, <1>2, <2>2, BoxAssumption DEF toFixed
<1>7. PICK k \in {n, n + 1} : k \in toInt(q.y) .. toInt(q.y + h)
  <2>1. CASE toInt(q.y) <= n
    BY <1>1, <1>2, <1>5, <2>1
  <2>2. CASE toInt(q.y) = n + 1
    BY <1>1, <1>2, <1>4, <2>2
  <2> QED
    BY <1>1, <1>2, <1>6, <2>1, <2>2
<1> DEFINE c == <<toInt(q.x), k, toInt(q.z)>>
<1>8. c \in Box(q)
  BY <1>1, <1>2, <1>3, <1>7 DEF Box
<1>9. Solid(world, c)
  BY <1>1, <1>2, <1>7, LayersSolid
<1> QED
  BY <1>8, <1>9 DEF checkHitAABB

LEMMA FloorHolds ==
  ASSUME NEW p \in Body, NEW step \in Int \X Int, NEW jump, NEW moved,
         ~checkHitAABB(world, p), updatePlayerLogic(world, p, step, jump, moved),
         NEW n \in 0 .. WORLD_Y - 2, Floor(n), toFixed(n + 2) <= p.y
  PROVE  toFixed(n + 2) <= moved.y
<1> DEFINE v == Speed(world, p, jump)
           a == [p EXCEPT !.vy = v]
           b == MoveX(world, a, step[1])
           q == [b EXCEPT !.y = @ + v, !.onGround = FALSE]
           c == MoveY(world, b, v)
<1>1. moved = MoveZ(world, c, step[2])
  BY DEF updatePlayerLogic, Body
<1>2. a \in Body /\ v \in Int /\ a.x = p.x /\ a.y = p.y /\ a.z = p.z
  BY SpeedBound DEF Body
<1>3. ~checkHitAABB(world, a)
  BY <1>2 DEF checkHitAABB, Box
<1>4. step[1] \in Int /\ step[2] \in Int
  OBVIOUS
<1>5. -TERMINAL_VELOCITY <= v
  BY SpeedBound
<1> HIDE DEF a, v
<1>6. b \in Body /\ ~checkHitAABB(world, b) /\ b.y = p.y
  BY <1>2, <1>3, <1>4, MoveXFree
<1>7. b.y \in Int /\ toFixed(n + 2) <= b.y /\ n + 2 \in Int
  BY <1>6, WorldAssumption DEF Body
<1> HIDE DEF b
<1>8. c \in Body /\ ~checkHitAABB(world, c)
  BY <1>2, <1>6, MoveYFree
<1>9. toFixed(n + 2) <= c.y
  <2>1. CASE c = q
    <3>1. c.y = b.y + v
      BY <1>6, <1>7, <1>2, <2>1 DEF Body
    <3>2. toFixed(n + 2) = toFixed(n) + 2 * SCALE /\ toFixed(n) \in Int
      BY BoxAssumption, WorldAssumption DEF toFixed
    <3>3. toFixed(n) <= c.y + h
      <4> HIDE DEF c
      <4> QED
        BY <1>2, <1>5, <1>7, <3>1, <3>2, FallAssumption, SpeedAssumption, BoxAssumption
    <3> HIDE DEF c
    <3> QED
      BY <1>8, <3>3, FreeAbove
  <2>2. CASE c = Rise(b)
    <3>1. c.y = UnderRoof(b.y) /\ UnderRoof(b.y) \in Int /\ b.y <= UnderRoof(b.y)
      BY <1>6, <1>7, <2>2, RiseWithin DEF Rise, Body
    <3> HIDE DEF c
    <3> QED
      BY <1>7, <3>1, CellEdges
  <2>3. CASE c = Land(b)
    <3>1. c.y = OnFloor(b.y)
      BY <1>6, <1>7, <2>3 DEF Land, Body
    <3>2. n + 2 <= toInt(b.y)
      <4>1. toFixed(n + 2) \in Int /\ toFixed(n + 2) < toFixed((n + 2) + 1)
        BY <1>7, CellEdges, BoxAssumption
      <4>2. toInt(toFixed(n + 2)) = n + 2
        BY <1>7, <4>1, IntPartIs
      <4>3. toInt(toFixed(n + 2)) <= toInt(b.y)
        BY <1>7, <4>1, IntPartMonotone
      <4> QED
        BY <4>2, <4>3
    <3>3. toFixed(n + 2) <= toFixed(toInt(b.y)) /\ toFixed(toInt(b.y)) \in Int
      <4>1. toInt(b.y) \in Int
        BY <1>7, IntPart
      <4> QED
        BY <1>7, <3>2, <4>1, BoxAssumption DEF toFixed
    <3> HIDE DEF c
    <3> QED
      BY <1>7, <3>1, <3>3, CellEdges DEF OnFloor
  <2> QED
    BY <2>1, <2>2, <2>3 DEF MoveY
<1> HIDE DEF c
<1> QED
  BY <1>1, <1>4, <1>8, <1>9, MoveZFree

-----------------------------------------------------------------------------
(* Jumps.  A body in flight loses GRAVITY of its speed on every tick, and then *)
(* moves by its speed: 8 * GRAVITY times its height and the square of twice   *)
(* its speed less GRAVITY (on the way down less the square of GRAVITY) add    *)
(* up to the same on every tick, or to less when the speed is at its limit.   *)
(* A body that was put into the middle of a fall has more, and only goes      *)
(* down.                                                                   *)

Square(n) == n * n
Power(v)  == IF v > 0 THEN Square(2 * v - GRAVITY) ELSE 4 * (v * (v - GRAVITY))
Ballistic(d, v) ==
  \/ 8 * GRAVITY * d + Power(v) <= JumpReach
  \/ v <= 0 /\ d <= 0

LEMMA ProductMonotone ==
  ASSUME NEW m \in Nat, NEW n \in Nat, NEW k \in Nat, NEW l \in Nat, m <= k, n <= l
  PROVE  m * n <= k * l
<1>1. m * n \in Nat /\ k * n \in Nat /\ k * l \in Nat
  OBVIOUS
<1>2. m * n <= k * n
  <2>1. (k - m) \in Nat /\ (k - m) * n \in Nat /\ (k - m) * n = k * n - m * n
    OBVIOUS
  <2> QED
    BY <1>1, <2>1
<1>3. k * n <= k * l
  <2>1. (l - n) \in Nat /\ k * (l - n) \in Nat /\ k * (l - n) = k * l - k * n
    OBVIOUS
  <2> QED
    BY <1>1, <2>1
<1> QED
  BY <1>1, <1>2, <1>3

(* The constants, as they are used below. *)
LEMMA Numbers ==
  /\ GRAVITY \in Nat \ {0} /\ SCALE \in Nat \ {0} /\ JUMP_VELOCITY \in Nat \ {0}
  /\ GRAVITY <= JUMP_VELOCITY /\ GRAVITY <= SCALE
  /\ JumpReach = Square(2 * JUMP_VELOCITY - GRAVITY) + 8 * GRAVITY
  /\ Square(2 * JUMP_VELOCITY - GRAVITY) \in Nat /\ JumpReach \in Nat
<1>1. /\ GRAVITY \in Nat \ {0} /\ SCALE \in Nat \ {0} /\ JUMP_VELOCITY \in Nat \ {0}
      /\ GRAVITY <= JUMP_VELOCITY /\ GRAVITY <= SCALE
  BY BoxAssumption, SpeedAssumption, JumpAssumption
<1>2. JumpReach = Square(2 * JUMP_VELOCITY - GRAVITY) + 8 * GRAVITY
  BY DEF JumpReach, Square
<1>3. Square(2 * JUMP_VELOCITY - GRAVITY) \in Nat
  <2>1. 2 * JUMP_VELOCITY - GRAVITY \in Nat
    BY <1>1
  <2>2. \A n \in Nat : n * n \in Nat
    OBVIOUS
  <2> QED
    BY <2>1, <2>2 DEF Square
<1> QED
  BY <1>1, <1>2, <1>3

LEMMA PowerBounds ==
  ASSUME NEW v \in Int, v <= JUMP_VELOCITY
  PROVE  /\ Power(v) \in Nat
         /\ v = 0 => Power(v) = 0
         /\ v > 0 => 8 * GRAVITY + Power(v) <= JumpReach
<1>1. CASE v <= 0
  <2>1. -v \in Nat /\ GRAVITY - v \in Nat
    BY <1>1, Numbers
  <2>2. \A a \in Nat, b \in Nat : a * b \in Nat
    OBVIOUS
  <2>3. v * (v - GRAVITY) = (-v) * (GRAVITY - v)
    BY Numbers
  <2>4. (-v) * (GRAVITY - v) \in Nat
    BY <2>1, <2>2
  <2>5. v = 0 => (-v) * (GRAVITY - v) = 0
    BY Numbers
  <2> QED
    BY <1>1, <2>3, <2>4, <2>5 DEF Power
<1>2. CASE v > 0
  <2> DEFINE m == IF 2 * v >= GRAVITY THEN 2 * v - GRAVITY ELSE GRAVITY - 2 * v
             n == 2 * JUMP_VELOCITY - GRAVITY
  <2>1. m \in Nat /\ n \in Nat /\ m <= n
    BY <1>2, Numbers
  <2>2. Square(2 * v - GRAVITY) = m * m
    <3>1. \A a \in Int : (-a) * (-a) = a * a
      OBVIOUS
    <3>2. 2 * v - GRAVITY \in Int /\ GRAVITY - 2 * v = -(2 * v - GRAVITY)
      BY Numbers
    <3>3. (GRAVITY - 2 * v) * (GRAVITY - 2 * v) = (2 * v - GRAVITY) * (2 * v - GRAVITY)
      BY <3>1, <3>2
    <3> QED
      BY <3>3 DEF Square
  <2> HIDE DEF m
  <2>3. m * m \in Nat /\ m * m <= n * n
    <3> HIDE DEF n
    <3>1. \A a \in Nat : a * a \in Nat
      OBVIOUS
    <3> QED
      BY <2>1, <3>1, ProductMonotone
  <2>4. 8 * GRAVITY + m * m <= JumpReach
    BY <2>3, Numbers DEF Square
  <2> QED
    BY <1>2, <2>2, <2>3, <2>4 DEF Power
<1> QED
  BY <1>1, <1>2

(* No height above the base is more than 1.5 blocks. *)
LEMMA Highest ==
  ASSUME NEW d \in Int, NEW v \in Int, v <= JUMP_VELOCITY, Ballistic(d, v)
  PROVE  2 * d <= 3 * SCALE
<1>1. CASE d <= 0
  BY <1>1, Numbers
<1>2. CASE d > 0
  <2> DEFINE e == 3 * SCALE - 2 * d
             g == 4 * GRAVITY
  <2>1. e \in Int /\ g \in Nat \ {0}
    BY Numbers
  <2>2. g * e >= 0
    <3>1. 8 * GRAVITY * d <= JumpReach /\ 8 * GRAVITY * d \in Int
      BY <1>2, Numbers, PowerBounds DEF Ballistic
    <3>2. g * e = 12 * GRAVITY * SCALE - 8 * GRAVITY * d
      BY Numbers
    <3>3. JumpReach <= 12 * GRAVITY * SCALE /\ 12 * GRAVITY * SCALE \in Int
      BY JumpAssumption, Numbers
    <3> HIDE DEF g, e
    <3> QED
      BY <3>1, <3>2, <3>3, Numbers
  <2>3. e >= 0
    <3> HIDE DEF e, g
    <3>1. ASSUME e < 0 PROVE FALSE
      <4>1. -e \in Nat \ {0} /\ g * (-e) > 0
        BY <2>1, <3>1
      <4>2. g * (-e) = -(g * e) /\ g * e \in Int
        BY <2>1
      <4> QED
        BY <2>2, <4>1, <4>2
    <3> QED
      BY <2>1, <3>1
  <2> QED
    BY <2>3, Numbers
<1> QED
  BY <1>1, <1>2

(* A body at its base or a unit above it, no faster than a jump, and falling   *)
(* only from the base.                                                     *)
LEMMA Launched ==
  ASSUME NEW d \in Int, d <= 1, NEW v \in Int, v <= JUMP_VELOCITY, d <= 0 \/ v >= 0
  PROVE  Ballistic(d, v)
<1>1. 8 * GRAVITY * d <= 8 * GRAVITY /\ 8 * GRAVITY * d \in Int
  <2>1. GRAVITY * (1 - d) >= 0 /\ GRAVITY * (1 - d) = GRAVITY - GRAVITY * d
        /\ GRAVITY * d \in Int
    <3>1. \A a \in Nat, b \in Nat : a * b >= 0
      OBVIOUS
    <3>2. 1 - d \in Nat
      OBVIOUS
    <3> QED
      BY <3>1, <3>2, Numbers
  <2>2. 8 * GRAVITY * d = 8 * (GRAVITY * d)
    BY Numbers
  <2> QED
    BY <2>1, <2>2, Numbers
<1>2. CASE v > 0
  BY <1>1, <1>2, PowerBounds, Numbers DEF Ballistic
<1>3. CASE v = 0
  BY <1>1, <1>3, PowerBounds, Numbers DEF Ballistic
<1>4. CASE v < 0
  BY <1>4 DEF Ballistic
<1> QED
  BY <1>2, <1>3, <1>4

(* A tick of flight. *)
LEMMA Flight ==
  ASSUME NEW d \in Int, NEW v \in Int, NEW t \in Nat, v <= JUMP_VELOCITY,
         Ballistic(d, v)
  PROVE  Ballistic(d + AtLeast(v - GRAVITY, -t), AtLeast(v - GRAVITY, -t))
<1> DEFINE u == AtLeast(v - GRAVITY, -t)
<1>1. /\ u \in Int /\ d + u \in Int /\ v - GRAVITY <= u
      /\ u > 0 => u = v - GRAVITY
      /\ v <= 0 => u <= 0
  BY Numbers DEF AtLeast
<1> HIDE DEF u
<1>2. CASE v <= 0 /\ d <= 0
  <2>1. u <= 0 /\ d + u <= 0
    BY <1>1, <1>2
  <2>2. Ballistic(d + u, u)
    BY <2>1 DEF Ballistic
  <2> QED
    BY <2>2 DEF u
<1>3. CASE 8 * GRAVITY * d + Power(v) <= JumpReach /\ u > 0
  <2>1. u = v - GRAVITY /\ v > 0
    BY <1>1, <1>3, Numbers
  <2>2. 8 * GRAVITY * (d + u) + Square(2 * u - GRAVITY)
          = 8 * GRAVITY * d + Square(2 * v - GRAVITY)
    <3>1. \A g \in Int, x \in Int, y \in Int :
            8 * g * (x + (y - g)) + (2 * (y - g) - g) * (2 * (y - g) - g)
              = 8 * g * x + (2 * y - g) * (2 * y - g)
      OBVIOUS
    <3>2. GRAVITY \in Int
      BY Numbers
    <3> QED
      BY <2>1, <3>1, <3>2 DEF Square
  <2>3. Ballistic(d + u, u)
    BY <1>3, <2>1, <2>2 DEF Ballistic, Power
  <2> QED
    BY <2>3 DEF u
<1>4. CASE 8 * GRAVITY * d + Power(v) <= JumpReach /\ ~(u > 0)
  <2>1. 8 * GRAVITY * (d + u) + Power(u) = 8 * GRAVITY * d + 4 * (u * (u + GRAVITY))
    <3>1. \A g \in Int, x \in Int, y \in Int :
            8 * g * (x + y) + 4 * (y * (y - g)) = 8 * g * x + 4 * (y * (y + g))
      OBVIOUS
    <3> QED
      BY <1>1, <1>4, <3>1, Numbers DEF Power
  <2>2. /\ u * (u + GRAVITY) \in Int /\ 8 * GRAVITY * d \in Int
        /\ Power(v) \in Nat
    BY <1>1, Numbers, PowerBounds
  <2>3. ASSUME u + GRAVITY >= 0 PROVE u * (u + GRAVITY) <= 0
    <3>1. \A a \in Nat, b \in Nat : (-a) * b <= 0
      OBVIOUS
    <3>2. -u \in Nat /\ u + GRAVITY \in Nat /\ u = -(-u)
      BY <1>1, <1>4, <2>3, Numbers
    <3> QED
      BY <3>1, <3>2
  <2>4. 4 * (u * (u + GRAVITY)) <= Power(v)
    <3>1. CASE u + GRAVITY >= 0
      BY <2>2, <2>3, <3>1
    <3>2. CASE u + GRAVITY < 0
      <4>1. v <= 0
        BY <1>1, <3>2, Numbers
      <4>2. /\ -u \in Nat /\ -(u + GRAVITY) \in Nat
            /\ GRAVITY - v \in Nat /\ -v \in Nat
            /\ -u <= GRAVITY - v /\ -(u + GRAVITY) <= -v
        BY <1>1, <1>4, <3>2, <4>1, Numbers
      <4>3. (-u) * (-(u + GRAVITY)) <= (GRAVITY - v) * (-v)
        BY <4>2, ProductMonotone
      <4>4. \A g \in Int, x \in Int, y \in Int :
              /\ (-x) * (-(x + g)) = x * (x + g)
              /\ (g - y) * (-y) = y * (y - g)
        OBVIOUS
      <4>5. u * (u + GRAVITY) <= v * (v - GRAVITY) /\ v * (v - GRAVITY) \in Int
        BY <1>1, <4>3, <4>4, Numbers
      <4> QED
        BY <2>2, <4>1, <4>5 DEF Power
    <3> QED
      BY <1>1, <3>1, <3>2, Numbers
  <2>5. Ballistic(d + u, u)
    BY <1>4, <2>1, <2>2, <2>4, Numbers DEF Ballistic
  <2> QED
    BY <2>5 DEF u
<1> QED
  BY <1>2, <1>3, <1>4 DEF Ballistic

(* A body that falls more than a block in a tick has come below its base: it  *)
(* is faster than any jump makes it on the way back.                        *)
LEMMA FastFall ==
  ASSUME NEW d \in Int, NEW v \in Int, NEW t \in Nat, v <= JUMP_VELOCITY,
         Ballistic(d, v), AtLeast(v - GRAVITY, -t) < -SCALE
  PROVE  d <= 0
<1>1. v <= GRAVITY - SCALE - 1
  BY Numbers DEF AtLeast
<1>2. CASE v <= 0 /\ d <= 0
  BY <1>2
<1>3. CASE 8 * GRAVITY * d + Power(v) <= JumpReach
  <2>1. /\ GRAVITY - v \in Nat /\ -v \in Nat /\ v <= 0
        /\ SCALE <= GRAVITY - v /\ SCALE - GRAVITY \in Nat /\ SCALE - GRAVITY <= -v
    BY <1>1, Numbers
  <2>2. SCALE * (SCALE - GRAVITY) <= (GRAVITY - v) * (-v)
    BY <2>1, Numbers, ProductMonotone
  <2>3. (GRAVITY - v) * (-v) = v * (v - GRAVITY) /\ v * (v - GRAVITY) \in Int
    BY Numbers
  <2>4. JumpReach <= 4 * (SCALE * (SCALE - GRAVITY))
    <3>1. 4 * SCALE * (SCALE - GRAVITY) = 4 * (SCALE * (SCALE - GRAVITY))
      BY Numbers
    <3> QED
      BY <3>1, JumpAssumption
  <2>5. SCALE * (SCALE - GRAVITY) \in Int
    BY Numbers
  <2>6. JumpReach <= Power(v) /\ Power(v) \in Int
    BY <2>1, <2>2, <2>3, <2>4, <2>5, Numbers DEF Power
  <2>7. 8 * GRAVITY * d <= 0
    BY <1>3, <2>6, Numbers
  <2>8. ASSUME d > 0 PROVE FALSE
    <3>1. \A a \in Nat \ {0}, b \in Nat \ {0} : a * b > 0
      OBVIOUS
    <3>2. 8 * GRAVITY \in Nat \ {0} /\ d \in Nat \ {0}
      BY <2>8, Numbers
    <3> QED
      BY <2>7, <3>1, <3>2
  <2> QED
    BY <2>8
<1> QED
  BY <1>2, <1>3 DEF Ballistic

(* A fall of a block at the most that touches something is ended on it: what  *)
(* was touched is in the layer under the feet.                              *)
LEMMA LandsOnBlock ==
  ASSUME NEW wd, NEW p \in Body, NEW d \in Int, d <= 0, -SCALE <= d,
         ~checkHitAABB(wd, p),
         checkHitAABB(wd, [p EXCEPT !.y = @ + d, !.onGround = FALSE])
  PROVE  OnBlock(wd, Land(p))
<1> DEFINE q == [p EXCEPT !.y = @ + d, !.onGround = FALSE]
           l == Land(p)
<1>1. p.x \in Int /\ p.y \in Int /\ p.z \in Int /\ h \in Nat
  BY BoxAssumption DEF Body
<1>2. q.x = p.x /\ q.y = p.y + d /\ q.z = p.z /\ p.y + d \in Int
  BY <1>1 DEF Body
<1>3. l.x = p.x /\ l.y = OnFloor(p.y) /\ l.z = p.z
  BY DEF Land, Body
<1>4. PICK c \in Box(q) : Solid(wd, c)
  BY DEF checkHitAABB
<1> HIDE DEF q, l
<1>5. /\ toInt(p.y) \in Int /\ toInt(q.y) \in Int
      /\ toInt(p.y + h) \in Int /\ toInt(q.y + h) \in Int
      /\ toInt(q.y + h) <= toInt(p.y + h)
      /\ toInt(p.y) - 1 <= toInt(q.y)
  <2>1. /\ toInt(p.y) \in Int /\ toInt(q.y) \in Int
        /\ toInt(p.y + h) \in Int /\ toInt(q.y + h) \in Int
        /\ toInt(q.y + h) <= toInt(p.y + h)
    BY <1>1, <1>2, IntPart, IntPartMonotone
  <2>2. toInt(p.y - SCALE) <= toInt(q.y)
    BY <1>1, <1>2, IntPartMonotone, BoxAssumption
  <2>3. toInt(p.y - SCALE) = toInt(p.y) - 1
    <3>1. /\ toInt(p.y) - 1 \in Int
          /\ toFixed(toInt(p.y) - 1) = toFixed(toInt(p.y)) - SCALE
          /\ toFixed(toInt(p.y) - 1 + 1) = toFixed(toInt(p.y))
      BY <2>1, BoxAssumption DEF toFixed
    <3>2. /\ toFixed(toInt(p.y)) <= p.y /\ p.y < toFixed(toInt(p.y)) + SCALE
          /\ toFixed(toInt(p.y)) \in Int
      BY <1>1, <2>1, IntPart, CellEdges
    <3>3. p.y - SCALE \in Int
      BY <1>1, BoxAssumption
    <3> QED
      BY <1>1, <3>1, <3>2, <3>3, IntPartIs, BoxAssumption
  <2> QED
    BY <2>1, <2>2, <2>3
<1>6. /\ c \in Int \X Int \X Int
      /\ c[1] \in toInt(p.x - w) .. toInt(p.x + w)
      /\ c[3] \in toInt(p.z - w) .. toInt(p.z + w)
      /\ toInt(q.y) <= c[2] /\ c[2] <= toInt(q.y + h) /\ c[2] \in Int
  <2>1. /\ toInt(p.x - w) \in Int /\ toInt(p.x + w) \in Int
        /\ toInt(p.z - w) \in Int /\ toInt(p.z + w) \in Int
    BY <1>1, IntPart, BoxAssumption
  <2> QED
    BY <1>2, <1>4, <1>5, <2>1 DEF Box
<1>7. c[2] = toInt(p.y) - 1
  <2>1. ASSUME toInt(p.y) <= c[2] PROVE FALSE
    <3>1. c \in Box(p)
      BY <1>5, <1>6, <2>1 DEF Box
    <3> QED
      BY <1>4, <3>1 DEF checkHitAABB
  <2> QED
    BY <1>5, <1>6, <2>1
<1> DEFINE e == <<c[1], toInt(p.y), c[3]>>
<1>8. Below(e) = c
  <2>1. e \in Int \X Int \X Int /\ e[1] = c[1] /\ e[2] = toInt(p.y) /\ e[3] = c[3]
    BY <1>5, <1>6
  <2> HIDE DEF e
  <2>2. [e EXCEPT ![2] = @ + -1] = <<c[1], toInt(p.y) - 1, c[3]>>
    BY <1>5, <2>1
  <2>3. c = <<c[1], c[2], c[3]>>
    BY <1>6
  <2> QED
    BY <1>7, <2>2, <2>3 DEF Below, Beside
<1>9. e \in Box(l) /\ e[2] = toInt(l.y)
  <2>1. /\ toInt(l.y) = toInt(p.y)
        /\ OnFloor(p.y) \in Int
    BY <1>1, <1>3, LandWithin
  <2>2. toInt(l.y) <= toInt(l.y + h) /\ toInt(l.y + h) \in Int
    BY <1>1, <1>3, <2>1, IntPart, IntPartMonotone
  <2> QED
    BY <1>3, <1>5, <1>6, <2>1, <2>2 DEF Box
<1> QED
  BY <1>4, <1>8, <1>9 DEF OnBlock, l

(* Being set on the floor of its cell raises a body by a unit at the most.    *)
LEMMA FloorNear ==
  ASSUME NEW f \in Int
  PROVE  OnFloor(f) \in Int /\ OnFloor(f) <= f + 1
BY IntPart, CellEdges DEF OnFloor

(* A rise that is stopped under a roof goes no further than it would have.    *)
LEMMA RiseNoHigher ==
  ASSUME NEW wd, NEW p \in Body, NEW d \in Int, d > 0, ~checkHitAABB(wd, p),
         checkHitAABB(wd, [p EXCEPT !.y = @ + d, !.onGround = FALSE])
  PROVE  UnderRoof(p.y) <= p.y + d
<1> DEFINE q == [p EXCEPT !.y = @ + d, !.onGround = FALSE]
<1>1. p.x \in Int /\ p.y \in Int /\ p.z \in Int /\ h \in Nat /\ w \in Nat
  BY BoxAssumption DEF Body
<1>2. q \in Body /\ q.x = p.x /\ q.y = p.y + d /\ q.z = p.z
  <2>1. p.y + d \in Int
    BY <1>1
  <2> QED
    BY <2>1 DEF Body
<1> HIDE DEF q
<1>3. /\ toInt(p.y + h) \in Int /\ toInt(q.y + h) \in Int
      /\ toInt(p.y) <= toInt(q.y)
      /\ toFixed(toInt(q.y + h)) <= q.y + h
      /\ toInt(p.x - w) \in Int /\ toInt(p.x + w) \in Int
      /\ toInt(p.z - w) \in Int /\ toInt(p.z + w) \in Int
  BY <1>1, <1>2, IntPart, IntPartMonotone
<1>4. ~(toInt(q.y + h) <= toInt(p.y + h))
  <2> SUFFICES ASSUME toInt(q.y + h) <= toInt(p.y + h) PROVE FALSE
    OBVIOUS
  <2>1. /\ toInt(p.x - w) <= toInt(q.x - w) /\ toInt(q.x + w) <= toInt(p.x + w)
        /\ toInt(p.z - w) <= toInt(q.z - w) /\ toInt(q.z + w) <= toInt(p.z + w)
    BY <1>2, <1>3
  <2>2. ~checkHitAABB(wd, q)
    BY <1>2, <1>3, <2>1, BoxWithin
  <2> QED
    BY <2>2 DEF q
<1>5. toFixed(toInt(p.y + h) + 1) <= q.y + h
  <2>1. toInt(p.y + h) + 1 <= toInt(q.y + h)
    BY <1>3, <1>4
  <2>2. toFixed(toInt(p.y + h) + 1) <= toFixed(toInt(q.y + h))
    BY <1>3, <2>1, BoxAssumption DEF toFixed
  <2>3. /\ toFixed(toInt(p.y + h) + 1) \in Int /\ toFixed(toInt(q.y + h)) \in Int
        /\ q.y + h \in Int
    BY <1>1, <1>2, <1>3, BoxAssumption DEF toFixed
  <2> QED
    BY <1>3, <2>2, <2>3
<1> QED
  <2>1. toFixed(toInt(p.y + h) + 1) \in Int
    BY <1>3, BoxAssumption DEF toFixed
  <2> QED
    BY <1>1, <1>2, <1>5, <2>1 DEF UnderRoof

(* Speed keeps to what a jump gives; its start is a body's own speed or, off   *)
(* ground or water, a jump's.                                              *)
LEMMA SpeedFrom ==
  ASSUME NEW wd, NEW p \in Body, p.vy <= JUMP_VELOCITY, NEW jump
  PROVE  /\ Speed(wd, p, jump) \in Int /\ Speed(wd, p, jump) <= JUMP_VELOCITY
         /\ ~isUnderwater(wd, p) =>
              \E v \in Int :
                /\ Speed(wd, p, jump) = AtLeast(v - GRAVITY, -TERMINAL_VELOCITY)
                /\ v = p.vy \/ (p.onGround /\ v = JUMP_VELOCITY)
<1> DEFINE wet == isUnderwater(wd, p)
           v   == CASE jump /\ wet                -> JUMP_VELOCITY_WATER
                    [] jump /\ ~wet /\ p.onGround -> JUMP_VELOCITY
                    [] OTHER                      -> p.vy
           t   == IF wet THEN TERMINAL_VELOCITY_WATER ELSE TERMINAL_VELOCITY
<1>1. v \in Int /\ v <= JUMP_VELOCITY
  <2>1. p.vy \in Int /\ JUMP_VELOCITY \in Int /\ JUMP_VELOCITY_WATER \in Int
        /\ JUMP_VELOCITY_WATER <= JUMP_VELOCITY
    BY SpeedAssumption, JumpAssumption DEF Body
  <2> HIDE DEF wet
  <2> QED
    BY <2>1
<1>2. t \in Nat /\ (~wet => t = TERMINAL_VELOCITY)
  BY SpeedAssumption
<1>3. ~wet => v = p.vy \/ (p.onGround /\ v = JUMP_VELOCITY)
  <2> HIDE DEF wet
  <2> QED
    OBVIOUS
<1>4. Speed(wd, p, jump) = AtLeast(v - GRAVITY, -t)
  BY DEF Speed, Fall
<1> HIDE DEF v, t
<1>5. AtLeast(v - GRAVITY, -t) \in Int /\ AtLeast(v - GRAVITY, -t) <= JUMP_VELOCITY
  BY <1>1, <1>2, SpeedAssumption DEF AtLeast
<1> QED
  BY <1>1, <1>2, <1>3, <1>4, <1>5

(* A whole tick: the body ends on a block, or in flight from where it was, or  *)
(* stopped in the air a unit above its base at the most.                    *)
LEMMA MoveBallistic ==
  ASSUME NEW wd, NEW p \in Body, NEW step \in Int \X Int, NEW jump, NEW moved,
         ~checkHitAABB(wd, p), updatePlayerLogic(wd, p, step, jump, moved),
         p.vy <= JUMP_VELOCITY
  PROVE  /\ moved.vy \in Int /\ moved.vy <= JUMP_VELOCITY /\ moved.y \in Int
         /\ \A from \in Int :
              /\ ~isUnderwater(wd, p) /\ ~Landed(wd, p, moved)
              /\ p.onGround => p.y <= from + 1
              /\ Ballistic(p.y - from, p.vy)
              => /\ Ballistic(moved.y - from, moved.vy)
                 /\ moved.onGround => moved.y <= from + 1
<1> DEFINE v == Speed(wd, p, jump)
           a == [p EXCEPT !.vy = v]
           b == MoveX(wd, a, step[1])
           q == [b EXCEPT !.y = @ + v, !.onGround = FALSE]
           c == MoveY(wd, b, v)
<1>1. moved = MoveZ(wd, c, step[2])
  BY DEF updatePlayerLogic, Body
<1>2. v \in Int /\ v <= JUMP_VELOCITY
  BY SpeedFrom
<1>3. a \in Body /\ a.x = p.x /\ a.y = p.y /\ a.z = p.z /\ a.vy = v
  BY <1>2 DEF Body
<1>4. ~checkHitAABB(wd, a)
  BY <1>3 DEF checkHitAABB, Box
<1>5. step[1] \in Int /\ step[2] \in Int
  OBVIOUS
<1> HIDE DEF a, v
<1>6. b \in Body /\ ~checkHitAABB(wd, b) /\ b.y = p.y /\ b.vy = v
  <2>1. b \in Body /\ ~checkHitAABB(wd, b) /\ b.y = p.y
    BY <1>3, <1>4, <1>5, MoveXFree
  <2>2. b.vy = v
    BY <1>3 DEF MoveX, Body
  <2> QED
    BY <2>1, <2>2
<1> HIDE DEF b
<1>7. c \in Body
  BY <1>2, <1>6, MoveYFree
<1>8. /\ q.y = p.y + v /\ q.vy = v /\ q.onGround = FALSE
  BY <1>2, <1>6 DEF Body
<1>9. \/ /\ c.y = p.y + v /\ c.vy = v /\ ~c.onGround
      \/ /\ v > 0 /\ c.y <= p.y + v /\ c.vy = 0 /\ ~c.onGround
      \/ /\ v <= 0 /\ c.vy = 0 /\ c.onGround
         /\ c.y \in Int /\ c.y <= p.y + 1
         /\ -SCALE <= v => OnBlock(wd, c)
  <2>1. CASE ~checkHitAABB(wd, q)
    BY <1>8, <2>1 DEF MoveY
  <2>2. CASE checkHitAABB(wd, q) /\ v > 0
    <3>1. c = Rise(b)
      BY <2>2 DEF MoveY
    <3>2. c.y = UnderRoof(b.y) /\ c.vy = 0 /\ c.onGround = FALSE
      BY <1>6, <3>1 DEF Rise, Body
    <3>3. UnderRoof(b.y) <= b.y + v
      BY <1>2, <1>6, <2>2, RiseNoHigher
    <3> QED
      BY <1>6, <2>2, <3>2, <3>3
  <2>3. CASE checkHitAABB(wd, q) /\ ~(v > 0)
    <3>1. c = Land(b)
      BY <2>3 DEF MoveY
    <3>2. c.vy = 0 /\ c.onGround = TRUE /\ c.y = OnFloor(b.y)
      BY <1>6, <3>1 DEF Land, Body
    <3>3. c.y \in Int /\ c.y <= p.y + 1
      BY <1>6, <3>2, FloorNear DEF Body
    <3>4. v <= 0
      BY <1>2, <2>3
    <3>5. ASSUME -SCALE <= v PROVE OnBlock(wd, c)
      BY <1>2, <1>6, <2>3, <3>1, <3>4, <3>5, LandsOnBlock
    <3> QED
      BY <3>2, <3>3, <3>4, <3>5
  <2> QED
    BY <2>1, <2>2, <2>3
<1>10. b.z = p.z
  BY <1>3 DEF MoveX, b
<1>11. c.z = p.z
  BY <1>6, <1>10 DEF c, MoveY, Rise, Land, Body
<1> HIDE DEF c, q
<1>12. /\ moved.y = c.y /\ moved.vy = c.vy /\ moved.onGround = c.onGround
       /\ moved.x = c.x
       /\ c.y \in Int /\ c.vy \in Int
  BY <1>1, <1>7 DEF MoveZ, Body
<1>13. moved.vy \in Int /\ moved.vy <= JUMP_VELOCITY /\ moved.y \in Int
  BY <1>2, <1>9, <1>12, SpeedAssumption
<1>14. OnBlock(wd, c) => OnBlock(wd, [moved EXCEPT !.z = p.z])
  <2>1. moved \in Body
    BY <1>1, <1>5, <1>7, MoveFree
  <2> DEFINE m == [moved EXCEPT !.z = p.z]
  <2>2. m.x = c.x /\ m.y = c.y /\ m.z = c.z
    BY <1>11, <1>12, <2>1 DEF Body
  <2> HIDE DEF m
  <2>3. Box(m) = Box(c)
    BY <2>2 DEF Box
  <2>4. OnBlock(wd, c) => OnBlock(wd, m)
    BY <2>2, <2>3 DEF OnBlock
  <2> QED
    BY <2>4 DEF m
<1>15. ASSUME NEW from \in Int, ~isUnderwater(wd, p), ~Landed(wd, p, moved),
              p.onGround => p.y <= from + 1, Ballistic(p.y - from, p.vy)
       PROVE  /\ Ballistic(moved.y - from, moved.vy)
              /\ moved.onGround => moved.y <= from + 1
  <2> DEFINE d == p.y - from
  <2>1. d \in Int /\ p.y \in Int /\ p.vy \in Int
    BY DEF Body
  <2>2. PICK u \in Int : /\ v = AtLeast(u - GRAVITY, -TERMINAL_VELOCITY)
                         /\ u = p.vy \/ (p.onGround /\ u = JUMP_VELOCITY)
    BY <1>15, SpeedFrom DEF v
  <2>3. Ballistic(d, u) /\ u <= JUMP_VELOCITY
    <3>1. CASE u = p.vy
      BY <1>15, <3>1
    <3>2. CASE p.onGround /\ u = JUMP_VELOCITY
      <4>1. d <= 1
        BY <1>15, <2>1, <3>2
      <4> HIDE DEF d
      <4> QED
        BY <2>1, <3>2, <4>1, Launched, Numbers
    <3> QED
      BY <2>2, <3>1, <3>2
  <2>4. Ballistic(d + v, v)
    <3> HIDE DEF d
    <3> QED
      BY <2>1, <2>2, <2>3, Flight, SpeedAssumption
  <2>5. CASE c.y = p.y + v /\ c.vy = v /\ ~c.onGround
    <3>1. moved.y - from = d + v
      BY <1>2, <1>12, <2>1, <2>5
    <3> HIDE DEF d
    <3> QED
      BY <1>12, <2>4, <2>5, <3>1
  <2>6. CASE v > 0 /\ c.y <= p.y + v /\ c.vy = 0 /\ ~c.onGround
    <3>1. moved.y - from <= d + v /\ d + v \in Int /\ moved.y - from \in Int
      BY <1>2, <1>12, <2>1, <2>6
    <3> HIDE DEF d
    <3>2. 8 * GRAVITY * (d + v) + Power(v) <= JumpReach /\ Power(v) \in Nat
      BY <1>2, <2>4, <2>6, PowerBounds DEF Ballistic
    <3>3. 8 * GRAVITY * (moved.y - from) <= 8 * GRAVITY * (d + v)
      <4>1. \A g \in Nat, x \in Int, y \in Int : x <= y => 8 * g * x <= 8 * g * y
        <5> SUFFICES ASSUME NEW g \in Nat, NEW x \in Int, NEW y \in Int, x <= y
                     PROVE  8 * g * x <= 8 * g * y
          OBVIOUS
        <5>1. g * (y - x) \in Nat /\ g * (y - x) = g * y - g * x
          <6>1. y - x \in Nat
            OBVIOUS
          <6>2. \A k \in Nat : g * k \in Nat
            OBVIOUS
          <6> QED
            BY <6>1, <6>2
        <5>2. g * x \in Int /\ g * y \in Int
              /\ 8 * g * x = 8 * (g * x) /\ 8 * g * y = 8 * (g * y)
          OBVIOUS
        <5> QED
          BY <5>1, <5>2
      <4> QED
        BY <3>1, <4>1, Numbers
    <3>4. /\ 8 * GRAVITY * (moved.y - from) \in Int /\ 8 * GRAVITY * (d + v) \in Int
          /\ Power(0) = 0 /\ moved.vy = 0
      BY <1>12, <2>6, <3>1, Numbers, PowerBounds
    <3> QED
      BY <1>12, <2>6, <3>2, <3>3, <3>4, Numbers DEF Ballistic
  <2>7. CASE /\ v <= 0 /\ c.vy = 0 /\ c.onGround
             /\ c.y \in Int /\ c.y <= p.y + 1
             /\ -SCALE <= v => OnBlock(wd, c)
    <3>1. v < -SCALE
      <4>1. ~OnBlock(wd, c)
        BY <1>12, <1>14, <1>15, <2>7 DEF Landed
      <4> QED
        BY <1>2, <2>7, <4>1, Numbers
    <3>2. d <= 0
      <4> HIDE DEF d
      <4> QED
        BY <2>1, <2>2, <2>3, <3>1, FastFall, SpeedAssumption
    <3>3. moved.y - from <= 1 /\ moved.y <= from + 1 /\ moved.y - from \in Int
      BY <1>12, <2>1, <2>7, <3>2
    <3>4. Ballistic(moved.y - from, moved.vy)
      BY <1>12, <2>7, <3>3, Launched, Numbers
    <3> QED
      BY <3>3, <3>4
  <2> QED
    BY <1>9, <2>5, <2>6, <2>7
<1> QED
  BY <1>13, <1>15

-----------------------------------------------------------------------------
(* Edits *)

(* An edit that makes no cell solid that was not leaves a body free.        *)
LEMMA FreeIfOpened ==
  ASSUME NEW wd, NEW new, NEW p, ~checkHitAABB(wd, p),
         \A c \in Box(p) : Solid(new, c) => Solid(wd, c)
  PROVE  ~checkHitAABB(new, p)
BY DEF checkHitAABB

LEMMA SetBlock ==
  ASSUME NEW wd \in World, NEW c, NEW b \in Block
  PROVE  /\ setBlock(wd, c, b) \in World
         /\ \A d : d # c => getBlock(setBlock(wd, c, b), d) = getBlock(wd, d)
         /\ c \in Cell => getBlock(setBlock(wd, c, b), c) = b
         /\ c \notin Cell => setBlock(wd, c, b) = wd
BY DEF setBlock, getBlock, World

(* Setting a cell opens the world or leaves it, if the block is not solid or *)
(* the cell was solid before.                                              *)
LEMMA SetOpens ==
  ASSUME NEW wd \in World, NEW c, NEW b \in Block, isSolid(b) => Solid(wd, c)
  PROVE  \A d : Solid(setBlock(wd, c, b), d) => Solid(wd, d)
<1>1. CASE c \notin Cell
  BY <1>1, SetBlock
<1>2. CASE c \in Cell
  <2> SUFFICES ASSUME NEW d, Solid(setBlock(wd, c, b), d) PROVE Solid(wd, d)
    OBVIOUS
  <2>1. CASE d = c
    BY <1>2, <2>1, SetBlock DEF Solid
  <2>2. CASE d # c
    BY <2>2, SetBlock DEF Solid
  <2> QED
    BY <2>1, <2>2
<1> QED
  BY <1>1, <1>2

LEMMA Kinds ==
  /\ ~isSolid(AIR) /\ isSolid(DIRT) /\ isSolid(GRASS)
  /\ \A l \in Flowing : ~isSolid(l)
  /\ {AIR, DIRT, GRASS} \cup Flowing \subseteq Block
BY DEF isSolid, Water, Flowing, SOURCE, AIR, DIRT, GRASS, Block

LEMMA BreakOpens ==
  ASSUME NEW wd \in World
  PROVE  /\ BreakBlock(wd) \in World
         /\ \A d : Solid(BreakBlock(wd), d) => Solid(wd, d)
<1> DEFINE c == lastHit.cell
           broken == setBlock(wd, c, AIR)
<1>1. broken \in World /\ \A d : Solid(broken, d) => Solid(wd, d)
  BY SetBlock, SetOpens, Kinds
<1>2. CASE BreakBlock(wd) = wd
  BY <1>2
<1>3. CASE BreakBlock(wd) = broken
  BY <1>1, <1>3
<1>4. CASE /\ getBlock(broken, Below(c)) = DIRT
           /\ BreakBlock(wd) = setBlock(broken, Below(c), GRASS)
  <2> HIDE DEF broken
  <2>1. Solid(broken, Below(c))
    BY <1>4, Kinds DEF Solid
  <2> QED
    BY <1>1, <1>4, <2>1, SetBlock, SetOpens, Kinds
<1> QED
  BY <1>2, <1>3, <1>4 DEF BreakBlock

LEMMA PlaceKeepsFree ==
  ASSUME NEW wd \in World, NEW p, ~checkHitAABB(wd, p),
         selectBlockType \in Block
  PROVE  PlaceBlock(wd, p) \in World /\ ~checkHitAABB(PlaceBlock(wd, p), p)
<1> DEFINE c == IF isSolid(lastHit.hit) THEN lastHit.before ELSE lastHit.cell
           placed == setBlock(wd, c, selectBlockType)
<1> HIDE DEF c
<1>1. placed \in World
  BY SetBlock
<1>2. CASE PlaceBlock(wd, p) = wd
  BY <1>2
<1>3. CASE PlaceBlock(wd, p) = setBlock(placed, c, AIR)
  <2>1. setBlock(placed, c, AIR) \in World
    BY <1>1, SetBlock, Kinds
  <2>2. ASSUME NEW d, Solid(setBlock(placed, c, AIR), d) PROVE Solid(wd, d)
    <3>1. CASE c \notin Cell
      BY <2>2, <3>1, <1>1, SetBlock, Kinds
    <3>2. CASE c \in Cell /\ d = c
      <4> HIDE DEF placed
      <4> QED
        BY <2>2, <3>2, <1>1, SetBlock, Kinds DEF Solid
    <3>3. CASE d # c
      <4>1. getBlock(placed, d) = getBlock(wd, d)
        BY <3>3, SetBlock
      <4> HIDE DEF placed
      <4>2. getBlock(setBlock(placed, c, AIR), d) = getBlock(placed, d)
        BY <1>1, <3>3, SetBlock, Kinds
      <4> QED
        BY <2>2, <4>1, <4>2 DEF Solid
    <3> QED
      BY <3>1, <3>2, <3>3
  <2> QED
    BY <1>3, <2>1, <2>2, FreeIfOpened
<1>4. CASE ~checkHitAABB(placed, p) /\ PlaceBlock(wd, p) = placed
  BY <1>1, <1>4
<1>5. CASE /\ ~checkHitAABB(placed, p)
           /\ getBlock(placed, Below(c)) = GRASS
           /\ PlaceBlock(wd, p) = setBlock(placed, Below(c), DIRT)
  <2> HIDE DEF placed
  <2>1. Solid(placed, Below(c))
    BY <1>5, Kinds DEF Solid
  <2>2. /\ setBlock(placed, Below(c), DIRT) \in World
        /\ \A d : Solid(setBlock(placed, Below(c), DIRT), d) => Solid(placed, d)
    BY <1>1, <2>1, SetBlock, SetOpens, Kinds
  <2> QED
    BY <1>5, <2>2, FreeIfOpened
<1> QED
  BY <1>2, <1>3, <1>4, <1>5 DEF PlaceBlock, c

-----------------------------------------------------------------------------
(* The game *)

LEMMA BodyAt ==
  ASSUME NEW p \in Body, NEW fx \in Int, NEW fy \in Int, NEW fz \in Int
  PROVE  [p EXCEPT !.x = fx, !.y = fy, !.z = fz] \in Body
BY DEF Body

(* What a cell of water should be is never solid.                           *)
LEMMA IdealOpen ==
  ASSUME NEW wd, NEW c
  PROVE  Ideal(wd, c) \in Block /\ ~isSolid(Ideal(wd, c))
<1>1. Ideal(wd, c) \in {AIR, 7, 8, 9}
  BY Zenon DEF Ideal
<1> QED
  BY <1>1, Kinds DEF Flowing

IInv == TypeOK /\ NeverInside

LEMMA InitIInv == Init => IInv
<1> SUFFICES ASSUME Init PROVE IInv
  OBVIOUS
<1>1. world \in World
  BY MapsAssumption, SavesAssumption DEF Init
<1>2. Middle(WORLD_X) \in Int /\ Middle(WORLD_Z) \in Int
      /\ toFixed(WORLD_Y \div 2) \in Int
  BY WorldAssumption, BoxAssumption DEF Middle, toFixed
<1>3. player \in Body /\ base \in Int
  <2>1. FALSE \in BOOLEAN /\ 0 \in Int
    OBVIOUS
  <2> QED
    BY <1>2, <2>1 DEF Init, Body
<1>4. /\ selectBlockType \in Selectable /\ water_tick_counter \in 0 .. WATER_TICKS - 1
      /\ inputs \in 0 .. MAX_INPUTS /\ pc = "menu" /\ todo \in SUBSET Cell
      /\ last_action_keys \in SUBSET ActionKeys
  BY KeysAssumption, TickAssumption DEF Init
<1> QED
  BY <1>1, <1>3, <1>4 DEF IInv, TypeOK, NeverInside, InGame

LEMMA MapsKeep ==
  ASSUME IInv, NEW m \in Maps, GenMap(m)
  PROVE  IInv'
<1>1. player' \in Body /\ player'.x = m.x /\ player'.y = m.y /\ player'.z = m.z
  <2>1. m.x \in Int /\ m.y \in Int /\ m.z \in Int /\ player \in Body
    BY MapsAssumption DEF IInv, TypeOK
  <2> DEFINE q == [player EXCEPT !.x = m.x, !.y = m.y, !.z = m.z]
  <2>2. player' = q
    BY DEF GenMap
  <2>3. q \in Body
    BY <2>1, BodyAt
  <2>4. q.x = m.x /\ q.y = m.y /\ q.z = m.z
    BY <2>1 DEF Body
  <2> HIDE DEF q
  <2> QED
    BY <2>2, <2>3, <2>4
<1>2. ~checkHitAABB(m.world, player')
  BY <1>1, MapsAssumption DEF checkHitAABB, Box
<1>3. m.world \in World /\ m.y \in Int
  BY MapsAssumption
<1>4. inputs' \in 0 .. MAX_INPUTS
  BY TickAssumption DEF GenMap, Spend, IInv, TypeOK
<1>5. TypeOK'
  BY <1>1, <1>3, <1>4 DEF GenMap, IInv, TypeOK, editVars
<1>6. NeverInside'
  BY <1>2 DEF GenMap, NeverInside
<1> QED
  BY <1>5, <1>6 DEF IInv

LEMMA SavesKeep ==
  ASSUME IInv, NEW s \in Saves, LoadMap(s)
  PROVE  IInv'
<1>1. /\ s.world \in World /\ s.player \in Body /\ s.player.y \in Int
      /\ s.selectBlockType \in Selectable /\ ~checkHitAABB(s.world, s.player)
  BY SavesAssumption DEF Body
<1>2. inputs' \in 0 .. MAX_INPUTS
  BY TickAssumption DEF LoadMap, Spend, IInv, TypeOK
<1>3. TypeOK'
  BY <1>1, <1>2 DEF LoadMap, IInv, TypeOK
<1>4. NeverInside'
  BY <1>1 DEF LoadMap, NeverInside
<1> QED
  BY <1>3, <1>4 DEF IInv

LEMMA MenusKeep ==
  ASSUME IInv, Menus
  PROVE  IInv'
<1>1. inputs' \in 0 .. MAX_INPUTS
  BY TickAssumption DEF Menus, Stop, Resume, Exit, Spend, IInv, TypeOK
<1>2. TypeOK'
  BY <1>1 DEF Menus, Stop, Resume, Exit, IInv, TypeOK, editVars, bodyVars
<1>3. NeverInside'
  BY DEF Menus, Stop, Resume, Exit, IInv, NeverInside, InGame, editVars, bodyVars
<1> QED
  BY <1>2, <1>3 DEF IInv

LEMMA MovesKeep ==
  ASSUME IInv, NEW step \in Steps, NEW jump \in BOOLEAN, Move(step, jump)
  PROVE  IInv'
<1>1. ~checkHitAABB(world, player) /\ player \in Body /\ step \in Int \X Int
  BY KeysAssumption DEF Move, IInv, TypeOK, NeverInside, InGame
<1>2. player' \in Body /\ ~checkHitAABB(world, player')
  BY <1>1, MoveFree DEF Move
<1>3. base' \in Int
  <2>1. player'.y \in Int /\ base \in Int
    BY <1>2 DEF IInv, TypeOK, Body
  <2> QED
    BY <2>1 DEF Move
<1>4. inputs' \in 0 .. MAX_INPUTS
  BY TickAssumption DEF Move, Spend, IInv, TypeOK
<1>5. TypeOK'
  BY <1>2, <1>3, <1>4 DEF Move, IInv, TypeOK, editVars
<1>6. NeverInside'
  BY <1>2 DEF Move, NeverInside
<1> QED
  BY <1>5, <1>6 DEF IInv

LEMMA EditsKeep ==
  ASSUME IInv, NEW keys \in SUBSET ActionKeys, NEW b \in Selectable,
         EditTick(keys, b)
  PROVE  IInv'
<1> USE DEF EditTick
<1>1. /\ world \in World /\ ~checkHitAABB(world, player)
      /\ selectBlockType \in Block
  BY KeysAssumption DEF HandleActionKeys, IInv, TypeOK, NeverInside, InGame, Block
<1>2. world' \in World /\ ~checkHitAABB(world', player)
  <2> DEFINE falls == last_action_keys \ keys
             after == IF "break" \in falls THEN BreakBlock(world) ELSE world
  <2>1. after \in World /\ ~checkHitAABB(after, player)
    BY <1>1, BreakOpens, FreeIfOpened
  <2>2. world' = IF "place" \in falls THEN PlaceBlock(after, player) ELSE after
    BY DEF HandleActionKeys, Edit
  <2> HIDE DEF after
  <2> QED
    BY <1>1, <2>1, <2>2, PlaceKeepsFree
<1>3. /\ player' = player /\ base' = base /\ pc' \in {"water", "look"}
      /\ last_action_keys' = keys /\ selectBlockType' = b
  BY DEF HandleActionKeys, CountTick, bodyVars
<1>4. inputs' \in 0 .. MAX_INPUTS
  BY TickAssumption DEF HandleActionKeys, Spend, IInv, TypeOK
<1>5. water_tick_counter' \in 0 .. WATER_TICKS - 1 /\ todo' \in SUBSET Cell
  BY TickAssumption DEF CountTick, SimBox, IInv, TypeOK
<1>6. TypeOK'
  BY <1>2, <1>3, <1>4, <1>5 DEF IInv, TypeOK
<1>7. NeverInside'
  BY <1>2, <1>3 DEF NeverInside
<1> QED
  BY <1>6, <1>7 DEF IInv

LEMMA WaterKeeps ==
  ASSUME IInv, WaterCell
  PROVE  IInv'
<1>1. PICK c \in todo : /\ world' = [world EXCEPT ![c] = Ideal(world, c)]
                        /\ todo' = {d \in todo : Earlier(c, d)}
  BY DEF WaterCell, Changing
<1>2. c \in Cell /\ world \in World
  BY <1>1 DEF IInv, TypeOK
<1>3. world' = setBlock(world, c, Ideal(world, c))
  BY <1>1, <1>2 DEF setBlock
<1>4. world' \in World /\ \A d : Solid(world', d) => Solid(world, d)
  BY <1>2, <1>3, IdealOpen, SetBlock, SetOpens
<1>5. TypeOK'
  BY <1>1, <1>4 DEF WaterCell, IInv, TypeOK, bodyVars, editVars
<1>6. NeverInside'
  <2>1. player' = player /\ pc' = pc
    BY DEF WaterCell, bodyVars
  <2> QED
    BY <1>4, <2>1, FreeIfOpened DEF IInv, NeverInside, InGame
<1> QED
  BY <1>5, <1>6 DEF IInv

LEMMA LookKeeps ==
  ASSUME IInv, Look
  PROVE  IInv'
<1>1. TypeOK'
  BY DEF Look, IInv, TypeOK, bodyVars, editVars
<1>2. NeverInside'
  BY DEF Look, IInv, NeverInside, InGame, bodyVars
<1> QED
  BY <1>1, <1>2 DEF IInv

LEMMA StutterKeeps ==
  ASSUME IInv, UNCHANGED vars
  PROVE  IInv'
BY DEF vars, IInv, TypeOK, NeverInside, InGame

LEMMA NextIInv == IInv /\ [Next]_vars => IInv'
BY MapsKeep, SavesKeep, MenusKeep, MovesKeep, EditsKeep, WaterKeeps, LookKeeps,
   StutterKeeps DEF Next, Tick

(* The body never overlaps a solid block, on every step; this needs the types *)
(* and nothing else.                                                       *)
THEOREM Invariance == Spec => []IInv
BY InitIInv, NextIInv, PTL DEF Spec

(* Every variable keeps its type: the world stays a world of blocks, the     *)
(* body a body, the counters within their bounds.                          *)
THEOREM TypeCorrect == Spec => []TypeOK
<1>1. IInv => TypeOK
  BY DEF IInv
<1> QED
  BY <1>1, Invariance, PTL

(* Whatever is built, dug or flooded, and however the body runs, jumps and   *)
(* falls, it never overlaps a solid block (movePlayer, placeBlockAction).   *)
THEOREM NeverInsideHolds == Spec => []NeverInside
<1>1. IInv => NeverInside
  BY DEF IInv
<1> QED
  BY <1>1, Invariance, PTL

(* No fall passes a floor two blocks thick: a body that ends its tick free   *)
(* of the floor has fallen by less than two blocks and its height, or not    *)
(* passed it.                                                              *)
THEOREM FloorsHold == Spec => DoubleFloorsHold
<1>1. IInv /\ [Next]_vars =>
        [pc = "tick" /\ pc' = "edit" =>
           \A n \in 0 .. WORLD_Y - 2 :
             Floor(n) /\ player.y >= toFixed(n + 2) => player'.y >= toFixed(n + 2)]_vars
  <2> SUFFICES ASSUME IInv, Next, pc = "tick", pc' = "edit",
                      NEW n \in 0 .. WORLD_Y - 2, Floor(n), player.y >= toFixed(n + 2)
               PROVE  player'.y >= toFixed(n + 2)
    OBVIOUS
  <2>1. PICK step \in Steps, jump \in BOOLEAN : Move(step, jump)
    BY DEF Next, Menus, GenMap, LoadMap, Stop, Resume, Exit, Tick, EditTick,
           HandleActionKeys, WaterCell, Look
  <2>2. ~checkHitAABB(world, player) /\ player \in Body /\ step \in Int \X Int
    BY KeysAssumption DEF IInv, TypeOK, NeverInside, InGame
  <2>3. player.y \in Int /\ toFixed(n + 2) \in Int /\ toFixed(n + 2) <= player.y
    BY <2>2, CellEdges, WorldAssumption DEF Body
  <2>4. player' \in Body /\ toFixed(n + 2) <= player'.y
    BY <2>1, <2>2, <2>3, MoveFree, FloorHolds DEF Move
  <2> QED
    BY <2>3, <2>4 DEF Body
<1> QED
  BY <1>1, Invariance, PTL DEF Spec, DoubleFloorsHold

(* A body whose fall was stopped is no higher than a unit above its base, and *)
(* one in the air is in the flight of a jump from there at the most, or in a  *)
(* fall that it was put into.                                               *)
Aloft ==
  /\ player.vy <= JUMP_VELOCITY
  /\ player.onGround => player.y <= base + 1
  /\ Ballistic(player.y - base, player.vy)

LEMMA AtBase ==
  ASSUME player.y \in Int, player.vy \in Int, base = player.y,
         player.vy <= JUMP_VELOCITY
  PROVE  Aloft
<1>1. player.y - base = 0 /\ player.y <= base + 1
  OBVIOUS
<1>2. Ballistic(player.y - base, player.vy)
  BY <1>1, Launched
<1> QED
  BY <1>1, <1>2 DEF Aloft

LEMMA InitAloft == Init => Aloft
<1> SUFFICES ASSUME Init PROVE Aloft
  OBVIOUS
<1>1. player \in Body /\ base = player.y
  BY InitIInv DEF Init, IInv, TypeOK
<1>2. player.vy = 0 /\ player.y \in Int
  BY <1>1 DEF Init, Body
<1> QED
  BY <1>1, <1>2, AtBase, SpeedAssumption

LEMMA MovesAloft ==
  ASSUME IInv, Aloft, NEW step \in Steps, NEW jump \in BOOLEAN, Move(step, jump)
  PROVE  Aloft'
<1>1. /\ ~checkHitAABB(world, player) /\ player \in Body /\ step \in Int \X Int
      /\ base \in Int
  BY KeysAssumption DEF Move, IInv, TypeOK, NeverInside, InGame
<1>2. updatePlayerLogic(world, player, step, jump, player')
  BY DEF Move
<1>3. /\ player'.vy \in Int /\ player'.vy <= JUMP_VELOCITY /\ player'.y \in Int
      /\ (/\ ~isUnderwater(world, player) /\ ~Landed(world, player, player')
          /\ player.onGround => player.y <= base + 1
          /\ Ballistic(player.y - base, player.vy))
         => /\ Ballistic(player'.y - base, player'.vy)
            /\ player'.onGround => player'.y <= base + 1
  BY <1>1, <1>2, MoveBallistic DEF Aloft
<1>4. CASE Landed(world, player, player') \/ isUnderwater(world, player)
  <2>1. base' = player'.y
    BY <1>4 DEF Move
  <2>2. player'.y - base' = 0 /\ player'.y <= base' + 1
    BY <1>3, <2>1
  <2>3. Ballistic(player'.y - base', player'.vy)
    BY <1>3, <2>2, Launched
  <2> QED
    BY <1>3, <2>2, <2>3 DEF Aloft
<1>5. CASE ~Landed(world, player, player') /\ ~isUnderwater(world, player)
  <2>1. base' = base
    BY <1>5 DEF Move
  <2>2. /\ Ballistic(player'.y - base, player'.vy)
        /\ player'.onGround => player'.y <= base + 1
    BY <1>3, <1>5 DEF Aloft
  <2> QED
    BY <1>3, <2>1, <2>2 DEF Aloft
<1> QED
  BY <1>4, <1>5

LEMMA NextAloft == IInv /\ Aloft /\ [Next]_vars => Aloft'
<1> SUFFICES ASSUME IInv, Aloft, [Next]_vars PROVE Aloft'
  OBVIOUS
<1>1. ASSUME player'.y \in Int, player'.vy \in Int, base' = player'.y,
             player'.vy <= JUMP_VELOCITY
      PROVE  Aloft'
  <2>1. player'.y - base' = 0 /\ player'.y <= base' + 1
    BY <1>1
  <2>2. Ballistic(player'.y - base', player'.vy)
    BY <1>1, <2>1, Launched
  <2> QED
    BY <1>1, <2>1, <2>2 DEF Aloft
<1>2. ASSUME NEW m \in Maps, GenMap(m) PROVE Aloft'
  <2>1. player' \in Body
    BY <1>2, MapsKeep DEF IInv, TypeOK
  <2>2. player'.vy = player.vy /\ player'.y = m.y /\ base' = m.y
    BY <1>2 DEF GenMap, IInv, TypeOK, Body
  <2>3. player'.vy \in Int /\ player'.y \in Int
    BY <2>1 DEF Body
  <2> QED
    BY <1>1, <2>2, <2>3 DEF Aloft
<1>3. ASSUME NEW s \in Saves, LoadMap(s) PROVE Aloft'
  <2>1. /\ player' = s.player /\ base' = s.player.y
        /\ s.player \in Body /\ s.player.vy <= JUMP_VELOCITY
    BY <1>3, SavesAssumption DEF LoadMap
  <2>2. player'.vy \in Int /\ player'.y \in Int
    BY <2>1 DEF Body
  <2> QED
    BY <1>1, <2>1, <2>2
<1>4. ASSUME NEW step \in Steps, NEW jump \in BOOLEAN, Move(step, jump) PROVE Aloft'
  BY <1>4, MovesAloft
<1>5. ASSUME player' = player, base' = base PROVE Aloft'
  BY <1>5 DEF Aloft
<1>6. CASE Menus \/ WaterCell \/ Look \/ UNCHANGED vars
  BY <1>5, <1>6 DEF Menus, WaterCell, Look, bodyVars, vars
<1>7. ASSUME NEW keys \in SUBSET ActionKeys, NEW b \in Selectable, EditTick(keys, b)
      PROVE  Aloft'
  BY <1>5, <1>7 DEF EditTick, HandleActionKeys, bodyVars
<1> QED
  BY <1>2, <1>3, <1>4, <1>6, <1>7 DEF Next, Tick

(* No height is won in the air: the body never comes more than 1.5 blocks     *)
(* above the block it last stood on, the water it swam in or the place it was *)
(* put at, although movePlayer ends a fast fall in the air with onGround set  *)
(* and a new map leaves onGround as it was: what a jump from there gains, the *)
(* fall before it has lost.                                                 *)
THEOREM JumpsHold == Spec => []NoHeightFromAir
<1>1. IInv /\ Aloft => NoHeightFromAir
  <2> SUFFICES ASSUME IInv, Aloft PROVE 2 * (player.y - base) <= toFixed(3)
    BY DEF NoHeightFromAir
  <2>1. toFixed(3) = 3 * SCALE
    BY DEF toFixed
  <2>2. player.y - base \in Int /\ player.vy \in Int
    BY DEF IInv, TypeOK, Body
  <2> QED
    BY <2>1, <2>2, Highest DEF Aloft
<1>2. Init => IInv /\ Aloft
  BY InitIInv, InitAloft
<1>3. (IInv /\ Aloft) /\ [Next]_vars => (IInv /\ Aloft)'
  BY NextIInv, NextAloft
<1> QED
  BY <1>1, <1>2, <1>3, PTL DEF Spec

-----------------------------------------------------------------------------
(* Water.  ReachedIn is a recursion, so what it holds is shown by induction:   *)
(* over the number of steps for what it reaches, and over the way that water   *)
(* has come at the least (Way) for what reaches it.  That the recursion       *)
(* defines anything is an induction of its own (ReachedSteps).               *)

(* Induction over the natural numbers, for sets: a set that was not all of them  *)
(* would lack a least one.                                                  *)
LEMMA Upwards ==
  ASSUME NEW S, 0 \in S, \A n \in Nat : n \in S => n + 1 \in S
  PROVE  Nat \subseteq S
<1> SUFFICES ASSUME Nat \ S # {} PROVE FALSE
  OBVIOUS
<1>1. PICK n \in Nat \ S : \A m \in Nat \ S : ~(<<m, n>> \in OpToRel(<, Nat))
  BY NatLessThanWellFounded, WFMin, Zenon
<1>2. n # 0 /\ n - 1 \in Nat /\ n - 1 < n
  OBVIOUS
<1>3. <<n - 1, n>> \in OpToRel(<, Nat)
  BY <1>2, Zenon DEF OpToRel
<1>4. n - 1 \in S
  BY <1>1, <1>2, <1>3, Zenon
<1> QED
  BY <1>2, <1>4

(* The beginning of ReachedIn. *)
Begun(g, n) == /\ g[0] = Springs
               /\ \A k \in 1..n : g[k] = Spread(g[k - 1])

LEMMA BegunAlike ==
  ASSUME NEW n \in Nat, NEW g, NEW f, NEW m \in Nat, Begun(g, n), Begun(f, m), n <= m
  PROVE  \A k \in 0..n : g[k] = f[k]
<1> DEFINE S == {k \in Nat : k <= n => g[k] = f[k]}
<1>1. 0 \in S
  BY DEF Begun
<1>2. ASSUME NEW k \in Nat, k \in S PROVE k + 1 \in S
  <2> SUFFICES ASSUME k + 1 <= n PROVE g[k + 1] = f[k + 1]
    BY <1>2
  <2>1. g[k] = f[k] /\ k + 1 \in 1..n /\ k + 1 \in 1..m /\ (k + 1) - 1 = k
    BY <1>2
  <2> QED
    BY <2>1 DEF Begun
<1> HIDE DEF S
<1>3. Nat \subseteq S
  BY <1>1, <1>2, Upwards
<1> QED
  BY <1>3 DEF S

LEMMA AllBegun ==
  \A n \in Nat : \E g : Begun(g, n)
<1> DEFINE S == {n \in Nat : \E g : Begun(g, n)}
<1>1. 0 \in S
  <2> DEFINE g == [k \in {0} |-> Springs]
  <2>1. Begun(g, 0)
    BY DEF Begun
  <2> QED
    BY <2>1
<1>2. ASSUME NEW n \in Nat, n \in S PROVE n + 1 \in S
  <2>1. PICK g : Begun(g, n)
    BY <1>2
  <2> DEFINE f == [k \in 0 .. n + 1 |-> IF k <= n THEN g[k] ELSE Spread(g[n])]
  <2>2. /\ f[0] = g[0] /\ \A k \in 0..n : f[k] = g[k]
        /\ f[n + 1] = Spread(g[n])
    OBVIOUS
  <2> HIDE DEF f
  <2>3. ASSUME NEW k \in 1 .. n + 1 PROVE f[k] = Spread(f[k - 1])
    <3>1. CASE k = n + 1
      BY <2>2, <3>1
    <3>2. CASE k # n + 1
      <4>1. k \in 1..n /\ k \in 0..n /\ k - 1 \in 0..n
        BY <3>2
      <4> QED
        BY <2>1, <2>2, <4>1 DEF Begun
    <3> QED
      BY <3>1, <3>2
  <2>4. Begun(f, n + 1)
    BY <2>1, <2>2, <2>3 DEF Begun
  <2> QED
    BY <2>4
<1> HIDE DEF S
<1>3. Nat \subseteq S
  BY <1>1, <1>2, Upwards
<1> QED
  BY <1>3 DEF S

LEMMA ReachedSteps ==
  /\ ReachedIn[0] = Springs
  /\ \A n \in Nat : ReachedIn[n + 1] = Spread(ReachedIn[n])
<1> DEFINE R(f) == [n \in Nat |-> IF n = 0 THEN Springs ELSE Spread(f[n - 1])]
<1>1. \E f : f = R(f)
  <2> DEFINE G(n) == CHOOSE g : Begun(g, n)
             f == [n \in Nat |-> G(n)[n]]
  <2>1. \A n \in Nat : Begun(G(n), n)
    BY AllBegun
  <2> HIDE DEF G
  <2>2. f[0] = Springs
    BY <2>1 DEF Begun
  <2>3. ASSUME NEW n \in Nat, n # 0 PROVE f[n] = Spread(f[n - 1])
    <3>1. n - 1 \in Nat /\ n - 1 <= n /\ n - 1 \in 0 .. n - 1 /\ n \in 1..n
      BY <2>3
    <3>2. G(n)[n] = Spread(G(n)[n - 1])
      BY <2>1, <3>1 DEF Begun
    <3>3. G(n - 1)[n - 1] = G(n)[n - 1]
      BY <2>1, <3>1, BegunAlike
    <3> QED
      BY <3>1, <3>2, <3>3
  <2> HIDE DEF f
  <2>4. f = R(f)
    <3>1. \A n \in Nat : f[n] = R(f)[n]
      BY <2>2, <2>3
    <3> QED
      BY <3>1 DEF f
  <2> QED
    BY <2>4
<1>2. ReachedIn = R(ReachedIn)
  BY <1>1 DEF ReachedIn
<1>3. \A n \in Nat : ReachedIn[n] = IF n = 0 THEN Springs ELSE Spread(ReachedIn[n - 1])
  BY <1>2
<1> QED
  BY <1>3

(* What is reached stays reached, and water goes on from there. *)
LEMMA Spreads ==
  ASSUME NEW places
  PROVE  /\ places \subseteq Spread(places)
         /\ \A f \in places : \A g \in Onward(f[1], f[2]) :
              g[1] \in FlowCells => g \in Spread(places)
         /\ \A g \in Spread(places) :
              \/ g \in places
              \/ \E f \in places : g \in Onward(f[1], f[2]) /\ g[1] \in FlowCells
<1> DEFINE On(f) == {f} \cup {g \in Onward(f[1], f[2]) : g[1] \in FlowCells}
<1>1. Spread(places) = UNION {On(f) : f \in places}
  BY Zenon DEF Spread
<1>2. ASSUME NEW f, NEW g
      PROVE  g \in On(f) <=> g = f \/ (g \in Onward(f[1], f[2]) /\ g[1] \in FlowCells)
  BY Zenon
<1> HIDE DEF On
<1>3. \A g : g \in Spread(places) <=> \E f \in places : g \in On(f)
  BY <1>1
<1>4. places \subseteq Spread(places)
  BY <1>2, <1>3, Zenon
<1>5. \A f \in places : \A g \in Onward(f[1], f[2]) :
        g[1] \in FlowCells => g \in Spread(places)
  BY <1>2, <1>3, Zenon
<1>6. ASSUME NEW g \in Spread(places)
      PROVE  \/ g \in places
             \/ \E f \in places : g \in Onward(f[1], f[2]) /\ g[1] \in FlowCells
  <2>1. PICK f \in places : g \in On(f)
    BY <1>3
  <2>2. g = f \/ (g \in Onward(f[1], f[2]) /\ g[1] \in FlowCells)
    BY <1>2, <2>1
  <2> QED
    BY <2>1, <2>2, Zenon
<1> QED
  BY <1>4, <1>5, <1>6, Zenon

LEMMA SpringsReached == \A n \in Nat : Springs \subseteq ReachedIn[n]
<1> DEFINE S == {n \in Nat : Springs \subseteq ReachedIn[n]}
<1>1. 0 \in S
  BY ReachedSteps
<1>2. ASSUME NEW n \in Nat, n \in S PROVE n + 1 \in S
  <2>1. ReachedIn[n] \subseteq ReachedIn[n + 1]
    BY ReachedSteps, Spreads
  <2> QED
    BY <1>2, <2>1
<1> HIDE DEF S
<1>3. Nat \subseteq S
  BY <1>1, <1>2, Upwards
<1> QED
  BY <1>3 DEF S

LEMMA CellParts ==
  ASSUME NEW c \in Cell
  PROVE  /\ c = <<c[1], c[2], c[3]>>
         /\ c[1] \in 0 .. WORLD_X - 1 /\ c[2] \in 0 .. WORLD_Y - 1 /\ c[3] \in 0 .. WORLD_Z - 1
BY DEF Cell

(* Next to each other, seen from either side. *)
LEMMA BothWays ==
  ASSUME NEW c \in Cell
  PROVE  /\ Below(Above(c)) = c /\ Above(Below(c)) = c
         /\ Above(c)[2] = c[2] + 1
         /\ \A a \in {1, 3}, s \in {-1, 1} :
              /\ Beside(c, a, s)[2] = c[2]
              /\ -s \in {-1, 1} /\ Beside(Beside(c, a, s), a, -s) = c
<1>1. PICK x \in Int, y \in Int, z \in Int : c = <<x, y, z>>
  BY CellParts
<1>2. Above(c) = <<x, y + 1, z>> /\ Below(c) = <<x, y - 1, z>>
  BY <1>1 DEF Above, Below, Beside
<1>3. Below(Above(c)) = c /\ Above(Below(c)) = c
  <2>1. Below(<<x, y + 1, z>>) = <<x, y, z>>
    BY DEF Below, Beside
  <2>2. Above(<<x, y - 1, z>>) = <<x, y, z>>
    BY DEF Above, Beside
  <2> QED
    BY <1>1, <1>2, <2>1, <2>2
<1>4. ASSUME NEW s \in {-1, 1}
      PROVE  /\ -s \in {-1, 1}
             /\ Beside(c, 1, s)[2] = c[2] /\ Beside(Beside(c, 1, s), 1, -s) = c
             /\ Beside(c, 3, s)[2] = c[2] /\ Beside(Beside(c, 3, s), 3, -s) = c
  <2>1. Beside(c, 1, s) = <<x + s, y, z>> /\ Beside(c, 3, s) = <<x, y, z + s>>
    BY <1>1 DEF Beside
  <2>2. -s \in Int /\ (x + s) + (-s) = x /\ (z + s) + (-s) = z
    OBVIOUS
  <2>3. Beside(<<x + s, y, z>>, 1, -s) = <<x, y, z>>
    BY <2>2 DEF Beside
  <2>4. Beside(<<x, y, z + s>>, 3, -s) = <<x, y, z>>
    BY <2>2 DEF Beside
  <2> QED
    BY <1>1, <2>1, <2>3, <2>4
<1>5. Above(c)[2] = c[2] + 1
  BY <1>1, <1>2
<1> QED
  BY <1>3, <1>4, <1>5

(* Water is in the map only. *)
LEMMA WaterInMap ==
  ASSUME NEW wd \in World, NEW c, getBlock(wd, c) \in Water
  PROVE  c \in Cell /\ wd[c] = getBlock(wd, c)
BY DEF getBlock, Water, Flowing, AIR, BEDROCK, SOURCE

(* What a cell should be, once more. *)
FedBy(wd, c, l) == \E n \in Feeders(wd, c) : getBlock(wd, n) = l
LEMMA IdealIs ==
  ASSUME NEW wd, NEW c
  PROVE  /\ getBlock(wd, Above(c)) \in Water => Ideal(wd, c) = 7
         /\ getBlock(wd, Above(c)) \notin Water =>
              Ideal(wd, c) = IF FedBy(wd, c, 6) THEN 7 ELSE IF FedBy(wd, c, 7) THEN 8
                             ELSE IF FedBy(wd, c, 8) THEN 9 ELSE AIR
BY Zenon DEF Ideal, FedBy

LEMMA SettledCell ==
  ASSUME Settled, NEW c \in FlowCells
  PROVE  c \in Cell /\ world[c] = Ideal(world, c)
BY DEF Settled, Changing, FlowCells

(* Where the water in a settled cell comes from. *)
LEMMA WaterIsFed ==
  ASSUME world \in World, Settled, NEW c \in FlowCells, world[c] # AIR
  PROVE  \/ /\ Above(c) \in Cell /\ world[Above(c)] \in Water /\ world[c] = 7
         \/ \E n \in Cell, a \in {1, 3}, s \in {-1, 1} :
              /\ world[n] \in 6..8 /\ world[c] = world[n] + 1 /\ n[2] = c[2]
              /\ Solid(world, Below(n)) /\ c = Beside(n, a, s)
<1>1. c \in Cell /\ world[c] = Ideal(world, c)
  BY SettledCell
<1>2. CASE getBlock(world, Above(c)) \in Water
  BY <1>1, <1>2, IdealIs, WaterInMap
<1>3. CASE getBlock(world, Above(c)) \notin Water
  <2>1. PICK l \in 6..8 : FedBy(world, c, l) /\ world[c] = l + 1
    BY <1>1, <1>3, IdealIs DEF AIR
  <2>2. PICK n \in Feeders(world, c) : getBlock(world, n) = l
    BY <2>1 DEF FedBy
  <2>3. PICK a \in {1, 3}, s \in {-1, 1} : n = Beside(c, a, s) /\ Solid(world, Below(n))
    BY <2>2 DEF Feeders
  <2>4. n \in Cell /\ world[n] = l
    BY <2>2, WaterInMap DEF Water, Flowing, SOURCE
  <2>5. n[2] = c[2] /\ -s \in {-1, 1} /\ c = Beside(n, a, -s)
    BY <1>1, <2>3, BothWays
  <2> QED
    BY <2>1, <2>3, <2>4, <2>5
<1> QED
  BY <1>2, <1>3

(* How far water at c has come at the least: three steps go sideways before one    *)
(* goes down.                                                              *)
Way(c) == 3 * (WORLD_Y - 1 - c[2]) + world[c] - 6

LEMMA OneWayOn ==
  ASSUME world \in World, Settled, NEW c \in FlowCells, world[c] # AIR
  PROVE  \E n \in Cell : /\ world[n] \in Water /\ Way(n) + 1 <= Way(c)
                         /\ <<c, world[c]>> \in Onward(n, world[n])
<1>1. c \in Cell /\ c[2] \in Int /\ WORLD_Y \in Int /\ \A n \in Cell : world[n] \in Int
  BY CellParts, WorldAssumption DEF FlowCells, World, Block
<1>2. CASE /\ Above(c) \in Cell /\ world[Above(c)] \in Water /\ world[c] = 7
  <2>1. Below(Above(c)) = c /\ Above(c)[2] = c[2] + 1
    BY <1>1, BothWays
  <2>2. <<c, world[c]>> \in Onward(Above(c), world[Above(c)])
    BY <1>2, <2>1 DEF Onward
  <2>3. world[Above(c)] <= 9
    BY <1>2 DEF Water, Flowing, SOURCE
  <2>4. Way(Above(c)) + 1 <= Way(c)
    BY <1>1, <1>2, <2>1, <2>3 DEF Way
  <2> QED
    BY <1>2, <2>2, <2>4
<1>3. ASSUME NEW n \in Cell, NEW a \in {1, 3}, NEW s \in {-1, 1},
             world[n] \in 6..8, world[c] = world[n] + 1, n[2] = c[2],
             Solid(world, Below(n)), c = Beside(n, a, s)
      PROVE  /\ world[n] \in Water /\ Way(n) + 1 <= Way(c)
             /\ <<c, world[c]>> \in Onward(n, world[n])
  <2>1. world[n] \in Water
    BY <1>3 DEF Water, Flowing, SOURCE
  <2>2. Way(n) + 1 <= Way(c)
    BY <1>1, <1>3 DEF Way
  <2>3. world[n] <= 8
    BY <1>3
  <2> DEFINE side == {<<Beside(n, b, r), world[n] + 1>> : b \in {1, 3}, r \in {-1, 1}}
  <2>4. <<c, world[c]>> \in side
    BY <1>3
  <2>5. <<c, world[c]>> \in Onward(n, world[n])
    <3>1. Onward(n, world[n])
            = {<<Below(n), 7>>} \cup
              (IF world[n] <= 8 /\ Solid(world, Below(n)) THEN side ELSE {})
      BY DEF Onward
    <3> HIDE DEF side
    <3> QED
      BY <1>3, <2>3, <2>4, <3>1
  <2> QED
    BY <2>1, <2>2, <2>5
<1> QED
  BY <1>2, <1>3, WaterIsFed

(* All water that has settled is reached, at the level that it has.           *)
LEMMA WaterIsReached ==
  ASSUME world \in World, Settled
  PROVE  \A c \in Cell : world[c] \in Water => <<c, world[c]>> \in Reached
<1> DEFINE S == {m \in Nat : \A c \in Cell : world[c] \in Water /\ Way(c) <= m
                                           => <<c, world[c]>> \in ReachedIn[m]}
<1>1. \A c \in Cell : /\ c[2] \in 0 .. WORLD_Y - 1 /\ world[c] \in Int
                      /\ world[c] \in Water => Way(c) \in 0 .. 3 * WORLD_Y
  <2>1. WORLD_Y \in Nat
    BY WorldAssumption
  <2>2. ASSUME NEW c \in Cell
        PROVE  /\ c[2] \in 0 .. WORLD_Y - 1 /\ world[c] \in Int
               /\ world[c] \in Water => Way(c) \in 0 .. 3 * WORLD_Y
    <3>1. c[2] \in 0 .. WORLD_Y - 1 /\ world[c] \in Int
      BY CellParts DEF World, Block
    <3>2. world[c] \in Water => world[c] \in 6..9
      BY DEF Water, Flowing, SOURCE
    <3> QED
      BY <2>1, <3>1, <3>2 DEF Way
  <2> QED
    BY <2>2
<1>2. ASSUME NEW c \in Cell, world[c] = SOURCE, NEW m \in Nat
      PROVE  <<c, world[c]>> \in ReachedIn[m]
  <2>1. <<c, world[c]>> \in Springs
    BY <1>2 DEF Springs
  <2> QED
    BY <2>1, SpringsReached
<1>3. \A c \in Cell : world[c] \in Water => world[c] = SOURCE \/ (c \in FlowCells /\ world[c] # AIR)
  BY DEF Water, FlowCells, Flowing, AIR, SOURCE
<1>4. 0 \in S
  <2> SUFFICES ASSUME NEW c \in Cell, world[c] \in Water, Way(c) <= 0
               PROVE  <<c, world[c]>> \in ReachedIn[0]
    OBVIOUS
  <2>1. world[c] = SOURCE
    <3> SUFFICES ASSUME world[c] # SOURCE PROVE FALSE
      OBVIOUS
    <3>1. PICK n \in Cell : world[n] \in Water /\ Way(n) + 1 <= Way(c)
      BY <1>3, OneWayOn
    <3> QED
      BY <1>1, <3>1
  <2> QED
    BY <1>2, <2>1
<1>5. ASSUME NEW m \in Nat, m \in S PROVE m + 1 \in S
  <2> SUFFICES ASSUME NEW c \in Cell, world[c] \in Water, Way(c) <= m + 1
               PROVE  <<c, world[c]>> \in ReachedIn[m + 1]
    OBVIOUS
  <2>1. CASE world[c] = SOURCE
    BY <1>2, <2>1
  <2>2. CASE world[c] # SOURCE
    <3>1. c \in FlowCells /\ world[c] # AIR
      BY <1>3, <2>2
    <3>2. PICK n \in Cell : /\ world[n] \in Water /\ Way(n) + 1 <= Way(c)
                           /\ <<c, world[c]>> \in Onward(n, world[n])
      BY <3>1, OneWayOn
    <3>3. Way(n) <= m
      BY <1>1, <3>2
    <3>4. <<n, world[n]>> \in ReachedIn[m]
      BY <1>5, <3>2, <3>3
    <3>5. <<c, world[c]>> \in Spread(ReachedIn[m])
      BY <3>1, <3>2, <3>4, Spreads
    <3> QED
      BY <3>5, ReachedSteps
  <2> QED
    BY <2>1, <2>2
<1>6. \A m \in Nat : m \in S
  <2> HIDE DEF S
  <2> QED
    BY <1>4, <1>5, Upwards
<1>7. 3 * WORLD_Y \in Nat
  BY WorldAssumption
<1> QED
  BY <1>1, <1>6, <1>7 DEF Reached

(* Whatever is reached is water, at no higher a level than it is reached at.   *)
Held(f) == /\ f = <<f[1], f[2]>> /\ f[1] \in Cell /\ f[2] \in 6..9
           /\ world[f[1]] \in 6..f[2]

LEMMA HeldOn ==
  ASSUME world \in World, Settled, NEW c \in Cell, NEW l \in 6..9, world[c] \in 6..l,
         NEW g \in Onward(c, l), g[1] \in FlowCells
  PROVE  Held(g)
<1>1. world[c] \in Water
  BY DEF Water, Flowing, SOURCE
<1>2. CASE g = <<Below(c), 7>>
  <2>1. g[1] = Below(c) /\ Above(g[1]) = c
    BY <1>2, BothWays
  <2>2. getBlock(world, Above(g[1])) \in Water
    BY <1>1, <2>1 DEF getBlock
  <2>3. g[1] \in Cell /\ world[g[1]] = 7
    BY <2>2, SettledCell, IdealIs
  <2> QED
    BY <1>2, <2>3 DEF Held
<1>3. CASE g # <<Below(c), 7>>
  <2>1. l <= 8 /\ Solid(world, Below(c))
    BY <1>3 DEF Onward
  <2>2. PICK a \in {1, 3}, s \in {-1, 1} : g = <<Beside(c, a, s), l + 1>>
    BY <1>3, <2>1 DEF Onward
  <2> DEFINE n == g[1]
  <2>3. n = Beside(c, a, s) /\ g[2] = l + 1 /\ -s \in {-1, 1} /\ Beside(n, a, -s) = c
    BY <2>2, BothWays
  <2> HIDE DEF n
  <2>4. c \in {Beside(n, b, r) : b \in {1, 3}, r \in {-1, 1}}
    BY <2>3
  <2>5. c \in Feeders(world, n)
    BY <2>1, <2>4 DEF Feeders
  <2>6. FedBy(world, n, world[c])
    BY <2>5 DEF FedBy, getBlock
  <2>7. n \in Cell /\ world[n] = Ideal(world, n)
    BY SettledCell DEF n
  <2>8. world[n] \in 7 .. world[c] + 1
    <3>1. CASE getBlock(world, Above(n)) \in Water
      BY <2>7, <3>1, IdealIs
    <3>2. CASE getBlock(world, Above(n)) \notin Water
      <4>1. world[c] \in 6..8
        BY <2>1
      <4> QED
        BY <2>6, <2>7, <3>2, <4>1, IdealIs
    <3> QED
      BY <3>1, <3>2
  <2>9. l + 1 \in 6..9 /\ world[n] \in 6 .. l + 1
    BY <2>1, <2>8
  <2>10. g = <<n, l + 1>>
    BY <2>2, <2>3
  <2> QED
    BY <2>3, <2>7, <2>9, <2>10 DEF Held, n
<1> QED
  BY <1>2, <1>3

LEMMA ReachedIsWater ==
  ASSUME world \in World, Settled
  PROVE  \A f \in Reached : Held(f)
<1> DEFINE S == {m \in Nat : \A f \in ReachedIn[m] : Held(f)}
<1>1. 0 \in S
  <2>1. \A f \in Springs : Held(f)
    BY DEF Springs, Held, SOURCE
  <2> QED
    BY <2>1, ReachedSteps
<1>2. ASSUME NEW m \in Nat, m \in S PROVE m + 1 \in S
  <2> SUFFICES ASSUME NEW g \in Spread(ReachedIn[m]) PROVE Held(g)
    BY ReachedSteps
  <2>1. CASE g \in ReachedIn[m]
    BY <1>2, <2>1
  <2>2. ASSUME NEW f \in ReachedIn[m], g \in Onward(f[1], f[2]), g[1] \in FlowCells
        PROVE  Held(g)
    <3>1. f[1] \in Cell /\ f[2] \in 6..9 /\ world[f[1]] \in 6..f[2]
      BY <1>2 DEF Held
    <3> QED
      BY <2>2, <3>1, HeldOn
  <2> QED
    BY <2>1, <2>2, Spreads
<1> HIDE DEF S
<1>3. Nat \subseteq S
  BY <1>1, <1>2, Upwards
<1>4. 3 * WORLD_Y \in S
  BY <1>3, WorldAssumption
<1> QED
  BY <1>4 DEF S, Reached

LEMMA SettledFlows ==
  ASSUME world \in World PROVE SettledIsFlow
<1> SUFFICES ASSUME Settled, NEW c \in FlowCells,
                    NEW levels, levels = {f[2] : f \in {f \in Reached : f[1] = c}}
             PROVE  IF levels = {} THEN world[c] = AIR
                    ELSE world[c] \in levels /\ \A l \in levels : world[c] <= l
  BY DEF SettledIsFlow
<1>1. c \in Cell /\ (world[c] \in Flowing \/ world[c] = AIR)
  BY DEF FlowCells
<1>2. \A l : l \in levels <=> \E f \in Reached : f[1] = c /\ f[2] = l
  OBVIOUS
<1>3. world[c] \in Water => world[c] \in levels
  <2>1. world[c] \in Water => <<c, world[c]>> \in Reached
    BY <1>1, WaterIsReached
  <2> QED
    BY <1>2, <2>1
<1>4. \A l \in levels : world[c] \in 6..l /\ l \in Int
  BY <1>2, ReachedIsWater DEF Held
<1>5. world[c] \in Flowing => world[c] \in Water
  BY DEF Water
<1>6. world[c] = AIR => levels = {}
  BY <1>4 DEF AIR
<1> QED
  BY <1>1, <1>3, <1>4, <1>5, <1>6

(* Water that has settled is what the sources feed and nothing else, at the    *)
(* level of the shortest way, for maps of any size: a rule by which a cell     *)
(* only looks at its neighbours leaves no water that keeps itself alive.      *)
THEOREM WaterIsFlow == Spec => []SettledIsFlow
<1>1. TypeOK => SettledIsFlow
  BY SettledFlows DEF TypeOK
<1> QED
  BY <1>1, TypeCorrect, PTL
=============================================================================
