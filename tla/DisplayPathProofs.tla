--------------------------- MODULE DisplayPathProofs ---------------------------
(***************************************************************************)
(* Proofs about DisplayPath for any size of the screen, any number of poses *)
(* and any set of clear colours.                                           *)
(***************************************************************************)
EXTENDS DisplayPath, TLAPS

(* The markers are no rays and no orders.                                    *)
LEMMA Distinct ==
  /\ None \notin Rays /\ None # Mixed
  /\ \A c : Clear(c) # None
BY DEF None, Rays, Ray, Mixed, Clear

(* A ray put together from its parts is a ray, and a colour a pixel.          *)
LEMMA RayOf ==
  ASSUME NEW c \in Camera, NEW d \in Dir
  PROVE  [camera |-> c, dir |-> d] \in Ray
BY DEF Ray

LEMMA PixelTypes ==
  /\ \A r \in Rays : Shade(r) \in Pixel
  /\ \A c \in Color : Clear(c) \in Pixel
  /\ Crosshair \in Pixel
BY DEF Pixel

(* Counting a direction on, within the screen.                               *)
LEMMA DirMoves ==
  ASSUME NEW c \in Col, NEW r \in Row
  PROVE  /\ [col |-> c, row |-> r] \in Dir
         /\ AddDx([col |-> c, row |-> r]) = [col |-> c + 1, row |-> r]
         /\ AddDy([col |-> c, row |-> r]) = [col |-> c, row |-> r + 1]
         /\ c # VGA_W - 1 => c + 1 \in Col
         /\ r # VGA_H - 1 => r + 1 \in Row
BY SizeAssumption DEF Dir, Col, Row, AddDx, AddDy

LEMMA Origin == 0 \in Col /\ 0 \in Row /\ Dir0 \in Dir
BY SizeAssumption DEF Col, Row, Dir, Dir0

(* The totals leave room for the active dots.                                *)
LEMMA Timing ==
  /\ H_TOTAL \in Nat /\ 0 \in 0 .. H_TOTAL - 1
  /\ V_TOTAL \in Nat /\ 0 \in 0 .. V_TOTAL - 1
<1>1. \A m \in Nat, n \in Nat : m * n \in Nat
  OBVIOUS
<1>2. H_ACTIVE \in Nat /\ V_ACTIVE \in Nat
  BY <1>1, TimingAssumption, SizeAssumption DEF H_ACTIVE, V_ACTIVE
<1> QED
  BY <1>2, TimingAssumption

(* What the clock edge hands the scheduler.                                  *)
TheCamera == [place |-> place, aim |-> aim]
ClearOn   == vga_clear # None
ClearFill == IF vga_clear = None THEN BlackFill ELSE vga_clear.clear

LEMMA Ports ==
  ASSUME BridgeOK
  PROVE  TheCamera \in Camera /\ ClearOn \in BOOLEAN /\ ClearFill \in Color
BY CameraAssumption, ColorAssumption
   DEF BridgeOK, TheCamera, ClearOn, ClearFill, Cameras, ClearOrder, Clear

LEMMA ClkIs ==
  Clk => /\ SchedClk(TheCamera, ClearOn, ClearFill) /\ CoreClk /\ ShaderClk
         /\ MemClk
         /\ finished' = (IF LastPixel THEN Drawing ELSE finished)
BY DEF Clk, RayClk, TheCamera, ClearOn, ClearFill

(* Between the clock edges of the renderer its registers keep their values.    *)
LEMMA Still ==
  ASSUME [Next]_vars, ~Clk
  PROVE  UNCHANGED <<rayVars, mem, finished>>
BY DEF Next, vars, Dots, Cpu

-----------------------------------------------------------------------------
(* The handshakes: who is at work in which state of the scheduler *)

LEMMA CasterStep ==
  ASSUME CasterPhase, ClearPhase, RayFlagsOK,
         NEW camera, NEW clear \in BOOLEAN, NEW color,
         SchedClk(camera, clear, color), CoreClk
  PROVE  CasterPhase'
<1> USE DEF CasterPhase, ClearPhase, RayFlagsOK,
     SchedClk, Latch, RayPulse, RayWait, RayTaken, ShadePulse, ShadeWait,
     ShadeTaken, NextPixel, NextRow, FrameEnd, LastPixel, Emit, AfterWrite
<1>1. CASE CoreIdle
  BY <1>1 DEF CoreIdle
<1>2. CASE CoreStart
  BY <1>2 DEF CoreStart
<1>3. CASE CoreRun
  BY <1>3 DEF CoreRun
<1>4. CASE CoreEnd
  BY <1>4 DEF CoreEnd
<1> QED
  BY <1>1, <1>2, <1>3, <1>4 DEF CoreClk

LEMMA ShaderStep ==
  ASSUME ShaderPhase, ClearPhase, RayFlagsOK,
         NEW camera, NEW clear \in BOOLEAN, NEW color,
         SchedClk(camera, clear, color), ShaderClk
  PROVE  ShaderPhase'
<1> USE DEF ShaderPhase, ClearPhase, RayFlagsOK,
     SchedClk, Latch, RayPulse, RayWait, RayTaken, ShadePulse, ShadeWait,
     ShadeTaken, NextPixel, NextRow, FrameEnd, LastPixel, Emit, AfterWrite
<1>1. CASE ShaderIdle
  BY <1>1 DEF ShaderIdle
<1>2. CASE ShaderStart
  BY <1>2 DEF ShaderStart
<1>3. CASE ShaderRun
  BY <1>3 DEF ShaderRun
<1>4. CASE ShaderEnd
  BY <1>4 DEF ShaderEnd
<1> QED
  BY <1>1, <1>2, <1>3, <1>4 DEF ShaderClk

LEMMA ClearStep ==
  ASSUME ClearPhase, RayFlagsOK,
         NEW camera, NEW clear \in BOOLEAN, NEW color,
         SchedClk(camera, clear, color)
  PROVE  ClearPhase'
BY DEF ClearPhase, RayFlagsOK, frameVars,
     SchedClk, Latch, RayPulse, RayWait, RayTaken, ShadePulse, ShadeWait,
     ShadeTaken, NextPixel, NextRow, FrameEnd, LastPixel, Emit, AfterWrite

-----------------------------------------------------------------------------
(* Types *)

LEMMA TypeInit == Init => TypeOK
<1> SUFFICES ASSUME Init PROVE TypeOK
  OBVIOUS
<1>1. RayFlagsOK
  BY DEF Init, RayInit, RayFlagsOK
<1>2. PowerUp.camera \in Camera /\ BlackFill \in Color
  BY CameraAssumption, ColorAssumption, PoseAssumption
     DEF PowerUp, Cameras, Pose
<1>3. RayDataOK
  <2>1. [buf |-> 0, row |-> 0, col |-> 0] \in Address
    BY Origin DEF Address
  <2>2. Mixed \in Rays
    BY DEF Rays
  <2> QED
    BY <1>2, <2>1, <2>2, Origin, PixelTypes
       DEF Init, RayInit, RayDataOK, States
<1>4. Clear(BlackFill) \in Pixel
  BY <1>2, PixelTypes
<1>5. VgaTypeOK
  <2>1. Black \in Dot /\ Clear(BlackFill) \in Dot
    BY <1>4 DEF Dot
  <2> QED
    BY <2>1, Timing DEF Init, VgaInit, VgaTypeOK
<1>6. BridgeOK
  BY PoseAssumption DEF Init, BridgeOK, Pose, ClearOrder
<1>7. MemoryOK
  <2>1. PowerUp \in Frame
    BY <1>2, ColorAssumption DEF Frame, PowerUp, ClearOrder
  <2> QED
    BY <1>4, <2>1 DEF Init, MemoryOK, Dot
<1> QED
  BY <1>1, <1>3, <1>5, <1>6, <1>7 DEF TypeOK, Init


LEMMA RayFlagsStep ==
  ASSUME RayFlagsOK, NEW camera, NEW clear \in BOOLEAN, NEW color,
         SchedClk(camera, clear, color), CoreClk, ShaderClk
  PROVE  RayFlagsOK'
<1>1. /\ clear_reg' \in BOOLEAN
      /\ start_ray' \in BOOLEAN /\ ray_pulsed' \in BOOLEAN
      /\ start_shade' \in BOOLEAN /\ shade_pulsed' \in BOOLEAN
      /\ vram_wr_en' \in BOOLEAN
  BY DEF RayFlagsOK, frameVars,
     SchedClk, Latch, RayPulse, RayWait, RayTaken, ShadePulse, ShadeWait,
     ShadeTaken, NextPixel, NextRow, FrameEnd, LastPixel, Emit, AfterWrite
<1>2. ray_done' \in BOOLEAN
  BY DEF RayFlagsOK, CoreClk, CoreIdle, CoreStart, CoreRun, CoreEnd
<1>3. shade_done' \in BOOLEAN
  BY DEF RayFlagsOK, ShaderClk, ShaderIdle, ShaderStart, ShaderRun, ShaderEnd
<1> QED
  BY <1>1, <1>2, <1>3 DEF RayFlagsOK

LEMMA CoreDataStep ==
  ASSUME RayDataOK, CoreClk
  PROVE  casting' \in Rays \cup {None} /\ core_out' \in Rays
<1>1. RayPort \in Rays /\ CoreRead \in Rays \cup {None}
  BY RayOf DEF RayDataOK, RayPort, CoreRead, Rays
<1>2. casting # None => CoreRead \in Rays
  BY Distinct DEF RayDataOK, CoreRead, Rays
<1> QED
  BY <1>1, <1>2
     DEF RayDataOK, CoreClk, CoreIdle, CoreStart, CoreRun, CoreEnd

LEMMA ShaderDataStep ==
  ASSUME RayDataOK, ShaderClk
  PROVE  /\ shading' \in Rays \cup {None}
         /\ shaded_color' \in {Shade(r) : r \in Rays}
<1>1. ShaderPort \in Rays
  BY DEF RayDataOK, ShaderPort, Rays
<1>2. shading # None => ShaderRead \in Rays
  BY Distinct DEF RayDataOK, ShaderRead, Rays
<1> QED
  BY <1>1, <1>2
     DEF RayDataOK, ShaderClk, ShaderIdle, ShaderStart, ShaderRun, ShaderEnd

LEMMA SchedDataStep ==
  ASSUME RayDataOK, RayFlagsOK, ClearPhase, DirInStep,
         NEW camera \in Camera, NEW clear \in BOOLEAN, NEW color \in Color,
         SchedClk(camera, clear, color), CoreClk, ShaderClk
  PROVE  RayDataOK'
<1>1. /\ casting' \in Rays \cup {None} /\ core_out' \in Rays
      /\ shading' \in Rays \cup {None}
      /\ shaded_color' \in {Shade(r) : r \in Rays}
  BY CoreDataStep, ShaderDataStep
<1>2. sched_state' \in States
  BY DEF RayDataOK, States,
     SchedClk, Latch, RayPulse, RayWait, RayTaken, ShadePulse, ShadeWait,
     ShadeTaken, NextPixel, NextRow, FrameEnd, LastPixel, Emit, AfterWrite
<1>3. latched' \in Camera /\ clear_color_reg' \in Color
  BY DEF RayDataOK, frameVars,
     SchedClk, Latch, RayPulse, RayWait, RayTaken, ShadePulse, ShadeWait,
     ShadeTaken, NextPixel, NextRow, FrameEnd, LastPixel, Emit, AfterWrite
<1>4. shade_dir' \in Dir
  BY DEF RayDataOK,
     SchedClk, Latch, RayPulse, RayWait, RayTaken, ShadePulse, ShadeWait,
     ShadeTaken, NextPixel, NextRow, FrameEnd, LastPixel, Emit, AfterWrite
<1>5. /\ height' \in Row /\ width' \in Col
      /\ dir' \in Dir /\ row_start_dir' \in Dir
  <2>1. CASE Latch(camera, clear, color)
    BY <2>1, Origin DEF Latch
  <2>2. CASE pixelVars' = pixelVars
    BY <2>2 DEF RayDataOK, pixelVars
  <2>3. ASSUME sched_state = "S_WRITE"
        PROVE  dir = [col |-> width, row |-> height]
               /\ row_start_dir = [col |-> 0, row |-> height]
    BY <2>3 DEF DirInStep, Here
  <2>4. CASE NextPixel
    <3>1. width' \in Col /\ height' \in Row
      BY <2>4, DirMoves DEF NextPixel, RayDataOK
    <3>2. dir' = [col |-> width', row |-> height']
      BY <2>3, <2>4, DirMoves DEF NextPixel, Emit, RayDataOK
    <3> QED
      BY <2>4, <3>1, <3>2, DirMoves DEF NextPixel, RayDataOK
  <2>5. CASE NextRow
    <3>1. width' \in Col /\ height' \in Row
      BY <2>5, DirMoves, Origin DEF NextRow, RayDataOK
    <3>2. dir' = [col |-> width', row |-> height'] /\ row_start_dir' = dir'
      BY <2>3, <2>5, DirMoves, Origin DEF NextRow, Emit, RayDataOK
    <3> QED
      BY <3>1, <3>2, DirMoves
  <2>6. CASE FrameEnd
    BY <2>6, Origin DEF FrameEnd, RayDataOK
  <2> QED
    BY <2>1, <2>2, <2>4, <2>5, <2>6
       DEF SchedClk, RayPulse, RayWait, RayTaken, ShadePulse, ShadeWait, ShadeTaken
<1>6. /\ vram_index' \in {0, 1}
      /\ vram_wr_addr' \in Address /\ vram_wr_data' \in Pixel
  <2>1. ASSUME Emit PROVE vram_wr_addr' \in Address /\ vram_wr_data' \in Pixel
    BY <2>1, PixelTypes DEF Emit, RayDataOK, Address
  <2>2. vram_index' \in {0, 1}
    BY DEF RayDataOK, vramVars,
     SchedClk, Latch, RayPulse, RayWait, RayTaken, ShadePulse, ShadeWait,
     ShadeTaken, NextPixel, NextRow, FrameEnd, LastPixel, Emit, AfterWrite
  <2>3. CASE vramVars' = vramVars
    BY <2>3 DEF RayDataOK, vramVars
  <2> QED
    BY <2>1, <2>2, <2>3
       DEF SchedClk, Latch, RayPulse, RayWait, RayTaken, ShadePulse, ShadeWait,
           ShadeTaken, NextPixel, NextRow, FrameEnd
<1> QED
  BY <1>1, <1>2, <1>3, <1>4, <1>5, <1>6 DEF RayDataOK

LEMMA VgaStep ==
  ASSUME RayDataOK, VgaTypeOK, MemoryOK, Dots
  PROVE  VgaTypeOK'
<1>1. /\ h_count' \in 0 .. H_TOTAL - 1 /\ v_count' \in 0 .. V_TOTAL - 1
      /\ sync_layer_3D_index' \in {0, 1}
  BY Timing
     DEF RayDataOK, VgaTypeOK, Dots, VgaClk, NextDot, NextLine, NextScan
<1>2. /\ layer_3D_rd_data_delay_1' \in Dot /\ VGA_RGB' \in Dot
  BY DEF VgaTypeOK, MemoryOK, Dots, VgaClk, Pipeline, Dot
<1>3. /\ blank_n_delay_1' \in BOOLEAN /\ blank_n_delay_2' \in BOOLEAN
      /\ VGA_BLANK_N' \in BOOLEAN
  BY DEF VgaTypeOK, Dots, VgaClk, Pipeline, Active
<1> QED
  BY <1>1, <1>2, <1>3 DEF VgaTypeOK

LEMMA StoredType ==
  ASSUME RayDataOK, MemoryOK
  PROVE  Stored \in [Address -> Pixel]
BY DEF RayDataOK, MemoryOK, Stored

LEMMA DrawingIsFrame ==
  ASSUME RayDataOK
  PROVE  Drawing \in Frame
BY DEF RayDataOK, Drawing, Frame, ClearOrder

LEMMA MemoryStep ==
  ASSUME RayDataOK, VgaTypeOK, MemoryOK, Clk
  PROVE  MemoryOK'
<1>1. mem' \in [Address -> Pixel]
  BY StoredType, ClkIs DEF MemClk
<1>2. rd_data' \in Dot
  BY ClkIs DEF MemClk, Reads, MemoryOK, Dot
<1>3. finished' \in Frame
  BY ClkIs, DrawingIsFrame DEF MemoryOK
<1> QED
  BY <1>1, <1>2, <1>3 DEF MemoryOK

LEMMA BridgeStep ==
  ASSUME BridgeOK, Cpu
  PROVE  BridgeOK'
<1>1. Clear(MenuFill) \in ClearOrder /\ None \in ClearOrder
  BY ColorAssumption DEF ClearOrder
<1>2. place' \in Pose /\ aim' \in Pose
  BY PoseAssumption
     DEF BridgeOK, Cpu, WritePlace, WriteAim, WriteClear, Pose
<1>3. vga_clear' \in ClearOrder
  BY <1>1 DEF BridgeOK, Cpu, WritePlace, WriteAim, WriteClear
<1> QED
  BY <1>2, <1>3 DEF BridgeOK

LEMMA TypeStep ==
  ASSUME TypeOK, ClearPhase, DirInStep, [Next]_vars
  PROVE  TypeOK'
<1> USE DEF TypeOK
<1>1. CASE Clk
  <2>1. RayFlagsOK' /\ RayDataOK'
    BY <1>1, ClkIs, Ports, RayFlagsStep, SchedDataStep
  <2>2. VgaTypeOK' /\ BridgeOK' /\ settled' \in BOOLEAN
    BY <1>1
       DEF Clk, vgaVars, scanVars, pipeVars, bridgeVars, VgaTypeOK, BridgeOK
  <2> QED
    BY <1>1, <2>1, <2>2, MemoryStep
<1>2. CASE Dots
  <2>1. RayFlagsOK' /\ RayDataOK'
    BY <1>2 DEF Dots, rayVars, pixelVars, frameVars, vramVars, coreVars,
                shaderVars, RayFlagsOK, RayDataOK
  <2>2. BridgeOK' /\ MemoryOK' /\ settled' \in BOOLEAN
    BY <1>2 DEF Dots, bridgeVars, BridgeOK, MemoryOK
  <2> QED
    BY <1>2, <2>1, <2>2, VgaStep
<1>3. CASE Cpu
  <2>1. RayFlagsOK' /\ RayDataOK'
    BY <1>3 DEF Cpu, rayVars, pixelVars, frameVars, vramVars, coreVars,
                shaderVars, RayFlagsOK, RayDataOK
  <2>2. VgaTypeOK' /\ MemoryOK' /\ settled' \in BOOLEAN
    BY <1>3 DEF Cpu, vgaVars, scanVars, pipeVars, VgaTypeOK, MemoryOK
  <2> QED
    BY <1>3, <2>1, <2>2, BridgeStep
<1>4. CASE UNCHANGED vars
  BY <1>4 DEF vars, rayVars, pixelVars, frameVars, vramVars, coreVars,
              shaderVars, RayFlagsOK, RayDataOK, vgaVars, scanVars, pipeVars,
              VgaTypeOK, bridgeVars, BridgeOK, MemoryOK
<1> QED
  BY <1>1, <1>2, <1>3, <1>4 DEF Next

-----------------------------------------------------------------------------
(* The pixel in work: direction, cast, colour *)

LEMMA DirStep ==
  ASSUME RayDataOK, DirInStep, NEW camera, NEW clear \in BOOLEAN, NEW color,
         SchedClk(camera, clear, color)
  PROVE  DirInStep'
<1> USE DEF DirInStep, Here
<1>1. CASE Latch(camera, clear, color)
  BY <1>1 DEF Latch, Dir0
<1>2. CASE pixelVars' = pixelVars /\ sched_state # "S_IDLE"
  BY <1>2 DEF pixelVars
<1>3. CASE NextPixel
  BY <1>3, DirMoves DEF NextPixel, Emit, RayDataOK
<1>4. CASE NextRow
  BY <1>4, DirMoves, Origin DEF NextRow, Emit, RayDataOK
<1>5. CASE FrameEnd
  BY <1>5 DEF FrameEnd
<1> QED
  BY <1>1, <1>2, <1>3, <1>4, <1>5
     DEF SchedClk, RayPulse, RayWait, RayTaken, ShadePulse, ShadeWait, ShadeTaken

(* While a pixel is cast and shaded it stays the same pixel of the same       *)
(* frame.                                                                  *)
LEMMA SamePixel ==
  ASSUME NEW camera, NEW clear \in BOOLEAN, NEW color,
         SchedClk(camera, clear, color), sched_state \in {"S_RAY", "S_SHADE"}
  PROVE  /\ PixelRay' = PixelRay /\ Here' = Here
         /\ UNCHANGED <<latched, dir, height, width, clear_reg>>
<1>1. UNCHANGED <<latched, dir, height, width, clear_reg>>
  BY DEF SchedClk, Latch, RayPulse, RayWait, RayTaken, ShadePulse, ShadeWait,
         ShadeTaken, NextPixel, NextRow, FrameEnd, Emit, pixelVars, frameVars
<1> QED
  BY <1>1 DEF PixelRay, Here

LEMMA CastStep ==
  ASSUME RayDataOK, RayFlagsOK, CasterPhase, DirInStep, CastInStep,
         NEW camera, NEW clear \in BOOLEAN, NEW color,
         SchedClk(camera, clear, color), CoreClk
  PROVE  CastInStep'
<1>1. ASSUME start_ray \/ casting # None
      PROVE  /\ RayPort = PixelRay /\ PixelRay' = PixelRay
             /\ sched_state = "S_RAY" /\ ray_pulsed
  BY <1>1, SamePixel DEF CasterPhase, DirInStep, RayPort, PixelRay
<1>2. casting' # None => casting' = PixelRay'
  BY <1>1 DEF CastInStep, CoreClk, CoreIdle, CoreStart, CoreRun, CoreEnd, CoreRead
<1>3. ray_done' => core_out' = PixelRay'
  BY <1>1 DEF CasterPhase, CastInStep, CoreClk, CoreIdle, CoreStart, CoreRun,
              CoreEnd, CoreRead
<1>4. sched_state' = "S_SHADE" => core_out' = PixelRay' /\ shade_dir' = Here'
  <2>1. CASE RayTaken
    <3>1. casting = None /\ ~start_ray /\ core_out = PixelRay
      BY <2>1 DEF RayTaken, CasterPhase, CastInStep
    <3>2. dir = Here
      BY <2>1 DEF RayTaken, DirInStep
    <3> QED
      BY <2>1, <3>1, <3>2, SamePixel
         DEF RayTaken, CoreClk, CoreIdle, CoreStart, CoreRun, CoreEnd
  <2>2. CASE ShadePulse \/ ShadeWait
    <3>1. casting = None /\ ~start_ray
      BY <2>2 DEF ShadePulse, ShadeWait, CasterPhase
    <3> QED
      BY <2>2, <3>1, SamePixel
         DEF ShadePulse, ShadeWait, CastInStep, CoreClk, CoreIdle, CoreStart,
             CoreRun, CoreEnd
  <2>3. sched_state' = "S_SHADE" => RayTaken \/ ShadePulse \/ ShadeWait
    BY DEF SchedClk, Latch, RayPulse, RayWait, ShadeTaken, NextPixel, NextRow,
           FrameEnd, Emit, AfterWrite
  <2> QED
    BY <2>1, <2>2, <2>3
<1> QED
  BY <1>2, <1>3, <1>4 DEF CastInStep

LEMMA ShadeStep ==
  ASSUME RayDataOK, RayFlagsOK, CasterPhase, ShaderPhase, ClearPhase,
         CastInStep, ShadeInStep,
         NEW camera, NEW clear \in BOOLEAN, NEW color,
         SchedClk(camera, clear, color), ShaderClk
  PROVE  ShadeInStep'
<1>1. ASSUME start_shade \/ shading # None
      PROVE  /\ ShaderPort = PixelRay /\ PixelRay' = PixelRay
             /\ sched_state = "S_SHADE" /\ shade_pulsed
  <2>1. sched_state = "S_SHADE" /\ shade_pulsed
    BY <1>1 DEF ShaderPhase
  <2>2. ~ray_pulsed /\ casting = None /\ ~start_ray
    BY <2>1 DEF CasterPhase
  <2>3. core_out = PixelRay /\ shade_dir = Here /\ height = shade_dir.row
    BY <2>1 DEF CastInStep, Here
  <2> QED
    BY <2>1, <2>2, <2>3, SamePixel DEF ShaderPort, PixelRay
<1>2. shading' # None => shading' = PixelRay'
  BY <1>1 DEF ShadeInStep, ShaderClk, ShaderIdle, ShaderStart, ShaderRun,
              ShaderEnd, ShaderRead
<1>3. shade_done' => shaded_color' = Shade(PixelRay')
  BY <1>1 DEF ShadeInStep, ShaderClk, ShaderIdle, ShaderStart, ShaderRun,
              ShaderEnd, ShaderRead
<1>4. sched_state' = "S_WRITE" /\ ~clear_reg' => shaded_color' = Shade(PixelRay')
  <2>1. CASE ShadeTaken
    BY <2>1, SamePixel
       DEF ShadeTaken, ShaderPhase, ShadeInStep, ShaderClk, ShaderIdle,
           ShaderStart, ShaderRun, ShaderEnd
  <2>2. sched_state' = "S_WRITE" /\ ~clear_reg' => ShadeTaken
    BY DEF SchedClk, Latch, RayPulse, RayWait, RayTaken, ShadePulse, ShadeWait,
           NextPixel, NextRow, FrameEnd, Emit, AfterWrite, frameVars
  <2> QED
    BY <2>1, <2>2
<1> QED
  BY <1>2, <1>3, <1>4 DEF ShadeInStep

-----------------------------------------------------------------------------
(* The picture *)

Spot0(b) == [buf |-> b, row |-> height, col |-> width]

(* What the memory holds once the write registers are taken changes only      *)
(* when a pixel is emitted, and there only.                                 *)
LEMMA StoredStep ==
  ASSUME RayDataOK, RayFlagsOK, MemoryOK, Clk
  PROVE  /\ Emit => /\ Spot0(vram_index) \in Address
                    /\ Stored' = [Stored EXCEPT ![Spot0(vram_index)] = vram_wr_data']
         /\ ~Emit => Stored' = Stored
<1>1. mem' = Stored
  BY ClkIs DEF MemClk
<1>2. CASE Emit
  BY <1>1, <1>2 DEF Stored, Emit, Spot0, RayDataOK, Address
<1>3. CASE ~Emit
  <2>1. vram_wr_en' = FALSE
    BY <1>3, ClkIs
       DEF SchedClk, Latch, RayPulse, RayWait, RayTaken, ShadePulse, ShadeWait,
           ShadeTaken, NextPixel, NextRow, FrameEnd
  <2> QED
    BY <1>1, <1>3, <2>1 DEF Stored
<1> QED
  BY <1>2, <1>3

LEMMA EmitWants ==
  ASSUME RayDataOK, RayFlagsOK, ShadeInStep, Emit
  PROVE  \A b : vram_wr_data' = Want(Drawing, Spot0(b))
<1>1. CASE clear_reg
  BY <1>1, Distinct DEF Emit, Want, Drawing
<1>2. CASE ~clear_reg
  BY <1>2 DEF Emit, Want, Drawing, Centre, Spot0, ShadeInStep, PixelRay, Here
<1> QED
  BY <1>1, <1>2

(* The half is not told from the picture.                                    *)
LEMMA WantSpot ==
  ASSUME NEW f, NEW a, NEW b, a.row = b.row, a.col = b.col
  PROVE  Want(f, a) = Want(f, b)
BY DEF Want

(* After the pixel in work, every pixel passed is drawn.                     *)
LEMMA DrawnAfter ==
  ASSUME RayDataOK, RayFlagsOK, MemoryOK, ShadeInStep, DrawnSoFar, Clk, Emit,
         NEW a \in Address, a.buf = vram_index,
         Passed(a) \/ (a.row = height /\ a.col = width)
  PROVE  Stored'[a] = Want(Drawing, a)
<1>1. /\ Spot0(vram_index) \in Address
      /\ Stored' = [Stored EXCEPT ![Spot0(vram_index)] = vram_wr_data']
  BY StoredStep
<1>2. Stored \in [Address -> Pixel]
  BY StoredType
<1>3. CASE a = Spot0(vram_index)
  BY <1>1, <1>2, <1>3, EmitWants
<1>4. CASE a # Spot0(vram_index)
  <2>1. Passed(a)
    BY <1>4 DEF Address, Spot0
  <2>2. sched_state = "S_WRITE"
    BY DEF Emit
  <2> QED
    BY <1>1, <1>2, <1>4, <2>1, <2>2 DEF DrawnSoFar
<1> QED
  BY <1>3, <1>4

LEMMA DrawnStep ==
  ASSUME RayDataOK, RayFlagsOK, MemoryOK, ShadeInStep, DrawnSoFar, Clk
  PROVE  DrawnSoFar'
<1> USE DEF Passed
<1>1. SchedClk(TheCamera, ClearOn, ClearFill)
  BY ClkIs
<1>2. CASE Latch(TheCamera, ClearOn, ClearFill)
  <2>1. height' = 0 /\ width' = 0
    BY <1>2 DEF Latch
  <2>2. \A a \in Address : ~(a.row < 0) /\ ~(a.col < 0)
    BY SizeAssumption DEF Address, Row, Col
  <2> QED
    BY <2>1, <2>2 DEF DrawnSoFar
<1>3. CASE \/ RayPulse \/ RayWait \/ RayTaken
           \/ ShadePulse \/ ShadeWait \/ ShadeTaken
  <2>1. ~Emit /\ sched_state # "S_IDLE"
    BY <1>3 DEF RayPulse, RayWait, RayTaken, ShadePulse, ShadeWait, ShadeTaken,
                Emit
  <2>2. Stored' = Stored
    BY <2>1, StoredStep
  <2>3. UNCHANGED <<height, width, vram_index, latched, clear_reg, clear_color_reg>>
    BY <1>3 DEF RayPulse, RayWait, RayTaken, ShadePulse, ShadeWait, ShadeTaken,
                pixelVars, frameVars, vramVars
  <2>4. Drawing' = Drawing
    BY <2>3 DEF Drawing
  <2> QED
    BY <2>1, <2>2, <2>3, <2>4 DEF DrawnSoFar
<1>4. CASE NextPixel \/ NextRow
  <2>1. Emit /\ vram_index' = vram_index
    BY <1>4 DEF NextPixel, NextRow
  <2>2. Drawing' = Drawing
    BY <2>1 DEF Emit, frameVars, Drawing
  <2>3. ASSUME NEW a \in Address, Passed(a)'
        PROVE  Passed(a) \/ (a.row = height /\ a.col = width)
    <3>1. a.row \in Row /\ a.col \in Col /\ height \in Row /\ width \in Col
      BY DEF Address, RayDataOK
    <3>2. CASE NextPixel
      BY <2>3, <3>1, <3>2, SizeAssumption DEF NextPixel, Row, Col
    <3>3. CASE NextRow
      BY <2>3, <3>1, <3>3, SizeAssumption DEF NextRow, Row, Col
    <3> QED
      BY <1>4, <3>2, <3>3
  <2> QED
    BY <2>1, <2>2, <2>3, DrawnAfter DEF DrawnSoFar
<1>5. CASE FrameEnd
  BY <1>5 DEF FrameEnd, DrawnSoFar
<1> QED
  BY <1>1, <1>2, <1>3, <1>4, <1>5 DEF SchedClk

LEMMA WholeStep ==
  ASSUME RayDataOK, RayFlagsOK, MemoryOK, ShadeInStep, DrawnSoFar, FrameWhole,
         Clk
  PROVE  FrameWhole'
<1>1. SchedClk(TheCamera, ClearOn, ClearFill)
  BY ClkIs
<1>2. CASE FrameEnd
  <2>1. Emit /\ LastPixel /\ vram_index' = 1 - vram_index /\ finished' = Drawing
    BY <1>2, ClkIs DEF FrameEnd
  <2>2. ASSUME NEW a \in Address, a.buf # vram_index'
        PROVE  /\ a.buf = vram_index
               /\ Passed(a) \/ (a.row = height /\ a.col = width)
    <3>1. a.row \in Row /\ a.col \in Col /\ a.buf \in {0, 1} /\ vram_index \in {0, 1}
      BY DEF Address, RayDataOK
    <3> QED
      BY <2>1, <2>2, <3>1, SizeAssumption DEF LastPixel, Row, Col, Passed
  <2> QED
    BY <2>1, <2>2, DrawnAfter DEF FrameWhole
<1>3. CASE ~FrameEnd
  <2>1. vram_index' = vram_index
    BY <1>1, <1>3
       DEF SchedClk, Latch, RayPulse, RayWait, RayTaken, ShadePulse, ShadeWait,
           ShadeTaken, NextPixel, NextRow, vramVars
  <2>2. finished' = finished
    <3>1. LastPixel => FrameEnd
      BY <1>1
         DEF SchedClk, Latch, RayPulse, RayWait, RayTaken, ShadePulse,
             ShadeWait, ShadeTaken, NextPixel, NextRow, LastPixel
    <3> QED
      BY <1>3, <3>1, ClkIs
  <2>3. ASSUME NEW a \in Address, a.buf # vram_index
        PROVE  Stored'[a] = Stored[a]
    BY <2>3, StoredStep, StoredType DEF Spot0
  <2> QED
    BY <2>1, <2>2, <2>3 DEF FrameWhole
<1> QED
  BY <1>2, <1>3

LEMMA SchedCamera ==
  ASSUME NEW camera, NEW clear, NEW color, SchedClk(camera, clear, color)
  PROVE  latched' \in {latched, camera}
BY DEF frameVars,
     SchedClk, Latch, RayPulse, RayWait, RayTaken, ShadePulse, ShadeWait,
     ShadeTaken, NextPixel, NextRow, FrameEnd, Emit

LEMMA PosesStep ==
  ASSUME TypeOK, PosesForward, [Next]_vars
  PROVE  PosesForward'
<1>1. /\ latched.place \in Nat /\ latched.aim \in Nat
      /\ finished.camera.place \in Nat /\ finished.camera.aim \in Nat
      /\ place \in Nat /\ aim \in Nat
  BY CameraAssumption, PoseAssumption
     DEF TypeOK, RayDataOK, MemoryOK, BridgeOK, Frame, Cameras, Pose
<1> USE DEF PosesForward, Mixes, Before
<1>2. CASE Clk
  <2>1. place' = place /\ aim' = aim
    BY <1>2 DEF Clk, bridgeVars
  <2>2. finished' = finished \/ finished'.camera = latched
    BY <1>2, ClkIs DEF Drawing
  <2>3. latched' = latched \/ latched' = TheCamera
    BY <1>2, ClkIs, SchedCamera
  <2> QED
    BY <1>1, <2>1, <2>2, <2>3 DEF TheCamera
<1>3. CASE Dots
  BY <1>3 DEF Dots, rayVars, frameVars, bridgeVars
<1>4. CASE Cpu
  <2>1. latched' = latched /\ finished' = finished
    BY <1>4 DEF Cpu, rayVars, frameVars
  <2>2. CASE WritePlace
    BY <1>1, <2>1, <2>2 DEF WritePlace
  <2>3. CASE WriteAim
    BY <1>1, <2>1, <2>3 DEF WriteAim
  <2>4. CASE WriteClear
    BY <2>1, <2>4 DEF WriteClear
  <2> QED
    BY <1>4, <2>2, <2>3, <2>4 DEF Cpu
<1>5. CASE UNCHANGED vars
  BY <1>5 DEF vars, rayVars, frameVars, bridgeVars
<1> QED
  BY <1>2, <1>3, <1>4, <1>5 DEF Next

-----------------------------------------------------------------------------
(* The invariant *)

LEMMA InvInit == Init => IInv
<1> SUFFICES ASSUME Init PROVE IInv
  OBVIOUS
<1>1. TypeOK
  BY TypeInit
<1>2. CasterPhase /\ ShaderPhase /\ ClearPhase /\ DirInStep /\ DrawnSoFar
  BY DEF Init, RayInit, CasterPhase, ShaderPhase, ClearPhase, DirInStep,
         DrawnSoFar
<1>3. CastInStep /\ ShadeInStep
  BY DEF Init, RayInit, CastInStep, ShadeInStep
<1>4. FrameWhole
  <2>1. Stored = [a \in Address |-> Clear(BlackFill)] /\ finished = PowerUp
    BY DEF Init, RayInit, Stored
  <2>2. \A a \in Address : Want(PowerUp, a) = Clear(BlackFill)
    BY Distinct DEF Want, PowerUp
  <2> QED
    BY <2>1, <2>2 DEF FrameWhole
<1>5. PosesForward
  BY DEF Init, RayInit, PowerUp, PosesForward, Mixes, Before
<1> QED
  BY <1>1, <1>2, <1>3, <1>4, <1>5 DEF IInv

LEMMA InvStep == IInv /\ [Next]_vars => IInv'
<1> SUFFICES ASSUME IInv, [Next]_vars PROVE IInv'
  OBVIOUS
<1>1. /\ RayDataOK /\ RayFlagsOK /\ MemoryOK /\ BridgeOK
      /\ TypeOK /\ CasterPhase /\ ShaderPhase /\ ClearPhase
      /\ DirInStep /\ CastInStep /\ ShadeInStep
      /\ DrawnSoFar /\ FrameWhole /\ PosesForward
  BY DEF IInv, TypeOK
<1>2. TypeOK' /\ PosesForward'
  BY <1>1, TypeStep, PosesStep
<1>3. CASE Clk
  <2>1. ClearOn \in BOOLEAN
    BY <1>1, Ports
  <2>2. /\ SchedClk(TheCamera, ClearOn, ClearFill)
        /\ CoreClk /\ ShaderClk
    BY <1>3, ClkIs
  <2>3. CasterPhase' /\ ShaderPhase' /\ ClearPhase'
    BY <1>1, <2>1, <2>2, CasterStep, ShaderStep, ClearStep
  <2>4. DirInStep' /\ CastInStep' /\ ShadeInStep'
    BY <1>1, <2>1, <2>2, DirStep, CastStep, ShadeStep
  <2>5. DrawnSoFar' /\ FrameWhole'
    BY <1>1, <1>3, DrawnStep, WholeStep
  <2> QED
    BY <1>2, <2>3, <2>4, <2>5 DEF IInv
<1>4. CASE ~Clk
  <2>1. UNCHANGED <<rayVars, mem, finished>>
    BY <1>4, Still
  <2>2. CasterPhase' /\ ShaderPhase' /\ ClearPhase'
    BY <1>1, <2>1 DEF rayVars, pixelVars, frameVars, vramVars, coreVars,
       shaderVars, CasterPhase, ShaderPhase, ClearPhase
  <2>3. DirInStep' /\ CastInStep' /\ ShadeInStep'
    BY <1>1, <2>1 DEF rayVars, pixelVars, frameVars, vramVars, coreVars,
       shaderVars, DirInStep, CastInStep, ShadeInStep, Here, PixelRay
  <2>4. DrawnSoFar' /\ FrameWhole'
    <3>1. Stored' = Stored /\ Drawing' = Drawing
      BY <2>1 DEF rayVars, vramVars, frameVars, Stored, Drawing
    <3>2. UNCHANGED <<sched_state, height, width, vram_index, finished>>
      BY <2>1 DEF rayVars, pixelVars, vramVars
    <3> QED
      BY <1>1, <3>1, <3>2 DEF DrawnSoFar, FrameWhole, Passed
  <2> QED
    BY <1>2, <2>2, <2>3, <2>4 DEF IInv
<1> QED
  BY <1>3, <1>4

THEOREM Invariance == Spec => []IInv
<1> QED
  BY InvInit, InvStep, PTL DEF Spec

(* Every register and pixel keeps its type (the inductive invariant's first   *)
(* part).                                                                  *)
THEOREM TypeCorrect == Spec => []TypeOK
<1>1. IInv => TypeOK
  BY DEF IInv
<1> QED
  BY <1>1, Invariance, PTL

(* The half handed to the VGA side is one whole frame of one latched camera,   *)
(* however long the rays take (Ray_Module.v, S_IDLE to S_WRITE).             *)
THEOREM WholeFrames == Spec => []FrameWhole
<1>1. IInv => FrameWhole
  BY DEF IInv
<1> QED
  BY <1>1, Invariance, PTL

(* Frames never go back to an earlier camera, and mix two successive poses    *)
(* at the most (calcPlayStatus and S_IDLE).                                 *)
THEOREM ForwardFrames == Spec => FramesMoveForward
<1>1. IInv /\ IInv' /\ [Next]_vars =>
        [/\ finished'.camera.place >= finished.camera.place
         /\ finished'.camera.aim >= finished.camera.aim
         /\ finished'.camera.place - finished'.camera.aim \in {0, 1}]_finished
  <2> SUFFICES ASSUME IInv, IInv', [Next]_vars, finished' # finished
               PROVE  /\ finished'.camera.place >= finished.camera.place
                      /\ finished'.camera.aim >= finished.camera.aim
                      /\ finished'.camera.place - finished'.camera.aim \in {0, 1}
    OBVIOUS
  <2>1. finished'.camera = latched
    <3>1. Clk
      BY Still
    <3> QED
      BY <3>1, ClkIs DEF Drawing
  <2>2. /\ latched.place \in Nat /\ latched.aim \in Nat
        /\ finished.camera.place \in Nat /\ finished.camera.aim \in Nat
    BY CameraAssumption, PoseAssumption
       DEF IInv, TypeOK, RayDataOK, MemoryOK, Frame, Cameras, Pose
  <2> QED
    BY <2>1, <2>2 DEF IInv, PosesForward, Mixes, Before
<1> QED
  BY <1>1, Invariance, PTL DEF Spec, FramesMoveForward

-----------------------------------------------------------------------------
(* The renderer implements the abstract screen *)

LEMMA HandedIsPicture ==
  ASSUME IInv
  PROVE  HandedOver = PictureOf(finished)
<1>1. vram_index \in {0, 1}
  BY DEF IInv, TypeOK, RayDataOK
<1>2. ASSUME NEW p \in Spot
      PROVE  Stored[[buf |-> 1 - vram_index, row |-> p.row, col |-> p.col]]
               = Want(finished, [buf |-> 0, row |-> p.row, col |-> p.col])
  <2> DEFINE a == [buf |-> 1 - vram_index, row |-> p.row, col |-> p.col]
             b == [buf |-> 0, row |-> p.row, col |-> p.col]
  <2>1. a \in Address /\ a.buf # vram_index
    BY <1>1, <1>2 DEF Spot, Address
  <2>2. Stored[a] = Want(finished, a)
    BY <2>1 DEF IInv, FrameWhole
  <2>3. a.row = b.row /\ a.col = b.col
    OBVIOUS
  <2> QED
    BY <2>2, <2>3, WantSpot
<1> QED
  BY <1>2 DEF HandedOver, PictureOf

(* The clear order at the port of the scheduler, and in its registers.        *)
LEMMA AskedAtPort ==
  ASSUME BridgeOK
  PROVE  Asked = [camera |-> TheCamera,
                  order |-> IF ClearOn THEN Clear(ClearFill) ELSE None]
<1>1. ClearOn => vga_clear = Clear(ClearFill)
  BY DEF BridgeOK, ClearOrder, ClearOn, ClearFill, Clear
<1> QED
  BY <1>1 DEF Asked, TheCamera, ClearOn

(* A write of the program asks for another frame.                            *)
LEMMA CpuAsks ==
  ASSUME IInv, IInv', Cpu
  PROVE  Handed!Write
<1>1. Asked' \in Frame
  BY CameraAssumption DEF IInv, TypeOK, BridgeOK, Asked, Frame, Cameras
<1>2. /\ Drawing' = Drawing /\ sched_state' = sched_state
      /\ HandedOver' = HandedOver
  BY DEF Cpu, Drawing, HandedOver, Stored, rayVars, frameVars, vramVars
<1> QED
  BY <1>1, <1>2 DEF Handed!Write

(* A dot of the VGA side changes nothing the screen speaks of.               *)
LEMMA DotsStutter ==
  ASSUME Dots
  PROVE  UNCHANGED Handed!screenVars
BY DEF Dots, Handed!screenVars, Asked, Drawing, HandedOver, Stored, bridgeVars,
       rayVars, frameVars, vramVars

(* A clock of the renderer hands a picture over, samples the registers, or    *)
(* does neither.                                                            *)
LEMMA ClkShows ==
  ASSUME IInv, IInv', Clk,
         HandedOver = PictureOf(finished), HandedOver' = PictureOf(finished')
  PROVE  [Handed!Next]_Handed!screenVars
<1>1. /\ SchedClk(TheCamera, ClearOn, ClearFill)
      /\ finished' = (IF LastPixel THEN Drawing ELSE finished)
  BY ClkIs
<1>2. Asked' = Asked
  BY DEF Clk, bridgeVars, Asked
<1>3. ASSUME ~LastPixel
      PROVE  HandedOver' = HandedOver
  BY <1>1, <1>3
<1>4. CASE Latch(TheCamera, ClearOn, ClearFill)
  <2>1. /\ sched_state = "S_IDLE" /\ sched_state' # "S_IDLE"
        /\ latched' = TheCamera
        /\ clear_reg' = ClearOn /\ clear_color_reg' = ClearFill
    BY <1>4 DEF Latch
  <2>2. Drawing' = Asked
    BY <2>1, AskedAtPort DEF Drawing, IInv, TypeOK
  <2>3. HandedOver' = HandedOver
    BY <1>3, <2>1 DEF LastPixel
  <2> QED
    BY <1>2, <2>1, <2>2, <2>3 DEF Handed!Next, Handed!Sample
<1>5. CASE FrameEnd
  <2>1. /\ LastPixel /\ sched_state # "S_IDLE" /\ sched_state' = "S_IDLE"
        /\ UNCHANGED frameVars
    BY <1>5 DEF FrameEnd, Emit, LastPixel
  <2>2. Drawing' = Drawing
    BY <2>1 DEF Drawing, frameVars
  <2>3. HandedOver' = PictureOf(Drawing)
    BY <1>1, <2>1
  <2> QED
    BY <1>2, <2>1, <2>2, <2>3 DEF Handed!Next, Handed!Show
<1>6. CASE \/ RayPulse   \/ RayWait   \/ RayTaken
           \/ ShadePulse \/ ShadeWait \/ ShadeTaken
           \/ NextPixel  \/ NextRow
  <2>1. /\ sched_state # "S_IDLE" /\ sched_state' # "S_IDLE"
        /\ UNCHANGED frameVars
        /\ ~LastPixel
    BY <1>6 DEF RayPulse, RayWait, RayTaken, ShadePulse, ShadeWait, ShadeTaken,
                NextPixel, NextRow, Emit, AfterWrite, LastPixel
  <2>2. Drawing' = Drawing
    BY <2>1 DEF Drawing, frameVars
  <2> QED
    BY <1>2, <1>3, <2>1, <2>2 DEF Handed!screenVars
<1> QED
  BY <1>1, <1>4, <1>5, <1>6 DEF SchedClk

(* The renderer implements the ordered screen: camera and clear order are     *)
(* taken together, one whole picture of them is handed over before they are  *)
(* taken again (Ray_Module.v, S_IDLE to S_WRITE).                           *)
THEOREM Refinement == Spec => ImplementsScreen
<1>1. Init => Handed!Init
  <2> SUFFICES ASSUME Init
               PROVE  /\ Asked = AtReset /\ Drawing = AtReset
                      /\ sched_state = "S_IDLE"
                      /\ HandedOver = PictureOf(PowerUp)
    BY DEF Handed!Init
  <2>1. HandedOver = PictureOf(PowerUp)
    BY InvInit, HandedIsPicture DEF Init
  <2> QED
    BY <2>1 DEF Init, RayInit, Asked, AtReset, Drawing, PowerUp
<1>2. IInv => HandedOver = PictureOf(finished)
  BY HandedIsPicture
<1>3. (IInv => HandedOver = PictureOf(finished))'
  BY <1>2, PTL
<1>4. IInv /\ IInv' /\ [Next]_vars => [Handed!Next]_Handed!screenVars
  <2> SUFFICES ASSUME IInv, IInv', [Next]_vars
               PROVE  [Handed!Next]_Handed!screenVars
    OBVIOUS
  <2>1. HandedOver' = PictureOf(finished')
    <3>1. PictureOf(finished)' = PictureOf(finished')
      BY DEF PictureOf, Want
    <3> QED
      BY <1>3, <3>1
  <2>2. CASE Clk
    BY <1>2, <2>1, <2>2, ClkShows
  <2>3. CASE Dots
    BY <2>3, DotsStutter
  <2>4. CASE Cpu
    BY <2>4, CpuAsks DEF Handed!Next
  <2>5. CASE UNCHANGED vars
    BY <2>5 DEF vars, Handed!screenVars, Asked, Drawing, HandedOver, Stored,
                bridgeVars, rayVars, frameVars, vramVars
  <2> QED
    BY <2>2, <2>3, <2>4, <2>5 DEF Next
<1> QED
  BY <1>1, <1>4, Invariance, PTL DEF Spec, ImplementsScreen, Handed!Spec

-----------------------------------------------------------------------------
(* The scan *)

LEMMA DivRange ==
  ASSUME NEW s \in Nat \ {0}, NEW n \in Nat, NEW m \in Nat, m < s * n
  PROVE  m \div s \in 0 .. n - 1
<1>1. /\ m \div s \in Int /\ m % s \in 0 .. s - 1
      /\ m = s * (m \div s) + (m % s)
  <2>1. m \div s \in Int
    OBVIOUS
  <2>2. m % s \in 0 .. s - 1
    OBVIOUS
  <2>3. m = s * (m \div s) + (m % s)
    BY SMT
  <2> QED
    BY <2>1, <2>2, <2>3
<1>2. m \div s >= 0
  <2>1. \A q \in Int : q <= -1 => s * q <= -s
    OBVIOUS
  <2> QED
    BY <1>1, <2>1
<1>3. m \div s < n
  <2>1. \A q \in Int : q >= n => s * q >= s * n
    OBVIOUS
  <2> QED
    BY <1>1, <2>1
<1> QED
  BY <1>1, <1>2, <1>3

(* What is blanked or outside is no pixel.                                   *)
LEMMA NoPixel == Black \notin Pixel /\ Outside \notin Pixel
BY DEF Pixel, Black, Outside, Shade, Clear, Crosshair

LEMMA ReadsPixel ==
  ASSUME TypeOK, v_count < V_ACTIVE
  PROVE  Reads(mem, layer_3D_rd_addr) \in Pixel
<1>1. /\ h_count \in Nat /\ v_count \in Nat
      /\ sync_layer_3D_index \in {0, 1} /\ mem \in [Address -> Pixel]
  BY Timing DEF TypeOK, VgaTypeOK, MemoryOK
<1>2. layer_3D_y \in Row
  BY <1>1, DivRange, TimingAssumption, SizeAssumption DEF layer_3D_y, V_ACTIVE, Row
<1>3. h_count \div SCALE \in Nat
  <2>1. h_count < SCALE * (h_count + 1)
    <3>1. \A m \in Nat : m < SCALE * (m + 1)
      BY TimingAssumption
    <3> QED
      BY <1>1, <3>1
  <2> QED
    BY <1>1, <2>1, DivRange, TimingAssumption
<1>4. layer_3D_x \in Col
  BY <1>3, SizeAssumption DEF layer_3D_x, Col
<1> QED
  BY <1>1, <1>2, <1>4 DEF Reads, layer_3D_rd_addr, Address

LEMMA ScanStep ==
  ASSUME TypeOK, ScanInStep, [Next]_vars
  PROVE  ScanInStep'
<1> USE DEF ScanInStep, VisibleInRow
<1>1. CASE Clk
  <2>1. UNCHANGED <<v_count, blank_n_delay_1, blank_n_delay_2,
                    layer_3D_rd_data_delay_1, VGA_RGB, VGA_BLANK_N>>
    BY <1>1 DEF Clk, vgaVars, scanVars, pipeVars
  <2>2. v_count < V_ACTIVE => rd_data' \in Pixel
    BY <1>1, ClkIs, ReadsPixel DEF MemClk
  <2> QED
    BY <2>1, <2>2
<1>2. CASE Dots
  <2>1. settled /\ settled' = FALSE
    BY <1>2 DEF Dots
  <2>2. blank_n_delay_1' => v_count' < V_ACTIVE
    <3>1. h_count \in Nat /\ v_count \in Nat /\ H_TOTAL \in Nat
      BY Timing DEF TypeOK, VgaTypeOK
    <3>2. H_ACTIVE \in Int
      BY TimingAssumption, SizeAssumption DEF H_ACTIVE
    <3>3. Active => h_count # H_TOTAL - 1
      BY <3>1, <3>2, TimingAssumption DEF Active
    <3> QED
      BY <1>2, <3>3
         DEF Dots, VgaClk, Pipeline, NextDot, NextLine, NextScan, Active
  <2>3. blank_n_delay_2' => layer_3D_rd_data_delay_1' \in Pixel
    BY <1>2, <2>1 DEF Dots, VgaClk, Pipeline
  <2>4. VGA_BLANK_N' => VGA_RGB' \in Pixel
    BY <1>2 DEF Dots, VgaClk, Pipeline
  <2> QED
    BY <2>1, <2>2, <2>3, <2>4, NoPixel
<1>3. CASE Cpu
  BY <1>3 DEF Cpu, vgaVars, scanVars, pipeVars
<1>4. CASE UNCHANGED vars
  BY <1>4 DEF vars, vgaVars, scanVars, pipeVars
<1> QED
  BY <1>1, <1>2, <1>3, <1>4 DEF Next

(* Every dot on the screen was read within the scanned row                    *)
(* (VGA_controller.v, layer_3D_x and blank_n_delay_2).                       *)
THEOREM VisibleDots == Spec => []VisibleInRow
<1>1. Init => ScanInStep
  BY DEF Init, VgaInit, ScanInStep, VisibleInRow
<1>2. IInv /\ ScanInStep /\ [Next]_vars => ScanInStep'
  BY ScanStep DEF IInv
<1>3. ScanInStep => VisibleInRow
  BY DEF ScanInStep
<1> QED
  BY <1>1, <1>2, <1>3, Invariance, PTL DEF Spec

=============================================================================
