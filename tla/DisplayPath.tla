------------------------------ MODULE DisplayPath ------------------------------
(***************************************************************************)
(* The display path of Final.v: the program writes the camera into          *)
(* Data_Bridge register by register and the clear order into a PIO, the     *)
(* renderer draws into one half of the video memory (M9K_RAM) while the     *)
(* VGA side scans the other.                                               *)
(*                                                                         *)
(* clk runs at 100 MHz and vga_clk at 25: how many pixels are drawn in the  *)
(* time of one dot depends on the rays, so the two clocks are interleaved   *)
(* freely, except that the memory has answered before a dot is taken.      *)
(***************************************************************************)
EXTENDS VGA_controller

CONSTANTS
  MaxPose,     (* bound: the poses the program computes *)
  BlackFill,   (* colour 0x00, and what the memory powers up with *)
  MenuFill     (* colour 0x02 of the order 0x0102       *)

ASSUME PoseAssumption  == MaxPose \in Nat
ASSUME ColorAssumption == BlackFill \in Color /\ MenuFill \in Color

VARIABLES
  place, aim,          (* the bridge: out_px..out_pz and dirX0..dirZdy *)
  vga_clear,           (* the clear order, or None                     *)
  mem, rd_data,        (* M9K_RAM                                      *)
  settled,             (* the memory has seen vga's present address    *)
  finished             (* history: the frame drawn last                *)

bridgeVars == <<place, aim, vga_clear>>
vars == <<rayVars, vgaVars, bridgeVars, mem, rd_data, settled, finished>>

(* The registers hold the pose they were written for; a frame latches them  *)
(* all at one edge, between any two writes of the program.                 *)
Pose    == 0 .. MaxPose
Cameras == [place : Pose, aim : Pose]
ASSUME CameraAssumption == Camera = Cameras

ClearOrder == {Clear(c) : c \in Color} \cup {None}

(* The pixel a frame should have: a ray of its own direction from the       *)
(* frame's camera, the crosshair, or the clear colour.                     *)
Frame == [camera : Camera, order : ClearOrder]
Want(f, a) ==
  IF f.order # None THEN f.order
  ELSE IF a.row = VGA_H \div 2 /\ a.col = VGA_W \div 2 THEN Crosshair
  ELSE Shade([camera |-> f.camera, dir |-> [col |-> a.col, row |-> a.row]])

Drawing == [camera |-> latched,
            order |-> IF clear_reg THEN Clear(clear_color_reg) ELSE None]

PowerUp == [camera |-> [place |-> 0, aim |-> 0], order |-> Clear(BlackFill)]

-----------------------------------------------------------------------------
(* M9K_RAM: a write and a registered read at every clock. *)
Stored == IF vram_wr_en THEN [mem EXCEPT ![vram_wr_addr] = vram_wr_data] ELSE mem

MemClk ==
  /\ mem' = Stored
  /\ rd_data' = Reads(mem, layer_3D_rd_addr)

Clk ==
  /\ RayClk([place |-> place, aim |-> aim], vga_clear # None,
            IF vga_clear = None THEN BlackFill ELSE vga_clear.clear)
  /\ MemClk
  /\ settled' = TRUE
  /\ finished' = IF LastPixel THEN Drawing ELSE finished
  /\ UNCHANGED <<vgaVars, bridgeVars>>

(* ~vram_index is wired to layer_3D_index. *)
Dots ==
  /\ settled
  /\ VgaClk(1 - vram_index, rd_data)
  /\ settled' = FALSE
  /\ UNCHANGED <<rayVars, bridgeVars, mem, rd_data, finished>>

(* calcPlayStatus: the position first, then the directions. *)
WritePlace ==
  /\ place = aim /\ place < MaxPose
  /\ place' = place + 1
  /\ UNCHANGED <<aim, vga_clear>>

WriteAim ==
  /\ aim # place
  /\ aim' = place
  /\ UNCHANGED <<place, vga_clear>>

(* VGA_CLEAR, at the changes of screen: 0x0102 or 0x0000. *)
WriteClear ==
  /\ vga_clear' = IF vga_clear = None THEN Clear(MenuFill) ELSE None
  /\ UNCHANGED <<place, aim>>

Cpu ==
  /\ WritePlace \/ WriteAim \/ WriteClear
  /\ UNCHANGED <<rayVars, vgaVars, mem, rd_data, settled, finished>>

Init ==
  /\ RayInit(PowerUp.camera, BlackFill)
  /\ VgaInit(1, Clear(BlackFill))
  /\ place = 0 /\ aim = 0 /\ vga_clear = None
  /\ mem = [a \in Address |-> Clear(BlackFill)]
  /\ rd_data = Clear(BlackFill)
  /\ settled = FALSE
  /\ finished = PowerUp

Next == Clk \/ Dots \/ Cpu

Spec == Init /\ [][Next]_vars

(* The clocks run, every ray ends (RayServed of WorldFetch) and so does     *)
(* every shading, a straight line of clocks.                               *)
FairSpec ==
  /\ Spec
  /\ WF_vars(Clk)
  /\ WF_vars(Clk /\ CoreEnd)
  /\ WF_vars(Clk /\ ShaderEnd)

-----------------------------------------------------------------------------
BridgeOK == place \in Pose /\ aim \in Pose /\ vga_clear \in ClearOrder

MemoryOK ==
  /\ mem \in [Address -> Pixel]
  /\ rd_data \in Dot
  /\ finished \in Frame

(* Every register and every pixel holds a value of its type.               *)
TypeOK ==
  /\ RayFlagsOK /\ RayDataOK
  /\ VgaTypeOK
  /\ BridgeOK /\ MemoryOK
  /\ settled \in BOOLEAN

(* The half handed to the VGA side (~vram_index) holds the frame finished   *)
(* last, each pixel drawn for its own direction and all for the camera and  *)
(* the clear order latched at the frame's start, although the program       *)
(* writes both in the meantime; only its last pixel may still be in the     *)
(* write registers, for one clock.                                         *)
FrameWhole ==
  \A a \in Address : a.buf # vram_index => Stored[a] = Want(finished, a)

(* No frame shows an earlier camera than the frame before it, and one that  *)
(* is latched between two writes of calcPlayStatus mixes two successive     *)
(* poses at the most.                                                      *)
FramesMoveForward ==
  [][/\ finished'.camera.place >= finished.camera.place
     /\ finished'.camera.aim >= finished.camera.aim
     /\ finished'.camera.place - finished'.camera.aim \in {0, 1}]_finished

(* Whatever reaches the screen unblanked was read within the scanned row:   *)
(* the blanking runs one dot behind the data, and the column clamped in the *)
(* margin makes up for it.                                                 *)
VisibleInRow == VGA_BLANK_N => VGA_RGB \notin {Black, Outside}

(* As long as rays end, frames do.                                         *)
FramesKeepComing == []<><<vram_index' # vram_index>>_vars

-----------------------------------------------------------------------------
(* Why a frame is whole.  The caster and the shader are at work only in     *)
(* their states of the scheduler, between the pulse and the answer ...      *)
CasterPhase ==
  /\ sched_state # "S_RAY" => ~ray_pulsed
  /\ ~ray_pulsed => casting = None /\ ~start_ray /\ ~ray_done
  /\ start_ray => casting = None /\ ~ray_done
  /\ ray_done => casting = None

ShaderPhase ==
  /\ sched_state # "S_SHADE" => ~shade_pulsed
  /\ ~shade_pulsed => shading = None /\ ~start_shade /\ ~shade_done
  /\ start_shade => shading = None /\ ~shade_done
  /\ shade_done => shading = None

ClearPhase == clear_reg => sched_state \in {"S_IDLE", "S_WRITE"}

(* ... the direction is always that of the pixel being drawn ...            *)
Here     == [col |-> width, row |-> height]
PixelRay == [camera |-> latched, dir |-> Here]

DirInStep ==
  sched_state # "S_IDLE" =>
    dir = Here /\ row_start_dir = [col |-> 0, row |-> height]

(* ... so what is cast, shaded and written is that pixel ...                *)
CastInStep ==
  /\ casting # None => casting = PixelRay
  /\ ray_done => core_out = PixelRay
  /\ sched_state = "S_SHADE" => core_out = PixelRay /\ shade_dir = Here

ShadeInStep ==
  /\ shading # None => shading = PixelRay
  /\ shade_done => shaded_color = Shade(PixelRay)
  /\ sched_state = "S_WRITE" /\ ~clear_reg => shaded_color = Shade(PixelRay)

(* ... and the pixels before it are in the half being drawn.                *)
Passed(a) == a.row < height \/ (a.row = height /\ a.col < width)

DrawnSoFar ==
  sched_state # "S_IDLE" =>
    \A a \in Address : a.buf = vram_index /\ Passed(a) => Stored[a] = Want(Drawing, a)

(* A pose is written over the one before, and frames latch the bridge.      *)
Mixes(c)     == c.place \in {c.aim, c.aim + 1}
Before(c, d) == c.place <= d.place /\ c.aim <= d.aim

PosesForward ==
  /\ Mixes(latched) /\ Mixes([place |-> place, aim |-> aim])
  /\ Before(finished.camera, latched)
  /\ Before(latched, [place |-> place, aim |-> aim])

IInv ==
  /\ TypeOK
  /\ CasterPhase /\ ShaderPhase /\ ClearPhase
  /\ DirInStep /\ CastInStep /\ ShadeInStep
  /\ DrawnSoFar /\ FrameWhole
  /\ PosesForward

(* Why visible dots are of the row: the dot after an active one is still in  *)
(* an active line, so the memory read for it is within the half.           *)
ScanInStep ==
  /\ settled /\ v_count < V_ACTIVE => rd_data \in Pixel
  /\ blank_n_delay_1 => v_count < V_ACTIVE
  /\ blank_n_delay_2 => layer_3D_rd_data_delay_1 \in Pixel
  /\ VisibleInRow

-----------------------------------------------------------------------------
(* What is handed over, and of what.                                       *)
Spot == [row : Row, col : Col]
HandedOver ==
  [p \in Spot |-> Stored[[buf |-> 1 - vram_index, row |-> p.row, col |-> p.col]]]
PictureOf(f) ==
  [p \in Spot |-> Want(f, [buf |-> 0, row |-> p.row, col |-> p.col])]

(* The frame the program's registers ask for, and the one they hold at reset. *)
Asked   == [camera |-> [place |-> place, aim |-> aim], order |-> vga_clear]
AtReset == [camera |-> [place |-> 0, aim |-> 0], order |-> None]

Handed == INSTANCE Screen
            WITH Picture <- PictureOf, Reset <- AtReset,
                 wish <- Asked, sampled <- Drawing,
                 due <- sched_state # "S_IDLE", picture <- HandedOver

(* The renderer and its memory implement the abstract screen: camera and    *)
(* clear order are taken together, at one edge of S_IDLE, exactly one       *)
(* whole picture of them is handed over before they are taken again, and    *)
(* a clear order that is taken back is gone from the next frame.           *)
ImplementsScreen == Handed!Spec

=============================================================================
