------------------------------ MODULE Ray_Module ------------------------------
(***************************************************************************)
(* modules/Ray_Module.v: the scheduler that draws a frame pixel by pixel.   *)
(* One action is one rising edge of clk, taken together with a step of the  *)
(* ray caster and one of the shader.                                       *)
(*                                                                         *)
(* A direction is counted, not computed: dirX0 + col*dirXdx + row*dirXdy    *)
(* is the pair of its counts.  The caster (Raycast_Core, modelled from its  *)
(* memory port in its own module) and the shader (Pixel_Shader) are seen    *)
(* through their handshakes: they start, read the scheduler's registers     *)
(* again at clocks of their own, and end at any later clock.  A colour is   *)
(* what it was computed from.  The registers the shader and the caster      *)
(* read straight from the bridge (sky_line, through_block, faceBlock) have  *)
(* no part in it.                                                          *)
(***************************************************************************)
EXTENDS Naturals

CONSTANTS
  VGA_W, VGA_H,  (* 160 by 120 pixels                                 *)
  Camera,        (* contents of the thirteen camera registers         *)
  Color          (* 8-bit colours the program clears the screen with  *)

ASSUME SizeAssumption == VGA_W \in Nat \ {0} /\ VGA_H \in Nat \ {0}

VARIABLES
  sched_state,
  height, width,
  latched,              (* latched_p*, reg_dir*d* and the dir*0 they go with *)
  dir, row_start_dir, shade_dir,
  clear_reg, clear_color_reg,
  start_ray, ray_pulsed,
  start_shade, shade_pulsed,
  vram_index,
  vram_wr_en, vram_wr_addr, vram_wr_data,
  casting, ray_done, core_out,          (* u_core   *)
  shading, shade_done, shaded_color     (* u_shader *)

coreVars   == <<casting, ray_done, core_out>>
shaderVars == <<shading, shade_done, shaded_color>>
vramVars   == <<vram_index, vram_wr_addr, vram_wr_data>>
frameVars  == <<latched, clear_reg, clear_color_reg>>
pixelVars  == <<height, width, dir, row_start_dir>>
rayVars    == <<sched_state, pixelVars, frameVars, shade_dir, start_ray,
                ray_pulsed, start_shade, shade_pulsed, vramVars, vram_wr_en,
                coreVars, shaderVars>>

Row == 0 .. VGA_H - 1
Col == 0 .. VGA_W - 1

(* (vram_index ? H*W : 0) + row*W + col *)
Address == [buf : {0, 1}, row : Row, col : Col]

Dir0   == [col |-> 0, row |-> 0]
Dir    == [col : Col, row : Row]
AddDx(d) == [d EXCEPT !.col = @ + 1]
AddDy(d) == [d EXCEPT !.row = @ + 1]

(* A ray is a direction from a camera; Mixed stands for a value put         *)
(* together from registers that changed while it was computed.             *)
Ray   == [camera : Camera, dir : Dir]
Mixed == [mixed |-> TRUE]
Rays  == Ray \cup {Mixed}
None  == [none |-> TRUE]

Shade(ray) == [ray |-> ray]
Clear(c)   == [clear |-> c]
Crosshair  == [cross |-> TRUE]
Pixel == {Shade(r) : r \in Rays} \cup {Clear(c) : c \in Color} \cup {Crosshair}

States == {"S_IDLE", "S_RAY", "S_SHADE", "S_WRITE"}

-----------------------------------------------------------------------------
(* The caster reads latched_p and dir at ST_IDLE and again while it sets    *)
(* the three axes up; ray_done is high for one clock, the results stay.     *)
RayPort == [camera |-> latched, dir |-> dir]

CoreIdle ==
  /\ casting = None /\ ~start_ray
  /\ ray_done' = FALSE
  /\ UNCHANGED <<casting, core_out>>

CoreStart ==
  /\ casting = None /\ start_ray
  /\ casting' = RayPort
  /\ ray_done' = FALSE
  /\ UNCHANGED core_out

CoreRead == IF casting = RayPort THEN casting ELSE Mixed

CoreRun ==
  /\ casting # None
  /\ casting' = CoreRead
  /\ UNCHANGED <<ray_done, core_out>>

CoreEnd ==
  /\ casting # None
  /\ core_out' = CoreRead
  /\ ray_done' = TRUE
  /\ casting' = None

CoreClk == CoreIdle \/ CoreStart \/ CoreRun \/ CoreEnd

-----------------------------------------------------------------------------
(* The shader reads the caster's results (hit is cleared by the next        *)
(* start_ray), latched_p, shade_dir and height, until it ends.              *)
ShaderPort ==
  IF /\ core_out = [camera |-> latched, dir |-> shade_dir]
     /\ casting = None /\ ~start_ray
     /\ height = shade_dir.row
  THEN core_out ELSE Mixed

ShaderIdle ==
  /\ shading = None /\ ~start_shade
  /\ shade_done' = FALSE
  /\ UNCHANGED <<shading, shaded_color>>

ShaderStart ==
  /\ shading = None /\ start_shade
  /\ shading' = ShaderPort
  /\ shade_done' = FALSE
  /\ UNCHANGED shaded_color

ShaderRead == IF shading = ShaderPort THEN shading ELSE Mixed

ShaderRun ==
  /\ shading # None
  /\ shading' = ShaderRead
  /\ shade_done' = FALSE
  /\ UNCHANGED shaded_color

(* ST_COLOR *)
ShaderEnd ==
  /\ shading # None
  /\ shaded_color' = Shade(ShaderRead)
  /\ shade_done' = TRUE
  /\ shading' = None

ShaderClk == ShaderIdle \/ ShaderStart \/ ShaderRun \/ ShaderEnd

-----------------------------------------------------------------------------
(* Mutant of Latch: the position registers are not latched. *)
LatchNoPlace(camera, clear, clear_color) ==
  /\ sched_state = "S_IDLE"
  /\ height' = 0 /\ width' = 0
  /\ dir' = Dir0 /\ row_start_dir' = Dir0
  /\ latched' = [camera EXCEPT !.place = latched.place]
  /\ ray_pulsed' = FALSE /\ shade_pulsed' = FALSE
  /\ clear_reg' = clear /\ clear_color_reg' = clear_color
  /\ sched_state' = IF clear THEN "S_WRITE" ELSE "S_RAY"
  /\ start_ray' = FALSE /\ start_shade' = FALSE /\ vram_wr_en' = FALSE
  /\ UNCHANGED <<shade_dir, vramVars>>

(* Mutant of Latch: clear_reg is set by the order and never cleared. *)
LatchClearStays(camera, clear, clear_color) ==
  /\ sched_state = "S_IDLE"
  /\ height' = 0 /\ width' = 0
  /\ dir' = Dir0 /\ row_start_dir' = Dir0
  /\ latched' = camera
  /\ ray_pulsed' = FALSE /\ shade_pulsed' = FALSE
  /\ clear_reg' = (clear_reg \/ clear) /\ clear_color_reg' = clear_color
  /\ sched_state' = IF clear_reg' THEN "S_WRITE" ELSE "S_RAY"
  /\ start_ray' = FALSE /\ start_shade' = FALSE /\ vram_wr_en' = FALSE
  /\ UNCHANGED <<shade_dir, vramVars>>

(* S_IDLE: the frame's camera and the clear order are latched.              *)
Latch(camera, clear, clear_color) ==
  /\ sched_state = "S_IDLE"
  /\ height' = 0 /\ width' = 0
  /\ dir' = Dir0 /\ row_start_dir' = Dir0
  /\ latched' = camera
  /\ ray_pulsed' = FALSE /\ shade_pulsed' = FALSE
  /\ clear_reg' = clear /\ clear_color_reg' = clear_color
  /\ sched_state' = IF clear THEN "S_WRITE" ELSE "S_RAY"
  /\ start_ray' = FALSE /\ start_shade' = FALSE /\ vram_wr_en' = FALSE
  /\ UNCHANGED <<shade_dir, vramVars>>

RayPulse ==
  /\ sched_state = "S_RAY" /\ ~ray_pulsed
  /\ start_ray' = TRUE /\ ray_pulsed' = TRUE
  /\ start_shade' = FALSE /\ vram_wr_en' = FALSE
  /\ UNCHANGED <<sched_state, pixelVars, frameVars, shade_dir, shade_pulsed,
                 vramVars>>

(* Mutant of RayTaken: ray_pulsed is not cleared. *)
RayTakenPulsed ==
  /\ sched_state = "S_RAY" /\ ray_pulsed /\ ray_done
  /\ shade_dir' = dir
  /\ sched_state' = "S_SHADE"
  /\ start_ray' = FALSE /\ start_shade' = FALSE /\ vram_wr_en' = FALSE
  /\ UNCHANGED <<pixelVars, frameVars, ray_pulsed, shade_pulsed, vramVars>>

RayWait ==
  /\ sched_state = "S_RAY" /\ ray_pulsed /\ ~ray_done
  /\ start_ray' = FALSE /\ start_shade' = FALSE /\ vram_wr_en' = FALSE
  /\ UNCHANGED <<sched_state, pixelVars, frameVars, shade_dir, ray_pulsed,
                 shade_pulsed, vramVars>>

RayTaken ==
  /\ sched_state = "S_RAY" /\ ray_pulsed /\ ray_done
  /\ ray_pulsed' = FALSE
  /\ shade_dir' = dir
  /\ sched_state' = "S_SHADE"
  /\ start_ray' = FALSE /\ start_shade' = FALSE /\ vram_wr_en' = FALSE
  /\ UNCHANGED <<pixelVars, frameVars, shade_pulsed, vramVars>>

ShadePulse ==
  /\ sched_state = "S_SHADE" /\ ~shade_pulsed
  /\ start_shade' = TRUE /\ shade_pulsed' = TRUE
  /\ start_ray' = FALSE /\ vram_wr_en' = FALSE
  /\ UNCHANGED <<sched_state, pixelVars, frameVars, shade_dir, ray_pulsed,
                 vramVars>>

ShadeWait ==
  /\ sched_state = "S_SHADE" /\ shade_pulsed /\ ~shade_done
  /\ start_ray' = FALSE /\ start_shade' = FALSE /\ vram_wr_en' = FALSE
  /\ UNCHANGED <<sched_state, pixelVars, frameVars, shade_dir, ray_pulsed,
                 shade_pulsed, vramVars>>

ShadeTaken ==
  /\ sched_state = "S_SHADE" /\ shade_pulsed /\ shade_done
  /\ shade_pulsed' = FALSE
  /\ sched_state' = "S_WRITE"
  /\ start_ray' = FALSE /\ start_shade' = FALSE /\ vram_wr_en' = FALSE
  /\ UNCHANGED <<pixelVars, frameVars, shade_dir, ray_pulsed, vramVars>>

(* S_WRITE: the write registers are loaded; the memory takes them at the    *)
(* next edge, which for the last pixel is after vram_index has turned.      *)
Centre == height = VGA_H \div 2 /\ width = VGA_W \div 2

Emit ==
  /\ sched_state = "S_WRITE"
  /\ vram_wr_en' = TRUE
  /\ vram_wr_addr' = [buf |-> vram_index, row |-> height, col |-> width]
  /\ vram_wr_data' = IF clear_reg THEN Clear(clear_color_reg)
                     ELSE IF Centre THEN Crosshair ELSE shaded_color
  /\ start_ray' = FALSE /\ start_shade' = FALSE
  /\ UNCHANGED <<frameVars, shade_dir, ray_pulsed, shade_pulsed>>

AfterWrite == IF clear_reg THEN "S_WRITE" ELSE "S_RAY"

LastPixel == sched_state = "S_WRITE" /\ width = VGA_W - 1 /\ height = VGA_H - 1

(* Mutant of NextRow: dir is loaded from row_start_dir before it moves on. *)
NextRowStale ==
  /\ Emit
  /\ width = VGA_W - 1 /\ height # VGA_H - 1
  /\ width' = 0 /\ height' = height + 1
  /\ row_start_dir' = AddDy(row_start_dir)
  /\ dir' = row_start_dir
  /\ sched_state' = AfterWrite
  /\ UNCHANGED vram_index

NextPixel ==
  /\ Emit
  /\ width # VGA_W - 1
  /\ width' = width + 1
  /\ dir' = AddDx(dir)
  /\ sched_state' = AfterWrite
  /\ UNCHANGED <<height, row_start_dir, vram_index>>

NextRow ==
  /\ Emit
  /\ width = VGA_W - 1 /\ height # VGA_H - 1
  /\ width' = 0 /\ height' = height + 1
  /\ row_start_dir' = AddDy(row_start_dir)
  /\ dir' = AddDy(row_start_dir)
  /\ sched_state' = AfterWrite
  /\ UNCHANGED vram_index

FrameEnd ==
  /\ Emit
  /\ LastPixel
  /\ width' = 0 /\ height' = 0
  /\ vram_index' = 1 - vram_index
  /\ sched_state' = "S_IDLE"
  /\ UNCHANGED <<dir, row_start_dir>>

SchedClk(camera, clear, clear_color) ==
  \/ Latch(camera, clear, clear_color)
  \/ RayPulse   \/ RayWait   \/ RayTaken
  \/ ShadePulse \/ ShadeWait \/ ShadeTaken
  \/ NextPixel  \/ NextRow   \/ FrameEnd

RayClk(camera, clear, clear_color) ==
  SchedClk(camera, clear, clear_color) /\ CoreClk /\ ShaderClk

-----------------------------------------------------------------------------
(* Reset, and power-up values for the registers it leaves alone. *)
RayInit(camera, color) ==
  /\ sched_state = "S_IDLE"
  /\ height = 0 /\ width = 0
  /\ latched = camera
  /\ dir = Dir0 /\ row_start_dir = Dir0 /\ shade_dir = Dir0
  /\ clear_reg = FALSE /\ clear_color_reg = color
  /\ start_ray = FALSE /\ ray_pulsed = FALSE
  /\ start_shade = FALSE /\ shade_pulsed = FALSE
  /\ vram_index = 0 /\ vram_wr_en = FALSE
  /\ vram_wr_addr = [buf |-> 0, row |-> 0, col |-> 0]
  /\ vram_wr_data = Clear(color)
  /\ casting = None /\ ray_done = FALSE /\ core_out = Mixed
  /\ shading = None /\ shade_done = FALSE /\ shaded_color = Shade(Mixed)

RayFlagsOK ==
  /\ clear_reg \in BOOLEAN
  /\ start_ray \in BOOLEAN /\ ray_pulsed \in BOOLEAN
  /\ start_shade \in BOOLEAN /\ shade_pulsed \in BOOLEAN
  /\ vram_wr_en \in BOOLEAN
  /\ ray_done \in BOOLEAN /\ shade_done \in BOOLEAN

RayDataOK ==
  /\ sched_state \in States
  /\ height \in Row /\ width \in Col
  /\ latched \in Camera /\ clear_color_reg \in Color
  /\ dir \in Dir /\ row_start_dir \in Dir /\ shade_dir \in Dir
  /\ vram_index \in {0, 1}
  /\ vram_wr_addr \in Address /\ vram_wr_data \in Pixel
  /\ casting \in Rays \cup {None} /\ core_out \in Rays
  /\ shading \in Rays \cup {None}
  /\ shaded_color \in {Shade(r) : r \in Rays}

=============================================================================
