----------------------------- MODULE Raycast_Core -----------------------------
(***************************************************************************)
(* modules/Raycast_Core.v: the DDA engine of the renderer, seen from its    *)
(* memory port.  One action is one rising edge of clk.                     *)
(*                                                                         *)
(* The DDA's arithmetic is abstracted: each step moves to some cell, given  *)
(* by the word it lies in, its byte lane (mapZ[0]) and whether it is out of *)
(* the 128^3 world.  (Out of the world the seven low bits of each           *)
(* coordinate still name a word, and the core does fetch it.)  What is kept *)
(* is the control: when a word is requested, when the one-word cache is     *)
(* used, refilled or dropped, and when the ray ends.                       *)
(***************************************************************************)
EXTENDS VoxelWorld

CONSTANTS
  MAX_STEP,   (* longest ray, in cells: 24 in the code             *)
  Passable    (* rows of BLOCK_INFO whose entry 3 is 1 (ROM)       *)

ASSUME MaxStepAssumption  == MAX_STEP \in Nat
ASSUME PassableAssumption == Passable \subseteq 0..15

VARIABLES
  core_state,
  cell,                  (* mapX, mapY, mapZ                                *)
  step, hit, ray_done,
  block_cached, block_cache_addr, block_cache,
  sram_req, sram_addr,
  block_info_addr,       (* the row of the ROM that is asked for            *)
  block_info_data        (* the ROM's registered answer                     *)

coreVars == <<core_state, cell, step, hit, ray_done, block_cached,
              block_cache_addr, block_cache, sram_req, sram_addr,
              block_info_addr, block_info_data>>

cacheVars == <<block_cached, block_cache_addr, block_cache>>
portVars  == <<sram_req, sram_addr>>

Cell == [addr : Addr, lane : Lane, out : BOOLEAN]

(* The ROM has a row for each of 16 block types: four bits of the block.     *)
InfoRow(block) == block % 16

(* The pipeline that loads the three deltaDist values and multiplies. *)
AfterSetup == [ST_WAIT_X |-> "ST_FETCH_X", ST_FETCH_X |-> "ST_WAIT_Y",
               ST_WAIT_Y |-> "ST_FETCH_Y", ST_FETCH_Y |-> "ST_WAIT_Z",
               ST_WAIT_Z |-> "ST_FETCH_Z", ST_FETCH_Z |-> "ST_GET_STEP",
               ST_GET_STEP |-> "ST_START_RAY"]

SetupStates == {"ST_WAIT_X", "ST_FETCH_X", "ST_WAIT_Y", "ST_FETCH_Y",
                "ST_WAIT_Z", "ST_FETCH_Z", "ST_GET_STEP"}

CoreStates == SetupStates \cup {"ST_IDLE", "ST_START_RAY", "ST_WAIT_BLK",
                                "ST_GET_BLK_WAIT", "ST_GET_BLK"}

(* The registers the reset leaves alone power up as zero on this FPGA. *)
CoreInit ==
  /\ core_state = "ST_IDLE"
  /\ cell = [addr |-> Addr0, lane |-> 0, out |-> FALSE]
  /\ step = 0 /\ hit = Air /\ ray_done = FALSE
  /\ block_cached = FALSE /\ block_cache_addr = Addr0
  /\ block_cache = AirWord
  /\ sram_req = FALSE /\ sram_addr = Addr0
  /\ block_info_addr = 0 /\ block_info_data = (0 \in Passable)

(* The ROM answers one clock after it is asked. *)
RomClk == block_info_data' = (block_info_addr \in Passable)

AwaitStart ==
  /\ core_state = "ST_IDLE"
  /\ ray_done' = FALSE
  /\ UNCHANGED <<core_state, cell, step, hit, cacheVars, portVars,
                 block_info_addr>>

(* start_ray: the ray begins in the cell that holds the camera. *)
StartRay ==
  /\ core_state = "ST_IDLE"
  /\ cell' \in Cell
  /\ hit' = Air /\ step' = 0 /\ ray_done' = FALSE
  /\ core_state' = "ST_WAIT_X"
  /\ UNCHANGED <<cacheVars, portVars, block_info_addr>>

Setup ==
  /\ core_state \in SetupStates
  /\ core_state' = AfterSetup[core_state]
  /\ UNCHANGED <<cell, step, hit, ray_done, cacheVars, portVars,
                 block_info_addr>>

RayOver == hit # Air \/ step = MAX_STEP \/ cell.out

FinishRay ==
  /\ core_state = "ST_START_RAY" /\ RayOver
  /\ ray_done' = TRUE
  /\ hit' = IF cell.out THEN Air ELSE hit
  /\ core_state' = "ST_IDLE"
  /\ UNCHANGED <<cell, step, cacheVars, portVars, block_info_addr>>

(* Mutant: the step counter stands still. *)
AdvanceUncounted(n) ==
  /\ core_state = "ST_START_RAY" /\ ~RayOver
  /\ <<n.addr, n.lane>> # <<cell.addr, cell.lane>>
  /\ cell' = n
  /\ UNCHANGED <<step, hit, ray_done>>

(* One coordinate moves by one, so word or lane always changes. *)
Advance(n) ==
  /\ core_state = "ST_START_RAY" /\ ~RayOver
  /\ <<n.addr, n.lane>> # <<cell.addr, cell.lane>>
  /\ cell' = n
  /\ step' = step + 1
  /\ UNCHANGED <<hit, ray_done>>

StepInCache(n) ==
  /\ Advance(n)
  /\ block_cached /\ block_cache_addr = n.addr
  /\ block_info_addr' = InfoRow(block_cache[n.lane])
  /\ core_state' = "ST_GET_BLK_WAIT"
  /\ UNCHANGED <<cacheVars, portVars>>

StepAndFetch(n) ==
  /\ Advance(n)
  /\ ~(block_cached /\ block_cache_addr = n.addr)
  /\ block_cached' = FALSE
  /\ sram_req' = TRUE /\ sram_addr' = n.addr
  /\ core_state' = "ST_WAIT_BLK"
  /\ UNCHANGED <<block_cache_addr, block_cache, block_info_addr>>

AwaitBlock(sram_grant) ==
  /\ core_state = "ST_WAIT_BLK" /\ ~sram_grant
  /\ UNCHANGED <<core_state, cell, step, hit, ray_done, cacheVars, portVars,
                 block_info_addr>>

(* Mutant of TakeBlock: the clock the ROM needs is not waited for. *)
TakeBlockNoWait(sram_grant, rd_data) ==
  /\ core_state = "ST_WAIT_BLK" /\ sram_grant
  /\ sram_req' = FALSE
  /\ block_cached' = TRUE
  /\ block_cache_addr' = sram_addr
  /\ block_cache' = rd_data
  /\ block_info_addr' = InfoRow(rd_data[cell.lane])
  /\ core_state' = "ST_GET_BLK"
  /\ UNCHANGED <<cell, step, hit, ray_done, sram_addr>>

TakeBlock(sram_grant, rd_data) ==
  /\ core_state = "ST_WAIT_BLK" /\ sram_grant
  /\ sram_req' = FALSE
  /\ block_cached' = TRUE
  /\ block_cache_addr' = sram_addr
  /\ block_cache' = rd_data
  /\ block_info_addr' = InfoRow(rd_data[cell.lane])
  /\ core_state' = "ST_GET_BLK_WAIT"
  /\ UNCHANGED <<cell, step, hit, ray_done, sram_addr>>

GetBlockWait ==
  /\ core_state = "ST_GET_BLK_WAIT"
  /\ core_state' = "ST_GET_BLK"
  /\ UNCHANGED <<cell, step, hit, ray_done, cacheVars, portVars,
                 block_info_addr>>

(* through_block is a live register of Data_Bridge: it may change at any    *)
(* clock, also between two steps of one ray.                               *)
GetBlock(through_block) ==
  /\ core_state = "ST_GET_BLK"
  /\ hit' = IF through_block /\ block_info_data THEN Air
                                                ELSE block_cache[cell.lane]
  /\ core_state' = "ST_START_RAY"
  /\ UNCHANGED <<cell, step, ray_done, cacheVars, portVars, block_info_addr>>

CoreClk(sram_grant, rd_data) ==
  /\ RomClk
  /\ \/ AwaitStart
     \/ StartRay
     \/ Setup
     \/ FinishRay
     \/ \E n \in Cell : StepInCache(n)
     \/ \E n \in Cell : StepAndFetch(n)
     \/ AwaitBlock(sram_grant)
     \/ TakeBlock(sram_grant, rd_data)
     \/ GetBlockWait
     \/ \E through_block \in BOOLEAN : GetBlock(through_block)

CoreTypeOK ==
  /\ core_state \in CoreStates
  /\ cell \in Cell
  /\ step \in 0..MAX_STEP
  /\ hit \in Block
  /\ ray_done \in BOOLEAN
  /\ block_cached \in BOOLEAN
  /\ block_cache_addr \in Addr
  /\ block_cache \in Word
  /\ sram_req \in BOOLEAN
  /\ sram_addr \in Addr
  /\ block_info_addr \in 0..15
  /\ block_info_data \in BOOLEAN
=============================================================================
