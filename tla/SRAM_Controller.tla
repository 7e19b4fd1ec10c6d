--------------------------- MODULE SRAM_Controller ---------------------------
(***************************************************************************)
(* modules/SRAM_controller.v: the arbiter that shares the 2 MB SRAM holding *)
(* the world between the Nios II processor (an Avalon-MM master, which may  *)
(* read and write) and the ray caster (which only reads).                  *)
(*                                                                         *)
(* One action is one rising edge of clk.  The input ports are parameters:  *)
(* avs is the Avalon request, ray the ray caster's request.  A 16-bit word  *)
(* holds two blocks, one per byte lane.                                    *)
(***************************************************************************)
EXTENDS VoxelWorld, Naturals

VARIABLES
  sram,            (* contents of the SRAM chip (external) *)
  state, grant, current_master,
  active_addr, active_wr_data, active_be,
  sram_rd_data

ctlVars == <<sram, state, grant, current_master, active_addr,
             active_wr_data, active_be, sram_rd_data>>

(* current_master *)
NoMaster  == 0
CpuMaster == 1
RayMaster == 2

States == {"IDLE", "READ", "READ_WAIT", "READ_HOLD", "WRITE", "WRITE_HOLD"}

(* The signals of the Avalon slave port. *)
AvsRequest == [read : BOOLEAN, write : BOOLEAN, address : Addr,
               writedata : Word, byteenable : SUBSET Lane]

NiosReq(avs)     == avs.read \/ avs.write
waitrequest(avs) == NiosReq(avs) /\ ~(current_master = CpuMaster /\ grant)
ray_grant        == current_master = RayMaster /\ grant

CtlInit ==
  /\ sram \in [Addr -> Word]
  /\ state = "IDLE" /\ grant = FALSE /\ current_master = NoMaster
  /\ active_addr = Addr0 /\ active_wr_data = AirWord /\ active_be = {}
  /\ sram_rd_data = AirWord

(* Mutant: the processor's request is taken again while it is granted. *)
AcceptCpuAgain(avs) ==
  /\ state = "IDLE" /\ NiosReq(avs)
  /\ active_addr'    = avs.address
  /\ active_wr_data' = avs.writedata
  /\ active_be'      = avs.byteenable
  /\ current_master' = CpuMaster
  /\ state' = IF avs.write THEN "WRITE" ELSE "READ"
  /\ grant' = FALSE
  /\ UNCHANGED <<sram, sram_rd_data>>

(* IDLE, first branch: the processor has priority. *)
AcceptCpu(avs) ==
  /\ state = "IDLE" /\ NiosReq(avs) /\ ~grant
  /\ active_addr'    = avs.address
  /\ active_wr_data' = avs.writedata
  /\ active_be'      = avs.byteenable
  /\ current_master' = CpuMaster
  /\ state' = IF avs.write THEN "WRITE" ELSE "READ"
  /\ grant' = FALSE
  /\ UNCHANGED <<sram, sram_rd_data>>

(* Mutants: the byte enables keep their old value; the processor's priority  *)
(* is gone.                                                                *)
AcceptRayOldLanes(avs, ray) ==
  /\ state = "IDLE" /\ ~(NiosReq(avs) /\ ~grant) /\ ray.req /\ ~grant
  /\ active_addr' = ray.addr /\ active_wr_data' = AirWord
  /\ current_master' = RayMaster /\ state' = "READ" /\ grant' = FALSE
  /\ UNCHANGED <<sram, sram_rd_data, active_be>>

AcceptRayFirst(avs, ray) ==
  /\ state = "IDLE" /\ ray.req /\ ~grant
  /\ active_addr' = ray.addr /\ active_wr_data' = AirWord /\ active_be' = Lane
  /\ current_master' = RayMaster /\ state' = "READ" /\ grant' = FALSE
  /\ UNCHANGED <<sram, sram_rd_data>>

(* IDLE, second branch: the ray caster's fetch of a whole word. *)
AcceptRay(avs, ray) ==
  /\ state = "IDLE" /\ ~(NiosReq(avs) /\ ~grant) /\ ray.req /\ ~grant
  /\ active_addr'    = ray.addr
  /\ active_wr_data' = AirWord
  /\ active_be'      = Lane
  /\ current_master' = RayMaster
  /\ state' = "READ"
  /\ grant' = FALSE
  /\ UNCHANGED <<sram, sram_rd_data>>

(* IDLE, no branch taken; the default assignment still clears grant. *)
StayIdle(avs, ray) ==
  /\ state = "IDLE" /\ (grant \/ ~(NiosReq(avs) \/ ray.req))
  /\ grant' = FALSE
  /\ UNCHANGED <<sram, state, current_master, active_addr, active_wr_data,
                 active_be, sram_rd_data>>

(* Mutant: the grant comes one clock too early. *)
AccessEarlyGrant ==
  /\ state \in {"READ", "READ_WAIT", "WRITE"}
  /\ state' = CASE state = "READ"      -> "READ_WAIT"
                [] state = "READ_WAIT" -> "READ_HOLD"
                [] state = "WRITE"     -> "WRITE_HOLD"
  /\ grant' = (state = "READ_WAIT")
  /\ UNCHANGED <<sram, current_master, active_addr, active_wr_data,
                 active_be, sram_rd_data>>

(* READ, READ_WAIT and WRITE only let the chip's access time pass. *)
Access ==
  /\ state \in {"READ", "READ_WAIT", "WRITE"}
  /\ state' = CASE state = "READ"      -> "READ_WAIT"
                [] state = "READ_WAIT" -> "READ_HOLD"
                [] state = "WRITE"     -> "WRITE_HOLD"
  /\ grant' = FALSE
  /\ UNCHANGED <<sram, current_master, active_addr, active_wr_data,
                 active_be, sram_rd_data>>

(* READ_HOLD latches the bus.  A lane whose UB_N or LB_N is high is not     *)
(* driven by the chip: it reads as anything.                               *)
ReadHold ==
  /\ state = "READ_HOLD"
  /\ \E floating \in [Lane \ active_be -> Block] :
       sram_rd_data' = [l \in Lane |-> IF l \in active_be
                                         THEN sram[active_addr][l]
                                         ELSE floating[l]]
  /\ grant' = TRUE /\ state' = "IDLE"
  /\ UNCHANGED <<sram, current_master, active_addr, active_wr_data, active_be>>

(* The chip stores the enabled lanes when WE_N returns high. *)
WriteHold ==
  /\ state = "WRITE_HOLD"
  /\ sram' = [sram EXCEPT ![active_addr] = Merge(@, active_wr_data, active_be)]
  /\ grant' = TRUE /\ state' = "IDLE"
  /\ UNCHANGED <<current_master, active_addr, active_wr_data, active_be,
                 sram_rd_data>>

CtlClk(avs, ray) ==
  \/ AcceptCpu(avs)
  \/ AcceptRay(avs, ray)
  \/ StayIdle(avs, ray)
  \/ Access
  \/ ReadHold
  \/ WriteHold

CtlTypeOK ==
  /\ sram \in [Addr -> Word]
  /\ state \in States
  /\ grant \in BOOLEAN
  /\ current_master \in {NoMaster, CpuMaster, RayMaster}
  /\ active_addr \in Addr
  /\ active_wr_data \in Word
  /\ active_be \in SUBSET Lane
  /\ sram_rd_data \in Word
=============================================================================
