------------------------------ MODULE WorldFetch ------------------------------
(***************************************************************************)
(* The world memory at work: SRAM_Controller, the processor's Avalon-MM     *)
(* master in front of it and the ray caster behind it, all on one clock     *)
(* (Final.v).  Every step is one clock edge of the three.                  *)
(***************************************************************************)
EXTENDS SRAM_Controller, Raycast_Core

CONSTANT CpuRequests   (* the requests the program makes *)

VARIABLES
  avs,        (* the processor's side of the Avalon slave port           *)
  cpu_wait    (* history: clock edges the pending request has seen       *)

vars == <<ctlVars, coreVars, avs, cpu_wait>>

(* No access on the bus. *)
NoRequest == [read |-> FALSE, write |-> FALSE, address |-> Addr0,
              writedata |-> AirWord, byteenable |-> {}]

ASSUME RequestAssumption ==
  /\ CpuRequests \subseteq AvsRequest
  /\ \A r \in CpuRequests : r.read # r.write

(* The history counter stops here, one past the bound claimed for it.       *)
CpuMaxWait == 8
WaitCap    == CpuMaxWait + 1

(* An Avalon master holds its request unchanged while waitrequest is high;  *)
(* after that edge it may drop it or go straight to another access.        *)
CpuIdle ==
  /\ ~NiosReq(avs)
  /\ avs' \in CpuRequests \cup {NoRequest}
  /\ cpu_wait' = 0

CpuHold ==
  /\ waitrequest(avs)
  /\ cpu_wait' = IF cpu_wait < WaitCap THEN cpu_wait + 1 ELSE cpu_wait
  /\ UNCHANGED avs

CpuRetire ==
  /\ NiosReq(avs) /\ ~waitrequest(avs)
  /\ avs' \in CpuRequests \cup {NoRequest}
  /\ cpu_wait' = 0

CpuClk == CpuIdle \/ CpuHold \/ CpuRetire

Init == CtlInit /\ CoreInit /\ avs = NoRequest /\ cpu_wait = 0

Next ==
  /\ CtlClk(avs, [req |-> sram_req, addr |-> sram_addr])
  /\ CpuClk
  /\ CoreClk(ray_grant, sram_rd_data)

Spec == Init /\ [][Next]_vars

(* The clock runs. *)
FairSpec == Spec /\ WF_vars(Next)

-----------------------------------------------------------------------------
TypeOK ==
  /\ CtlTypeOK
  /\ CoreTypeOK
  /\ avs \in CpuRequests \cup {NoRequest}
  /\ cpu_wait \in 0..WaitCap

cpu_grant == current_master = CpuMaster /\ grant

(* grant lasts one clock and answers the request that is on the port at     *)
(* that clock: a fetch granted to the ray caster is the one it waits for,   *)
(* and an access retired by the processor is the one it made.  (Without the *)
(* !grant guards of IDLE a request could be served a second time, and the   *)
(* late grant would be taken for the answer to the next one.)              *)
GrantMatchesRequest ==
  /\ ray_grant => /\ core_state = "ST_WAIT_BLK" /\ sram_req
                  /\ active_addr = sram_addr
  /\ cpu_grant => /\ NiosReq(avs)
                  /\ active_addr = avs.address
                  /\ active_be = avs.byteenable

(* The data on the shared output register at a grant are the memory's       *)
(* present contents of the word asked for, whichever client reads it and    *)
(* whatever the other client did meanwhile.                                *)
GrantedDataIsCurrent ==
  /\ ray_grant => sram_rd_data = sram[sram_addr]
  /\ cpu_grant /\ avs.read =>
       \A l \in avs.byteenable : sram_rd_data[l] = sram[avs.address][l]

(* The processor waits for at most one fetch of the ray caster: its access  *)
(* is retired at the latest at the ninth clock edge after it is issued.     *)
CpuWaitBounded == cpu_wait <= CpuMaxWait

(* When a ray ends on a block, that block is the one the cached word has    *)
(* at the reported cell, which lies in the world: the cell, the cache and   *)
(* the hit registers, written at different clocks, agree.                  *)
HitIsCachedBlock ==
  ray_done /\ hit # Air =>
    /\ ~cell.out
    /\ block_cached /\ block_cache_addr = cell.addr
    /\ hit = block_cache[cell.lane]

(* When the core decides whether to look through a block, the ROM's answer,  *)
(* given a clock after it is asked for, is about that very block, on the     *)
(* path through the memory and on the path through the cache: not about the  *)
(* block of the step before it.                                            *)
InfoOfSameBlock ==
  core_state = "ST_GET_BLK" =>
    (block_info_data <=> InfoRow(block_cache[cell.lane]) \in Passable)

(* The block cache is never invalidated by the processor's writes; but only *)
(* such a write, to that very word, makes a cached word differ from the     *)
(* memory: a fill never brings in an outdated word.                        *)
CacheCurrent == block_cached => block_cache = sram[block_cache_addr]
StaleOnlyByWrite ==
  [][CacheCurrent /\ ~CacheCurrent' =>
       state = "WRITE_HOLD" /\ active_addr = block_cache_addr]_vars

(* The arbiter prefers the processor, so the ray caster is served only if   *)
(* the processor keeps leaving the bus free at an idle clock, as a          *)
(* processor that must fetch its instructions elsewhere does; then every    *)
(* ray ends.                                                               *)
BusFree == state = "IDLE" /\ ~grant /\ ~NiosReq(avs)
RayEnds == []<>BusFree => (core_state = "ST_WAIT_X" ~> ray_done)

-----------------------------------------------------------------------------
(* The inductive invariant behind the safety properties.                   *)

Writing    == state \in {"WRITE", "WRITE_HOLD"}
Serving(m) == current_master = m /\ (state # "IDLE" \/ grant)

Arbitration ==
  /\ grant => state = "IDLE"
  /\ current_master = NoMaster => state = "IDLE" /\ ~grant

(* A transaction under way is the one its client still holds on its port. *)
CpuTransaction ==
  Serving(CpuMaster) =>
    /\ NiosReq(avs)
    /\ active_addr = avs.address
    /\ active_wr_data = avs.writedata
    /\ active_be = avs.byteenable
    /\ state # "IDLE" => (Writing <=> avs.write)

RayTransaction ==
  Serving(RayMaster) =>
    /\ sram_req
    /\ active_addr = sram_addr
    /\ active_be = Lane
    /\ ~Writing

FetchPort ==
  /\ sram_req <=> core_state = "ST_WAIT_BLK"
  /\ sram_req => ~block_cached /\ sram_addr = cell.addr

(* The cached word covers the ray's cell. *)
CellCached == block_cached /\ block_cache_addr = cell.addr

Pipeline ==
  /\ core_state \in {"ST_GET_BLK_WAIT", "ST_GET_BLK"} =>
       CellCached /\ block_info_addr = InfoRow(block_cache[cell.lane])
  /\ core_state = "ST_GET_BLK" =>
       (block_info_data <=> block_info_addr \in Passable)
  /\ core_state \in SetupStates => hit = Air
  /\ ray_done => core_state = "ST_IDLE"
  /\ ray_done /\ hit # Air => ~cell.out
  /\ (core_state = "ST_START_RAY" \/ ray_done) /\ hit # Air =>
       CellCached /\ hit = block_cache[cell.lane]

(* How long the pending access may have waited when it is at this point. *)
WaitBudget ==
  IF ~NiosReq(avs) THEN cpu_wait = 0
    ELSE IF Serving(CpuMaster)
      THEN /\ state \in {"READ", "WRITE"} => cpu_wait <= 5
           /\ state \in {"READ_WAIT", "WRITE_HOLD"} => cpu_wait <= 6
           /\ state = "READ_HOLD" => cpu_wait <= 7
           /\ grant => cpu_wait <= 8
      ELSE /\ state = "READ" => cpu_wait = 0
           /\ state = "READ_WAIT" => cpu_wait <= 1
           /\ state = "READ_HOLD" => cpu_wait <= 2
           /\ grant => cpu_wait <= 3
           /\ state = "IDLE" => cpu_wait <= 4

IInv ==
  /\ TypeOK
  /\ Arbitration
  /\ CpuTransaction
  /\ RayTransaction
  /\ GrantedDataIsCurrent
  /\ FetchPort
  /\ Pipeline
  /\ WaitBudget

-----------------------------------------------------------------------------
(* The design implements an atomic memory. *)
AbstractMemory ==
  INSTANCE WorldMemory WITH
    Request <- CpuRequests,
    mem     <- sram,
    creq    <- avs,
    cphase  <- IF ~NiosReq(avs) THEN "idle"
               ELSE IF cpu_grant THEN "done" ELSE "pending",
    cresult <- IF cpu_grant /\ avs.read THEN sram_rd_data ELSE AirWord,
    raddr   <- sram_addr,
    rphase  <- IF ~sram_req THEN "idle"
               ELSE IF ray_grant THEN "done" ELSE "pending",
    rresult <- IF ray_grant THEN sram_rd_data ELSE AirWord,
    cache   <- IF block_cached THEN <<block_cache_addr, block_cache>> ELSE <<>>

ImplementsAtomicMemory == AbstractMemory!Spec
=============================================================================
