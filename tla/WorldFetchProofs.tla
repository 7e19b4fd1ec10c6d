--------------------------- MODULE WorldFetchProofs ---------------------------
(***************************************************************************)
(* Proofs about WorldFetch, for every set of words, blocks and requests and *)
(* every ray length.  A step is a controller action, a processor action and *)
(* a core action at once; each lemma about a part of the invariant splits   *)
(* on the component whose registers that part reads.                       *)
(***************************************************************************)
EXTENDS WorldFetch, TLAPS

USE AddrAssumption, BlockAssumption, MaxStepAssumption, PassableAssumption,
    RequestAssumption
DEF AddrAssumption, BlockAssumption, MaxStepAssumption, PassableAssumption,
    RequestAssumption

RayPort == [req |-> sram_req, addr |-> sram_addr]

LEMMA WordFacts ==
  /\ AirWord \in Word
  /\ \A w \in Word, l \in Lane : w[l] \in Block
  /\ \A w \in Word, d \in Word, be \in SUBSET Lane :
       /\ Merge(w, d, be) \in Word
       /\ \A l \in be : Merge(w, d, be)[l] = d[l]
BY DEF AirWord, Word, Merge, Lane

(* The row of the ROM is one of 16, whatever the byte. *)
LEMMA RowFacts == \A b \in Block : InfoRow(b) \in 0..15
<1>1. \A b \in 0..255 : b % 16 \in 0..15
  OBVIOUS
<1> QED
  BY <1>1 DEF InfoRow

LEMMA RequestFacts ==
  ASSUME NEW r \in CpuRequests \cup {NoRequest}
  PROVE  /\ r \in AvsRequest
         /\ ~NiosReq(r) <=> r = NoRequest
         /\ NiosReq(r) => r \in CpuRequests /\ (r.write <=> ~r.read)
<1>1. NoRequest \in AvsRequest
  BY WordFacts DEF NoRequest, AvsRequest
<1>2. ~NiosReq(NoRequest)
  BY DEF NiosReq, NoRequest
<1>3. \A q \in CpuRequests : NiosReq(q) /\ (q.write <=> ~q.read)
  BY DEF NiosReq, AvsRequest
<1>4. QED
  BY <1>1, <1>2, <1>3

(* Initial states satisfy the invariant. *)
LEMMA InitInvariant == Init => IInv
<1> SUFFICES ASSUME Init PROVE IInv
  OBVIOUS
<1> USE DEF Init, CtlInit, CoreInit
<1>1. TypeOK
  <2>1. CtlTypeOK
    BY WordFacts DEF CtlTypeOK, States
  <2>2. block_info_data \in BOOLEAN
    OBVIOUS
  <2>3. cell \in Cell
    BY DEF Cell, Lane
  <2>4. 0 \in 0..MAX_STEP /\ 0 \in 0..15
    OBVIOUS
  <2> step \in 0..MAX_STEP /\ block_info_addr \in 0..15
    BY <2>4, Zenon
  <2> CoreTypeOK
    BY <2>2, <2>3, WordFacts, Zenon DEF CoreTypeOK, CoreStates
  <2>5. QED
    BY <2>1 DEF TypeOK, WaitCap, CpuMaxWait
<1>2. ~NiosReq(avs)
  BY DEF NiosReq, NoRequest
<1>3. Arbitration /\ CpuTransaction /\ RayTransaction /\ GrantedDataIsCurrent
  BY DEF Arbitration, CpuTransaction, RayTransaction, GrantedDataIsCurrent,
         Serving, NoMaster, CpuMaster, RayMaster, ray_grant, cpu_grant
<1>4. FetchPort /\ Pipeline
  BY DEF FetchPort, Pipeline, SetupStates
<1>5. WaitBudget
  BY <1>2 DEF WaitBudget
<1>6. QED
  BY <1>1, <1>3, <1>4, <1>5 DEF IInv

(* What a clock edge of each component does to the types of its registers. *)
LEMMA CtlTypeStep ==
  ASSUME TypeOK, CtlClk(avs, RayPort)
  PROVE  CtlTypeOK'
<1> USE DEF TypeOK, CtlTypeOK, States
<1>1. avs \in AvsRequest
  BY RequestFacts
<1>2. CASE AcceptCpu(avs)
  BY <1>1, <1>2 DEF AcceptCpu, AvsRequest
<1>3. CASE AcceptRay(avs, RayPort)
  BY <1>3, WordFacts DEF AcceptRay, RayPort, CoreTypeOK
<1>4. CASE StayIdle(avs, RayPort)
  BY <1>4 DEF StayIdle
<1>5. CASE Access
  BY <1>5 DEF Access
<1>6. CASE ReadHold
  BY <1>6 DEF ReadHold, Word, Lane
<1>7. CASE WriteHold
  BY <1>7, WordFacts DEF WriteHold
<1>8. QED
  BY <1>2, <1>3, <1>4, <1>5, <1>6, <1>7 DEF CtlClk

LEMMA CoreTypeStep ==
  ASSUME TypeOK, Pipeline, CoreClk(ray_grant, sram_rd_data)
  PROVE  CoreTypeOK'
<1> USE DEF TypeOK, CoreTypeOK, CoreStates, SetupStates
<1> block_info_data' \in BOOLEAN
  BY DEF CoreClk, RomClk
<1>1. CASE AwaitStart
  BY <1>1 DEF AwaitStart, cacheVars, portVars
<1>2. CASE StartRay
  <2>1. step' \in 0..MAX_STEP
    BY <1>2 DEF StartRay
  <2>2. /\ UNCHANGED <<block_cached, block_cache_addr, block_cache, sram_req,
                       sram_addr, block_info_addr>>
        /\ cell' \in Cell /\ hit' = Air /\ ray_done' = FALSE
        /\ core_state' = "ST_WAIT_X"
    BY <1>2 DEF StartRay, cacheVars, portVars
  <2>3. QED
    BY <2>1, <2>2
<1>3. CASE Setup
  BY <1>3 DEF Setup, AfterSetup, cacheVars, portVars
<1>4. CASE FinishRay
  BY <1>4 DEF FinishRay, cacheVars, portVars
<1>5. ASSUME NEW n \in Cell, Advance(n)
      PROVE  n.addr \in Addr /\ n.lane \in Lane /\ step' \in 0..MAX_STEP
  BY <1>5 DEF Advance, RayOver, Cell
<1>6. CASE \E n \in Cell : StepInCache(n)
  <2>1. PICK n \in Cell : StepInCache(n)
    BY <1>6
  <2>2. n.lane \in Lane /\ block_cache[n.lane] \in Block
    BY <2>1, WordFacts DEF Cell
  <2>3. QED
    BY <1>5, <2>1, <2>2, RowFacts DEF StepInCache, Advance, cacheVars, portVars
<1>7. CASE \E n \in Cell : StepAndFetch(n)
  <2>1. PICK n \in Cell : StepAndFetch(n)
    BY <1>7
  <2>2. QED
    BY <1>5, <2>1 DEF StepAndFetch, Advance
<1>8. CASE AwaitBlock(ray_grant)
  BY <1>8 DEF AwaitBlock, cacheVars, portVars
<1>9. CASE TakeBlock(ray_grant, sram_rd_data)
  <2>1. sram_rd_data[cell.lane] \in Block
    BY WordFacts DEF Cell, CtlTypeOK
  <2>2. QED
    BY <1>9, <2>1, RowFacts DEF TakeBlock, CtlTypeOK
<1>10. CASE GetBlockWait
  BY <1>10 DEF GetBlockWait, cacheVars, portVars
<1>11. CASE \E t \in BOOLEAN : GetBlock(t)
  <2>1. PICK t \in BOOLEAN : GetBlock(t)
    BY <1>11
  <2>2. QED
    BY <2>1, WordFacts DEF GetBlock, Cell, cacheVars, portVars
<1>12. QED
  <2> HIDE DEF TypeOK, CoreTypeOK, CoreStates, SetupStates
  <2> QED
    BY <1>1, <1>2, <1>3, <1>4, <1>6, <1>7, <1>8, <1>9, <1>10, <1>11, Zenon
    DEF CoreClk

LEMMA CpuTypeStep ==
  ASSUME TypeOK, CpuClk
  PROVE  avs' \in CpuRequests \cup {NoRequest} /\ cpu_wait' \in 0..WaitCap
BY DEF TypeOK, CpuClk, CpuIdle, CpuHold, CpuRetire, WaitCap, CpuMaxWait

-----------------------------------------------------------------------------
(* The parts of the invariant about the arbiter's transactions. *)

LEMMA ArbitrationStep ==
  ASSUME IInv, CtlClk(avs, RayPort)
  PROVE  Arbitration'
BY DEF IInv, TypeOK, CtlTypeOK, States, Arbitration, CtlClk, AcceptCpu,
       AcceptRay, StayIdle, Access, ReadHold, WriteHold, NoMaster, CpuMaster,
       RayMaster

(* The ports do not move under a transaction. *)
LEMMA CpuPortHeld ==
  ASSUME IInv, CpuClk, Serving(CpuMaster), ~grant
  PROVE  avs' = avs /\ NiosReq(avs)
BY DEF IInv, CpuTransaction, CpuClk, CpuIdle, CpuHold, CpuRetire, waitrequest

LEMMA CpuTransactionStep ==
  ASSUME IInv, CtlClk(avs, RayPort), CpuClk
  PROVE  CpuTransaction'
<1> USE DEF IInv, TypeOK, CtlTypeOK, States, Arbitration, CpuTransaction,
            Serving, Writing, CpuMaster, RayMaster, NoMaster
<1>1. CASE AcceptCpu(avs)
  <2>1. avs' = avs /\ NiosReq(avs)
    BY <1>1 DEF AcceptCpu, CpuClk, CpuIdle, CpuHold, CpuRetire, waitrequest
  <2>2. QED
    BY <1>1, <2>1 DEF AcceptCpu
<1>2. CASE AcceptRay(avs, RayPort)
  BY <1>2 DEF AcceptRay
<1>3. CASE StayIdle(avs, RayPort)
  BY <1>3 DEF StayIdle
<1>4. CASE Access
  BY <1>4, CpuPortHeld DEF Access
<1>5. CASE ReadHold
  BY <1>5, CpuPortHeld DEF ReadHold
<1>6. CASE WriteHold
  BY <1>6, CpuPortHeld DEF WriteHold
<1>7. QED
  BY <1>1, <1>2, <1>3, <1>4, <1>5, <1>6 DEF CtlClk

LEMMA RayPortHeld ==
  ASSUME IInv, CoreClk(ray_grant, sram_rd_data), sram_req, ~ray_grant
  PROVE  UNCHANGED <<sram_req, sram_addr>>
<1>1. core_state = "ST_WAIT_BLK"
  BY DEF IInv, FetchPort
<1>2. AwaitBlock(ray_grant)
  BY <1>1 DEF CoreClk, AwaitStart, StartRay, Setup, SetupStates, FinishRay,
     StepInCache, StepAndFetch, Advance, TakeBlock, GetBlockWait, GetBlock
<1>3. QED
  BY <1>2 DEF AwaitBlock, portVars

LEMMA RayTransactionStep ==
  ASSUME IInv, CtlClk(avs, RayPort), CoreClk(ray_grant, sram_rd_data)
  PROVE  RayTransaction'
<1> USE DEF IInv, TypeOK, CtlTypeOK, States, Arbitration, RayTransaction,
            Serving, Writing, CpuMaster, RayMaster, NoMaster, ray_grant
<1>1. CASE AcceptCpu(avs)
  BY <1>1 DEF AcceptCpu
<1>2. CASE AcceptRay(avs, RayPort)
  BY <1>2, RayPortHeld DEF AcceptRay, RayPort
<1>3. CASE StayIdle(avs, RayPort)
  BY <1>3 DEF StayIdle
<1>4. CASE Access
  BY <1>4, RayPortHeld DEF Access
<1>5. CASE ReadHold
  BY <1>5, RayPortHeld DEF ReadHold
<1>6. CASE WriteHold
  BY <1>6, RayPortHeld DEF WriteHold
<1>7. QED
  BY <1>1, <1>2, <1>3, <1>4, <1>5, <1>6 DEF CtlClk

(* The data latched in READ_HOLD is the word of the request on the port,    *)
(* and no write can intervene before the grant is seen.                    *)
LEMMA GrantedDataStep ==
  ASSUME IInv, CtlClk(avs, RayPort), CpuClk, CoreClk(ray_grant, sram_rd_data)
  PROVE  GrantedDataIsCurrent'
<1> USE DEF IInv, TypeOK, CtlTypeOK, States, Arbitration, Serving, Writing,
            CpuMaster, RayMaster, NoMaster, ray_grant, cpu_grant,
            GrantedDataIsCurrent
<1>1. CASE ReadHold
  <2>1. CASE current_master = RayMaster
    <3>1. active_addr = sram_addr /\ active_be = Lane /\ sram_req
      BY <1>1, <2>1 DEF ReadHold, RayTransaction
    <3>2. sram_addr' = sram_addr
      BY <1>1, <3>1, RayPortHeld DEF ReadHold
    <3>3. sram_rd_data' = [l \in Lane |-> sram[sram_addr][l]]
      BY <1>1, <3>1 DEF ReadHold
    <3>4. sram[sram_addr] \in Word
      BY DEF CoreTypeOK
    <3>5. sram_rd_data' = sram[sram_addr]
      BY <3>3, <3>4 DEF Word
    <3>6. QED
      BY <1>1, <2>1, <3>2, <3>5 DEF ReadHold
  <2>2. CASE current_master = CpuMaster
    <3>1. avs' = avs /\ active_addr = avs.address /\ active_be = avs.byteenable
      BY <1>1, <2>2, CpuPortHeld DEF ReadHold, CpuTransaction
    <3>2. \A l \in active_be : sram_rd_data'[l] = sram[active_addr][l]
      BY <1>1 DEF ReadHold
    <3>3. QED
      BY <1>1, <2>2, <3>1, <3>2 DEF ReadHold
  <2>3. QED
    BY <1>1, <2>1, <2>2 DEF ReadHold
<1>2. CASE WriteHold
  <2>1. current_master # RayMaster
    BY <1>2 DEF WriteHold, RayTransaction
  <2>2. current_master = CpuMaster => avs' = avs /\ avs.write
    BY <1>2, CpuPortHeld DEF WriteHold, CpuTransaction
  <2>3. avs.write /\ NiosReq(avs) => ~avs.read
    BY RequestFacts
  <2>4. current_master = CpuMaster => NiosReq(avs)
    BY <1>2, CpuPortHeld DEF WriteHold
  <2>5. QED
    BY <1>2, <2>1, <2>2, <2>3, <2>4 DEF WriteHold
<1>3. CASE AcceptCpu(avs)
  BY <1>3 DEF AcceptCpu
<1>4. CASE AcceptRay(avs, RayPort)
  BY <1>4 DEF AcceptRay
<1>5. CASE StayIdle(avs, RayPort)
  BY <1>5 DEF StayIdle
<1>6. CASE Access
  BY <1>6 DEF Access
<1>7. QED
  BY <1>1, <1>2, <1>3, <1>4, <1>5, <1>6 DEF CtlClk

-----------------------------------------------------------------------------
(* The parts of the invariant about the ray caster's pipeline. *)

LEMMA FetchPortStep ==
  ASSUME IInv, CoreClk(ray_grant, sram_rd_data)
  PROVE  FetchPort'
<1> USE DEF IInv, FetchPort, SetupStates, cacheVars, portVars
<1>1. CASE AwaitStart
  BY <1>1 DEF AwaitStart
<1>2. CASE StartRay
  BY <1>2 DEF StartRay
<1>3. CASE Setup
  BY <1>3 DEF Setup, AfterSetup
<1>4. CASE FinishRay
  BY <1>4 DEF FinishRay
<1>5. CASE \E n \in Cell : StepInCache(n)
  BY <1>5 DEF StepInCache, Advance
<1>6. CASE \E n \in Cell : StepAndFetch(n)
  BY <1>6 DEF StepAndFetch, Advance
<1>7. CASE AwaitBlock(ray_grant)
  BY <1>7 DEF AwaitBlock
<1>8. CASE TakeBlock(ray_grant, sram_rd_data)
  BY <1>8 DEF TakeBlock
<1>9. CASE GetBlockWait
  BY <1>9 DEF GetBlockWait
<1>10. CASE \E t \in BOOLEAN : GetBlock(t)
  BY <1>10 DEF GetBlock
<1>11. QED
  <2> HIDE DEF IInv, FetchPort, SetupStates
  <2> QED
    BY <1>1, <1>2, <1>3, <1>4, <1>5, <1>6, <1>7, <1>8, <1>9, <1>10, Zenon
    DEF CoreClk

LEMMA PipelineStep ==
  ASSUME IInv, CoreClk(ray_grant, sram_rd_data)
  PROVE  Pipeline'
<1> USE DEF IInv, Pipeline, CellCached, SetupStates, cacheVars, portVars
<1>1. CASE AwaitStart
  BY <1>1 DEF AwaitStart
<1>2. CASE StartRay
  BY <1>2 DEF StartRay
<1>3. CASE Setup
  BY <1>3 DEF Setup, AfterSetup
<1>4. CASE FinishRay
  BY <1>4 DEF FinishRay
<1>5. CASE \E n \in Cell : StepInCache(n)
  BY <1>5 DEF StepInCache, Advance, RayOver
<1>6. CASE \E n \in Cell : StepAndFetch(n)
  BY <1>6 DEF StepAndFetch, Advance, RayOver
<1>7. CASE AwaitBlock(ray_grant)
  BY <1>7 DEF AwaitBlock
<1>8. CASE TakeBlock(ray_grant, sram_rd_data)
  BY <1>8 DEF TakeBlock, FetchPort
<1>9. CASE GetBlockWait
  <2>1. block_info_data' <=> block_info_addr \in Passable
    BY DEF CoreClk, RomClk
  <2>2. QED
    BY <1>9, <2>1 DEF GetBlockWait
<1>10. CASE \E t \in BOOLEAN : GetBlock(t)
  BY <1>10 DEF GetBlock
<1>11. QED
  <2> HIDE DEF IInv, Pipeline, CellCached, SetupStates
  <2> QED
    BY <1>1, <1>2, <1>3, <1>4, <1>5, <1>6, <1>7, <1>8, <1>9, <1>10, Zenon
    DEF CoreClk

-----------------------------------------------------------------------------
(* The budget: the access is held while it waits, so cpu_wait grows by one   *)
(* at each edge of the controller's walk, starting from a bus that at worst  *)
(* has just been given to the ray caster.                                  *)
LEMMA CpuWaitStep ==
  ASSUME TypeOK, CpuClk
  PROVE  /\ cpu_wait \in Nat
         /\ cpu_wait' \in Nat
         /\ \/ waitrequest(avs) /\ avs' = avs /\ cpu_wait' <= cpu_wait + 1
            \/ ~waitrequest(avs) /\ cpu_wait' = 0
BY DEF TypeOK, CpuClk, CpuIdle, CpuHold, CpuRetire, waitrequest, WaitCap,
       CpuMaxWait

LEMMA WaitBudgetStep ==
  ASSUME IInv, CtlClk(avs, RayPort), CpuClk, CoreClk(ray_grant, sram_rd_data)
  PROVE  WaitBudget'
<1> USE CpuWaitStep DEF IInv, TypeOK, CtlTypeOK, States, Arbitration, Serving,
        WaitBudget, waitrequest, CpuMaster, RayMaster, NoMaster
<1>1. CASE AcceptCpu(avs)
  BY <1>1 DEF AcceptCpu
<1>2. CASE AcceptRay(avs, RayPort)
  BY <1>2 DEF AcceptRay
<1>3. CASE StayIdle(avs, RayPort)
  BY <1>3 DEF StayIdle
<1>4. CASE Access
  BY <1>4, CpuPortHeld DEF Access, CpuTransaction
<1>5. CASE ReadHold
  BY <1>5, CpuPortHeld DEF ReadHold, CpuTransaction
<1>6. CASE WriteHold
  BY <1>6, CpuPortHeld DEF WriteHold, RayTransaction, Writing
<1>7. QED
  BY <1>1, <1>2, <1>3, <1>4, <1>5, <1>6 DEF CtlClk

-----------------------------------------------------------------------------
LEMMA NextInvariant == IInv /\ [Next]_vars => IInv'
<1>1. ASSUME IInv, Next
      PROVE  IInv'
  <2>1. /\ CtlClk(avs, RayPort)
        /\ CpuClk
        /\ CoreClk(ray_grant, sram_rd_data)
    BY <1>1 DEF Next, RayPort
  <2>2. TypeOK /\ Pipeline
    BY <1>1 DEF IInv
  <2>3. TypeOK'
    BY <2>1, <2>2, CtlTypeStep, CoreTypeStep, CpuTypeStep DEF TypeOK
  <2>4. QED
    BY <1>1, <2>1, <2>3, ArbitrationStep, CpuTransactionStep,
       RayTransactionStep, GrantedDataStep, FetchPortStep, PipelineStep,
       WaitBudgetStep DEF IInv
<1>2. ASSUME IInv, UNCHANGED vars
      PROVE  IInv'
  <2> USE <1>2 DEF IInv, vars, ctlVars, coreVars
  <2>1. TypeOK'
    BY DEF TypeOK, CtlTypeOK, CoreTypeOK
  <2>2. Arbitration' /\ CpuTransaction' /\ RayTransaction'
    BY DEF Arbitration, CpuTransaction, RayTransaction, Serving, Writing
  <2>3. GrantedDataIsCurrent'
    BY DEF GrantedDataIsCurrent, ray_grant, cpu_grant
  <2>4. FetchPort' /\ Pipeline'
    BY DEF FetchPort, Pipeline, CellCached
  <2>5. WaitBudget'
    BY DEF WaitBudget, Serving
  <2>6. QED
    BY <2>1, <2>2, <2>3, <2>4, <2>5
<1>3. QED
  BY <1>1, <1>2

(* The registers keep their types; every reachable state satisfies IInv. *)
THEOREM Invariance == Spec => []IInv
BY InitInvariant, NextInvariant, PTL DEF Spec

(* Every register keeps to its range. *)
THEOREM TypeCorrect == Spec => []TypeOK
<1>1. IInv => TypeOK
  BY DEF IInv
<1>2. QED
  BY <1>1, Invariance, PTL

(* grant always answers the request that is on the port. *)
THEOREM GrantSafety == Spec => []GrantMatchesRequest
<1>1. IInv => GrantMatchesRequest
  BY DEF IInv, GrantMatchesRequest, CpuTransaction, RayTransaction, FetchPort,
         Serving, ray_grant, cpu_grant
<1>2. QED
  BY <1>1, Invariance, PTL

(* What a client is given is the memory's present contents. *)
THEOREM GrantedDataSafety == Spec => []GrantedDataIsCurrent
<1>1. IInv => GrantedDataIsCurrent
  BY DEF IInv
<1>2. QED
  BY <1>1, Invariance, PTL

(* The processor is never kept waiting for more than CpuMaxWait edges. *)
THEOREM BoundedWait == Spec => []CpuWaitBounded
<1>1. IInv => CpuWaitBounded
  <2> SUFFICES ASSUME IInv PROVE cpu_wait <= 8
    BY DEF CpuWaitBounded, CpuMaxWait
  <2> QED
    BY DEF IInv, WaitBudget, TypeOK, CtlTypeOK, States, Arbitration,
       RayTransaction, Serving, Writing, NoMaster, CpuMaster, RayMaster,
       WaitCap, CpuMaxWait
<1>2. QED
  BY <1>1, Invariance, PTL

(* A ray that hits reports a block the cached word has at its cell. *)
THEOREM HitSafety == Spec => []HitIsCachedBlock
<1>1. IInv => HitIsCachedBlock
  BY DEF IInv, HitIsCachedBlock, Pipeline, CellCached
<1>2. QED
  BY <1>1, Invariance, PTL

(* The block looked up in the ROM is the block reported. *)
THEOREM InfoSafety == Spec => []InfoOfSameBlock
<1>1. IInv => InfoOfSameBlock
  BY DEF IInv, InfoOfSameBlock, Pipeline
<1>2. QED
  BY <1>1, Invariance, PTL

-----------------------------------------------------------------------------
(* A fill brings in the present word, and a cached word is left behind only *)
(* by the end of a write to it.                                            *)
THEOREM StaleSafety == Spec => StaleOnlyByWrite
<1>1. ASSUME IInv, Next, CacheCurrent, ~CacheCurrent'
      PROVE  state = "WRITE_HOLD" /\ active_addr = block_cache_addr
  <2> USE DEF IInv, CacheCurrent
  <2>1. /\ CtlClk(avs, RayPort)
        /\ CoreClk(ray_grant, sram_rd_data)
    BY <1>1 DEF Next, RayPort
  <2>2. block_cached' /\ block_cache' # sram'[block_cache_addr']
    BY <1>1
  <2>3. \/ UNCHANGED <<block_cached, block_cache, block_cache_addr>>
        \/ /\ ray_grant
           /\ block_cache' = sram_rd_data /\ block_cache_addr' = sram_addr
    BY <2>1, <2>2 DEF CoreClk, AwaitStart, StartRay, Setup, FinishRay,
       StepInCache, StepAndFetch, Advance, AwaitBlock, TakeBlock, GetBlockWait,
       GetBlock, cacheVars
  <2>4. \/ sram' = sram
        \/ /\ state = "WRITE_HOLD"
           /\ sram' = [sram EXCEPT ![active_addr] =
                                     Merge(@, active_wr_data, active_be)]
    BY <2>1 DEF CtlClk, AcceptCpu, AcceptRay, StayIdle, Access, ReadHold,
       WriteHold
  <2>5. ray_grant => state = "IDLE" /\ sram_rd_data = sram[sram_addr]
    BY <1>1 DEF Arbitration, GrantedDataIsCurrent, ray_grant
  <2>6. sram \in [Addr -> Word] /\ block_cache_addr \in Addr
    BY <1>1 DEF TypeOK, CtlTypeOK, CoreTypeOK
  <2>7. CASE UNCHANGED <<block_cached, block_cache, block_cache_addr>>
    BY <1>1, <2>2, <2>4, <2>6, <2>7
  <2>8. CASE ray_grant /\ block_cache' = sram_rd_data
                       /\ block_cache_addr' = sram_addr
    BY <2>2, <2>4, <2>5, <2>8
  <2>9. QED
    BY <2>3, <2>7, <2>8
<1>2. IInv /\ [Next]_vars =>
        [CacheCurrent /\ ~CacheCurrent' =>
           state = "WRITE_HOLD" /\ active_addr = block_cache_addr]_vars
  BY <1>1
<1>3. QED
  BY <1>2, Invariance, PTL DEF Spec, StaleOnlyByWrite

-----------------------------------------------------------------------------
(* The refinement. *)

LEMMA AbstractInit == Init => AbstractMemory!Init
<1> SUFFICES ASSUME Init PROVE AbstractMemory!Init
  OBVIOUS
<1>1. ~NiosReq(avs) /\ ~cpu_grant /\ ~ray_grant /\ ~sram_req /\ ~block_cached
  BY DEF Init, CtlInit, CoreInit, NiosReq, NoRequest, cpu_grant, ray_grant
<1>2. QED
  BY <1>1 DEF AbstractMemory!Init, Init, CtlInit, CoreInit, AbstractMemory!Word,
     AbstractMemory!Lane, AbstractMemory!AirWord, Word, Lane, AirWord

(* A grant appears exactly at the end of the transaction it answers, and     *)
(* the memory changes only at the end of the processor's write.            *)
LEMMA CtlStepFacts ==
  ASSUME IInv, CtlClk(avs, RayPort)
  PROVE  /\ cpu_grant' <=> (ReadHold \/ WriteHold) /\ current_master = CpuMaster
         /\ ray_grant' <=> ReadHold /\ current_master = RayMaster
         /\ sram' = sram \/ (WriteHold /\ current_master = CpuMaster)
<1> USE DEF IInv, Arbitration, RayTransaction, TypeOK, CtlTypeOK, States,
            Serving, Writing, NoMaster, CpuMaster, RayMaster, cpu_grant,
            ray_grant
<1>1. CASE AcceptCpu(avs)
  BY <1>1 DEF AcceptCpu, ReadHold, WriteHold
<1>2. CASE AcceptRay(avs, RayPort)
  BY <1>2 DEF AcceptRay, ReadHold, WriteHold
<1>3. CASE StayIdle(avs, RayPort)
  BY <1>3 DEF StayIdle, ReadHold, WriteHold
<1>4. CASE Access
  BY <1>4 DEF Access, ReadHold, WriteHold
<1>5. CASE ReadHold
  <2>1. state = "READ_HOLD" /\ grant' /\ UNCHANGED <<sram, current_master>>
    BY <1>5 DEF ReadHold
  <2>2. ~WriteHold
    BY <2>1 DEF WriteHold
  <2>3. QED
    BY <1>5, <2>1, <2>2
<1>6. CASE WriteHold
  <2>1. state = "WRITE_HOLD" /\ grant' /\ UNCHANGED current_master
    BY <1>6 DEF WriteHold
  <2>2. ~ReadHold
    BY <2>1 DEF ReadHold
  <2>3. QED
    BY <1>6, <2>1, <2>2
<1>7. QED
  BY <1>1, <1>2, <1>3, <1>4, <1>5, <1>6 DEF CtlClk

LEMMA AbstractCpuStep ==
  ASSUME IInv, CtlClk(avs, RayPort), CpuClk
  PROVE  [AbstractMemory!CpuNext]_(AbstractMemory!cpuVars)
<1> USE DEF AbstractMemory!cpuVars, AbstractMemory!CpuNext
<1>1. /\ avs \in CpuRequests \cup {NoRequest}
      /\ sram \in [Addr -> Word]
      /\ cpu_grant => state = "IDLE" /\ NiosReq(avs)
    BY DEF IInv, TypeOK, CtlTypeOK, Arbitration, CpuTransaction, Serving,
       cpu_grant
<1>2. ASSUME NEW r \in CpuRequests
      PROVE  NiosReq(r) /\ (r.write <=> ~r.read)
  BY RequestFacts DEF NoRequest, NiosReq, AvsRequest
<1>3. ~NiosReq(NoRequest) /\ ~NoRequest.read
  BY DEF NoRequest, NiosReq
<1>4. avs' \in CpuRequests \cup {NoRequest}
  BY CpuTypeStep DEF IInv
<1>5. CASE CpuIdle
  <2>1. ~NiosReq(avs) /\ avs = NoRequest
    BY <1>1, <1>2, <1>5 DEF CpuIdle
  <2>2. sram' = sram /\ ~cpu_grant /\ ~cpu_grant'
    BY <1>1, <2>1, CtlStepFacts
    DEF ReadHold, WriteHold, IInv, CpuTransaction, Serving
  <2>3. CASE avs' = NoRequest
    BY <1>3, <2>1, <2>2, <2>3 DEF NiosReq
  <2>4. CASE avs' \in CpuRequests
    BY <1>2, <2>1, <2>2, <2>4 DEF AbstractMemory!CpuIssue, NiosReq,
       AbstractMemory!AirWord, AbstractMemory!Lane, AirWord, Lane
  <2>5. QED
    BY <1>4, <2>3, <2>4
<1>6. CASE CpuHold
  <2>1. avs' = avs /\ NiosReq(avs) /\ ~cpu_grant
    BY <1>6 DEF CpuHold, waitrequest, cpu_grant
  <2>2. avs \in CpuRequests
    BY <1>1, <1>3, <2>1
  <2>3. CASE ReadHold /\ current_master = CpuMaster
    <3>1. /\ cpu_grant' /\ sram' = sram
          /\ ~avs.write /\ avs.read
          /\ active_addr = avs.address /\ active_be = avs.byteenable
      BY <1>2, <2>2, <2>3, CtlStepFacts DEF ReadHold, IInv, CpuTransaction,
         Serving, Writing
    <3>2. /\ sram_rd_data' \in Word
          /\ \A l \in avs.byteenable : sram_rd_data'[l] = sram[avs.address][l]
      <4>1. sram_rd_data' \in Word
        BY CtlTypeStep DEF IInv, CtlTypeOK
      <4>2. avs.byteenable \subseteq Lane
        BY <2>2 DEF AvsRequest
      <4>3. QED
        BY <2>3, <3>1, <4>1, <4>2 DEF ReadHold
    <3>3. AbstractMemory!CpuRead
      BY <2>1, <3>1, <3>2 DEF AbstractMemory!CpuRead, NiosReq,
         AbstractMemory!Word, AbstractMemory!Lane, Word, Lane
    <3>4. QED
      BY <3>3
  <2>4. CASE WriteHold /\ current_master = CpuMaster
    <3>1. /\ cpu_grant' /\ avs.write /\ ~avs.read
          /\ active_addr = avs.address /\ active_be = avs.byteenable
          /\ active_wr_data = avs.writedata
      BY <1>2, <2>2, <2>4, CtlStepFacts DEF WriteHold, IInv, CpuTransaction,
         Serving, Writing
    <3>2. sram' = [sram EXCEPT ![avs.address] =
                                  Merge(@, avs.writedata, avs.byteenable)]
      BY <2>4, <3>1 DEF WriteHold
    <3>3. AbstractMemory!CpuWrite
      BY <2>1, <3>1, <3>2 DEF AbstractMemory!CpuWrite, NiosReq,
         AbstractMemory!Merge, AbstractMemory!Lane, Merge, Lane
    <3>4. QED
      BY <3>3
  <2>5. CASE ~cpu_grant'
    <3>1. sram' = sram
      BY <2>5, CtlStepFacts
    <3>2. QED
      BY <2>1, <2>5, <3>1 DEF NiosReq
  <2>6. QED
    BY <2>3, <2>4, <2>5, CtlStepFacts
<1>7. CASE CpuRetire
  <2>1. cpu_grant /\ NiosReq(avs) /\ state = "IDLE"
    BY <1>1, <1>7 DEF CpuRetire, waitrequest, cpu_grant
  <2>2. ~cpu_grant' /\ sram' = sram
    BY <2>1, CtlStepFacts DEF ReadHold, WriteHold
  <2>3. AbstractMemory!CpuRetire
    BY <1>2, <1>3, <1>4, <2>1, <2>2 DEF AbstractMemory!CpuRetire, NiosReq,
       AbstractMemory!AirWord, AbstractMemory!Lane, AirWord, Lane, NoRequest
  <2>4. QED
    BY <2>3
<1>8. QED
  BY <1>5, <1>6, <1>7 DEF CpuClk

LEMMA AbstractRayStep ==
  ASSUME IInv, CtlClk(avs, RayPort), CoreClk(ray_grant, sram_rd_data)
  PROVE  [AbstractMemory!RayNext]_(AbstractMemory!rayVars)
<1> USE DEF AbstractMemory!rayVars, AbstractMemory!RayNext
<1>1. ray_grant => sram_req /\ state = "IDLE"
  BY DEF IInv, RayTransaction, Arbitration, Serving, ray_grant
<1>2. sram_req <=> core_state = "ST_WAIT_BLK"
  BY DEF IInv, FetchPort
<1>3. ray_grant' => sram_req /\ ReadHold /\ ~ray_grant
  BY <1>1, CtlStepFacts DEF ReadHold, IInv, RayTransaction, Serving
<1>4. CASE UNCHANGED <<cacheVars, portVars>> /\ ~sram_req
  BY <1>1, <1>3, <1>4 DEF cacheVars, portVars
<1>5. CASE \E n \in Cell : StepInCache(n)
  <2>1. UNCHANGED <<cacheVars, portVars>> /\ ~sram_req
    BY <1>2, <1>5 DEF StepInCache, Advance
  <2>2. QED
    BY <1>4, <2>1
<1>6. CASE \E n \in Cell : StepAndFetch(n)
  <2>1. PICK n \in Cell : StepAndFetch(n)
    BY <1>6
  <2>2. ~sram_req /\ ~ray_grant /\ ~ray_grant'
    BY <1>1, <1>2, <1>3, <2>1 DEF StepAndFetch, Advance
  <2>3. sram_req' /\ sram_addr' = n.addr /\ n.addr \in Addr /\ ~block_cached'
    BY <2>1 DEF StepAndFetch, Cell
  <2>4. AbstractMemory!RayAsk
    BY <2>2, <2>3 DEF AbstractMemory!RayAsk
  <2>5. QED
    BY <2>4
<1>7. CASE AwaitBlock(ray_grant)
  <2>1. /\ sram_req /\ ~ray_grant
        /\ UNCHANGED <<block_cached, block_cache_addr, block_cache, sram_req,
                       sram_addr>>
    BY <1>2, <1>7 DEF AwaitBlock, cacheVars, portVars
  <2>2. CASE ray_grant'
    <3>1. ReadHold /\ current_master = RayMaster
      BY <2>2, CtlStepFacts
    <3>2. active_addr = sram_addr /\ active_be = Lane
      BY <3>1 DEF ReadHold, IInv, RayTransaction, Serving
    <3>3. sram[sram_addr] \in Word
      BY DEF IInv, TypeOK, CtlTypeOK, CoreTypeOK
    <3>4. sram_rd_data' = [l \in Lane |-> sram[sram_addr][l]]
      BY <3>1, <3>2 DEF ReadHold
    <3>5. sram_rd_data' = sram[sram_addr]
      BY <3>3, <3>4 DEF Word
    <3>6. AbstractMemory!RayFetch
      BY <2>1, <2>2, <3>5 DEF AbstractMemory!RayFetch
    <3>7. QED
      BY <3>6
  <2>3. CASE ~ray_grant'
    BY <2>1, <2>3
  <2>4. QED
    BY <2>2, <2>3
<1>8. CASE TakeBlock(ray_grant, sram_rd_data)
  <2>1. /\ sram_req /\ ray_grant /\ ~ray_grant'
        /\ ~sram_req' /\ sram_addr' = sram_addr
        /\ block_cached' /\ block_cache_addr' = sram_addr
        /\ block_cache' = sram_rd_data
    BY <1>2, <1>3, <1>8 DEF TakeBlock
  <2>2. AbstractMemory!RayTake
    BY <2>1 DEF AbstractMemory!RayTake, AbstractMemory!AirWord,
       AbstractMemory!Lane, AirWord, Lane
  <2>3. QED
    BY <2>2
<1>9. CASE AwaitStart \/ StartRay \/ Setup \/ FinishRay \/ GetBlockWait
           \/ \E t \in BOOLEAN : GetBlock(t)
  <2>1. UNCHANGED <<cacheVars, portVars>>
    BY <1>9 DEF AwaitStart, StartRay, Setup, FinishRay, GetBlockWait, GetBlock
  <2>2. ~sram_req
    BY <1>2, <1>9 DEF AwaitStart, StartRay, Setup, FinishRay, GetBlockWait,
       GetBlock, SetupStates
  <2>3. QED
    BY <1>4, <2>1, <2>2
<1>10. QED
  BY <1>5, <1>6, <1>7, <1>8, <1>9, Zenon DEF CoreClk

(* The arbiter, the processor's port and the ray caster's cache implement   *)
(* the atomic world memory.                                                *)
THEOREM Refinement == Spec => ImplementsAtomicMemory
<1>1. IInv /\ [Next]_vars => [AbstractMemory!Next]_(AbstractMemory!vars)
  <2>1. ASSUME IInv, Next
        PROVE  AbstractMemory!Next
    BY <2>1, AbstractCpuStep, AbstractRayStep DEF Next, RayPort,
       AbstractMemory!Next
  <2>2. ASSUME UNCHANGED vars
        PROVE  UNCHANGED AbstractMemory!vars
    BY <2>2 DEF vars, ctlVars, coreVars, AbstractMemory!vars,
       AbstractMemory!cpuVars, AbstractMemory!rayVars, NiosReq, cpu_grant,
       ray_grant
  <2>3. QED
    BY <2>1, <2>2
<1>2. QED
  BY <1>1, AbstractInit, Invariance, PTL
  DEF Spec, AbstractMemory!Spec, ImplementsAtomicMemory
=============================================================================
