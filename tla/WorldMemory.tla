----------------------------- MODULE WorldMemory -----------------------------
(***************************************************************************)
(* What the world memory promises its two clients: an atomic memory.       *)
(*                                                                         *)
(* A request of the processor is performed exactly once, at one instant     *)
(* between its issue and its retirement; a write changes the enabled lanes  *)
(* of one word and nothing else ever changes the memory.  A fetch of the    *)
(* ray caster returns the word it asked for as it was at one instant        *)
(* between the request and the answer, and the ray caster's cache is empty  *)
(* or holds the answer to its last fetch.  The clients may move in the      *)
(* same step: they share a clock.                                          *)
(***************************************************************************)
EXTENDS VoxelWorld

CONSTANTS Request,  (* the processor's requests: records with fields write,  *)
                    (* address, writedata and byteenable                     *)
          NoRequest

VARIABLES
  mem,
  creq, cphase, cresult,        (* processor: request, phase, data read *)
  raddr, rphase, rresult,       (* ray caster: word asked for, phase, answer *)
  cache                         (* <<>> or <<address, word>>            *)

cpuVars == <<mem, creq, cphase, cresult>>
rayVars == <<raddr, rphase, rresult, cache>>

Phases == {"idle", "pending", "done"}

Init ==
  /\ mem \in [Addr -> Word]
  /\ creq = NoRequest /\ cphase = "idle" /\ cresult = AirWord
  /\ raddr = Addr0 /\ rphase = "idle" /\ rresult = AirWord
  /\ cache = <<>>

CpuIssue ==
  /\ cphase = "idle"
  /\ creq' \in Request /\ cphase' = "pending" /\ cresult' = AirWord
  /\ UNCHANGED mem

CpuWrite ==
  /\ cphase = "pending" /\ creq.write
  /\ mem' = [mem EXCEPT ![creq.address] =
                          Merge(@, creq.writedata, creq.byteenable)]
  /\ cphase' = "done"
  /\ UNCHANGED <<creq, cresult>>

(* Lanes the processor did not enable carry no promise. *)
CpuRead ==
  /\ cphase = "pending" /\ ~creq.write
  /\ cresult' \in Word
  /\ \A l \in creq.byteenable : cresult'[l] = mem[creq.address][l]
  /\ cphase' = "done"
  /\ UNCHANGED <<mem, creq>>

CpuRetire ==
  /\ cphase = "done"
  /\ \/ creq' = NoRequest /\ cphase' = "idle"
     \/ creq' \in Request /\ cphase' = "pending"
  /\ cresult' = AirWord
  /\ UNCHANGED mem

RayAsk ==
  /\ rphase = "idle"
  /\ raddr' \in Addr /\ rphase' = "pending" /\ cache' = <<>>
  /\ UNCHANGED rresult

RayFetch ==
  /\ rphase = "pending"
  /\ rresult' = mem[raddr] /\ rphase' = "done"
  /\ UNCHANGED <<raddr, cache>>

RayTake ==
  /\ rphase = "done"
  /\ cache' = <<raddr, rresult>> /\ rphase' = "idle" /\ rresult' = AirWord
  /\ UNCHANGED raddr

CpuNext == CpuIssue \/ CpuWrite \/ CpuRead \/ CpuRetire
RayNext == RayAsk \/ RayFetch \/ RayTake

Next == [CpuNext]_cpuVars /\ [RayNext]_rayVars

vars == <<cpuVars, rayVars>>

Spec == Init /\ [][Next]_vars
=============================================================================
