# A verification project for the FPGA voxel game

The repository is a small Minecraft for the Altera DE2-115 board: a Nios II/e
processor runs one C program (`software/main.c`) that keeps the world, the player
and the menus, and Verilog modules (`modules/*.v`, wired in `Final.v`) cast a ray
per pixel into the world and scan the result out to a VGA monitor. This directory
models the parts of it where several clocks, masters, interrupts or failing calls
meet, checks them with TLC and proves the main results with TLAPS.

## 1. Inventory

All paths are relative to `src/`.

### The parts

| Part | Code | State it keeps | Operations | Status |
|---|---|---|---|---|
| SRAM arbiter | `modules/SRAM_controller.v` | FSM of 6 states, current master, latched request, output register, one-clock `grant` | accept a processor access or a ray fetch, read, write byte lanes | modelled: `SRAM_Controller` |
| Ray caster | `modules/Raycast_Core.v` | FSM, cell, distances, one cached word, ROM address, hit registers | start, DDA step, fetch or cached look-up, look through a block, report | memory port modelled: `Raycast_Core`; DDA arithmetic abstracted |
| Frame renderer | `modules/Ray_Module.v` | scheduler FSM, pixel counters, two direction accumulators, latched camera, write registers, `vram_index` | latch, cast, shade, write, next pixel, next row, hand over, clear | modelled: `Ray_Module`; fps counter and live registers left out |
| Pixel shader | `modules/Pixel_Shader.v` | pipeline of texture, fog and shadow | start, done | handshake in `Ray_Module` |
| Video memory, camera registers | `modules/M9K_RAM.v`, `modules/Data_Bridge.v` | two halves of 160x120 pixels; 19 registers | registered read, write; Avalon write | modelled in `DisplayPath` |
| VGA scan | `modules/VGA_controller.v` | counters, half in use, two delay stages | count, read, clamp, blank | modelled: `VGA_controller`; text layer left out |
| Main loop, menus, save slots | `software/main.c` `main` | `state`, `select`, `temp`, `use_slot`, interrupt flags, previous keys | 12 states, two live interrupt handlers, mount | modelled: `GameLoop`; play itself is one action of it and the whole of `Play` |
| Save files | `software/main.c` `SaveMapToSD`, `LoadMapFromSD` | 512-byte buffer, run, file position | header, run-length code, flush, close; refill, expand | modelled: `SaveMap` |
| Player and blocks | `software/main.c` `updatePlayerLogic`, `movePlayer`, `checkHitAABB`, `castRay`, `handleActionKeys` | position, vertical speed, `onGround`, last hit, previous action keys | move, collide, jump, swim, break, place | modelled: `Blocks`, `Player`, `Play`; directions and the ray's arithmetic abstracted |
| Water | `software/main.c` `waterSim` | the world near the player | one in-place pass, cell by cell | modelled: `Play` |
| World generation | `software/main.c` `genMap*` | world | fill, noise, trees | one step of `GameLoop` |
| Music | `software/main.c` `bgm_*`, `modules/Audio_Player.v` | control level and its time; note automaton | play, set, stop; fetch, play | modelled: `Music`, `Audio_Player`; the sound itself left out |
| Codec | `modules/Audio_Controller.v`, `modules/i2c_master.v` | index of the register being set; bit FSM | write 12 registers, shift samples | set-up modelled: `I2C_Master`, `Audio_Controller`; samples left out |
| Keyboard | `modules/PS2_driver.v`, `modules/PS2_Messages.v` | bit counter, prefixes, 64 pressed bits | receive a frame, set or clear a key | modelled: `PS2_Driver`, `PS2_Messages`, `Keyboard`; an input of `GameLoop` |
| Character display | `modules/lcd_messages.v`, `modules/lcd_controller.v` | index and start/done FSMs | send 38 bytes, refresh | not modelled (section 7) |
| Panels | `modules/IO_Cotroller.v`, `bin2bcd.v`, `seg_7.v`, `SEG_messages.v` | volume | decode, saturating up/down | not modelled (section 7) |
| SD driver | `software/ff16/source/diskio.c` | status, card type | SPI commands, block transfers, waits | modelled: `SDCard`, `Disk` |
| EEPROM, Map_Save_Manager | `modules/EEPROM_Manager.v`, `modules/Map_Save_Manager.v` | FSMs | - | dead code: nothing asks the first (the user in `IO_Cotroller.v` is commented out), nothing instantiates the second |
| FatFs, Nios II system, HAL, PLL, tools | vendored, generated or off-line | - | - | external or left out |

### How they interact

* **World.** The program accesses the 2 MB SRAM a byte at a time through the arbiter
  (`sram_8_ptr`); the ray caster fetches 16-bit words of two blocks through the same
  arbiter. The processor has priority and neither knows of the other; the ray
  caster caches one word and nothing invalidates it.
* **Picture.** Each tick the program writes 19 registers one after the other
  (`calcPlayStatus`); the renderer latches twelve of them at a frame's start,
  with the clear order,
  draws into one half of the video memory and then swaps the halves. The VGA
  scan, on another clock, samples the half to show between two scans.
* **Control.** Interrupt handlers set a flag each: `game_tick` (20 a second) and
  `stop_game` (Esc). The third, `mount_sd_isr`, cannot run: `Final.v:312` ties its
  pin high, and `main` clears the edge of power-up before it registers the handler.
  The loop polls the flags and the keyboard bits. Loading, saving, generating and
  mounting block it for seconds.
* **Music.** Each pass of the loop reads the playing bit, may write the order register, and
  takes an order back after 10 ms. `Audio_Player` samples the register at 48 kHz.
* **Keys.** The PS/2 line ends in a bit per key, which the loop polls; Esc is also an interrupt.
* **Play.** A tick moves the body, edits the world by the block found at the end of the tick before, lets water flow on every eighth tick and casts
  the next ray. Menus, loads and pauses come between two ticks.
* **Codec.** `Audio_Controller` asks `i2c_master` by a level and a busy flag for one register after the other; the codec may refuse any byte.
* **Files.** Eight slots `WORLD_n.BIN` on an SD card that can be missing, full or
  pulled out at any time. FatFs asks `diskio.c` for sectors; the driver sends commands over SPI to a card that it can only poll.

### What is hard, and what makes each part correct

* *Arbiter and ray caster* (interleaving, stale state): an access is served once and
  its grant is taken by the one who asked; data read at a grant are current; the
  processor's wait is bounded; a hit names the block that really was in the word.
* *Save files* (partial failure, crash, boundaries of runs and buffers): a load that
  succeeds gives back exactly what was saved; a complete save can be loaded.
* *Main loop* (interrupts, keys, blocking calls, a card that comes and goes): only a
  whole world is played; a key acts on what the screen showed; labels are true.
* *Renderer and scan* (three clocks, handshakes, writes during a frame): a half handed
  to the scan is one whole frame of one camera; frames go forward; no dot is read
  from outside a row; frames keep coming.
* *Music* (a level against a sampling clock): an order that was sampled late, or given up, never
  leaves an old song playing; a stop is heard; a pause becomes silent.
* *Keyboard* (wrong bits, missed edges, prefixes left over): no byte is invented, and the keys agree with
  the keyboard again soon after a fault.
* *Player, edits, water* (fixed point at the edges of cells, a fall of several blocks in one tick, a hit that is one tick
  old, an in-place scan): the body never overlaps a block; no fall passes a floor of two blocks; no height is won in the air,
  though a fall may be stopped there; water near the body settles, and settled water is where its sources feed it and nowhere else.
* *SD driver* (cards of four kinds, two ways of addressing, waits that run out while the card goes on): success means
  done; nothing is written but what was asked for of the card in the slot, and nothing on a card that was not initialised since it was put in; calls return.
* *Codec set-up* (two handshakes, a transaction broken off in the middle): each register is written once, whole and in
  order, or its refusal is remembered; the set-up ends.

`PROJECT.json` lists the hazards at their lines with the properties that cover them; the few that no property can cover say why.

## 2. The modules

    VoxelWorld ---- SRAM_Controller --+
               \--- Raycast_Core -----+-- WorldFetch -- WorldFetchProofs
                    WorldMemory (abstract) --^
    SaveMap -- SaveMapProofs
    GameSession (abstract) -- GameLoop -- GameLoopProofs
    Ray_Module ------+
    VGA_controller --+-- DisplayPath -- DisplayPathProofs
    Screen (abstract) --^
    Audio_Player ------- Music ---------------+-- AudioProofs
    I2C_Master -- Audio_Controller -----------+
    CodecSetup (abstract) --^
    PS2_Driver -- PS2_Messages -- Keyboard -- KeyboardProofs
    Blocks -- Player -- Play -- PlayProofs
    SDCard (external) -- Disk -- DiskProofs

and an `MC...` module for each composition whose constants are structured.

### World memory

`SRAM_Controller` has one action per transition of the arbiter's FSM
(`AcceptCpu`, `AcceptRay`, `ReadHold`, `WriteHold`, ...), with the ports as parameters; `Raycast_Core`
has one per transition of the core as seen from its memory port. A DDA step goes to
*any* cell: what the properties need is only the word, the byte lane (`mapZ[0]`) and
whether the cell is out of the world. `WorldFetch` puts both on one clock with an Avalon master that
holds its request while `waitrequest` is high and may go straight to
another access afterwards. `cpu_wait` counts the edges an access has waited and stops one above the
claimed bound (`WaitCap`).

`WorldMemory` is the abstract promise: each request is performed once, at one
instant between its issue and its retirement; nothing else changes the memory.

### Save files

`SaveMap` walks through `SaveMapToSD` and `LoadMapFromSD`, an action per block scanned
(`ExtendRun`, `EndRun`, `LastRun`), per flush and per byte fetched. Bytes of the code are
numbers, flags are above `MAX_RUN` as in the code (0x80|n). The FAT library is
external: a write or a read may be cut short, `f_close` may fail, the directory entry is truncated when the
file is created and updated by a successful close only, and the power may go off at any step.
The progress bar is left out.

### Main loop

`GameLoop` has one action per state of `main` and per outcome of what ENTER asks for. An iteration takes two or three
steps, `top` (the mount), `switch` (the state up to the poll of keys) and `act` (what ENTER asks for), so interrupts,
key changes and card changes come between them. Of the screen it keeps what the
properties compare: mode and clear registers, slot line, label, cursor. `fresh` and
`origin` are history variables. `GameSession` is the abstract promise to the player:
choosing, playing or paused, and a game starts on a whole world only.

### Display

`Ray_Module` is the scheduler with one action per arm of its FSM; a step of the clock is a step of the
scheduler together with one of the caster and one of the shader, which take any
number of clocks. A direction is *counted* rather than computed (how many times
`dirXdx` and `dirXdy` were added), so a wrong accumulation is a wrong count; a colour is the
ray it was computed from. `VGA_controller` is the scan on `vga_clk`. `DisplayPath` joins them with the
two-half memory, the bridge and the clear register, and interleaves the two
clocks freely: how many pixels are drawn per dot depends on the rays. `place` and
`aim` stand for the two groups of registers `calcPlayStatus` writes (position, directions),
`finished` is the history of the frame handed over last. `Screen` is the
abstract promise: camera and clear order are sampled together at one instant (`Sample`), and the picture of that sample is handed
over once (`Show`) before the next sample is taken, whatever the program writes in between. So pictures are whole, come in the order
of what the program wrote, and none is of what it had taken back before the last one; an order that stays is in the second picture from now at the latest.

### Music

`Audio_Player` is the automaton that fetches and plays notes. The words of the
song memory are free, because `bgm_init_from_sd` may replace them at any mount: any word may be a note or an
end. `Music` adds the program's side. A pass of the loop is `Read` (`bgm_playing`), one action per branch of the
switch, and `Update` (`bgm_update`, then the screen may change). Clocks of the player fall between any two of them,
so the playing bit is old when it is used. `held` counts the clocks since the last order; only after `HOLD` of them is it taken back.

### Keyboard

One step is one falling edge of the keyboard's clock. `PS2_Driver` has one action per kind of bit,
`PS2_Messages` the key bits and the selected block, `Keyboard` (external) sends makes, repeats and breaks with
their prefixes; any bit may be read wrong (`Flip`) and any edge missed (`Lose`). `damage` says how
the frame under way was hurt and `trusted` which keys have been told of after an undisturbed event.

### Play

`Blocks` has the world as the program sees it (`getBlock` gives bedrock outside the map and air above it), `Player` the body: a box in
fixed point, moved along one axis after the other, with the code's two ways of ending a step that touches something. `Play` is a tick in
its parts, `Move`, `EditTick`, `WaterCell` (once for each cell that a pass of `waterSim` changes, in the order of its loops)
and `Look`, so that properties speak of the world between them; menus, new maps and loads come in between. A ray
is any walk of cells that keeps one sign per axis, a step is one of a set. Constants
are scaled, their order and the assumptions the code's values meet are kept (`BoxAssumption`, `FallAssumption`).
`base`, the height at which the body last came down on a block, swam or was put by a map or a save, is history. It does not go by `onGround`, which the
code also sets in mid-air, but by a block under the feet (`OnBlock`).

### SD card

`SDCard` (external) is a card of one of four kinds: it starts up, answers, is busy storing a block, misses a command, is pulled out or put
in. `Disk` is `diskio.c`, one action per command or per phase of a block. `moved` and `missed` record whether somebody touched the
card, or the card did not do its part, since the call began; `may` is what the last write asked for of the card that is in the slot, and `known` how far
`disk_initialize` has come with that card: both start again when a card is put in. Not in the external card: a block that is accepted and then cannot be
programmed. The card tells of it in the answer to CMD13 only, which the driver never sends, so the write would succeed all the same.

### Codec set-up

`I2C_Master` is the write path of `i2c_master.v`, a step per moment in which its automaton acts, `Audio_Controller` the set-up
automaton and the codec (external), which sees nothing but the two wires and takes start, bits, acknowledgements and stop apart itself. `CodecSetup`
is the abstract promise. It is implemented as soon as what happens to an entry has been decided (`Decided`), which is before the
automaton counts on.

## 3. The runs

| Run | Shows | Bounds | States |
|---|---|---|---|
| `world_fetch` | data are current at their grant, the processor's wait is bounded by 8 edges, the block information used is that of the block the ray has come to, the design implements `WorldMemory`; rays end | 2 words of 2 lanes, 2 block types, rays of 2 steps, 3 kinds of processor access | 408,000 |
| `save_map` | a load gives back what was saved or fails; a complete save loads; both calls return | 5 blocks of 2 types, runs up to 3, buffer of 2 bytes, 2 player records | |
| `game_loop` | whole worlds, true `[USED]` labels and targets, one act per press, no stale stop, the stop key stops, implements `GameSession` | 2 slots, 5 key sets | 1,177,000 |
| `display` | whole frames, forward frames, no visible dot outside the row, implements the ordered `Screen`; frames keep coming | 2x2 pixels, 1 dot each, 1 dot and 1 line of blanking, 2 poses | 718,000 |
| `music` | the song is the current one; a stop is heard; a pause is silent, menus are not | 2 words a song, orders of 2 clocks | |
| `keyboard` | only bytes sent are received; wrong bits cost one byte; the keys agree with the keyboard from the second good event on | bytes of 3 bits, 2 digit keys, an arrow and the keypad key of the same code | |
| `play` | the body is in no block, wins no height in the air, passes no floor of two blocks, comes to rest; settled water is what the sources feed, and water near the body settles | map of 5x3x1, three of them (flat ground, a roof over a cave under a high start, a pool), a save in mid-fall, water within 2 blocks of the body, 3 inputs | 150,800 |
| `disk` | success means done; nothing else is written, and nothing on a card not initialised; calls return | cards of 4 kinds with 3 sectors of 2 units, reads and writes of 1 and 2 blocks | 25,200 |
| `audio` | implements `CodecSetup`; the set-up ends | the code's own table of 12 entries, 8 bits, 2 clocks between entries; any byte refused | 614,000 |
| `save_map_reported`, `game_loop_shown`, `game_loop_new` | the findings of section 6 | as above | |

Why these bounds are enough: two words and two lanes give a fetch of the same word, of
its other lane and of another word; two block types, whose rows of the ROM differ, and writes of both
give a stale cache and an answer that is not the last one's; two steps give a hit after a cached and
after a fetched look-up. Runs of at most three among five blocks are broken by the limit as well as by
another block, and a two-byte buffer separates a flag from its block. Two slots
give a slot before, after and beyond the search. A 2x2 frame has a first, middle and last
pixel and an end of row that is not the end of the frame. Two words give a note that is not the first, and
two clocks an order that stands longer than it takes to be heard. Three bits hold two prefixes, three codes and their
parity, and a start bit can be found in any of them. Three layers hold a cave, a roof that one fall could pass and another that it could not, and
water over a drop; five columns and a box of two blocks around the body leave water outside the box, as on the map of 128 blocks: a source that waterSim
never comes to, and water that gets there when the body moves. (That water outside need not settle is what TLC answers when `WaterSettles` is asked of the whole map.) A fall of three blocks a tick is stopped in mid-air there, and the body jumps off nothing;
three inputs are a
move, an edit and a menu, or placing, walking into and breaking a block. Two units to a sector and three sectors tell an address by units from one by sectors, and a
request for two blocks has a block that is not its first or last. The audio run has the real
table; `DELAY` is only counted. Every bound
is a CONSTANT of the module, and the proofs of section 5 hold for all of them.

Deadlock is checked in every run but `play`: there the bound on inputs (`MAX_INPUTS`) lets a behaviour end in a menu.

### Fairness

* `WorldFetch`: the clock runs (WF of the whole step). Service of the rays also needs the premise
  `[]<>BusFree`, stated in the properties: the arbiter alone does not guarantee it. The program provides it because
  its instructions and data are in on-chip memory, so it does not use the SRAM at every idle clock.
* `SaveMap`: a call that runs takes its steps; nothing is assumed of power, card or of a new call.
* `GameLoop`: the processor keeps running and calls return (WF of the loop as a whole). Nothing is assumed of
  interrupts or keys. The assumption that a mount returns is `CallsReturn` of `Disk`, under the condition stated there: the wait at
  `software/ff16/source/diskio.c:140` has no bound of its own.
* `Music`: the loop and the sample clock run (WF of each). Nothing is assumed of screens or songs.
* `Play`: ticks keep coming while a game is on (WF of `Tick`). Nothing is assumed of the person, who may press
  anything or nothing; the bound on inputs is what ends it.
* `Disk`: the processor runs, and a card that has begun to start up or to store gets there (WF of each, the first for steps in which the
  card does what it is asked: it need not fail). Nothing is assumed of the hand that pulls cards out.
* `Audio_Controller`: the clock runs. Nothing is assumed of the codec's answers.
* `DisplayPath`: the clock runs, and rays and shadings end (the first is `RayEnds` of
  `WorldFetch` under its premise, the second a straight line of clocks). Nothing is assumed of the scan or the program.

## 4. Reading the properties

Safety: `GrantedDataIsCurrent`, `CpuWaitBounded`, `InfoOfSameBlock`;
`LoadRestoresSave`, `CompleteSaveLoads`; `WorldWhole`, `LoadShowsTarget`,
`UsedLabelIsOrigin`, `MenuActsOnCursor`; `FrameWhole`, `VisibleInRow`;
`SongIsCurrent`; `StaysInStep`, `KeysAgree`; `NeverInside`, `NoHeightFromAir`, `SettledIsFlow`; `OkMeansDone`.
Action properties: `StaleOnlyByWrite`, `OnePressOneAct`, `NoStaleStop`, `FramesMoveForward`, `StopHeard`, `OnlySent`,
`DoubleFloorsHold`, `OnlyAsked`. Liveness: `RayEnds`, `CallReturns`, `StopKeyStops`, `FramesKeepComing`,
`PauseIsSilent`, `MenusHaveMusic`, `Rests`, `WaterSettles`, `CallsReturn`, `SetupEnds`.
Refinement: `ImplementsAtomicMemory`, `ImplementsSession`, `ImplementsScreen`, `ImplementsSetup`. Each has a
mutant in `PROJECT.json`, a plausible bug in the code that TLC finds with that property. `GrantMatchesRequest`, `HitIsCachedBlock` and
`ScreenMatchesState` are stated and proved as steps towards these and not run by themselves, and the type invariants are proved instead of run wherever there is a proof.

What they do not say: `MenuActsOnCursor` is about three menus; `LOAD_LOOP` (`main.c:1209`) lacks their `else`, so DOWN and
ENTER found in one poll act on a line the cursor was not drawn at yet. `SongIsCurrent` allows a song to be skipped:
if the player has not sampled `bgm_play` by the next pass, the pass takes the silence for the end of the song and starts the pause
(`main.c:1085-1092`), so "the song asked for is heard" is not true of the code. `KeysAgree` waits for a frame read in step: the bit
counter has no time-out, and after a missed edge a keyboard that repeats one code can stay out of step as long as it repeats.
An edge seen twice is not in the model: the parity does not find it.

`DoubleFloorsHold` is about two blocks because one is not enough: a fall of three blocks a tick is tested only where it ends, and a body of 1.8
blocks fits past a floor of one (`main.c:611`). `NoHeightFromAir` uses the 1.5 blocks of the comment at `main.c:111`; by the
code's numbers a jump rises about 1.27, because gravity is taken off before the first move. It does *not* say that a jump needs ground: a fast fall may be stopped in
mid-air with `onGround` set (`main.c:619`), and `genMap` and `genMapFlat` (`main.c:564-596`) leave `onGround` and `vy` from the game before, so the next tick may jump off nothing. What is
true is that such a jump gains nothing: a fall fast enough to be stopped above a block has come from higher up than the jump goes, so the body stays within a jump of the block it last really stood on
(the water it swam in, the place it was put). `Rests` says that the stop in the air does not last.
`WaterSettles` is about the box of 8 blocks around the body that `waterSim` works in (`main.c:356-367`): water further away, such as the sheets generated at `main.c:538`, is not touched and need not settle.
`SettledIsFlow` is about a world that has settled everywhere. `OkMeansDone` is about calls during which nobody touched the card: the check sum of a block is thrown away
(`diskio.c:191`) and an empty slot looks ready (`diskio.c:236`), so a card pulled out in the middle of a call can make it succeed. `CallsReturn` lets
`disk_initialize` wait for ever for a card that is pulled out, or for a high capacity card that misses CMD8 and is started without HCS (`diskio.c:140`, `148`).
`OnlyAsked` goes by the card, not by the call: the driver does not notice an exchange (`Stat` and `CardType` stay), and what keeps a new card unharmed is that it is
silent until CMD0, and that `STA_NOINIT` is set again when the initialisation that sends CMD0 fails further on.
`ImplementsSetup` does not say that all registers are set: a refused entry is not tried again, and `i2c_error`, which remembers it, is not connected in `Final.v`; and once an entry has been refused, `CodecSetup` does not tell a later one that is refused from one that is skipped.
`NoStaleStop`: the flag is cleared and the game entered in one step of the model; Esc between the two lines (`main.c:1339-1340`) does what it does right after them, it pauses the game.

## 5. What is proved

All theorems are about the specifications as they are checked, for every value of the
constants allowed by the named assumptions (`AddrAssumption`, `RequestAssumption`, `SlotAssumption`, ...).

* **`WorldFetchProofs`**: type correctness, the five safety invariants (`GrantMatchesRequest` and `HitIsCachedBlock` besides those of the run), `StaleOnlyByWrite` and the refinement of
  `WorldMemory`. None of the invariants is inductive: a grant is right because
  the transaction under way is still the one on the port
  (`CpuTransaction`, `RayTransaction`), the port is up exactly while the core
  waits (`FetchPort`), the word, cell and ROM address move together through the look-up
  (`Pipeline`), and the wait is bounded by how far the arbiter has come (`WaitBudget`).
  A step is three actions at once, and each lemma splits on the component whose
  registers it is about.
* **`GameLoopProofs`**: type correctness, all safety invariants and action properties of
  `game_loop` and the refinement of `GameSession`, for any number of slots and any key sets. The
  strengthening says which screens inherit the clear register (`ClearInherited`), that `use_slot` is the
  world's origin or none (`SlotOfOrigin`), that the label names `use_slot`, that an act happens only in the five polling
  states, and that an ENTER that has acted is remembered by the edge detector (`EnterRemembered`).
* **`DisplayPathProofs`**: type correctness, `FrameWhole`, `FramesMoveForward`, `VisibleInRow` and the refinement of
  `Screen`, for any size, scale and timing and any length of a ray. `FrameWhole` needs the handshakes (a
  done belongs to the pulse of this pixel: `CasterPhase`, `ShaderPhase`), the direction in
  step with the pixel (`DirInStep`), what is cast and shaded being that pixel
  (`CastInStep`, `ShadeInStep`), and all pixels passed being in the half (`DrawnSoFar`). The refinement
  maps `Sample` to the edge that latches, `Show` to the edge of the last pixel and every other edge to a stutter or a write of the program; what is handed over is then the picture of the
  sample (`FrameWhole`), and one latch comes between two last pixels.

* **`AudioProofs`**, for `Music`: type correctness, `SongIsCurrent` and `StopHeard`, for songs of any length and orders
  of any time. The strengthening: a play order is for the current song (`OrderIsCurrent`); while the pause runs no song of the game is asked for,
  nor playing when the program has just seen silence (`PauseHasNoSong`); a stop order sampled once is obeyed, and
  before that the pass that could replace it knows the song still plays (`StopObeyed`).
  For `Audio_Controller`: type correctness and the refinement of `CodecSetup`, for bytes, tables and pauses of any length and whatever bytes are
  refused. The strengthening is the phase a transaction is in (`Bus`): in each phase master and codec are at the same bit of the same byte, the
  bits still in the shift register and the bits heard so far make up the byte to be sent, and the codec has been told what the
  master has sent of the entry (`WordAt`); a refused transaction leaves a codec that is deaf until the next start. `Asking` adds that
  `Audio_Controller` has one entry at a time sent and holds it still until `busy` is gone. There is one lemma per phase, and only
  two of them, the refusal and the stop, deal with an entry.
* **`SaveMapProofs`**: type correctness, `LoadRestoresSave` and `CompleteSaveLoads`, for worlds, runs and buffers of any size. What a file says is
  not defined by reading it, which would be a recursion, but by the *marks* a reader passes: where in the world it is, and how
  long a run it has yet to store, before each byte and after the last (`Coded`). A code can be lengthened at its end (a run ends,
  `RunCodeCodes`) and cut short anywhere (`CutShort`), and each byte takes the loader from its mark to the next (`ByteRead`); these three facts
  carry the whole argument. The strengthening: file, buffer and the run that is open code the part of the world scanned so far (`Scanning`, `Scanned`), while a save goes on or
  was cut short the file is the beginning of such a code (`OnCard`, `Saving`), and the loader stands at a mark of the file it reads and
  has restored the world up to it (`Loading`, `LoadedWhole`). The types alone are not inductive: that a byte read is a
  block, and that a run fits into the world, holds only because the file codes a world.
* **`PlayProofs`**: type correctness, `NeverInside`, `DoubleFloorsHold`, `NoHeightFromAir` and `SettledIsFlow`, for maps of any size, boxes, speeds and
  steps of any size that meet the assumptions. `NeverInside` is inductive with the types, but each way of
  ending a step needs its geometry: a body set against the side of a cell, under a roof or on a floor
  overlaps only cells that it overlapped before (`AgainstWithin`, `RiseWithin`, `LandWithin`), and an edit or a flow of
  water makes no cell solid that the body is in. `DoubleFloorsHold`: a body that ends anywhere from the floor's top down to
  its own height below the floor overlaps one of the two layers, and terminal velocity is at most that distance. `NoHeightFromAir`: in flight 8 times gravity
  times the height, and the square of twice the speed less gravity, add up to the same on every tick (`Ballistic`), so a body that is still
  rising has at most the rest of its jump to go, and a body that comes down on a block or touches water has that as its new base (`Aloft`). A fall that is stopped is either stopped on a block
  (`LandsOnBlock`: any fall of at most a block a tick) or was faster than a block a tick, and by the same sum has then come down past its base, so that the jump it may make there starts at most a
  unit above the base. `JumpAssumption` says that
  gravity pulls, that water gives no more speed than ground, that the jump of the constants is no higher than 1.5 blocks, and that a fall that fast comes from above its top (`JumpReach`); the numbers
  of `main.c:106-114` meet it with room. The saves a game may start from hold no speed above a jump's, as all that the program writes do.
  `SettledIsFlow` needs no invariant but the types: it compares a settled world with the least flow its sources allow (`Reached`, a
  recursion over the cells reached in `n` steps). That what is reached is water, and at no higher level, is an induction over the
  steps (`ReachedIsWater`). That all water is reached is one over the way it has come at the least, three for each layer down and
  one for each level (`Way`): in a settled world each flowing cell has a neighbour that feeds it and is nearer (`OneWayOn`), and no way is longer than
  `3 * WORLD_Y` (`WaterIsReached`). The library's induction theorems take an operator as a parameter, so both use one
  for sets of numbers (`Upwards`), from the fact that `<` is well-founded on the naturals; `ReachedSteps` shows that the recursion defines a function.
* **`DiskProofs`**: type correctness, `OkMeansDone` and `OnlyAsked`, for cards and requests of any size. The strengthening: the
  driver is at the block that the request and the count say (`Placed`); the card that answers is the one that was
  initialised, and a high capacity card has not started before it was told to (`CardKnown`), so that addresses by units and by
  sectors cannot be mixed up, and while `STA_NOINIT` is clear a card that answers at all is one that `disk_initialize` has found since it was put in
  (`known`); what the card is busy with was asked for of it (`BusyWith`); blocks passed are done (`BlocksDone`).
* **`KeyboardProofs`**: type correctness, `StaysInStep`, `OnlySent` and `KeysAgree`, for bytes of any length, any keys and any
  key table. The strengthening: unless a fault left it anybody's guess, the receiver counts with the keyboard or is one edge late
  (`InStep`); it holds the bits sent so far and their parity, which one wrong bit turns round (`FrameSoFar`), so the
  parity catches it and a late frame ends in a start bit; what is left to send is the end of the event's bytes (`EventSoFar`); after a good event the
  prefixes are those sent so far in this one (`Prefixed`), and no key is trusted otherwise (`Trusting`).

Only model-checked: every liveness property (TLAPS has no ENABLED, hence no fairness) and the findings.

## 6. Findings

Each is a `violation` run: TLC finds the trace, and `PROJECT.json` quotes the lines.

1. `ReportedSaveIsOnCard`: "Save Complete!" is logged and SUCCESS shown without looking at the result of `f_close`
   (`main.c:821`); if it fails the file has length zero.
2. `ShownSlotIsWritten`: with all eight slots taken the save screen shows `WORLD_8` and ENTER overwrites `WORLD_0` (`main.c:1430`, `724`).
3. `AbsentIsAbsent`: the load and save screens look for files before the mount they ask for has happened. The first says
   `EMPTY!` and REMOVE deletes `WORLD_0` (`main.c:1186`, `1258`); the second says `[NEW]` and ENTER overwrites an
   existing file (`main.c:1425-1434`).

Seen while modelling, and not runs, because nothing in the repository says otherwise or because they need no model: the renderer starts the
next frame in the half the scan has not left yet (`Ray_Module.v:190`), and reads `sky_line`, `through_block` and
`faceBlock*` straight from the bridge while it draws (`Ray_Module.v:238`). `handleActionKeys` compares the keys of the last tick with levels of the
other polarity (`main.c:675-678`), so an edit is made when a key is *released*, and both edits are made in the first tick after power on.
A fast fall stopped in mid-air may be followed by a jump off nothing, and a new map leaves `onGround` and `vy` as they were (`main.c:619`, `564-596`); water more than 8 blocks from the player
never flows (`main.c:356`). A placement that is refused because the body is in the way leaves air where water was (`main.c:344`).

## 7. Not modelled, and why

* Arithmetic of directions, DDA distances, textures, fog and noise: data the properties here do not tell
  apart.
* Character display (`lcd_messages`, `lcd_controller`): from the second transfer on, `mLCD_Done` is still up from the one before when the
  next is started (`lcd_controller.v:46`), and only the wait `mDLY` between transfers keeps the data still while they are
  taken; a straight line of clocks and one counter.
* Panels, random numbers, timers and the custom instructions: combinational decoding and free-running counters.
* What nobody asks for: `EEPROM_Manager` is instantiated and its user in `IO_Cotroller.v` commented out, and with it
  the reads and longer writes of `i2c_master`; `Map_Save_Manager` is not instantiated.
* Notes, envelopes and waves of the music, the synchronizers of the keyboard.
* The text layer, sync pulses, fps counter, progress bar and log output.
* Anything generated or vendored: FatFs and its code page tables, the HAL, the Qsys fabric. They are the bulk of the repository's lines.

## 8. Plan

Done: world memory, save files, main loop, display, music, keyboard, play with its edits and water, the SD driver and the codec
set-up, with proofs of every safety property, action property and refinement. Still to come, in this order:

1. **Refinement**: an abstract disk that `Disk` implements and `SaveMap` uses.
2. **Pure algorithms**: `bin2bcd`, `castRay` against the hardware DDA.
