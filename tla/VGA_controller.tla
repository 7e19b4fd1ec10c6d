---------------------------- MODULE VGA_controller ----------------------------
(***************************************************************************)
(* modules/VGA_controller.v: the scan of the 3D layer.  One action is one   *)
(* rising edge of vga_clk.  The text layer is left out, and so are the      *)
(* sync pulses.                                                            *)
(***************************************************************************)
EXTENDS Ray_Module, Integers

CONSTANTS
  SCALE,              (* screen dots per pixel, each way: 4            *)
  H_TOTAL, V_TOTAL    (* dots per line, lines per frame: 800 and 525   *)

H_ACTIVE == SCALE * VGA_W
V_ACTIVE == SCALE * VGA_H

ASSUME TimingAssumption ==
  /\ SCALE \in Nat \ {0}
  /\ H_TOTAL \in Nat /\ H_TOTAL > H_ACTIVE
  /\ V_TOTAL \in Nat /\ V_TOTAL > V_ACTIVE

VARIABLES
  h_count, v_count,
  sync_layer_3D_index,
  blank_n_delay_1, blank_n_delay_2,
  layer_3D_rd_data_delay_1,
  VGA_RGB, VGA_BLANK_N

scanVars == <<h_count, v_count, sync_layer_3D_index>>
pipeVars == <<blank_n_delay_1, blank_n_delay_2, layer_3D_rd_data_delay_1,
              VGA_RGB, VGA_BLANK_N>>
vgaVars  == <<scanVars, pipeVars>>

Black   == [black |-> TRUE]
Outside == [outside |-> TRUE]    (* memory that is not of the scanned row *)
Dot     == Pixel \cup {Black, Outside}

Active == h_count < H_ACTIVE /\ v_count < V_ACTIVE

(* Mutant of layer_3D_x: no clamp. *)
layer_3D_x_raw == h_count \div SCALE

(* In the margin the last column is read again. *)
layer_3D_x == IF h_count \div SCALE >= VGA_W THEN VGA_W - 1
                                             ELSE h_count \div SCALE

layer_3D_y == v_count \div SCALE

layer_3D_rd_addr ==
  [buf |-> sync_layer_3D_index, row |-> layer_3D_y, col |-> layer_3D_x]

(* Below the last line, and past the last column if layer_3D_x let it, the  *)
(* linear address leaves the row.                                          *)
Reads(mem, a) == IF a \in Address THEN mem[a] ELSE Outside

NextDot ==
  /\ h_count < H_TOTAL - 1
  /\ h_count' = h_count + 1
  /\ UNCHANGED <<v_count, sync_layer_3D_index>>

NextLine ==
  /\ h_count = H_TOTAL - 1 /\ v_count < V_TOTAL - 1
  /\ h_count' = 0 /\ v_count' = v_count + 1
  /\ UNCHANGED sync_layer_3D_index

NextScan(layer_3D_index) ==
  /\ h_count = H_TOTAL - 1 /\ v_count = V_TOTAL - 1
  /\ h_count' = 0 /\ v_count' = 0
  /\ sync_layer_3D_index' = layer_3D_index

Pipeline(layer_3D_rd_data) ==
  /\ blank_n_delay_1' = Active
  /\ blank_n_delay_2' = blank_n_delay_1
  /\ layer_3D_rd_data_delay_1' = layer_3D_rd_data
  /\ VGA_BLANK_N' = blank_n_delay_2
  /\ VGA_RGB' = IF blank_n_delay_2 THEN layer_3D_rd_data_delay_1 ELSE Black

VgaClk(layer_3D_index, layer_3D_rd_data) ==
  /\ NextDot \/ NextLine \/ NextScan(layer_3D_index)
  /\ Pipeline(layer_3D_rd_data)

VgaInit(layer_3D_index, pixel) ==
  /\ h_count = 0 /\ v_count = 0
  /\ sync_layer_3D_index = layer_3D_index
  /\ blank_n_delay_1 = FALSE /\ blank_n_delay_2 = FALSE
  /\ layer_3D_rd_data_delay_1 = pixel
  /\ VGA_RGB = Black /\ VGA_BLANK_N = FALSE

VgaTypeOK ==
  /\ h_count \in 0 .. H_TOTAL - 1 /\ v_count \in 0 .. V_TOTAL - 1
  /\ sync_layer_3D_index \in {0, 1}
  /\ blank_n_delay_1 \in BOOLEAN /\ blank_n_delay_2 \in BOOLEAN
  /\ layer_3D_rd_data_delay_1 \in Dot
  /\ VGA_RGB \in Dot /\ VGA_BLANK_N \in BOOLEAN

=============================================================================
