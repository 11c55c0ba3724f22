----------------------------- MODULE EvrOutputs -----------------------------
(***************************************************************************)
(* The outputs of the EVR (evr.c, 523-624, 746-762 and 795-862), composed  *)
(* with the resource manager: each output has a register that says which   *)
(* pulse generator, or which other source, it carries.  The MNG_DEV sets   *)
(* them for the VIRT_DEVs that own them; a VIRT_DEV cannot, and "the       *)
(* output config is not defined by the VEVR" (evr.c:1260) either when the  *)
(* VIRT_DEV is closed or destroyed.                                        *)
(***************************************************************************)
EXTENDS ResourceManager

CONSTANTS
  OutCounts,      \* per kind of output: how many the card has
  MiscFuncs       \* bound: what OUTSET is asked for in place of a pulsegen

EVR_REG_OUTPUT_SLOT_SIZE == 2
OUTPUT_REG_MAPPING_FORCE_LOW == 63
\* EVR_OUTPUT_SOURCE_PULSEGEN_FIRST and _COUNT.
PulsegenSources == 0 .. 31

\* EVR_OUT_TYPE_FP_TTL, _FP_UNIV and _TB_OUTPUT.
Kinds == 1 .. 3

\* hw_data->out_cfg[]: res_start and evr_map_reg_start.
res_start == <<0, OutCounts[1], OutCounts[1] + OutCounts[2]>>
evr_map_reg_start == <<1024, 1088, 1152>>

\* No kind of output reaches the registers of the next; the last, the transition
\* board's, has up to 58 outputs (evr.c:179 and 188).
ASSUME OutputAssumption ==
  /\ OutCounts \in [Kinds -> 0 .. 64]
  /\ OutCounts[1] <= 32 /\ OutCounts[2] <= 32
  /\ OutputCount = OutCounts[1] + OutCounts[2] + OutCounts[3]
  /\ PulsegenCount <= 32
  /\ MiscFuncs \subseteq Nat

\* find_out_cfg.
KindOf(output) ==
  CHOOSE kind \in Kinds :
    output \in res_start[kind] .. res_start[kind] + OutCounts[kind] - 1

\* evr_set_out_map: the register of an output.
OutReg(output) ==
  evr_map_reg_start[KindOf(output)]
    + (output - res_start[KindOf(output)]) * EVR_REG_OUTPUT_SLOT_SIZE

Outputs == Indices("output")
Registers == {OutReg(output) : output \in Outputs}

VARIABLES
  out_map,        \* the output registers
  configured      \* history: outputs set since their owner has them

outVars == <<out_map, configured>>
ouVars == <<rmVars, outVars>>

OUTypeOK ==
  /\ RMTypeOK
  /\ out_map \in [Registers -> Nat]
  /\ configured \subseteq Outputs

\* The registers hold what was there when the module was loaded.
OUInit ==
  /\ RMInit
  /\ out_map \in [Registers -> Indices("pulsegen") \cup {OUTPUT_REG_MAPPING_FORCE_LOW}]
  /\ configured = {}

-----------------------------------------------------------------------------

\* evr_set_out_map.
SetOutMap(output, source) ==
  /\ out_map' = [out_map EXCEPT ![OutReg(output)] = source]
  /\ configured' = configured \cup {output}

\* OUTSET of the k-th output of a VIRT_DEV, to its j-th pulse generator: both are
\* looked up in its table and must be its own.
OutSetPulsegen(id, k, j) ==
  /\ MngHwIoctl(id, k) /\ MayUse(id, "pulsegen", j)
  /\ SetOutMap(res_alloc_index[id]["output"][k], res_alloc_index[id]["pulsegen"][j])

\* Variant with a fault: any source is accepted.
OutSetMiscUnchecked(id, k, misc_func) ==
  /\ MngHwIoctl(id, k)
  /\ SetOutMap(res_alloc_index[id]["output"][k], misc_func)

\* ... or to another source, which must not be a pulse generator.
OutSetMisc(id, k, misc_func) ==
  /\ MngHwIoctl(id, k)
  /\ misc_func \notin PulsegenSources
  /\ SetOutMap(res_alloc_index[id]["output"][k], misc_func)

\* INIT: all outputs low, whoever owns them.
InitOutputs ==
  /\ MngInit
  /\ out_map' = [register \in Registers |-> OUTPUT_REG_MAPPING_FORCE_LOW]
  /\ UNCHANGED configured

\* Everything else leaves the registers alone, also when an owner goes.
Other ==
  /\ RMStep
  /\ configured' = {o \in configured : owner'[<<"output", o>>] = owner[<<"output", o>>]}
  /\ UNCHANGED out_map

OUNext ==
  \/ \E id \in Ids, k \in 1 .. MODAC_RES_PER_VIRT_DEV_MAX_COUNT :
       \/ \E j \in 1 .. MODAC_RES_PER_VIRT_DEV_MAX_COUNT : OutSetPulsegen(id, k, j)
       \/ \E misc_func \in MiscFuncs : OutSetMisc(id, k, misc_func)
  \/ InitOutputs
  \/ Other

OUSpec == OUInit /\ [][OUNext]_ouVars

-----------------------------------------------------------------------------
(* Properties.                                                             *)

\* An output that was set since its VIRT_DEV has it carries no pulses but those of
\* that VIRT_DEV, whatever is created, allocated and destroyed meanwhile: pulse
\* generators as sources "can only be set by pulsegen defined" (evr.c:842), that is
\* by one the manager has given to the same VIRT_DEV.
OwnPulses ==
  \A output \in configured :
    LET source == out_map[OutReg(output)]
    IN  source \in Indices("pulsegen") =>
          /\ owner[<<"output", output>>] \in vdev_list
          /\ owner[<<"pulsegen", source>>] = owner[<<"output", output>>]
=============================================================================
