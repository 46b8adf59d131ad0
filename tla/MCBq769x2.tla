---------------------------- MODULE MCBq769x2 ----------------------------
(***************************************************************************)
(* Values for TLC: the addresses of bq769x2_registers.h and the contents   *)
(* of the IC before it is configured (COV and SCD are enabled).            *)
(***************************************************************************)
EXTENDS Bq769x2Config

MCContents ==
  [a \in Registers |->
     IF a = PROT_ENABLED_A THEN 136
     ELSE IF a = CUV_THRESHOLD THEN 50
     ELSE IF a = CB_ACTIVE_CELLS THEN 5 ELSE 0]
==========================================================================
