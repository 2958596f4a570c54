------------------------------ MODULE Operands ------------------------------
(***************************************************************************)
(* What the handlers infer from the kinds of an instruction's operands:    *)
(* which are data, whether a move reads or writes memory, and which        *)
(* operands make the address (get_val_mem and handle_mov in emulator.cc,   *)
(* the predicates of emulator.h and instruction.h).                        *)
(***************************************************************************)
EXTENDS InsnForms

\* get_arg_sz: 0 for what is not data.
get_arg_sz(kind) ==
    CASE kind \in {"imm8", "d8", "regs"} -> 1
      [] kind \in {"imm16", "d16", "abs16"} -> 2
      [] kind \in {"imm32", "d32", "abs32"} -> 4
      [] OTHER -> 0

is_data(kind) == get_arg_sz(kind) > 0
is_imm(kind) == kind \in {"imm8", "imm16", "imm32"}
is_abs(kind) == kind \in {"abs16", "abs32"}
is_disp(kind) == kind \in {"d8", "d16", "d32"}

\* Slip: the range of the registers goes up to MA3.
is_regUpToMA3(kind) == kind \in {"D", "A", "PC", "SP", "MDR", "PSW", "MA"}

is_reg(kind) == kind \in {"D", "A", "PC", "SP", "MDR", "PSW"}

\* What is not filled in is ArgKind::NONE.
Kind(kinds, k) == IF k <= Len(kinds) THEN kinds[k] ELSE "none"

\* Bytes that the data operands at these of the three positions take.
SizeAt(kinds, positions) ==
    LET size(k) == IF k \in positions THEN get_arg_sz(Kind(kinds, k)) ELSE 0
    IN  size(1) + size(2) + size(3)
DataSize(kinds) == SizeAt(kinds, 1 .. 3)

\* Slip: index registers are forgotten.
OpLocNoIndex(kinds) ==
    IF \/ is_abs(Kind(kinds, 1)) \/ Kind(kinds, 1) = "MA" \/ is_disp(Kind(kinds, 1))
       \/ Kind(kinds, 1) = "SP" /\ Kind(kinds, 2) = "regs"
    THEN 1 ELSE 2

\* get_val_mem: where the memory operand begins; 1 is a read, 2 a write.
OpLoc(kinds) ==
    IF \/ is_abs(Kind(kinds, 1)) \/ Kind(kinds, 1) = "MA" \/ is_disp(Kind(kinds, 1))
       \/ Kind(kinds, 2) = "A" /\ Kind(kinds, 3) # "none"
       \/ Kind(kinds, 1) = "SP" /\ Kind(kinds, 2) = "regs"
    THEN 1 ELSE 2

\* get_val_mem: the operands that are added up for the address; none where
\* it is left uninitialised.
AddressOperands(kinds) ==
    LET k == OpLoc(kinds)
    IN  IF is_abs(Kind(kinds, k)) \/ Kind(kinds, k) \in {"MA", "SP"}
        THEN {k}
        ELSE IF is_disp(Kind(kinds, k)) \/ Kind(kinds, k + 1) = "A" THEN {k, k + 1} ELSE {}

\* handle_mov: a move between registers or of an immediate.
RegisterMove(kinds) ==
    /\ is_reg(Kind(kinds, 2))
    /\ is_reg(Kind(kinds, 1)) \/ is_imm(Kind(kinds, 1))
    /\ Kind(kinds, 3) = "none"

\* handle_mov and handle_movm: what is moved from which operand to which.
Source(kinds) ==
    IF RegisterMove(kinds) \/ OpLoc(kinds) = 2 THEN {1} ELSE AddressOperands(kinds)

Destination(kinds) ==
    IF ~RegisterMove(kinds) /\ OpLoc(kinds) = 2 THEN AddressOperands(kinds) ELSE {Len(kinds)}
==============================================================================
