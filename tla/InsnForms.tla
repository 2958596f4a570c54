------------------------------ MODULE InsnForms ------------------------------
(***************************************************************************)
(* The opcode tables of the decoder (decoder.cc): what each case of the    *)
(* switches fills in, once for all opcodes that differ in register numbers *)
(* only.                                                                   *)
(*                                                                         *)
(* kinds has the classes of the operands: "D", "A" and "MA" for D0-D3,     *)
(* A0-A3 and MA0-MA3.  sz is the size the case sets, arg_sz the bytes it   *)
(* announces, num the value it gives num_args (0: none).  mem are the      *)
(* positions of the memory operand, by the mnemonics in the comments and   *)
(* the names a_mem_reg and di_mem_reg.                                     *)
(***************************************************************************)
EXTENDS Integers, Sequences

Reg == {"D", "A"}
Moves == {"MOV", "MOVBU", "MOVHU"}
Bits == {"BSET", "BCLR", "BTST"}
Bcc == {"BLT", "BGT", "BGE", "BLE", "BCS", "BHI", "BCC", "BLS", "BEQ", "BNE", "BRA"}
Lcc == {"LLT", "LGT", "LGE", "LLE", "LCS", "LHI", "LCC", "LLS", "LEQ", "LNE", "LRA", "SETLB"}

Form(oplen, op, kinds, mem, sz, arg_sz, num) ==
    [oplen |-> oplen, op |-> op, kinds |-> kinds, mem |-> mem, sz |-> sz,
     arg_sz |-> arg_sz, num |-> num]

S(op, kinds, mem, sz, arg_sz) == Form(1, op, kinds, mem, sz, arg_sz, 0)
D(op, kinds, mem, sz, arg_sz) == Form(2, op, kinds, mem, sz, arg_sz, 0)

\* decode_sn_op, upper nibble 0 to 5.
Sn0to5 ==
    {S("CLR", <<"D">>, {}, 1, 0)}
    \cup {S(op, <<"D", "abs16">>, {2}, 3, 2) : op \in Moves}
    \cup {S(op, <<"D">>, {}, 1, 0) : op \in {"EXTB", "EXTBU", "EXTH", "EXTHU"}}
    \cup {S("ADD", <<"imm8", r>>, {}, 2, 1) : r \in Reg}
    \cup {S("MOV", <<"imm16", r>>, {}, 3, 2) : r \in Reg}
    \cup {S(op, <<"abs16", "D">>, {1}, 3, 2) : op \in Moves}
    \cup {S("MOV", <<"SP", "A">>, {}, 1, 0)}
    \cup {S("INC", <<r>>, {}, 1, 0) : r \in Reg}
    \cup {S("MOV", <<r, "d8", "SP">>, {2, 3}, 2, 1) : r \in Reg}
    \cup {S("INC4", <<"A">>, {}, 1, 0), S("ASL2", <<"D">>, {}, 1, 0)}
    \cup {S("MOV", <<"d8", "SP", r>>, {1, 2}, 2, 1) : r \in Reg}

\* Upper nibble 6 to b and e.
Sn6toBandE ==
    {S("MOV", <<"D", "MA">>, {2}, 1, 0), S("MOV", <<"MA", "D">>, {1}, 1, 0)}
    \cup {S(op, <<r, r>>, {}, 1, 0) : op \in {"MOV", "CMP"}, r \in Reg}
    \cup {S(op, <<"imm8", r>>, {}, 2, 1) : op \in {"MOV", "CMP"}, r \in Reg}
    \cup {S("ADD", <<"D", "D">>, {}, 1, 0)}

\* Upper nibble c: branches, NOP, JMP, CALL, MOVM.
SnC ==
    {S(op, <<"d8", "PC">>, {}, 2, 1) : op \in Bcc}
    \cup {S("NOP", <<>>, {}, 1, 0),
          S("JMP", <<"d16", "PC">>, {}, 3, 2),
          Form(1, "CALL", <<"d16", "regs", "imm8">>, {}, 5, 4, 3),
          S("MOVM", <<"SP", "regs">>, {1}, 2, 1),
          S("MOVM", <<"regs", "SP">>, {2}, 2, 1)}

\* Upper nibble d: loops, JMP, CALL, RETF, RET.
SnD ==
    {S(op, <<>>, {}, 1, 0) : op \in Lcc}
    \cup {S("JMP", <<"d32", "PC">>, {}, 5, 4),
          Form(1, "CALL", <<"d32", "regs", "imm8">>, {}, 7, 6, 3),
          Form(1, "RETF", <<"regs", "imm8">>, {}, 3, 2, 2),
          Form(1, "RET", <<"regs", "imm8">>, {}, 3, 2, 2)}

\* decode_dn_op_F0.
DnF0 ==
    {D("MOV", <<"MA", "A">>, {1}, 2, 0), D("MOV", <<"A", "MA">>, {2}, 2, 0)}
    \cup {D(op, <<"MA", "D">>, {1}, 2, 0) : op \in {"MOVBU", "MOVHU"}}
    \cup {D(op, <<"D", "MA">>, {2}, 2, 0) : op \in {"MOVBU", "MOVHU", "BSET", "BCLR"}}
    \cup {D(op, <<>>, {}, 2, 0) : op \in {"RETS", "RTI", "TRAP"}}
    \cup {D(op, <<"MA">>, {}, 2, 0) : op \in {"JMP", "CALLS"}}

\* decode_dn_op_F1; case f leaves the op at NOP.
DnF1 ==
    {D("SUB", <<r, q>>, {}, 2, 0) : r, q \in Reg}
    \cup {D(op, <<"D", "D">>, {}, 2, 0) : op \in {"ADDC", "SUBC"}}
    \cup {D("ADD", rq, {}, 2, 0) : rq \in {<<"A", "D">>, <<"D", "A">>, <<"A", "A">>}}
    \cup {D(op, rq, {}, 2, 0) : op \in {"CMP", "MOV"}, rq \in {<<"A", "D">>, <<"D", "A">>}}
    \cup {D("NOP", <<"A", "A">>, {}, 2, 0)}

\* decode_dn_op_F2.
DnF2 ==
    {D(op, <<"D", "D">>, {}, 2, 0) : op \in {"AND", "OR", "XOR", "MUL", "MULU", "DIV", "DIVU",
                                         "ASL", "LSR", "ASR"}}
    \cup {D(op, <<"D">>, {}, 2, 0) : op \in {"NOT", "ROL", "ROR", "EXT"}}
    \cup {D("MOV", <<r, "D">>, {}, 2, 0) : r \in {"MDR", "PSW"}}
    \cup {D("MOV", <<"D", r>>, {}, 2, 0) : r \in {"MDR", "PSW"}}
    \cup {D("MOV", <<"A", "SP">>, {}, 2, 0)}

\* decode_dn_op_F3 and F4: an index register and a base.
DnF3F4 ==
    {D("MOV", <<"D", "A", r>>, {1, 2}, 2, 0) : r \in Reg}
    \cup {D("MOV", <<r, "D", "A">>, {2, 3}, 2, 0) : r \in Reg}
    \cup {D(op, <<"D", "A", "D">>, {1, 2}, 2, 0) : op \in {"MOVBU", "MOVHU"}}
    \cup {D(op, <<"D", "D", "A">>, {2, 3}, 2, 0) : op \in {"MOVBU", "MOVHU"}}

\* Loads and stores with a displacement d of n bytes: cases 0 to 7 of F8, FA and
\* FC.
Displaced(d, sz, n) ==
    {D("MOV", <<r, d, "A">>, {2, 3}, sz, n) : r \in Reg}
    \cup {D("MOV", <<d, "A", r>>, {1, 2}, sz, n) : r \in Reg}
    \cup {D(op, <<"D", d, "A">>, {2, 3}, sz, n) : op \in {"MOVBU", "MOVHU"}}
    \cup {D(op, <<d, "A", "D">>, {1, 2}, sz, n) : op \in {"MOVBU", "MOVHU"}}

\* decode_dn_op_F8, the other cases.  Case b chooses between MOVHU and MOVBU
\* by an uninitialised variable.
DnF8 ==
    {D(op, <<"D", "d8", "SP">>, {2, 3}, 3, 1) : op \in {"MOVBU", "MOVHU"}}
    \cup {D(op, <<"d8", "SP", "D">>, {1, 2}, 3, 1) : op \in {"MOVBU", "MOVHU"}}
    \cup {D(op, <<"imm8", "D">>, {}, 3, 1) : op \in {"ASL", "LSR", "ASR", "AND", "OR", "BTST"}}
    \cup {D(op, <<"d8", "PC">>, {}, 3, 1) : op \in {"BVC", "BVS", "BNC", "BNS"}}
    \cup {D("ADD", <<"imm8", "SP">>, {}, 3, 1),
          D("MOV", <<"d8", "A", "SP">>, {1, 2}, 3, 1),
          D("MOV", <<"SP", "d8", "A">>, {2, 3}, 3, 1)}

\* decode_dn_op_FA, the other cases.
DnFA ==
    {D("MOV", <<"A", "abs16">>, {2}, 4, 2), D("MOV", <<"abs16", "A">>, {1}, 4, 2)}
    \cup {D("MOV", <<r, "d16", "SP">>, {2, 3}, 4, 2) : r \in Reg}
    \cup {D("MOV", <<"d16", "SP", r>>, {1, 2}, 4, 2) : r \in Reg}
    \cup {D(op, <<"D", "d16", "SP">>, {2, 3}, 4, 2) : op \in {"MOVBU", "MOVHU"}}
    \cup {D(op, <<"d16", "SP", "D">>, {1, 2}, 4, 2) : op \in {"MOVBU", "MOVHU"}}
    \cup {D(op, <<"imm16", r>>, {}, 4, 2) : op \in {"ADD", "CMP"}, r \in Reg}
    \cup {D(op, <<"imm16", "D">>, {}, 4, 2) : op \in {"AND", "OR", "XOR", "BTST"}}
    \cup {Form(2, op, <<"imm8", "d8", "A">>, {2, 3}, 4, 2, 2) : op \in Bits}
    \cup {D(op, <<"imm16", "PSW">>, {}, 4, 2) : op \in {"AND", "OR"}}
    \cup {D("ADD", <<"imm16", "SP">>, {}, 4, 2), D("CALLS", <<"d16", "PC">>, {}, 4, 2)}

\* decode_dn_op_FC, the other cases.
DnFC ==
    {D(op, <<"D", "abs32">>, {2}, 6, 4) : op \in Moves}
    \cup {D(op, <<"abs32", "D">>, {1}, 6, 4) : op \in Moves}
    \cup {D("MOV", <<"A", "abs32">>, {2}, 6, 4), D("MOV", <<"abs32", "A">>, {1}, 6, 4)}
    \cup {D(op, <<"D", "d32", "SP">>, {2, 3}, 6, 4) : op \in Moves}
    \cup {D(op, <<"d32", "SP", "D">>, {1, 2}, 6, 4) : op \in Moves}
    \cup {D("MOV", <<"A", "d32", "SP">>, {2, 3}, 6, 4), D("MOV", <<"d32", "SP", "A">>, {1, 2}, 6, 4)}
    \cup {D(op, <<"imm32", r>>, {}, 6, 4) : op \in {"ADD", "SUB", "CMP", "MOV"}, r \in Reg}
    \cup {D(op, <<"imm32", "D">>, {}, 6, 4) : op \in {"AND", "OR", "XOR", "BTST"}}
    \cup {D("ADD", <<"imm32", "SP">>, {}, 6, 4), D("CALLS", <<"d32", "PC">>, {}, 6, 4)}

\* Slip: the size is left as decode_inst first sets it.
DnFEPreset ==
    {Form(2, op, <<"imm8", "abs32">>, {2}, 5, 5, 2) : op \in Bits}
    \cup {Form(2, op, <<"imm8", "abs16">>, {2}, 5, 3, 2) : op \in Bits}

\* decode_dn_op_FE.
DnFE ==
    {Form(2, op, <<"imm8", "abs32">>, {2}, 7, 5, 2) : op \in Bits}
    \cup {Form(2, op, <<"imm8", "abs16">>, {2}, 5, 3, 2) : op \in Bits}

\* Opcodes that are not encoded: the bytes announced before the case was found
\* empty are still taken.
Unencoded == {Form(2, "NONE", <<>>, {}, 2, n, 0) : n \in {0, 1, 2}}

Forms ==
    Sn0to5 \cup Sn6toBandE \cup SnC \cup SnD \cup DnF0 \cup DnF1 \cup DnF2 \cup DnF3F4
    \cup Displaced("d8", 3, 1) \cup DnF8 \cup Displaced("d16", 4, 2) \cup DnFA
    \cup Displaced("d32", 6, 4) \cup DnFC \cup DnFE \cup Unencoded
==============================================================================
