------------------------------- MODULE Decoder -------------------------------
(***************************************************************************)
(* Decoder::decode_inst (decoder.cc), the operand bytes of an Instruction  *)
(* (instruction.h), and how the handlers find their operands in them.      *)
(*                                                                         *)
(* An action decodes one instruction of the text: any of the forms of      *)
(* InsnForms with any operand bytes.  The decoder keeps num_args from one  *)
(* instruction to the next; the instruction is cleared.                    *)
(***************************************************************************)
EXTENDS Operands, SequencesExt

CONSTANTS
    max_ins,           \* bytes the decoder is given   (7)
    OperandBytes(_)    \* the n operand bytes the text may have

Byte == 0 .. 255

ASSUME WindowAssumption == max_ins \in Nat
ASSUME TextAssumption == \A n \in 0 .. 6 : OperandBytes(n) \subseteq [1 .. n -> Byte]

VARIABLES
    num_args,   \* Decoder::num_args
    ins,        \* the Instruction: op, kinds, sz, args, curr
    form,       \* which form the bytes were
    code        \* the operand bytes in the text

vars == <<num_args, ins, form, code>>

-----------------------------------------------------------------------------
(* Decoding.                                                               *)

NoArgs == [k \in 1 .. 6 |-> 0]
Cleared == [op |-> "NOP", kinds |-> <<>>, sz |-> 0, args |-> NoArgs, curr |-> 0]

Nop == CHOOSE f \in SnC : f.op = "NOP"

\* Slip: ntohs and ntohl are left out, so the displacement of CALL stays
\* reversed.
RearrangedNoSwap(f, bytes) ==
    IF f.op \in {"CALL", "RET", "RETF"} THEN Reverse(bytes) ELSE bytes

\* CALL, RET and RETF are reversed; the displacement of CALL is turned back.
Rearranged(f, bytes) ==
    CASE f.op = "CALL" -> LET back == Reverse(bytes)
                          IN  SubSeq(back, 1, 2) \o Reverse(SubSeq(back, 3, Len(back)))
      [] f.op \in {"RET", "RETF"} -> Reverse(bytes)
      [] OTHER -> bytes

\* Slip: num_args is added to.
NumArgsAdded(f) == num_args + f.num

\* Only two-byte opcodes begin with num_args 1.
NumArgs(f) == IF f.num # 0 THEN f.num ELSE IF f.oplen = 2 THEN 1 ELSE num_args

\* copy_data_args takes data operands from the last kind to the first, until
\* one does not fit into n bytes.
Copied(kinds, n) ==
    LET totals == {SizeAt(kinds, k .. 3) : k \in 1 .. 4}
    IN  CHOOSE t \in totals : t <= n /\ \A u \in totals : u <= n => u <= t

\* The operands reach past the bytes given; CALL and RET are not checked.
Truncated(f) == f.oplen + f.arg_sz > max_ins /\ f.op \notin {"CALL", "RET", "RETF"}

\* Slip: args keeps the bytes of the instruction before.
StoredStale(bytes, n) ==
    [args |-> [k \in 1 .. 6 |-> IF k <= n THEN bytes[k] ELSE ins.args[k]], curr |-> n]

\* arg_add, on an instruction just cleared.
Stored(bytes, n) ==
    [args |-> [k \in 1 .. 6 |-> IF k <= n THEN bytes[k] ELSE 0], curr |-> n]

\* The loop ends at what is not an instruction and at BREAK.
Running == ins.op \notin {"NONE", "BREAK"}

\* decode_inst on the bytes of an encoded instruction.
Decode(f, bytes) ==
    LET n      == IF Truncated(f) THEN 0 ELSE f.arg_sz
        taken  == IF NumArgs(f) > 1 THEN Copied(f.kinds, n) ELSE n
        stored == Stored(Rearranged(f, bytes), taken)
    IN  /\ Running
        /\ ins' = [op |-> f.op, kinds |-> f.kinds, sz |-> IF Truncated(f) THEN 0 ELSE f.sz,
                   args |-> stored.args, curr |-> stored.curr]
        /\ num_args' = NumArgs(f)
        /\ form' = f
        /\ code' = bytes

\* Opcode 0xf7 is reserved, 0xff is BREAK.
NoInstruction(op) ==
    /\ Running
    /\ ins' = [Cleared EXCEPT !.op = op, !.sz = IF op = "BREAK" THEN 1 ELSE 0]
    /\ code' = <<>>
    /\ UNCHANGED <<num_args, form>>

\* Before the first instruction ins is as after a NOP; nobody looks at it.
Init ==
    /\ num_args = 0
    /\ ins = [Cleared EXCEPT !.sz = 1]
    /\ form = Nop
    /\ code = <<>>

Next ==
    \/ \E f \in Forms : \E bytes \in OperandBytes(f.arg_sz) : Decode(f, bytes)
    \/ \E op \in {"NONE", "BREAK"} : NoInstruction(op)

Spec == Init /\ [][Next]_vars

-----------------------------------------------------------------------------
(* How handlers find operands.  A 32-bit value is its bytes, lowest first. *)

Value(bytes, n) == [k \in 1 .. 4 |-> IF k <= n THEN bytes[k] ELSE 0]

\* s_ext ors ones above the sign of the lowest n bytes.
s_ext(val, n) ==
    [k \in 1 .. 4 |-> IF k > n /\ n > 0 /\ val[n] >= 128 THEN 255 ELSE val[k]]

\* get_val by kind: the first four bytes of args, whatever the position.
get_val(kind) == s_ext(Value(ins.args, 4), get_arg_sz(kind))

\* Instruction::get_arg: from the end of args backwards.  Its assertion is
\* Held.
Before(k) == SizeAt(ins.kinds, 1 .. k)
Held(k) == ins.curr >= Before(k)

get_arg(k) ==
    LET first == ins.curr - Before(k)
    IN  Value([j \in 1 .. get_arg_sz(ins.kinds[k]) |-> ins.args[first + j]],
              get_arg_sz(ins.kinds[k]))

-----------------------------------------------------------------------------
(* Properties.                                                             *)

TypeOK ==
    /\ num_args \in 0 .. 3
    /\ form \in Forms
    /\ ins.curr \in 0 .. 6
    /\ ins.args \in [1 .. 6 -> Byte]
    /\ Len(code) <= 6

\* In the text a displacement or an absolute address comes first, an 8-bit
\* immediate last.
Rank(k) == CASE is_disp(ins.kinds[k]) \/ is_abs(ins.kinds[k]) -> 1
             [] ins.kinds[k] = "regs" -> 2
             [] OTHER -> 3
DataOperands == {k \in 1 .. Len(ins.kinds) : is_data(ins.kinds[k])}
Written(k) ==
    LET first == SizeAt(ins.kinds, {j \in DataOperands : Rank(j) < Rank(k)})
        n     == get_arg_sz(ins.kinds[k])
    IN  Value([j \in 1 .. n |-> code[first + j]], n)

\* Whatever was decoded before, get_arg finds each operand where the text has
\* it: the reversals for CALL and RET, the backward copy of copy_data_args and
\* the backward search of get_arg undo one another, for every form, and the
\* num_args an earlier CALL left does no harm.
OperandsFound ==
    Running => \A k \in DataOperands : Held(k) /\ get_arg(k) = Written(k)

\* Handlers that take an immediate, a displacement or an address by its kind
\* get it sign-extended and without bytes of earlier instructions, where it
\* is the only data operand.  (With two, as in BSET imm8,(d8,An), get_val
\* takes the wrong bytes.)
OperandsByKind ==
    \A k \in DataOperands :
        DataOperands = {k} => get_val(ins.kinds[k]) = s_ext(Written(k), get_arg_sz(ins.kinds[k]))

\* The size the PC is moved by, the bytes taken as operands and the sizes of
\* the kinds, set apart from one another in some eighty places, agree, and an
\* instruction fits the bytes the loop gives to the decoder.
SizeCoversOperands ==
    Running => /\ ins.sz = form.oplen + DataSize(ins.kinds)
               /\ ins.sz <= max_ins

\* MOV, MOVBU, MOVHU and MOVM move in the direction and through the address
\* of the mnemonic: get_val_mem infers both from the kinds.
MovesAsWritten ==
    ins.op \in Moves \cup {"MOVM"} =>
        LET all == 1 .. Len(ins.kinds)
            src == Source(ins.kinds)
            dst == Destination(ins.kinds)
        IN  CASE form.mem = {} -> src = {1} /\ dst = {2}
              [] 1 \in form.mem -> src = form.mem /\ dst = all \ form.mem
              [] OTHER -> src = all \ form.mem /\ dst = form.mem
==============================================================================
