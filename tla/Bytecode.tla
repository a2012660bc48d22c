------------------------------ MODULE Bytecode ------------------------------
(***************************************************************************)
(* The programs of the virtual machine: the function table of              *)
(* src/src/Code.hpp, what the compiler produces and the interpreter        *)
(* executes.  A program is a record whose functions are a sequence (the    *)
(* first has index 0) of [capc, argc, varc, code]; main is the index of    *)
(* main, natives the names of the native functions.  An instruction is     *)
(* [opcode, index]; index is also the operand of push, and the payload     *)
(* words of the type of new.                                               *)
(***************************************************************************)
EXTENDS Integers, Sequences

Instructions == [opcode : STRING, index : Int]
FunctionRecords == [capc : Nat, argc : Nat, varc : Nat, code : Seq(Instructions)]

Natives == {"new_thread", "new_chan", "chan_send", "chan_recv",
            "sprint", "iprint", "fprint", "new_slice"}

Indices(p) == 0 .. (Len(p.functions) - 1)

(* Jumps stay in the code of their function, its end included, and calls    *)
(* in the function tables.  The interpreter tests neither.  A type has a    *)
(* size.                                                                    *)
JumpsStay(f) ==
  \A j \in DOMAIN f.code :
    f.code[j].opcode \in {"goto", "if_t", "if_f"} => f.code[j].index \in 0 .. Len(f.code)

TypesHaveSizes(f) ==
  \A j \in DOMAIN f.code : f.code[j].opcode = "new" => f.code[j].index \in Nat

CallsExist(p, f) ==
  \A j \in DOMAIN f.code :
    /\ f.code[j].opcode = "invoke_static" => f.code[j].index \in Indices(p)
    /\ f.code[j].opcode = "invoke_native" => f.code[j].index + 1 \in DOMAIN p.natives

WellFormed(p) ==
  /\ p.functions \in Seq(FunctionRecords)
  /\ p.natives \in Seq(Natives)
  /\ p.main \in Indices(p)
  /\ \A i \in DOMAIN p.functions :
       LET f == p.functions[i]
       IN  JumpsStay(f) /\ CallsExist(p, f) /\ TypesHaveSizes(f)

(* Every local a function names is in its frame, the captures are, too.     *)
SlotsFit(p) ==
  \A i \in DOMAIN p.functions :
    LET f == p.functions[i]
    IN  /\ f.capc <= f.varc
        /\ \A j \in DOMAIN f.code :
             f.code[j].opcode \in {"load", "store"} => f.code[j].index \in 0 .. (f.varc - 1)
=============================================================================
