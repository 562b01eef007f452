--------------------------------- MODULE Ir ---------------------------------
(***************************************************************************)
(* The intermediate representation (ir/): a block in SSA form has          *)
(* variables, a mapping of the statics to variables and control flow       *)
(* operations.  A variable is named by its index in vars; order lists the  *)
(* indices as bb->variables does.                                          *)
(*                                                                         *)
(* The statics are the integer registers but x0, the memory token, the     *)
(* floating point registers and fcsr.                                      *)
(***************************************************************************)
EXTENDS Words, TLC

CONSTANTS IntRegs,      (* Number of integer registers, 32 in the code.     *)
          FloatRegs,    (* Of floating point registers, 32, or 0 without    *)
                        (* their support.                                   *)
          SyscallNumber,  (* x17.                                           *)
          SyscallArgs,    (* x10 to x15; the first one gets the result.     *)
          Syscall(_)      (* What syscall_impl returns for its arguments.   *)

ASSUME RegistersAssumption == IntRegs \in Nat \ {0, 1} /\ FloatRegs \in Nat

VARIABLES program,   (* The code: instructions one after another.           *)
          blocks,    (* ir->basic_blocks.                                   *)
          options    (* The optimisations of the command line that are on.  *)

Mem        == IntRegs
Float(f)   == IntRegs + 1 + f
Fcsr       == IntRegs + 1 + FloatRegs
LastStatic == IF FloatRegs > 0 THEN Fcsr ELSE Mem
Statics    == 1..LastStatic

StaticType(s) ==
  CASE s < Mem             -> "i64"
    [] s = Mem             -> "mt"
    [] s > Mem /\ s < Fcsr -> "f64"
    [] OTHER               -> "i32"

(* The types in the order of cast_table, imm among the integers.           *)
Sizes(t) == IF t \in Floats THEN <<"f64", "f32">> ELSE <<"imm", "i64", "i32", "i16", "i8">>
Place(t) == CHOOSE i \in DOMAIN Sizes(t) : Sizes(t)[i] = t

SameClass(t, u) == "mt" \notin {t, u} /\ (t \in Floats <=> u \in Floats)

(* cast_dir(t, u) = 1 and cast_dir(t, u) = 0. *)
Narrower(t, u) == SameClass(t, u) /\ Place(t) > Place(u)
Castable(t, u) == SameClass(t, u) /\ ~Narrower(t, u)

-----------------------------------------------------------------------------
(* Variables.  sid is the static_id of the lifter's information and addr   *)
(* its assign_addr; rm is the variable of rounding_info, 0 for none.       *)

None == -1    (* SIZE_MAX. *)

ImmVar(x) ==
  [kind |-> "imm", type |-> "imm", val |-> Word("i64", x), op |-> "none", ins |-> <<>>,
   out |-> 1, sid |-> None, rounding |-> "none", rm |-> 0, insize |-> "none", addr |-> 0]

StaticVar(s, addr) ==
  [ImmVar(s) EXCEPT !.kind = "static", !.type = StaticType(s), !.sid = s, !.addr = addr]

OpVar(op, t, ins, size) ==
  [ImmVar(0) EXCEPT !.kind = "op", !.op = op, !.type = t, !.ins = ins, !.insize = size]

IsOp(v)     == v.kind = "op"
IsImm(v)    == v.kind = "imm"
IsStatic(v) == v.kind = "static"

(* What variable v of the block refers to. *)
Operands(v) == {v.ins[i] : i \in DOMAIN v.ins} \cup ({v.rm} \ {0})

(* A control flow operation passes the variable args[s] for static s.      *)
Cf(type, cond, ins, target) ==
  [type |-> type, cond |-> cond, ins |-> ins, target |-> target, args |-> <<>>]

(* VarRewriter: what was replaced is renamed in a variable and in a control *)
(* flow operation.                                                         *)
Renamed(to, id) == IF id \in DOMAIN to THEN to[id] ELSE id

RenamedVar(to, v) ==
  [v EXCEPT !.ins = [j \in DOMAIN @ |-> Renamed(to, @[j])], !.rm = IF @ = 0 THEN 0 ELSE Renamed(to, @)]

RenamedCf(to, cf) ==
  [cf EXCEPT !.ins = [j \in DOMAIN @ |-> Renamed(to, @[j])], !.args = [s \in DOMAIN @ |-> Renamed(to, @[s])]]

(* A block whose first variables are its inputs, add_var_from_static. *)
NewBlock(start) ==
  [start |-> start, vars |-> [s \in Statics |-> StaticVar(s, start)], order |-> <<>>,
   map |-> [s \in Statics |-> s], cfs |-> <<>>]
=============================================================================
