----------------------------- MODULE MCRegAlloc -----------------------------
(* Instances of RegAlloc: the shapes of small control flow graphs, filled  *)
(* with blocks that need more registers than there are.                    *)
EXTENDS RegAlloc

Var(kind)        == [kind |-> kind, class |-> "int", op |-> "none", ins |-> <<>>, out |-> 0, rm |-> NoVar, val |-> 0, fits |-> FALSE]
Static(s)        == [Var("static") EXCEPT !.val = s]
Imm(val, fits)   == [Var("imm") EXCEPT !.val = val, !.fits = fits]
Op(op, ins)      == [Var("op") EXCEPT !.op = op, !.ins = ins, !.out = 1]
Remainder(ins)   == [Op("div", ins) EXCEPT !.out = 2]
Float(var)       == [var EXCEPT !.class = "float"]
Rounded(var, rm) == [var EXCEPT !.rm = rm]

(* Every block has three inputs, the statics 1, 2 and 3, which are all     *)
(* integers, or of which the last two are floats.                          *)
IntStatics   == <<Static(1), Static(2), Static(3)>>
FloatStatics == <<Static(1), Float(Static(2)), Float(Static(3))>>

IntBody ==
  [nothing  |-> <<>>,
   sums     |-> <<Op("add", <<1, 2>>), Op("sub", <<4, 3>>), Op("add", <<5, 1>>)>>,
   many     |-> <<Op("add", <<1, 2>>), Op("add", <<2, 3>>), Op("sub", <<1, 3>>), Op("not", <<4>>),
                  Op("add", <<5, 6>>), Op("sub", <<7, 8>>), Op("add", <<4, 9>>)>>,
   division |-> <<Imm(9, FALSE), Op("div", <<2, 4>>), Remainder(<<5, 3>>), Op("ssmul_h", <<6, 2>>)>>,
   shift    |-> <<Op("shl", <<1, 2>>), Op("shl", <<3, 4>>), Op("shl", <<2, 1>>)>>,
   masked   |-> <<Imm(31, TRUE), Op("and", <<1, 4>>), Op("cast", <<2>>), Op("shl", <<6, 5>>),
                  Imm(63, TRUE), Op("and", <<2, 8>>), Op("shl", <<1, 9>>)>>,
   constant |-> <<Imm(5, TRUE), Op("add", <<1, 4>>), Imm(9, FALSE), Op("add", <<1, 6>>), Op("sub", <<2, 6>>)>>,
   compare  |-> <<Imm(1, TRUE), Imm(0, TRUE), Op("slt", <<1, 2, 4, 5>>), Op("slt", <<3, 6, 1, 2>>)>>,
   loads    |-> <<Imm(9, FALSE), Op("add", <<1, 4>>), Op("load", <<5>>), Op("extend", <<6>>),
                  Op("add", <<2, 7>>), Op("load", <<8>>), Op("add", <<9, 1>>), Op("load", <<10>>), Op("not", <<11>>)>>,
   stores   |-> <<Imm(7, TRUE), Op("add", <<1, 4>>), Op("store", <<5, 2>>), Op("add", <<2, 3>>), Op("cast", <<1>>),
                  Op("store", <<7, 8>>), Op("add", <<3, 1>>), Op("store", <<10, 4>>), Op("load", <<10>>),
                  Op("not", <<12>>)>>,
   last     |-> <<Op("setup_stack", <<>>), Op("add", <<1, 4>>), Imm(9, FALSE), Imm(3, TRUE)>>]

FloatBody ==
  [fnothing |-> <<>>,
   fsums    |-> <<Float(Op("add", <<2, 3>>)), Float(Op("sub", <<4, 3>>)), Float(Op("add", <<5, 2>>)), Op("add", <<1, 1>>)>>,
   fused    |-> <<Float(Op("fma", <<2, 3, 3>>)), Float(Op("fnma", <<3, 4, 2>>)), Float(Op("fma", <<4, 5, 3>>)),
                  Op("not", <<1>>), Float(Op("sqrt", <<6>>))>>,
   memory   |-> <<Float(Op("load", <<1>>)), Op("store", <<1, 4>>), Float(Op("load", <<1>>)), Float(Op("add", <<4, 6>>)),
                  Op("load", <<1>>), Float(Op("sub", <<2, 7>>))>>,
   compared |-> <<Imm(1, TRUE), Imm(0, TRUE), Op("slt", <<2, 3, 4, 5>>), Op("slt", <<3, 2, 5, 4>>),
                  Float(Op("cast", <<6>>)), Op("cast", <<8>>), Float(Op("cast", <<8>>))>>,
   converted |-> <<Float(Op("convert", <<1>>)), Op("convert", <<2>>), Float(Rounded(Op("convert", <<3>>), 5)),
                   Op("uconvert", <<4>>), Float(Rounded(Op("uconvert", <<7>>), 5)), Rounded(Op("convert", <<8>>), 1),
                   Float(Op("add", <<6, 8>>))>>]

(* The integer and the float that a float body ends with. *)
IntOf   == [fnothing |-> 1, fsums |-> 7, fused |-> 7, memory |-> 8, compared |-> 9, converted |-> 9]
FloatOf == [fnothing |-> 3, fsums |-> 6, fused |-> 8, memory |-> 9, compared |-> 10, converted |-> 10]

IsInt(x)   == x \in DOMAIN IntBody
VarsOf(x)  == IF IsInt(x) THEN IntStatics \o IntBody[x] ELSE FloatStatics \o FloatBody[x]
N(x)       == IF IsInt(x) THEN Len(VarsOf(x)) ELSE IntOf[x]
Nothing(x) == IF IsInt(x) THEN "nothing" ELSE "fnothing"
Sums(x)    == IF IsInt(x) THEN "sums" ELSE "fsums"

(* What the three statics of a successor are.  A float is not passed on as *)
(* another static: the lifter writes none to a register without an         *)
(* operation, and the allocator would stop.                                *)
Three(a, b, d) == <<Arg(a, 1), Arg(b, 2), Arg(d, 3)>>
Pass(how, x) ==
  CASE how = "same"                   -> Three(1, 2, 3)
    [] how = "results" /\ IsInt(x)    -> Three(N(x), N(x) - 1, 3)
    [] how = "swapped" /\ IsInt(x)    -> Three(2, 1, N(x))
    [] how = "twice"   /\ IsInt(x)    -> Three(N(x), N(x), 1)
    [] how = "turned"  /\ IsInt(x)    -> Three(3, 1, 2)
    [] how = "results" /\ ~IsInt(x)   -> Three(IntOf[x], 2, FloatOf[x])
    [] how = "twice"   /\ ~IsInt(x) /\ FloatOf[x] # 3 -> Three(IntOf[x], FloatOf[x], FloatOf[x])
    [] OTHER                          -> Three(1, 2, FloatOf[x])

Cf(type, ins, args, target, cont) ==
  [type |-> type, ins |-> ins, args |-> args, target |-> target, cont |-> cont]

Block(x, cfs) ==
  [inputs |-> <<1, 2, 3>>, vars |-> VarsOf(x), cfs |-> cfs, callTarget |-> FALSE, callCont |-> FALSE, needsTrans |-> FALSE]

JumpTo(t, x, how)    == Cf("jump", <<>>, Pass(how, x), t, 0)
Branch(t, x, how)    == Cf("cjump", IF IsInt(x) THEN <<1, 2>> ELSE <<1, 1>>, Pass(how, x), t, 0)
Ret(x, how)          == Cf("return", <<N(x)>>, Pass(how, x), 0, 0)
Ecall(t, x, how)     == LET p == Pass(how, x) IN
                        Cf("syscall", IF IsInt(x) THEN <<p[2].var, p[1].var, p[3].var>> ELSE <<p[1].var>>, p, t, 0)
CallTo(t, k, x, how) == Cf("call", <<>>, Pass(how, x), t, k)
CallBy(k, x, how)    == Cf("icall", <<N(x)>>, Pass(how, x), 0, k)
GoBy(x, how)         == Cf("ijump", <<N(x)>>, Pass(how, x), 0, 0)

Callee(block) == [block EXCEPT !.callTarget = TRUE]
Cont(block)   == [block EXCEPT !.callCont = TRUE]
Tabled(block) == [block EXCEPT !.needsTrans = TRUE]

(* 1 -> {2, 3}, 2 -> 3, 3 -> 2: a branch over a block and a loop. *)
Loop(x, y, p, q) ==
  <<Block(x, <<Branch(3, x, p), JumpTo(2, x, q)>>),
    Block(y, <<JumpTo(3, y, p)>>),
    Tabled(Block(Nothing(x), <<Branch(2, Nothing(x), "swapped"), Ret(Nothing(x), "same")>>))>>

(* A function that jumps into the middle of another one, whose frame is    *)
(* larger or smaller, and is compiled before or after it.                  *)
Shared(x, y, p, q) ==
  <<Block(x, <<JumpTo(2, x, p)>>),
    Block(Nothing(x), <<Branch(2, Nothing(x), "turned"), Ret(Nothing(x), q)>>),
    Callee(Block(y, <<Branch(2, y, q), JumpTo(2, y, p)>>))>>

(* A call whose continuation is also jumped to. *)
Called(x, y, p, q) ==
  <<Block(x, <<Branch(3, x, p), JumpTo(4, x, q)>>),
    Callee(Block(y, <<JumpTo(3, y, q)>>)),
    Cont(Block(y, <<Ret(y, p)>>)),
    Block(Sums(x), <<CallTo(2, 3, Sums(x), q)>>)>>

(* Two blocks that are entered from elsewhere and from each other, an      *)
(* indirect call and an indirect jump.                                     *)
Circle(x, y, p, q) ==
  <<Block(x, <<CallBy(2, x, p)>>),
    Cont(Block(x, <<GoBy(x, q)>>)),
    Block(y, <<Branch(4, y, q), Ret(y, "same")>>),
    Block(Sums(x), <<JumpTo(3, Sums(x), p)>>)>>

(* A system call whose continuation is also jumped to. *)
System(x, y, p, q) ==
  <<Block(x, <<Branch(3, x, q), JumpTo(2, x, p)>>),
    Block(y, <<Ecall(4, y, q)>>),
    Block(y, <<JumpTo(4, y, p)>>),
    Block(Sums(x), <<Ret(Sums(x), "results")>>)>>

(* A system call, continued by a loop. *)
Sequence(x, y, p, q) ==
  <<Block(x, <<Ecall(2, x, p)>>),
    Block(y, <<Branch(2, y, q), Ret(y, p)>>)>>

IntHows   == {"same", "results", "swapped", "twice", "turned"}
FloatHows == {"same", "results", "twice"}

(* How the blocks are filled, and what they pass on. *)
Fillings ==
  LET ints   == DOMAIN IntBody
      floats == DOMAIN FloatBody
  IN  (ints \X ints \X IntHows \X {"results", "swapped", "twice"}) \cup (floats \X floats \X FloatHows \X {"results", "twice"})

Filled(name) ==
  LET f == name[2] IN
  CASE name[1] = "loop"     -> Loop(f[1], f[2], f[3], f[4])
    [] name[1] = "shared"   -> Shared(f[1], f[2], f[3], f[4])
    [] name[1] = "called"   -> Called(f[1], f[2], f[3], f[4])
    [] name[1] = "circle"   -> Circle(f[1], f[2], f[3], f[4])
    [] name[1] = "sequence" -> Sequence(f[1], f[2], f[3], f[4])
    [] name[1] = "system"   -> System(f[1], f[2], f[3], f[4])

TheNames == {"loop", "shared", "called", "circle", "sequence"} \X Fillings
SysNames == {"system"} \X Fillings

TheOptions  == {{}, {"bmi2", "no_trans_bbs", "merge", "sse4", "fma3"}}
TheCallRegs == <<5, 4>>
=============================================================================
