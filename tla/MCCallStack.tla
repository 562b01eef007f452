---------------------------- MODULE MCCallStack ----------------------------
(***************************************************************************)
(* Every program of three blocks, with one control flow operation each.    *)
(***************************************************************************)
EXTENDS CallStack

Op(kind, targets, nexts) == [kind : {kind}, target : targets, next : nexts]

MCOperations ==
    Op("return", {NoBlock}, {NoBlock}) \union Op("ijump", {NoBlock}, {NoBlock})
        \union Op("call", Blocks, Blocks) \union Op("icall", {NoBlock}, Blocks)

\* Jumps and system calls do not touch the pairs: one of each is enough.
MCPrograms ==
    [Blocks -> MCOperations]
        \union [Blocks -> Op("return", {NoBlock}, {NoBlock}) \union Op("call", Blocks, Blocks)
                            \union Op("jump", Blocks, {NoBlock}) \union Op("syscall", {NoBlock}, Blocks)]
=============================================================================
