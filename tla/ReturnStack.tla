---------------------------- MODULE ReturnStack ----------------------------
(***************************************************************************)
(* What the pairs of return addresses on the stack of the translated       *)
(* program promise (Ausarbeitung.tex 1190-1213): they predict where a      *)
(* return of the guest goes.  open are the guest addresses after the calls *)
(* that are still open, innermost last.  A return to the innermost one is  *)
(* taken through the stack; any other return forgets all of them and is    *)
(* resolved by a lookup.                                                   *)
(***************************************************************************)
EXTENDS SequencesExt

CONSTANTS Blocks, Addresses

VARIABLES
    open, guest,
    returning,      \* the guest is about to return
    predicted       \* the last step was a return through the stack

vars == <<open, guest, returning, predicted>>

Init ==
    /\ open = << >>
    /\ guest \in Blocks
    /\ returning \in BOOLEAN
    /\ predicted = FALSE

\* A call opens one more return; when there are too many, only that one is kept.
Enter ==
    /\ ~ returning
    /\ \E c \in Blocks : open' \in {Append(open, c), <<c>>}
    /\ guest' \in Addresses
    /\ predicted' = FALSE

\* A return to d.
Leave(d) ==
    /\ returning
    /\ guest' = d
    /\ predicted' = (open # << >> /\ Last(open) = d)
    /\ open' = IF predicted' THEN Front(open) ELSE << >>

\* Every other transfer of control.
Move ==
    /\ ~ returning
    /\ guest' \in Addresses
    /\ predicted' = FALSE
    /\ UNCHANGED open

Next == returning' \in BOOLEAN /\ (Enter \/ Move \/ \E d \in Addresses : Leave(d))

Spec == Init /\ [][Next]_vars
=============================================================================
