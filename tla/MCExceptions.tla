---------------------------- MODULE MCExceptions ----------------------------
(* Instances of Exceptions for TLC: which priority bytes firmware programs. *)
EXTENDS Exceptions

\* Two lines and PendSV in groups and subgroups that preempt, tie or mask.
NestingPriorities == {<<0, 2>>, <<1, 3>>, <<PendSV, 5>>}

\* One line between the synchronous exceptions and the thread.
MaskingPriorities == {<<0, 4>>, <<SVCall, 2>>, <<UsageFault, 4>>}

LinePriorities == {<<0, 4>>}
=============================================================================
