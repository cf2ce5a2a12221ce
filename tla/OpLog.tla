------------------------------- MODULE OpLog -------------------------------
(***************************************************************************)
(* What synchronizing a repo promises: the abstract specification that     *)
(* Transfer implements.                                                    *)
(*                                                                         *)
(* Each machine sees a set of operations.  A user's command writes one on  *)
(* top of what its machine sees and then shows it there; synchronization   *)
(* shows, at once, the whole history of an operation another machine sees. *)
(* Nothing that is seen is ever taken away.                                *)
(***************************************************************************)
EXTENDS Naturals

CONSTANTS
    Machine,
    Op,            \* operation ids
    First          \* First[m]: the operation machine m's repo starts with

NoOp == 0

VARIABLES
    log,           \* log[o]: o and its ancestors; empty until o is written
    visible,       \* visible[m]: the operations m's jj sees
    writing        \* writing[m]: the operation m's user wrote, not shown yet

logVars == <<log, visible, writing>>

HistoryOf(ops) == UNION {log[o] : o \in ops}

LogInit ==
    /\ log = [o \in Op |-> IF \E m \in Machine : o = First[m] THEN {o} ELSE {}]
    /\ visible = [m \in Machine |-> {First[m]}]
    /\ writing = [m \in Machine |-> NoOp]

Write(m) ==
    /\ writing[m] = NoOp
    /\ \E o \in Op, base \in SUBSET visible[m] :
          /\ log[o] = {}
          /\ log' = [log EXCEPT ![o] = {o} \cup HistoryOf(base)]
          /\ writing' = [writing EXCEPT ![m] = o]
    /\ UNCHANGED visible

Show(m) ==
    /\ writing[m] # NoOp
    /\ visible' = [visible EXCEPT ![m] = @ \cup {writing[m]}]
    /\ writing' = [writing EXCEPT ![m] = NoOp]
    /\ UNCHANGED log

\* The command is killed before it shows its operation.
Discard(m) ==
    /\ writing' = [writing EXCEPT ![m] = NoOp]
    /\ UNCHANGED <<log, visible>>

Replicate(m) ==
    /\ \E p \in Machine : \E o \in visible[p] :
          visible' = [visible EXCEPT ![m] = @ \cup log[o]]
    /\ UNCHANGED <<log, writing>>

LogNext == \E m \in Machine : Write(m) \/ Show(m) \/ Discard(m) \/ Replicate(m)

LogSpec == LogInit /\ [][LogNext]_logVars
=============================================================================
