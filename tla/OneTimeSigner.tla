-------------------------- MODULE OneTimeSigner --------------------------
(***************************************************************************)
(* What a stateful hash-based signing key promises its owner: a fixed      *)
(* number of slots, handed out in order, each signing at most one message  *)
(* and never handed out again, whether or not the call that took it        *)
(* succeeded.                                                              *)
(***************************************************************************)
EXTENDS Naturals

CONSTANTS
    Capacity,  \* number of one-time slots, a natural number
    Message    \* what may be signed

VARIABLES
    next,      \* the next slot to hand out; Capacity when none is left
    issued     \* the slots that signed something, with what they signed

vars == <<next, issued>>

TypeOK ==
    /\ next \in 0..Capacity
    /\ issued \subseteq [slot : 0..Capacity-1, msg : Message]

Init == next = 0 /\ issued = {}

(* The next slot signs m. *)
Issue(m) ==
    /\ next < Capacity
    /\ issued' = issued \cup {[slot |-> next, msg |-> m]}
    /\ next' = next + 1

(* A call fails after its slot was taken: the slot is lost. *)
Burn ==
    /\ next < Capacity
    /\ next' = next + 1
    /\ UNCHANGED issued

(* The key is destroyed. *)
Retire ==
    /\ next' = Capacity
    /\ UNCHANGED issued

Next == (\E m \in Message : Issue(m)) \/ Burn \/ Retire

Spec == Init /\ [][Next]_vars

---------------------------------------------------------------------------
(* No slot signs two messages, and no slot signs before it is handed out.  *)
SlotUsedOnce ==
    /\ \A a, b \in issued : a.slot = b.slot => a = b
    /\ \A a \in issued : a.slot < next
==========================================================================
