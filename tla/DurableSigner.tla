--------------------------- MODULE DurableSigner ---------------------------
(***************************************************************************)
(* What a signing key and its storage promise the world together, however  *)
(* often the process is lost: storage marks slots as used, never the other *)
(* way round, and a slot carries a message outside only once it is behind  *)
(* the mark.  Nothing is said of the process that makes the signatures.    *)
(***************************************************************************)
EXTENDS Naturals

CONSTANTS
    Capacity,  \* number of one-time slots, a natural number
    Message    \* what may be signed

VARIABLES
    mark,      \* the slot a process that starts from storage goes on at;
               \* Capacity when it can sign nothing
    out        \* the slots used outside, with what they signed

vars == <<mark, out>>

Init == mark = 0 /\ out = {}

(* Storage moves its mark to n, and signatures of slots it passes go out.  *)
Store(n) ==
    /\ n \in mark..Capacity
    /\ mark' = n
    /\ out \subseteq out'
    /\ \A a \in out' \ out : a \in [slot : mark..n-1, msg : Message]
    /\ \A a, b \in out' \ out : a.slot = b.slot => a = b

Next == \E n \in 0..Capacity : Store(n)

Spec == Init /\ [][Next]_vars

---------------------------------------------------------------------------
(* No slot is used for two messages, and none that a restart would use.    *)
SlotOutOnce ==
    /\ \A a, b \in out : a.slot = b.slot => a = b
    /\ \A a \in out : a.slot < mark
============================================================================
