---------------------------------- MODULE Escrow ----------------------------------
(***************************************************************************)
(* What a bonding curve promises the people who trade on it, without       *)
(* accounts, fees, prices or guards.  A curve is opened once.  While it is *)
(* open nothing takes money out of it.  Once closed it stays closed, and   *)
(* it is then emptied of money and goods in one step.  Anyone may add to   *)
(* it.  What happens to one curve leaves the others alone.                 *)
(***************************************************************************)
EXTENDS Integers

CONSTANT Curves

VARIABLES
    phase,  \* per curve: "none", "open" or "closed"
    held,   \* per curve: the money deposited in it
    stock   \* per curve: the goods deposited in it

vars == <<phase, held, stock>>

TypeOK ==
    /\ phase \in [Curves -> {"none", "open", "closed"}]
    /\ held \in [Curves -> Nat]
    /\ stock \in [Curves -> Nat]

Init ==
    /\ phase = [c \in Curves |-> "none"]
    /\ held = [c \in Curves |-> 0]
    /\ stock = [c \in Curves |-> 0]

Untouched(c) ==
    phase'[c] = phase[c] /\ held'[c] = held[c] /\ stock'[c] = stock[c]

Open(c) ==
    phase[c] = "none" /\ phase'[c] = "open"

Trade(c) ==
    /\ phase[c] = "open"
    /\ phase'[c] \in {"open", "closed"}
    /\ held'[c] >= held[c]

Add(c) ==
    /\ phase[c] = "closed" /\ phase'[c] = "closed"
    /\ held'[c] >= held[c] /\ stock'[c] >= stock[c]

Drain(c) ==
    /\ phase[c] = "closed" /\ phase'[c] = "closed"
    /\ held'[c] = 0 /\ stock'[c] = 0

Next ==
    /\ TypeOK'
    /\ \E c \in Curves :
          /\ Open(c) \/ Trade(c) \/ Add(c) \/ Drain(c)
          /\ \A d \in Curves \ {c} : Untouched(d)

Spec == Init /\ [][Next]_vars

=============================================================================
