------------------------------- MODULE PumpEscrow -------------------------------
(* The pump program implements the escrow a bonding curve promises to be. *)
EXTENDS Pump

\* The bonding-curve account's existence and its is_completed flag are the
\* phase, the lamports above the rent the money, the tokens in the curve's
\* token account the goods.  Lamports that wait at an address before its curve
\* is launched count from the launch on.
Phase ==
    [m \in Mints |->
        IF m \notin launched THEN "none"
        ELSE IF bonding_curve[m].is_completed THEN "closed" ELSE "open"]

Held == [m \in Mints |-> IF m \in launched THEN vault[m] - CurveRent ELSE 0]

Stock == [m \in Mints |-> IF m \in launched THEN tokens[m][Pda] ELSE 0]

E == INSTANCE Escrow WITH Curves <- Mints, phase <- Phase, held <- Held, stock <- Stock

\* launch opens a curve, swap and gifts are the only things that happen to an
\* open one and never take lamports out, is_completed is for good, and
\* release_reserves empties a completed curve of lamports and tokens in one
\* step; no instruction touches the curve of a mint it was not given.
ImplementsEscrow == E!Spec

=============================================================================
