------------------------------ MODULE Channel -------------------------------
(***************************************************************************)
(* What the transport promises in each direction: the messages delivered   *)
(* are the messages sent, in the order they were sent, each once, with     *)
(* none left out.  Either end may give up at any time.                     *)
(***************************************************************************)
EXTENDS Naturals, Sequences

CONSTANTS Dirs, Payloads

VARIABLES sent, delivered

chanVars == <<sent, delivered>>

Init ==
    /\ sent = [d \in Dirs |-> <<>>]
    /\ delivered = [d \in Dirs |-> <<>>]

Send(d, m) ==
    /\ sent' = [sent EXCEPT ![d] = Append(@, m)]
    /\ UNCHANGED delivered

Deliver(d) ==
    /\ Len(delivered[d]) < Len(sent[d])
    /\ delivered' = [delivered EXCEPT ![d] = Append(@, sent[d][Len(@) + 1])]
    /\ UNCHANGED sent

Next == \E d \in Dirs : Deliver(d) \/ \E m \in Payloads : Send(d, m)

Spec == Init /\ [][Next]_chanVars
=============================================================================
