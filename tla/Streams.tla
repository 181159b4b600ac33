------------------------------- MODULE Streams -------------------------------
(***************************************************************************)
(* What AF_UNIX stream sockets promise to programs: an end gets a partner  *)
(* when it asked for one and a new end is made for it; what an end sends   *)
(* waits at its partner, in order, and nowhere else; an end starts with    *)
(* nothing to read.                                                        *)
(***************************************************************************)
EXTENDS Sequences, Integers

CONSTANTS Ends, Bytes, Capacity, NoEnd

VARIABLES
    partner,    \* of each end, the other end of its stream, or NoEnd
    asking,     \* the ends that wait for a partner
    inbox       \* of each end, the bytes that wait to be received there

Partnered(e) == partner[e] # NoEnd

Init ==
    /\ partner = [e \in Ends |-> NoEnd]
    /\ asking = {}
    /\ inbox = [e \in Ends |-> <<>>]

Ask(e) ==
    /\ ~Partnered(e) /\ e \notin asking
    /\ asking' = asking \cup {e}
    /\ UNCHANGED <<partner, inbox>>

\* An end that asks, and one that does not, become partners.
Join(e, f) ==
    /\ e \in asking /\ f \notin asking /\ ~Partnered(f)
    /\ partner' = [partner EXCEPT ![e] = f, ![f] = e]
    /\ asking' = asking \ {e}
    /\ UNCHANGED inbox

\* Some bytes go from e to its partner, behind those that wait there.
Send(e) ==
    LET f == partner[e] IN
    /\ Partnered(e)
    /\ \E n \in 1 .. Capacity - Len(inbox[f]) : \E s \in [1 .. n -> Bytes] :
        inbox' = [inbox EXCEPT ![f] = @ \o s]
    /\ UNCHANGED <<partner, asking>>

\* The first n bytes at e are received.
Receive(e) ==
    /\ \E n \in 1 .. Len(inbox[e]) :
        inbox' = [inbox EXCEPT ![e] = SubSeq(@, n + 1, Len(@))]
    /\ UNCHANGED <<partner, asking>>

\* e goes: what it has not received is lost, and its partner has none any more.
Close(e) ==
    /\ e \notin asking'
    /\ inbox' = [inbox EXCEPT ![e] = <<>>]
    /\ asking' = asking \ {e}
    /\ partner' = [f \in Ends |-> IF e \in {f, partner[f]} THEN NoEnd ELSE partner[f]]

Next ==
    \/ \E e \in Ends : Ask(e) \/ Send(e) \/ Receive(e) \/ Close(e)
    \/ \E e \in asking, f \in Ends : Join(e, f)

Spec == Init /\ [][Next]_<<partner, asking, inbox>>
==============================================================================
