-------------------------- MODULE MCServerSessions --------------------------
(* Small instances of ServerSessions for TLC. *)
EXTENDS ServerSessions, TLC

CONSTANTS d1, d2, d3, cam, padded

PeerSymmetry == Permutations(Peer)

\* "cam" and " cam ".
TrimNames == [n \in Name |-> cam]

Client(d, n) == [device |-> d, name |-> n, valid |-> TRUE, common |-> TRUE,
                 auth |-> TRUE, in_order |-> TRUE]

\* Two devices that both want the name "cam", one of them also padded.
GoodClients == {Client(d1, cam), Client(d2, cam), Client(d2, padded)}

\* One device that reconnects, and may then be refused under another name; two others
\* that want its name.
Reconnecting == {Client(d1, cam), [Client(d1, padded) EXCEPT !.valid = FALSE],
                 Client(d2, padded), Client(d3, cam)}
=============================================================================
