------------------------------- MODULE Relay --------------------------------
(***************************************************************************)
(* send_socket_data, the endless loop of the children that the overlay     *)
(* routers and the tunnel server fork (src/lab6/overlayrouter.c,           *)
(* src/lab4/tunneld.c): datagrams of one client go to one server and back. *)
(* A relay is a record of the server's address and the client's.           *)
(***************************************************************************)

CONSTANT NoAddress   \* client_addr == NULL

\* Mutation of FromServer: the test of the port is inverted.
FromServerInverted(relay, src) == src.port # relay.server.port

\* Does the datagram come from the server?  The two host names that are compared
\* stand in the one static buffer of inet_ntoa and are always equal, so the
\* ports decide.
FromServer(relay, src) == src.port = relay.server.port

\* client_addr after a datagram: the sender of the first one ever, before it is
\* asked whether that was the server.
Learn(relay, src) == IF relay.client = NoAddress THEN src ELSE relay.client

\* Mutation of Onward: every datagram is read into recv_sock, where client_addr
\* points, so the client is whoever sent the last one.
OnwardLast(relay, src) == IF FromServer(relay, src) THEN src ELSE relay.server

\* Where the datagram goes, NoAddress if it is dropped.
Onward(relay, src) == IF FromServer(relay, src) THEN relay.client ELSE relay.server
=============================================================================
