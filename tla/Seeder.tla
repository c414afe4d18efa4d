------------------------------- MODULE Seeder -------------------------------
(***************************************************************************)
(* seeder/handler.go: handlePeer, for one connection, with this program's  *)
(* own client at the other end (NewClient without extensions,              *)
(* SendInterested, WaitForUnchoke, DownloadPiece).  The client is patient: *)
(* its deadlines are left out.  seeder/server.go starts one handlePeer per *)
(* connection, and LoadPieces has read and verified the pieces before.     *)
(*                                                                         *)
(* The connection keeps the order of bytes; of a message its kind and size *)
(* are kept, since the handler reads some of them by number of bytes.      *)
(***************************************************************************)
EXTENDS Naturals, Sequences, SequencesExt

CONSTANTS Blocks    \* number of blocks the client asks for, at least one

VARIABLES
    handler,          \* "accept", "answer", "second", "bitfield", "serve" or "closed"
    peerInterested,
    advertised,       \* history: has the bitfield been sent?
    toSeeder, toClient,
    client,           \* "dial", "handshake", "init", "unchoke", "piece" or "done"
    received          \* blocks the client has got

handlerVars == <<handler, peerInterested, advertised>>
clientVars == <<client, received>>
vars == <<handlerVars, clientVars, toSeeder, toClient>>

HandshakeSize == 68

Size(m) == CASE m.kind = "handshake" -> HandshakeSize
             [] m.kind = "request" -> 17
             [] OTHER -> 5

Msg(kind, n) == [kind |-> kind, n |-> n]
Plain(kind) == Msg(kind, 0)

\* Bytes of the first n messages that have arrived.
Bytes(n) == FoldLeft(LAMBDA sum, m : sum + Size(m), 0, SubSeq(toSeeder, 1, n))

Init ==
    /\ handler = "accept" /\ peerInterested = FALSE /\ advertised = FALSE
    /\ client = "dial" /\ received = 0
    /\ toSeeder = <<>> /\ toClient = <<>>

----------------------------------------------------------------------------
(* handlePeer *)

Sends(m) == toClient' = Append(toClient, m)

\* A peer of another torrent is turned away.
ReceivesHandshake ==
    /\ handler = "accept" /\ toSeeder # <<>>
    /\ toSeeder' = Tail(toSeeder)
    /\ handler' = IF Head(toSeeder) = Msg("handshake", 1) THEN "answer" ELSE "closed"
    /\ UNCHANGED <<peerInterested, advertised, clientVars, toClient>>

\* DoHandshake writes the handshake of this side ...
SendsHandshake ==
    /\ handler = "answer"
    /\ Sends(Msg("handshake", 1))
    /\ handler' = "second"
    /\ UNCHANGED <<peerInterested, advertised, clientVars, toSeeder>>

\* ... and then reads one.  The bytes are not looked at; if they end within a
\* message, what follows is noise, and the connection is given up.
ReadsSecondHandshake ==
    /\ handler = "second"
    /\ \E n \in 1 .. Len(toSeeder) :
        /\ Bytes(n - 1) < HandshakeSize /\ Bytes(n) >= HandshakeSize
        /\ handler' = IF Bytes(n) = HandshakeSize THEN "bitfield" ELSE "closed"
        /\ toSeeder' = SubSeq(toSeeder, n + 1, Len(toSeeder))
    /\ UNCHANGED <<peerInterested, advertised, clientVars, toClient>>

SendsBitfield ==
    /\ handler = "bitfield"
    /\ Sends(Plain("bitfield"))
    /\ handler' = "serve" /\ advertised' = TRUE
    /\ UNCHANGED <<peerInterested, clientVars, toSeeder>>

\* The main loop; keepalives, cancels and requests made while not interested or
\* out of bounds change nothing.
Serves ==
    /\ handler = "serve" /\ toSeeder # <<>>
    /\ toSeeder' = Tail(toSeeder)
    /\ LET m == Head(toSeeder) IN
       CASE m.kind = "interested" ->
              peerInterested' = TRUE /\ Sends(Plain("unchoke"))
         [] m.kind = "notInterested" ->
              peerInterested' = FALSE /\ Sends(Plain("choke"))
         [] m.kind = "request" /\ peerInterested /\ m.n \in 1 .. Blocks ->
              Sends(Msg("piece", m.n)) /\ UNCHANGED peerInterested
         [] OTHER -> UNCHANGED <<toClient, peerInterested>>
    /\ UNCHANGED <<handler, advertised, clientVars>>

\* A read or a write fails because the client has closed the connection.
ConnectionFails ==
    /\ handler # "closed" /\ client = "done"
    /\ handler' = "closed"
    /\ UNCHANGED <<peerInterested, advertised, clientVars, toSeeder, toClient>>

Handler == ReceivesHandshake \/ SendsHandshake \/ ReadsSecondHandshake \/ SendsBitfield
           \/ Serves \/ ConnectionFails

----------------------------------------------------------------------------
(* The client *)

Goes(from, to) == client = from /\ client' = to

ClientConnects ==
    /\ Goes("dial", "handshake")
    /\ toSeeder' = Append(toSeeder, Msg("handshake", 1))
    /\ UNCHANGED <<received, handlerVars, toClient>>

ClientGetsHandshake ==
    /\ Goes("handshake", "init")
    /\ toClient # <<>> /\ Head(toClient).kind = "handshake"
    /\ toClient' = Tail(toClient)
    /\ UNCHANGED <<received, handlerVars, toSeeder>>

\* NewClient reads what has come, be it nothing, and returns.
ClientIsInterested ==
    /\ Goes("init", "unchoke")
    /\ toClient' \in {toClient, <<>>}
    /\ toSeeder' = Append(toSeeder, Plain("interested"))
    /\ UNCHANGED <<received, handlerVars>>

ClientReads ==
    /\ client \in {"unchoke", "piece"} /\ toClient # <<>>
    /\ toClient' = Tail(toClient)
    /\ LET m == Head(toClient) IN
       \/ /\ client = "unchoke" /\ m.kind = "unchoke"
          /\ client' = "piece"
          /\ toSeeder' = toSeeder \o [i \in 1 .. Blocks |-> Msg("request", i)]
          /\ UNCHANGED received
       \/ /\ client = "piece" /\ m.kind = "piece"
          /\ received' = received + 1
          /\ client' = IF received' = Blocks THEN "done" ELSE "piece"
          /\ UNCHANGED toSeeder
       \/ /\ m.kind \notin {"unchoke", "piece"}
          /\ UNCHANGED <<client, received, toSeeder>>
    /\ UNCHANGED handlerVars

Client == ClientConnects \/ ClientGetsHandshake \/ ClientIsInterested \/ ClientReads

----------------------------------------------------------------------------

Next == Handler \/ Client

\* Both goroutines run whenever they can.
FairSpec == Init /\ [][Next]_vars /\ WF_vars(Handler) /\ WF_vars(Client)

----------------------------------------------------------------------------

\* docs/api-reference.md:951-953, "Receive handshake", "Send handshake back",
\* "Send bitfield (all pieces available)": a peer whose handshake is accepted is
\* sent the bitfield.
AcceptedPeerGetsBitfield == (handler = "answer") ~> advertised
=============================================================================
