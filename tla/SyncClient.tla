----------------------------- MODULE SyncClient -----------------------------
(***************************************************************************)
(* peer/client.go and peer/extension.go, used without StartLoop, and       *)
(* download/download.go: one connection on which a single goroutine        *)
(* connects, sets up extensions, fetches the metadata, waits to be         *)
(* unchoked and downloads one piece.                                       *)
(*                                                                         *)
(* The peer is honest and TCP keeps the order, but the peer is slow, sends *)
(* what it likes in between, may choke the client and may go away; every   *)
(* wait has a deadline.  A deadline that passes while a message is half    *)
(* read tears the stream: the bytes read are gone, and until a read        *)
(* happens to end where a message ends, noise is read for messages.  A     *)
(* deadline that passes while a request is half written does the same to   *)
(* the peer.  The metadata comes in MetaPieces pieces, the piece in Blocks *)
(* blocks.                                                                 *)
(***************************************************************************)
EXTENDS Naturals, Sequences, FiniteSets, SequencesExt

CONSTANTS MetaPieces,    \* pieces of the metadata
          Blocks,        \* blocks of the piece that is downloaded
          MaxAttempts,   \* tries of download.Piece: 3 in the code
          Greetings      \* what the peer may send of its own accord, once each

ASSUME SyncAssumption ==
    MetaPieces \in Nat \ {0} /\ Blocks \in Nat \ {0} /\ MaxAttempts \in Nat \ {0}

ASSUME GreetingsAssumption ==
    /\ "extension" \in Greetings
    /\ Greetings \subseteq {"extension", "bitfield", "unchoke", "choke"}

VARIABLES
    phase,          \* what the goroutine is doing
    metadataExtId,  \* PeerMetadataExtId # 0
    bufferedMsgs,
    metadata,       \* pieces of it received, in order
    attempt, received, got,   \* Piece and DownloadPiece: blocks counted, and which
    torn,           \* does the stream begin in the middle of a message?
    mismatch,       \* history: the hashes that differed
    spoilt,         \* history: what has gone wrong with the connection
    toPeer, stream, \* the two directions of the connection
    greetings,      \* peer: what it may still send of its own accord
    offers,         \* peer: does its extension handshake offer ut_metadata?
    unchoked        \* peer: "no", "early" (not for the interest), "yes" or "choked" again

clientVars == <<phase, metadataExtId, bufferedMsgs, metadata, attempt, received, got,
                torn, mismatch>>
peerVars == <<toPeer, stream, greetings, offers, unchoked>>
syncVars == <<clientVars, peerVars, spoilt>>

Msg(id, n) == [id |-> id, n |-> n]

\* The number of no piece of metadata and of no block.
Foreign == MetaPieces + Blocks

SyncInit ==
    /\ phase = "none" /\ metadataExtId = FALSE /\ bufferedMsgs = <<>> /\ metadata = <<>>
    /\ attempt = 0 /\ received = 0 /\ got = {}
    /\ torn = FALSE /\ mismatch = {} /\ spoilt = {}
    /\ toPeer = <<>> /\ stream = <<>>
    /\ greetings = Greetings
    /\ offers \in BOOLEAN /\ unchoked = "no"

----------------------------------------------------------------------------
(* The peer *)

Connected == phase \notin {"none", "failed", "panicked", "done"}

\* It sends its extension handshake and its bitfield (which stands for a keepalive
\* too) when it likes, and it may unchoke before it is told of any interest.
PeerGreets(g) ==
    /\ Connected /\ g \in greetings \ {"choke"}
    /\ greetings' = greetings \ {g}
    /\ IF g = "unchoke" /\ unchoked # "no"
       THEN UNCHANGED <<stream, unchoked>>
       ELSE /\ stream' = Append(stream, Msg(g, 0))
            /\ unchoked' = IF g = "unchoke" THEN "early" ELSE unchoked
    /\ UNCHANGED <<clientVars, spoilt, toPeer, offers>>

\* It may choke a client that it has unchoked, once, and unchoke it again.
PeerChokes ==
    /\ Connected
    /\ \/ /\ "choke" \in greetings /\ unchoked \in {"early", "yes"}
          /\ greetings' = greetings \ {"choke"}
          /\ unchoked' = "choked" /\ stream' = Append(stream, Msg("choke", 0))
       \/ /\ unchoked = "choked"
          /\ unchoked' = "early" /\ stream' = Append(stream, Msg("unchoke", 0))
          /\ UNCHANGED greetings
    /\ UNCHANGED <<clientVars, spoilt, toPeer, offers>>

\* It answers what it is sent, in order.  It need not have the metadata, it drops
\* the requests of a client that it chokes, and requests for metadata that go by
\* the id of a false extension handshake.
PeerAnswers ==
    /\ Connected /\ toPeer # <<>> /\ Head(toPeer).id # "noise"
    /\ toPeer' = Tail(toPeer)
    /\ LET m == Head(toPeer) IN
       \/ /\ m.id = "metadata"
          /\ \/ \E id \in {"data", "reject"} : stream' = Append(stream, Msg(id, m.n))
             \/ "torn" \in spoilt /\ UNCHANGED stream
          /\ UNCHANGED <<unchoked, spoilt>>
       \/ /\ m.id = "interested"
          /\ IF unchoked \in {"no", "choked"}
             THEN stream' = Append(stream, Msg("unchoke", 0)) /\ unchoked' = "yes"
             ELSE UNCHANGED <<stream, unchoked>>
          /\ UNCHANGED spoilt
       \/ /\ m.id = "request"
          /\ IF unchoked \in {"early", "yes"}
             THEN stream' = Append(stream, Msg("piece", m.n)) /\ UNCHANGED spoilt
             ELSE spoilt' = spoilt \cup {"dropped"} /\ UNCHANGED stream
          /\ UNCHANGED unchoked
    /\ UNCHANGED <<clientVars, greetings, offers>>

\* Behind a request cut in two it reads noise, until it is in step again; it may
\* take some of it for a request, and send a piece that is no block.
PeerAstray ==
    /\ Connected /\ toPeer # <<>> /\ Head(toPeer).id = "noise"
    /\ \E k \in 2 .. Len(toPeer) + 1 : toPeer' = SubSeq(toPeer, k, Len(toPeer))
    /\ stream' \in {stream, Append(stream, Msg("piece", Foreign))}
    /\ UNCHANGED <<clientVars, spoilt, greetings, offers, unchoked>>

----------------------------------------------------------------------------
(* Reading *)

\* What noise can be taken for: a message to pass over, or any that matters.
Noise == {Msg(id, Foreign) : id \in {"choke", "extension", "unchoke", "data", "reject", "piece"}}

\* A read that begins in the middle of a message ends anywhere behind it.
Astray ==
    \E k \in 1 .. Len(stream) + 1 :
        /\ stream' = SubSeq(stream, k, Len(stream))
        /\ \/ torn' = TRUE /\ k <= Len(stream)
           \/ torn' = FALSE /\ k > 1

\* The messages that may be read next.
Readable == IF bufferedMsgs # <<>> THEN {Head(bufferedMsgs)}
            ELSE IF torn THEN Noise
            ELSE IF stream # <<>> THEN {Head(stream)} ELSE {}

\* c.ReadMessage: first what NewClient kept, then the connection.
Reads(m) ==
    /\ m \in Readable
    /\ IF bufferedMsgs # <<>>
       THEN bufferedMsgs' = Tail(bufferedMsgs) /\ UNCHANGED <<stream, torn>>
       ELSE /\ UNCHANGED bufferedMsgs
            /\ IF torn THEN Astray ELSE stream' = Tail(stream) /\ UNCHANGED torn

\* A deadline passes in the middle of a message, or between two.
Interrupted ==
    \/ UNCHANGED <<stream, torn, spoilt>>
    \/ ~torn /\ stream # <<>> /\ torn' = TRUE /\ spoilt' = spoilt \cup {"torn"}
       /\ UNCHANGED stream
    \/ torn /\ Astray /\ UNCHANGED spoilt

----------------------------------------------------------------------------
(* NewClient and SetupExtensions *)

\* The dial and the handshake succeed, and the extension handshake is sent.
Connects ==
    /\ phase = "none"
    /\ phase' = "init"
    /\ UNCHANGED <<metadataExtId, bufferedMsgs, metadata, attempt, received, got, torn,
                   mismatch, spoilt, peerVars>>

\* Mutant of NewClientReads: the extension handshake is dropped like a bitfield.
NewClientReadsIgnores ==
    /\ phase = "init" /\ stream # <<>>
    /\ LET m == Head(stream) IN
       bufferedMsgs' = IF m.id \in {"bitfield", "extension"} THEN bufferedMsgs
                       ELSE Append(bufferedMsgs, m)
    /\ stream' = Tail(stream)
    /\ UNCHANGED <<phase, metadataExtId, metadata, attempt, received, got, torn, mismatch,
                   spoilt, toPeer, greetings, offers, unchoked>>

\* The first messages are read off the connection, on which no deadline has
\* passed yet: the bitfield and keepalives are dropped, an extension handshake is
\* looked at, the rest is kept.
NewClientReads ==
    /\ phase = "init" /\ stream # <<>>
    /\ LET m == Head(stream) IN
       /\ metadataExtId' = (metadataExtId \/ (m.id = "extension" /\ offers))
       /\ bufferedMsgs' = IF m.id \in {"bitfield", "extension"} THEN bufferedMsgs
                          ELSE Append(bufferedMsgs, m)
    /\ stream' = Tail(stream)
    /\ UNCHANGED <<phase, metadata, attempt, received, got, torn, mismatch, spoilt, toPeer,
                   greetings, offers, unchoked>>

\* In NewClient the deadline is the normal way out.
NewClientReturns ==
    /\ phase = "init"
    /\ Interrupted
    /\ phase' = "setup"
    /\ UNCHANGED <<metadataExtId, bufferedMsgs, metadata, attempt, received, got,
                   mismatch, toPeer, greetings, offers, unchoked>>

\* SetupExtensions needs to wait only if NewClient did not see the handshake.
SetupKnows ==
    /\ phase = "setup" /\ metadataExtId
    /\ phase' = "ready"
    /\ UNCHANGED <<metadataExtId, bufferedMsgs, metadata, attempt, received, got, torn,
                   mismatch, spoilt, peerVars>>

\* DoExtensionHandshake passes over everything else.  What a false handshake
\* offers is anyone's guess.
SetupReads(m) ==
    /\ phase = "setup" /\ ~metadataExtId
    /\ Reads(m)
    /\ metadataExtId' \in {m.id = "extension" /\ ok :
                              ok \in IF m.n = Foreign THEN BOOLEAN ELSE {offers}}
    /\ phase' = IF m.id # "extension" THEN "setup"
                ELSE IF metadataExtId' THEN "ready" ELSE "failed"
    /\ UNCHANGED <<metadata, attempt, received, got, mismatch, spoilt, toPeer, greetings,
                   offers, unchoked>>

----------------------------------------------------------------------------
(* FetchMetadata and ToTorrentFile *)

FetchMetadata ==
    /\ phase = "ready"
    /\ phase' = "metadata"
    /\ toPeer' = Append(toPeer, Msg("metadata", 0))
    /\ UNCHANGED <<metadataExtId, bufferedMsgs, metadata, attempt, received, got, torn,
                   mismatch, spoilt, stream, greetings, offers, unchoked>>

Whole == [i \in 1 .. MetaPieces |-> i - 1]

\* requestMetadataPiece passes over messages other than extension messages, and
\* takes whatever data comes for the piece it asked for.  After the last piece
\* ToTorrentFile compares the hash, and "interested" is sent.  (The total_size of
\* a false piece only moves the point at which the hash differs.)
MetadataReads(m) ==
    /\ phase = "metadata"
    /\ Reads(m)
    /\ metadata' = IF m.id = "data" THEN Append(metadata, m.n) ELSE metadata
    /\ mismatch' = IF Len(metadata') = MetaPieces /\ metadata' # Whole
                   THEN mismatch \cup {"metadata"} ELSE mismatch
    /\ phase' = IF m.id \in {"reject", "extension"} \/ mismatch' # {} THEN "failed"
                ELSE IF Len(metadata') = MetaPieces THEN "unchoke" ELSE "metadata"
    /\ toPeer' = IF phase' = "unchoke" THEN Append(toPeer, Msg("interested", 0))
                 ELSE IF phase' = "metadata" /\ m.id = "data"
                 THEN Append(toPeer, Msg("metadata", Len(metadata')))
                 ELSE toPeer
    /\ UNCHANGED <<metadataExtId, attempt, received, got, spoilt, greetings, offers,
                   unchoked>>

----------------------------------------------------------------------------
(* WaitForUnchoke, download.Piece and DownloadPiece *)

WaitForUnchoke(m) ==
    /\ phase = "unchoke"
    /\ Reads(m)
    /\ phase' = IF m.id = "unchoke" THEN "request" ELSE phase
    /\ UNCHANGED <<metadataExtId, metadata, attempt, received, got, mismatch, spoilt,
                   toPeer, greetings, offers, unchoked>>

Requests == [i \in 1 .. Blocks |-> Msg("request", i)]

\* The next attempt asks for every block again.  Its deadline may pass, or the
\* connection break, while the requests are written: the attempt has failed with
\* some of them sent, and perhaps a part of one more.
RequestBlocks ==
    /\ phase = "request"
    /\ IF attempt = MaxAttempts
       THEN phase' = "failed" /\ UNCHANGED <<attempt, toPeer, spoilt>>
       ELSE /\ attempt' = attempt + 1
            /\ \/ phase' = "piece" /\ toPeer' = toPeer \o Requests /\ UNCHANGED spoilt
               \/ /\ \E k \in 0 .. Blocks - 1, part \in {<<>>, <<Msg("noise", 0)>>} :
                         toPeer' = toPeer \o SubSeq(Requests, 1, k) \o part
                  /\ spoilt' = spoilt \cup {"write"} /\ UNCHANGED phase
    /\ UNCHANGED <<metadataExtId, bufferedMsgs, metadata, received, got, torn, mismatch,
                   stream, greetings, offers, unchoked>>

\* The blocks that are right once a piece message is copied into the buffer: a
\* false one may overwrite any of them.
Copied(m) == IF m.n \in 1 .. Blocks THEN {got \cup {m.n}} ELSE SUBSET got

\* Mutant of DownloadPieceReads: the last block is not waited for.
DownloadPieceReadsEarly(m) ==
    /\ phase = "piece"
    /\ Reads(m)
    /\ IF m.id # "piece"
       THEN UNCHANGED <<phase, received, got, mismatch>>
       ELSE \E blocks \in Copied(m) :
                IF received + 1 < Blocks - 1
                THEN received' = received + 1 /\ got' = blocks /\ UNCHANGED <<phase, mismatch>>
                ELSE /\ received' = 0 /\ got' = {}
                     /\ IF blocks = 1 .. Blocks
                        THEN phase' = "done" /\ UNCHANGED mismatch
                        ELSE phase' = "request" /\ mismatch' = mismatch \cup {"piece"}
    /\ UNCHANGED <<metadataExtId, metadata, attempt, spoilt, toPeer, greetings, offers,
                   unchoked>>

\* Every piece message counts, one left over from an earlier attempt too; when
\* as many as there are blocks have come, the hash is compared.
DownloadPieceReads(m) ==
    /\ phase = "piece"
    /\ Reads(m)
    /\ IF m.id # "piece"
       THEN UNCHANGED <<phase, received, got, mismatch>>
       ELSE \E blocks \in Copied(m) :
                IF received + 1 < Blocks
                THEN received' = received + 1 /\ got' = blocks /\ UNCHANGED <<phase, mismatch>>
                ELSE /\ received' = 0 /\ got' = {}
                     /\ IF blocks = 1 .. Blocks
                        THEN phase' = "done" /\ UNCHANGED mismatch
                        ELSE phase' = "request" /\ mismatch' = mismatch \cup {"piece"}
    /\ UNCHANGED <<metadataExtId, metadata, attempt, spoilt, toPeer, greetings, offers,
                   unchoked>>

DownloadPieceTimesOut ==
    /\ phase = "piece" /\ bufferedMsgs = <<>>
    /\ Interrupted
    /\ phase' = "request" /\ received' = 0 /\ got' = {}
    /\ UNCHANGED <<metadataExtId, bufferedMsgs, metadata, attempt, mismatch, toPeer,
                   greetings, offers, unchoked>>

----------------------------------------------------------------------------

\* The connection ends, and what is on it is lost.
Ends(phases, how) ==
    /\ phase \in phases
    /\ phase' = how
    /\ torn' = FALSE /\ bufferedMsgs' = <<>> /\ stream' = <<>> /\ toPeer' = <<>>
    /\ UNCHANGED <<metadataExtId, metadata, attempt, received, got, mismatch, spoilt,
                   greetings, offers, unchoked>>

\* The dial or the handshake fails, or a read or write, because the peer has gone.
Fails(phases) == Ends(phases, "failed")

\* Mutant of TimesOut: the wait for the unchoke has no deadline.
TimesOutUnlessChoked(phases) == bufferedMsgs = <<>> /\ Fails(phases \ {"unchoke"})

\* Other deadlines end the command, and with it the connection.
TimesOut(phases) == bufferedMsgs = <<>> /\ Fails(phases)

\* Noise with the id of a message but not its fields: an empty extension message,
\* a piece of less than eight bytes or whose begin is outside of the piece.
Panics ==
    /\ bufferedMsgs = <<>> /\ torn
    /\ Ends({"metadata", "piece"}, "panicked")

Peer == PeerAnswers \/ PeerAstray \/ PeerChokes \/ \E g \in greetings : PeerGreets(g)

\* What is done once connectToWorkingPeer has returned the client.
Command ==
    \/ FetchMetadata \/ RequestBlocks \/ DownloadPieceTimesOut
    \/ \E m \in Readable : MetadataReads(m) \/ WaitForUnchoke(m) \/ DownloadPieceReads(m)
    \/ TimesOut({"metadata", "unchoke"})
    \/ Panics

----------------------------------------------------------------------------
(* Properties *)

\* Metadata and blocks are taken in the order in which they come, without a look
\* at the piece they belong to, and blocks of a timed-out attempt are counted in
\* the next.  With an honest peer the hashes agree all the same, that of the
\* metadata unless a deadline has cut a message in two, that of the piece unless
\* besides no request was cut off or dropped by a peer that chokes: what an
\* attempt misses at one end it has got from the one before at the other.
HonestPeerMatches ==
    /\ "metadata" \in mismatch => "torn" \in spoilt
    /\ "piece" \in mismatch => spoilt # {}

\* The client waits in vain for a peer that has sent all it must send in these
\* cases only: a deadline has cut a message in two; NewClient has swallowed an
\* extension handshake without ut_metadata; the unchoke came before the interest
\* and was passed over while the metadata was fetched, or was taken back;
\* requests were cut off, or dropped by a peer that chokes, whose choke
\* DownloadPiece passes over.  In all others what it waits for is kept, on its
\* way or asked for.
NeverStarved ==
    (/\ phase \in {"metadata", "unchoke", "piece"} \/ (phase = "setup" /\ ~metadataExtId)
     /\ bufferedMsgs = <<>> /\ (torn \/ stream = <<>>)
     /\ toPeer = <<>> /\ "extension" \notin greetings) =>
        \/ "torn" \in spoilt
        \/ phase = "setup" /\ ~offers
        \/ phase = "unchoke" /\ unchoked \in {"early", "choked"}
        \/ phase = "piece" /\ spoilt # {}
=============================================================================
