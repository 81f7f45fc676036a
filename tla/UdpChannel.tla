------------------------------ MODULE UdpChannel ------------------------------
(***************************************************************************)
(* The UDP channel.  A client that has joined proves over UDP that it got   *)
(* the magic the server sent it over TCP; the address of that datagram is   *)
(* then the one its datagrams must come from and the server's go to.        *)
(*                                                                         *)
(* A datagram names its client by one byte, the ID plus one.  IDs are       *)
(* reused, two players who connect at once may get the same one, and        *)
(* datagrams are lost, duplicated, reordered and late.  One thread handles  *)
(* them; others send, and read without a lock what it stores.               *)
(***************************************************************************)
EXTENDS Integers, FiniteSets, FiniteSetsExt

CONSTANTS
    Clients,        \* sessions: a player who returns is another one
    Address,        \* for each the address its datagrams come from
    Bytes,          \* number of values a byte has
    None

ASSUME ConstantsAssumption ==
    /\ IsFiniteSet(Clients)
    /\ None \notin Clients
    /\ Bytes \in Nat \ {0}
    /\ None \notin {Address[c] : c \in Clients}

VARIABLES
    mClients,       \* the clients in the server's list
    mID,            \* every client's ID; -1 at first
    openID,         \* the ID OpenID returned, until SetID stores it; -1 if none
    mMagic,         \* clients with a magic, which nobody else has
    mUDPAddress, mIsUDPConnected,
    mDisconnected,  \* clients that are disconnected
    network,        \* datagrams on their way
    packet,         \* the datagram that UDPServerMain handles
    todo,           \* clients it has not looked at
    step,           \* "visit", or what is left to store of a handshake
    proven,         \* the client whose handshake that is
    sending,        \* clients to whom UDPSend is about to send
    parsed,         \* history: for each client the sessions whose datagrams were parsed as its
    sent            \* history: for each client the addresses UDPSend used

clientVars == <<mClients, mID, openID, mDisconnected>>
channelVars == <<mMagic, mUDPAddress, mIsUDPConnected>>
threadVars == <<packet, todo, step, proven>>
historyVars == <<parsed, sent>>
udpVars == <<mClients, mID, openID, mMagic, mUDPAddress, mIsUDPConnected, mDisconnected, network, packet,
          todo, step, proven, sending, parsed, sent>>

\* The client writes its ID plus one into a byte, the server takes one off again.
ByteOf(id) == (id + 1) % Bytes
IDOf(byte) == (byte - 1) % Bytes

Addresses == {Address[c] : c \in Clients}
Datagram == [from: Addresses, session: Clients, byte: 0..(Bytes - 1), kind: {"magic", "data"}]

UdpTypeOK ==
    /\ mClients \subseteq Clients /\ mDisconnected \subseteq Clients /\ mMagic \subseteq Clients
    /\ mID \in [Clients -> Int] /\ openID \in [Clients -> Int]
    /\ \A c \in Clients : mID[c] >= -1 /\ openID[c] >= -1
    /\ mUDPAddress \in [Clients -> Addresses \cup {None}]
    /\ mIsUDPConnected \subseteq Clients
    /\ network \subseteq Datagram
    /\ packet \in Datagram \cup {None}
    /\ todo \subseteq Clients
    /\ step \in {"visit", "address", "flag"}
    /\ proven \in Clients \cup {None}
    /\ sending \subseteq Clients
    /\ parsed \in [Clients -> SUBSET Clients]
    /\ sent \in [Clients -> SUBSET (Addresses \cup {None})]

UdpInit ==
    /\ mClients = {}
    /\ mID = [c \in Clients |-> -1]
    /\ openID = [c \in Clients |-> -1]
    /\ mMagic = {}
    /\ mUDPAddress = [c \in Clients |-> None]
    /\ mIsUDPConnected = {}
    /\ mDisconnected = {}
    /\ network = {}
    /\ packet = None
    /\ todo = {}
    /\ step = "visit"
    /\ proven = None
    /\ sending = {}
    /\ parsed = [c \in Clients |-> {}]
    /\ sent = [c \in Clients |-> {}]

-----------------------------------------------------------------------------
(* A session: SessionRegistry and ClientSocket have the rest of it.        *)

InsertClient(c) ==
    /\ c \notin mClients \cup mDisconnected
    /\ mClients' = mClients \cup {c}
    /\ UNCHANGED <<mID, openID, mDisconnected, channelVars, network, threadVars, sending, historyVars>>

\* The least ID that no listed client has.
OpenID == Min({i \in 0..Cardinality(mClients) : \A d \in mClients : mID[d] # i})

FindID(c) ==
    /\ c \in mClients \ mDisconnected
    /\ mID[c] = -1 /\ openID[c] = -1
    /\ openID' = [openID EXCEPT ![c] = OpenID]
    /\ UNCHANGED <<mClients, mID, mDisconnected, channelVars, network, threadVars, sending, historyVars>>

SetID(c) ==
    /\ mID[c] = -1 /\ openID[c] # -1
    /\ mID' = [mID EXCEPT ![c] = openID[c]]
    /\ UNCHANGED <<mClients, openID, mDisconnected, channelVars, network, threadVars, sending, historyVars>>

\* OnConnect, after the mods: the magic is drawn and sent over TCP.
SetMagic(c) ==
    /\ c \in mClients \ mDisconnected
    /\ mID[c] # -1
    /\ c \notin mMagic /\ mUDPAddress[c] = None /\ c \notin mIsUDPConnected /\ proven # c
    /\ mMagic' = mMagic \cup {c}
    /\ UNCHANGED <<clientVars, mUDPAddress, mIsUDPConnected, network, threadVars, sending, historyVars>>

DisconnectClient(c) ==
    /\ c \in mClients \ mDisconnected
    /\ mDisconnected' = mDisconnected \cup {c}
    /\ UNCHANGED <<mClients, mID, openID, channelVars, network, threadVars, sending, historyVars>>

\* The UDP thread may still hold the client, or have it in its copy of the list.
RemoveClient(c) ==
    /\ c \in mClients \cap mDisconnected
    /\ mClients' = mClients \ {c}
    /\ UNCHANGED <<mID, openID, mDisconnected, channelVars, network, threadVars, sending, historyVars>>

-----------------------------------------------------------------------------
(* The client's side and the network.                                      *)

KnowsMagic(c) == c \in mMagic \/ mUDPAddress[c] # None \/ proven = c

\* The client sends its magic until it hears from the server, and its data.
ClientSends(c, kind) ==
    /\ c \in mClients \ mDisconnected
    /\ KnowsMagic(c)
    /\ network' = network \cup {[from |-> Address[c], session |-> c, byte |-> ByteOf(mID[c]), kind |-> kind]}
    /\ UNCHANGED <<clientVars, channelVars, threadVars, sending, historyVars>>

\* That it is lost shows only when it could have been received.
Lose(m) ==
    /\ packet = None
    /\ network' = network \ {m}
    /\ UNCHANGED <<clientVars, channelVars, threadVars, sending, historyVars>>

-----------------------------------------------------------------------------
(* UDPServerMain.                                                          *)

\* ForEachClient copies the list.  A datagram may come a second time.
Receive(m) ==
    /\ packet = None
    /\ packet' = m
    /\ todo' = mClients
    /\ network' \in {network, network \ {m}}
    /\ UNCHANGED <<clientVars, channelVars, step, proven, sending, historyVars>>

Matches(c) == mID[c] = IDOf(packet.byte)

Visiting(c) == packet # None /\ step = "visit" /\ c \in todo

\* Not this one; or it was removed since.
PassOver(c) ==
    /\ Visiting(c)
    /\ ~Matches(c) \/ c \notin mClients
    /\ todo' = todo \ {c}
    /\ UNCHANGED <<packet, step, proven, clientVars, channelVars, network, sending, historyVars>>

AwaitsMagic(c) == mUDPAddress[c] = None /\ c \notin mIsUDPConnected /\ c \in mMagic

AcceptMagic(c) ==
    /\ Visiting(c) /\ Matches(c) /\ AwaitsMagic(c)
    /\ packet.kind = "magic" /\ packet.session = c
    /\ mMagic' = mMagic \ {c}
    /\ proven' = c
    /\ step' = "address"
    /\ UNCHANGED <<packet, todo, mUDPAddress, mIsUDPConnected, clientVars, network, sending, historyVars>>

\* Mutant of StoreAddress: the flag is stored first, the address after it.
StoreAddress_Last ==
    /\ step = "address"
    /\ IF proven \in mIsUDPConnected
       THEN /\ mUDPAddress' = [mUDPAddress EXCEPT ![proven] = packet.from]
            /\ step' = "flag"
            /\ UNCHANGED mIsUDPConnected
       ELSE /\ mIsUDPConnected' = mIsUDPConnected \cup {proven}
            /\ UNCHANGED <<mUDPAddress, step>>
    /\ UNCHANGED <<mMagic, packet, todo, proven, clientVars, network, sending, historyVars>>

StoreAddress ==
    /\ step = "address"
    /\ mUDPAddress' = [mUDPAddress EXCEPT ![proven] = packet.from]
    /\ step' = "flag"
    /\ UNCHANGED <<mMagic, mIsUDPConnected, packet, todo, proven, clientVars, network, sending, historyVars>>

StoreConnected ==
    /\ step = "flag"
    /\ mIsUDPConnected' = mIsUDPConnected \cup {proven}
    /\ step' = "visit"
    /\ proven' = None
    /\ todo' = {}
    /\ UNCHANGED <<mMagic, mUDPAddress, packet, clientVars, network, sending, historyVars>>

\* Mutant of Parse: the address is not compared.
Parse_AnyAddress(c) ==
    /\ Visiting(c) /\ Matches(c) /\ ~AwaitsMagic(c)
    /\ parsed' = [parsed EXCEPT ![c] = @ \cup {packet.session}]
    /\ todo' = todo \ {c}
    /\ UNCHANGED <<packet, step, proven, channelVars, clientVars, network, sending, sent>>

\* GlobalParser, VehicleSync's and Fleet's; the other clients are looked at too.
Parse(c) ==
    /\ Visiting(c) /\ Matches(c) /\ ~AwaitsMagic(c)
    /\ mUDPAddress[c] = packet.from
    /\ parsed' = [parsed EXCEPT ![c] = @ \cup {packet.session}]
    /\ todo' = todo \ {c}
    /\ UNCHANGED <<packet, step, proven, channelVars, clientVars, network, sending, sent>>

\* Mutant of Ignore: a client that is another's ends the search.
Ignore_FirstClient(c) ==
    /\ Visiting(c)
    /\ \/ ~Matches(c)
       \/ AwaitsMagic(c) /\ ~(packet.kind = "magic" /\ packet.session = c)
       \/ ~AwaitsMagic(c) /\ mUDPAddress[c] # packet.from
    /\ todo' = {}
    /\ UNCHANGED <<packet, step, proven, channelVars, clientVars, network, sending, historyVars>>

\* The wrong size, magic or address: nobody else is looked at.
Ignore(c) ==
    /\ Visiting(c) /\ Matches(c)
    /\ \/ AwaitsMagic(c) /\ ~(packet.kind = "magic" /\ packet.session = c)
       \/ ~AwaitsMagic(c) /\ mUDPAddress[c] # packet.from
    /\ todo' = {}
    /\ UNCHANGED <<packet, step, proven, channelVars, clientVars, network, sending, historyVars>>

EndOfList ==
    /\ packet # None /\ step = "visit" /\ todo = {}
    /\ packet' = None
    /\ UNCHANGED <<todo, step, proven, channelVars, clientVars, network, sending, historyVars>>

HandleDatagram ==
    \/ \E c \in Clients : PassOver(c) \/ AcceptMagic(c) \/ Parse(c) \/ Ignore(c)
    \/ StoreAddress \/ StoreConnected \/ EndOfList

-----------------------------------------------------------------------------
(* UDPSend, by any thread.                                                 *)

CheckConnected(c) ==
    /\ c \in mIsUDPConnected \ mDisconnected
    /\ c \notin sending
    /\ sending' = sending \cup {c}
    /\ UNCHANGED <<clientVars, channelVars, network, threadVars, historyVars>>

\* A send that fails disconnects the client.
SendTo(c) ==
    /\ c \in sending
    /\ sent' = [sent EXCEPT ![c] = @ \cup {mUDPAddress[c]}]
    /\ sending' = sending \ {c}
    /\ mDisconnected' \in {mDisconnected, mDisconnected \cup {c}}
    /\ UNCHANGED <<mClients, mID, openID, channelVars, network, threadVars, parsed>>

-----------------------------------------------------------------------------
UdpNext ==
    \/ \E c \in Clients :
          \/ InsertClient(c) \/ FindID(c) \/ SetID(c) \/ SetMagic(c) \/ DisconnectClient(c) \/ RemoveClient(c)
          \/ \E kind \in {"magic", "data"} : ClientSends(c, kind)
          \/ CheckConnected(c) \/ SendTo(c)
    \/ \E m \in network : Lose(m) \/ Receive(m)
    \/ HandleDatagram

UdpSpec == UdpInit /\ [][UdpNext]_udpVars

\* The UDP thread goes on.  A client repeats its handshake, and of infinitely
\* many copies the network delivers some.
UdpFairSpec ==
    /\ UdpSpec
    /\ WF_udpVars(HandleDatagram)
    /\ \A c \in Clients :
          /\ WF_udpVars(ClientSends(c, "magic"))
          /\ SF_udpVars(\E m \in network : m.session = c /\ m.kind = "magic" /\ Receive(m))

-----------------------------------------------------------------------------
(* Properties.                                                             *)

\* What is parsed as a client's came from that client; or from an earlier
\* session that had the same ID and the same address, a late datagram.  Sharing
\* an ID, an old ID, or an address alone is not enough.
ParsedAsTheSenders ==
    \A c \in Clients : \A d \in parsed[c] :
        d = c \/ (Address[d] = Address[c] /\ mID[c] = IDOf(ByteOf(mID[d])))

\* UDPSend reads the flag and the address without a lock: it sends to the
\* address that has proven the client's magic, never to the default one.
SendsToProvenAddress == \A c \in Clients : sent[c] \subseteq {Address[c]}

-----------------------------------------------------------------------------
(* An inductive invariant for the two.                                     *)

\* A datagram carries its sender's address and ID, as they are to this day.
Genuine(m) ==
    /\ m.from = Address[m.session]
    /\ mID[m.session] # -1
    /\ m.byte = ByteOf(mID[m.session])

DatagramsAreGenuine ==
    /\ \A m \in network : Genuine(m)
    /\ packet # None => Genuine(packet)

\* The UDP thread stores the address of the datagram that held the client's magic.
HandshakeInHand == step # "visit" => packet # None /\ proven = packet.session

MagicNeedsID == \A c \in Clients : KnowsMagic(c) => mID[c] # -1

\* Each place from which UDPSend can come to read an address has one to read.
AddressesAreProven ==
    /\ \A c \in Clients : mUDPAddress[c] \in {None, Address[c]}
    /\ \A c \in mIsUDPConnected \cup sending : mUDPAddress[c] = Address[c]
    /\ step = "flag" => mUDPAddress[proven] = Address[proven]

\* IDs do not change once they are set, so that what was the sender's stays so.
ParsedWithIDs ==
    \A c \in Clients : \A d \in parsed[c] :
        /\ mID[c] # -1 /\ mID[d] # -1
        /\ Address[d] = Address[c] /\ mID[c] = IDOf(ByteOf(mID[d]))

UdpIndInv ==
    /\ UdpTypeOK /\ DatagramsAreGenuine /\ HandshakeInHand /\ MagicNeedsID
    /\ AddressesAreProven /\ ParsedWithIDs /\ SendsToProvenAddress

-----------------------------------------------------------------------------
\* A client that has its magic is connected by UDP in the end, whatever is lost
\* or late, unless it leaves, shares its ID with another one, or has an ID that
\* no byte holds.
HandshakeCompletes ==
    \A c \in Clients :
        c \in mMagic ~> \/ c \in mIsUDPConnected \cup mDisconnected
                        \/ \E d \in mClients \ {c} : mID[d] = mID[c]
                        \/ mID[c] >= Bytes
=============================================================================
