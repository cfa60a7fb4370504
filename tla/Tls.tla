--------------------------------- MODULE Tls --------------------------------
(***************************************************************************)
(* Who is talking to whom, and what that lets them call: the TLS switch    *)
(* every binary shares, the identity and the role read from a peer's       *)
(* certificate, the role each RPC asks for, and the identity barectl picks *)
(* from its flags and its config file.                                     *)
(*                                                                         *)
(* A key pair is a number.  A certificate says whose it is (its common     *)
(* name), which role it has (its organizational unit, "" when it carries   *)
(* none), which key it certifies and which CA key signed it.  What a       *)
(* process presents and trusts is an identity: a certificate, a private    *)
(* key and a CA certificate, each possibly missing.                        *)
(*                                                                         *)
(* Simplifications: certificates do not expire and name nothing but their  *)
(* common name.                                                            *)
(***************************************************************************)
EXTENDS Naturals

CONSTANTS
  Nodes,      \* the names of the worker nodes
  Api,        \* the common name of the API server's certificate
  Scheduler,  \* that of the scheduler's
  User,       \* that of an operator's barectl
  NoCert      \* no certificate

Names == Nodes \cup {Api, Scheduler, User}
Services == Nodes \cup {Api, Scheduler}
Roles == {"api", "scheduler", "cli", "node"}

NoKey == 0
Keys == Nat \ {NoKey}
Certs == [cn : Names, role : Roles \cup {""}, key : Keys, ca : Keys]

Identities == [pem : Certs \cup {NoCert}, key : Nat, ca : Nat]
NoIdentity == [pem |-> NoCert, key |-> NoKey, ca |-> NoKey]
Plaintext == [mode |-> "plaintext", id |-> NoIdentity]
Refused == [mode |-> "refused", id |-> NoIdentity]
Mtls(id) == [mode |-> "mtls", id |-> id]

ASSUME NamesDiffer == /\ Api # Scheduler /\ Api # User /\ Scheduler # User
                      /\ Nodes \cap {Api, Scheduler, User} = {}
                      /\ NoCert \notin Certs

(* Which of the three parts an identity has. *)
Parts == {"pem", "key", "ca"}
PartsOf(id) == {part \in Parts : \/ part = "pem" /\ id.pem # NoCert
                                 \/ part = "key" /\ id.key # NoKey
                                 \/ part = "ca" /\ id.ca # NoKey}

(* The private key is the one the certificate certifies. *)
Paired(id) == id.pem # NoCert /\ id.pem.key = id.key

(* All three of certificate, key and CA, or none of them. *)
TlsModeLenient(given, id) ==  \* wrong: without all three, no TLS
  IF given = Parts THEN Mtls(id) ELSE Plaintext
TlsMode(given, id) ==
  IF given = {} THEN Plaintext ELSE IF given = Parts THEN Mtls(id) ELSE Refused

-----------------------------------------------------------------------------
(* The library's handshake.  A server with TLS wants a client certificate; *)
(* each side wants the other's to be signed by the CA it trusts, and the   *)
(* client wants the server's to have the name it expects.  Neither side    *)
(* can even be configured with a private key that is another's.            *)
Handshake(client, server, name) ==
  \/ client.mode = "plaintext" /\ server.mode = "plaintext"
  \/ /\ client.mode = "mtls" /\ server.mode = "mtls"
     /\ Paired(client.id) /\ Paired(server.id)
     /\ server.id.pem.ca = client.id.ca /\ server.id.pem.cn = name
     /\ client.id.pem.ca = server.id.ca

(* What a server learns of its caller: nothing without TLS, else the name  *)
(* and the role in the certificate.                                        *)
PlainPeer == [tls |-> FALSE, identity |-> "", role |-> ""]
Peer(client) ==
  IF client.mode = "plaintext" THEN PlainPeer
  ELSE [tls |-> TRUE, identity |-> client.id.pem.cn,
        role |-> IF client.id.pem.role \in Roles THEN client.id.pem.role ELSE ""]

CheckRoleIfAny(peer, role) ==  \* wrong: no role is taken for no certificate
  peer.role # "" => peer.role = role
CheckRole(peer, role) == peer.tls => peer.role = role
CheckIdentity(peer, node) == peer.tls => peer.identity = node

-----------------------------------------------------------------------------
RoleOf == [create_pod |-> "cli", delete_pod |-> "cli", get_pod |-> "cli",
           list_pods |-> "cli", get_node |-> "cli", list_nodes |-> "cli",
           watch_pods |-> "scheduler", watch_nodes |-> "scheduler",
           assign_pod |-> "scheduler",
           update_pod_status |-> "node", update_node_status |-> "node",
           watch_desired_state |-> "node"]
Rpcs == DOMAIN RoleOf

(* The calls that speak for a node: of the pod's owner, of the node that   *)
(* reports itself, of the node that watches.                               *)
NodeRpcs == {"update_pod_status", "update_node_status", "watch_desired_state"}

(* The API server runs the handler of a call made for node. *)
Serves(client, server, rpc, node) ==
  /\ Handshake(client, server, Api)
  /\ CheckRole(Peer(client), RoleOf[rpc])
  /\ rpc \in NodeRpcs => CheckIdentity(Peer(client), node)

(* The agent of a node runs ApplyPod or DeletePod. *)
ServesKubelet(client, server, node) ==
  /\ Handshake(client, server, node)
  /\ CheckRole(Peer(client), "node")

-----------------------------------------------------------------------------
(* barectl: the flags if they give an identity, else the config file, else *)
(* plaintext; each of the two has all three parts or none.  named says     *)
(* whether a server name comes with the flags, and with the file.          *)
Resolve(given, flags, flagsNamed, file, fileNamed) ==
  LET fromFlags == TlsMode(given, flags)
      fromFile == TlsMode(PartsOf(file), file) IN
  IF fromFlags # Plaintext
  THEN IF fromFlags = Refused \/ flagsNamed THEN fromFlags ELSE Refused
  ELSE IF fromFile.mode # "mtls" \/ flagsNamed \/ fileNamed
       THEN fromFile ELSE Refused
=============================================================================
