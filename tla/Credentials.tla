----------------------------- MODULE Credentials ----------------------------
(***************************************************************************)
(* The cluster's certificates, from barenetes-pki to the processes that    *)
(* load them: the CA and the issued pairs on the control plane's disk, the *)
(* copies on the workers, the config file handed to a user, and what every *)
(* service has loaded since it last started.                               *)
(*                                                                         *)
(* Operators run commands on the two kinds of host: the installer, the     *)
(* uninstaller's purge, and barenetes-pki by hand.  A command writes one   *)
(* file after the other, can be interrupted between any two, and runs      *)
(* beside another operator's.  A service loads its files when it starts;   *)
(* systemd starts it again whenever it is down.                            *)
(*                                                                         *)
(* Simplifications:                                                        *)
(*  - every single file is replaced as a whole; the copy that the operator *)
(*    makes of a worker's files and the installer's copy of that are one;  *)
(*  - nobody purges the control plane while a command writes or reads      *)
(*    there, and a worker that was given certificates is not installed     *)
(*    again without them;                                                  *)
(*  - the API server's and the scheduler's settings come from their units, *)
(*    which always name all three files.                                   *)
(***************************************************************************)
EXTENDS Tls, Sequences

CONSTANTS
  Operators,  \* people or scripts that run commands
  Ca,         \* stands for the CA among the names a command is about
  MaxStops    \* bound: how often a command is interrupted

ASSUME CaIsNoName == Ca \notin Names

VARIABLES
  ca,       \* ca.pem and ca-key.pem
  issued,   \* issued[cn]: <cn>.pem and <cn>-key.pem on the control plane
  host,     \* host[n]: the three files on worker n
  env,      \* env[n]: agent.env on worker n names them
  running,  \* running[s]: what service s has loaded, Down or Absent
  config,   \* the user's barectl config file
  todo,     \* todo[o]: the commands operator o has still to run
  tool,     \* tool[o]: the command o is in the middle of, and what it holds
  keys,     \* key pairs generated so far
  stops,    \* interruptions so far
  purges,   \* purges so far
  granted,  \* history: every certificate ever signed
  torn      \* history: the names some command was stopped or failed in the
            \* middle of, or that two commands worked on at the same time

files == <<ca, issued, host, env, config>>
vars == <<ca, issued, host, env, running, config, todo, tool, keys, stops,
          purges, granted, torn>>

Absent == [mode |-> "absent", id |-> NoIdentity]
Down == [mode |-> "down", id |-> NoIdentity]
Idle == [doing |-> "nothing", cn |-> Ca, id |-> NoIdentity]
NoPair == [pem |-> NoCert, key |-> NoKey]
NoCa == [pem |-> NoKey, key |-> NoKey]

Init ==
  /\ ca = NoCa
  /\ issued = [cn \in Names |-> NoPair]
  /\ host = [n \in Nodes |-> NoIdentity]
  /\ env = [n \in Nodes |-> FALSE]
  /\ running = [s \in Services |-> Absent]
  /\ config = NoIdentity
  /\ todo = [o \in Operators |-> <<>>]
  /\ tool = [o \in Operators |-> Idle]
  /\ keys = 0 /\ stops = 0 /\ purges = 0
  /\ granted = {} /\ torn = {}

-----------------------------------------------------------------------------
(* What an operator sets out to do. *)
Command(do, cn, role) == [do |-> do, cn |-> cn, role |-> role]

InstallAsApi ==  \* wrong: the scheduler gets the API server's role
  <<Command("ca", Ca, ""), Command("ensure", Api, "api"),
    Command("ensure", Scheduler, "api"),
    Command("restart", Api, ""), Command("restart", Scheduler, "")>>
InstallControlPlane ==
  <<Command("ca", Ca, ""), Command("ensure", Api, "api"),
    Command("ensure", Scheduler, "scheduler"),
    Command("restart", Api, ""), Command("restart", Scheduler, "")>>

JoinWorker(n) ==
  <<Command("issue", n, "node"), Command("worker", n, ""),
    Command("restart", n, "")>>

(* A certificate made with another tool may carry no role. *)
HandOut(role) == <<Command("issue", User, role), Command("package", User, "")>>

Plans ==
  {InstallControlPlane, <<Command("purge", Ca, "")>>}
  \cup {JoinWorker(n) : n \in Nodes}
  \cup {<<Command("plain", n, ""), Command("restart", n, "")>> :
          n \in {w \in Nodes : host[w] = NoIdentity}}
  \cup {HandOut(role) : role \in {"cli", ""}}

Begin(o) ==
  /\ todo[o] = <<>> /\ tool[o] = Idle
  /\ \E plan \in Plans : todo' = [todo EXCEPT ![o] = plan]
  /\ UNCHANGED <<files, running, tool, keys, stops, purges, granted, torn>>

At(o, do) == tool[o] = Idle /\ todo[o] # <<>> /\ Head(todo[o]).do = do
In(o, doing) == tool[o].doing = doing

Advance(o) == todo' = [todo EXCEPT ![o] = Tail(@)]
Finish(o) == tool' = [tool EXCEPT ![o] = Idle] /\ UNCHANGED todo
Carry(o, doing, cn, id) ==
  tool' = [tool EXCEPT ![o] = [doing |-> doing, cn |-> cn, id |-> id]]

(* Another command is in the middle of something about the same name. *)
Meets(o, cn) == \E p \in Operators \ {o} : tool[p].doing # "nothing" /\ tool[p].cn = cn
Touch(o, cn) == torn' = IF Meets(o, cn) THEN torn \cup {cn} ELSE torn

(* A command that fails ends the script it is part of. *)
Fail(o, cn) ==
  /\ todo' = [todo EXCEPT ![o] = <<>>] /\ tool' = [tool EXCEPT ![o] = Idle]
  /\ torn' = torn \cup {cn}
  /\ UNCHANGED <<files, running, keys, stops, purges, granted>>

-----------------------------------------------------------------------------
(* init-ca, unless there is a ca.pem. *)
CaNeverMade == FALSE  \* wrong: overwrites the CA that is there
CaMade == ca.pem # NoKey

InitCa(o) ==
  /\ At(o, "ca") /\ Advance(o)
  /\ IF CaMade
     THEN UNCHANGED <<tool, keys, torn>>
     ELSE /\ keys' = keys + 1
          /\ Carry(o, "new ca", Ca, [NoIdentity EXCEPT !.key = keys'])
          /\ Touch(o, Ca)
  /\ UNCHANGED <<files, running, stops, purges, granted>>

WriteCaCert(o) ==
  /\ In(o, "new ca")
  /\ ca' = [ca EXCEPT !.pem = tool[o].id.key]
  /\ Carry(o, "ca key", Ca, tool[o].id) /\ Touch(o, Ca)
  /\ UNCHANGED <<issued, host, env, config, running, todo, keys, stops,
                 purges, granted>>

WriteCaKey(o) ==
  /\ In(o, "ca key")
  /\ ca' = [ca EXCEPT !.key = tool[o].id.key]
  /\ Finish(o) /\ Touch(o, Ca)
  /\ UNCHANGED <<issued, host, env, config, running, keys, stops, purges,
                 granted>>

-----------------------------------------------------------------------------
(* issue, which the installer skips when there is a <cn>.pem.  The CA's    *)
(* certificate is read and not compared with the key that signs.           *)
Skipped(command) == command.do = "ensure" /\ issued[command.cn].pem # NoCert

Sign(command) ==
  [cn |-> command.cn, role |-> command.role, key |-> keys + 1, ca |-> ca.key]

PairOfAnother(cert) ==  \* wrong: writes a key pair that was not certified
  [NoIdentity EXCEPT !.pem = cert, !.key = cert.key + 1]
Pair(cert) == [NoIdentity EXCEPT !.pem = cert, !.key = cert.key]

Issue(o) ==
  /\ At(o, "ensure") \/ At(o, "issue")
  /\ LET command == Head(todo[o])
         cert == Sign(command) IN
     IF Skipped(command)
     THEN /\ Advance(o)
          /\ UNCHANGED <<files, running, tool, keys, stops, purges, granted,
                         torn>>
     ELSE IF ca.pem = NoKey \/ ca.key = NoKey
     THEN /\ todo' = [todo EXCEPT ![o] = <<>>]
          /\ UNCHANGED <<files, running, tool, keys, stops, purges, granted,
                         torn>>
     ELSE /\ keys' = keys + 1
          /\ granted' = granted \cup {cert}
          /\ Carry(o, "issue", cert.cn, Pair(cert))
          /\ Advance(o) /\ Touch(o, cert.cn)
          /\ UNCHANGED <<files, running, stops, purges>>

WriteCert(o) ==
  /\ In(o, "issue")
  /\ issued' = [issued EXCEPT ![tool[o].cn].pem = tool[o].id.pem]
  /\ Carry(o, "issue key", tool[o].cn, tool[o].id) /\ Touch(o, tool[o].cn)
  /\ UNCHANGED <<ca, host, env, config, running, todo, keys, stops, purges,
                 granted>>

WriteKey(o) ==
  /\ In(o, "issue key")
  /\ issued' = [issued EXCEPT ![tool[o].cn].key = tool[o].id.key]
  /\ Finish(o) /\ Touch(o, tool[o].cn)
  /\ UNCHANGED <<ca, host, env, config, running, keys, stops, purges, granted>>

-----------------------------------------------------------------------------
(* The worker's installation: agent.env is written anew without            *)
(* certificates, then the three files are copied, then agent.env is told.  *)
Worker(o) ==
  /\ At(o, "worker") /\ Advance(o)
  /\ LET n == Head(todo[o]).cn IN
     /\ env' = [env EXCEPT ![n] = FALSE]
     /\ Carry(o, "worker", n, NoIdentity) /\ Touch(o, n)
  /\ UNCHANGED <<ca, issued, host, config, running, keys, stops, purges,
                 granted>>

(* The installation of a worker that is given no certificates. *)
PlainWorker(o) ==
  /\ At(o, "plain") /\ Advance(o)
  /\ LET n == Head(todo[o]).cn IN
     /\ env' = [env EXCEPT ![n] = @ /\ host[n] # NoIdentity]
     /\ Touch(o, n)
  /\ UNCHANGED <<ca, issued, host, config, running, tool, keys, stops, purges,
                 granted>>

CopyCert(o) ==
  /\ In(o, "worker")
  /\ LET n == tool[o].cn IN
     IF issued[n].pem = NoCert \/ issued[n].key = NoKey \/ ca.pem = NoKey
     THEN Fail(o, n)
     ELSE /\ host' = [host EXCEPT ![n].pem = issued[n].pem]
          /\ Carry(o, "worker key", n, NoIdentity) /\ Touch(o, n)
          /\ UNCHANGED <<ca, issued, env, config, running, todo, keys, stops,
                         purges, granted>>

CopyKey(o) ==
  /\ In(o, "worker key")
  /\ LET n == tool[o].cn IN
     /\ host' = [host EXCEPT ![n].key = issued[n].key]
     /\ Carry(o, "worker ca", n, NoIdentity) /\ Touch(o, n)
  /\ UNCHANGED <<ca, issued, env, config, running, todo, keys, stops, purges,
                 granted>>

CopyCa(o) ==
  /\ In(o, "worker ca")
  /\ LET n == tool[o].cn IN
     /\ host' = [host EXCEPT ![n].ca = ca.pem]
     /\ Carry(o, "worker env", n, NoIdentity) /\ Touch(o, n)
  /\ UNCHANGED <<ca, issued, env, config, running, todo, keys, stops, purges,
                 granted>>

WriteEnv(o) ==
  /\ In(o, "worker env")
  /\ env' = [env EXCEPT ![tool[o].cn] = TRUE]
  /\ Finish(o) /\ Touch(o, tool[o].cn)
  /\ UNCHANGED <<ca, issued, host, config, running, keys, stops, purges,
                 granted>>

-----------------------------------------------------------------------------
(* barectl-config of barenetes-pki, and barectl's config set: the CA, the  *)
(* certificate and the key are read one after the other, and the file is   *)
(* replaced as a whole.                                                    *)
Package(o) ==
  /\ At(o, "package") /\ ca.pem # NoKey
  /\ Carry(o, "package", User, [NoIdentity EXCEPT !.ca = ca.pem])
  /\ Advance(o) /\ Touch(o, User)
  /\ UNCHANGED <<files, running, keys, stops, purges, granted>>

PackageCert(o) ==
  /\ In(o, "package") /\ issued[User].pem # NoCert
  /\ Carry(o, "package key", User, [tool[o].id EXCEPT !.pem = issued[User].pem])
  /\ Touch(o, User)
  /\ UNCHANGED <<files, running, todo, keys, stops, purges, granted>>

PackageKey(o) ==
  /\ In(o, "package key") /\ issued[User].key # NoKey
  /\ config' = [tool[o].id EXCEPT !.key = issued[User].key]
  /\ Finish(o) /\ Touch(o, User)
  /\ UNCHANGED <<ca, issued, host, env, running, keys, stops, purges, granted>>

(* A file to read is not there: nothing is written. *)
PackageFails(o) ==
  /\ \/ At(o, "package") /\ ca.pem = NoKey
     \/ In(o, "package") /\ issued[User].pem = NoCert
     \/ In(o, "package key") /\ issued[User].key = NoKey
  /\ todo' = [todo EXCEPT ![o] = <<>>] /\ tool' = [tool EXCEPT ![o] = Idle]
  /\ UNCHANGED <<files, running, keys, stops, purges, granted, torn>>

-----------------------------------------------------------------------------
(* uninstall.sh --purge on the control plane. *)
Purge(o) ==
  /\ At(o, "purge") /\ Advance(o)
  /\ purges' = purges + 1
  /\ \A p \in Operators : tool[p] = Idle
  /\ ca' = NoCa /\ issued' = [cn \in Names |-> NoPair]
  /\ running' = [running EXCEPT ![Api] = Absent, ![Scheduler] = Absent]
  /\ UNCHANGED <<host, env, config, tool, keys, stops, granted, torn>>

Restart(o) ==
  /\ At(o, "restart") /\ Advance(o)
  /\ running' = [running EXCEPT ![Head(todo[o]).cn] = Down]
  /\ UNCHANGED <<files, tool, keys, stops, purges, granted, torn>>

(* What a command is in the middle of: itself, or the restart to come. *)
Working(n) ==
  \E o \in Operators : \/ ~In(o, "nothing") /\ tool[o].cn = n
                       \/ At(o, "restart") /\ Head(todo[o]).cn = n

Interrupt(o) ==
  /\ stops < MaxStops /\ stops' = stops + 1
  /\ todo[o] # <<>> \/ tool[o] # Idle
  /\ torn' = torn \cup (IF tool[o] # Idle THEN {tool[o].cn}
                        ELSE IF At(o, "restart") THEN {Head(todo[o]).cn} ELSE {})
  /\ todo' = [todo EXCEPT ![o] = <<>>] /\ tool' = [tool EXCEPT ![o] = Idle]
  /\ UNCHANGED <<files, running, keys, purges, granted>>

-----------------------------------------------------------------------------
(* What a service loads when it starts.  The API server's and the          *)
(* scheduler's certificates are the control plane's files.                 *)
OnDisk(cn) == [pem |-> issued[cn].pem, key |-> issued[cn].key, ca |-> ca.pem]
Loads(s) ==
  IF s \in Nodes THEN TlsMode(IF env[s] THEN Parts ELSE {}, host[s])
                 ELSE TlsMode(Parts, OnDisk(s))

(* A service comes up when its files are there and fit together; the       *)
(* scheduler needs the API server to answer.                               *)
Start(s) ==
  /\ running[s] = Down
  /\ \/ Loads(s) = Plaintext
     \/ PartsOf(Loads(s).id) = Parts /\ Paired(Loads(s).id)
  /\ s = Scheduler => Handshake(Loads(s), running[Api], Api)
  /\ running' = [running EXCEPT ![s] = Loads(s)]
  /\ UNCHANGED <<files, todo, tool, keys, stops, purges, granted, torn>>

Stop(s) ==
  /\ running[s].mode \in {"mtls", "plaintext"}
  /\ running' = [running EXCEPT ![s] = Down]
  /\ UNCHANGED <<files, todo, tool, keys, stops, purges, granted, torn>>

Step(o) ==
  \/ InitCa(o) \/ WriteCaCert(o) \/ WriteCaKey(o)
  \/ Issue(o) \/ WriteCert(o) \/ WriteKey(o)
  \/ Worker(o) \/ PlainWorker(o) \/ CopyCert(o) \/ CopyKey(o) \/ CopyCa(o)
  \/ WriteEnv(o)
  \/ Package(o) \/ PackageCert(o) \/ PackageKey(o) \/ PackageFails(o)
  \/ Purge(o) \/ Restart(o)

Next ==
  \/ \E o \in Operators : Begin(o) \/ Step(o) \/ Interrupt(o)
  \/ \E s \in Services : Start(s) \/ Stop(s)

Spec == Init /\ [][Next]_vars

-----------------------------------------------------------------------------
Doings == {"nothing", "new ca", "ca key", "issue", "issue key", "worker",
           "worker key", "worker ca", "worker env", "package", "package key"}

(* Files hold keys and certificates or nothing, a service runs with an     *)
(* identity that fits together or with none, and a command that writes a   *)
(* pair holds both halves of it.                                           *)
CredTypeOK ==
  /\ ca \in [pem : 0..keys, key : 0..keys]
  /\ issued \in [Names -> [pem : granted \cup {NoCert}, key : 0..keys]]
  /\ host \in [Nodes -> [pem : granted \cup {NoCert}, key : 0..keys, ca : 0..keys]]
  /\ env \in [Nodes -> BOOLEAN]
  /\ \A s \in Services : \/ running[s] \in {Absent, Down} \cup {Plaintext : n \in Nodes}
                         \/ running[s] = Mtls(running[s].id) /\ Paired(running[s].id)
  /\ config \in [pem : granted \cup {NoCert}, key : 0..keys, ca : 0..keys]
  /\ \A o \in Operators :
       /\ tool[o].doing \in Doings /\ tool[o].cn \in Names \cup {Ca}
       /\ tool[o].doing \in {"issue", "issue key"} => Paired(tool[o].id)
  /\ keys \in Nat /\ granted \subseteq Certs /\ torn \subseteq Names \cup {Ca}

(* The config file as its user may have edited it: with some parts only.   *)
Only(parts) == [pem |-> IF "pem" \in parts THEN config.pem ELSE NoCert,
                key |-> IF "key" \in parts THEN config.key ELSE NoKey,
                ca |-> IF "ca" \in parts THEN config.ca ELSE NoKey]

(* Everybody who can call the API server: the services, and barectl with   *)
(* all, some or none of the flags that name the control plane's files.     *)
NoneSomeAll == {{}, {"key"}, Parts}
Barectl(given, named, parts) ==
  Resolve(given, OnDisk(User), named, Only(parts), TRUE)
Clients ==
  {running[s] : s \in Services}
  \cup {Barectl(given, named, parts) :
          given \in NoneSomeAll, named \in BOOLEAN, parts \in NoneSomeAll}

(* An API server with TLS runs a handler only for a caller that holds the  *)
(* key of a certificate which this server's CA signed for the RPC's role   *)
(* and, when the call speaks for a node, in that node's name: whatever has *)
(* been issued, copied, edited, purged or interrupted before.              *)
Entitled ==
  running[Api].mode = "mtls" =>
    \A client \in Clients, rpc \in Rpcs, node \in Nodes :
      Serves(client, running[Api], rpc, node) =>
        \E cert \in granted :
          /\ cert.key = client.id.key /\ cert.ca = running[Api].id.ca
          /\ cert.role = RoleOf[rpc]
          /\ rpc \in NodeRpcs => cert.cn = node

(* A name's certificate, key and CA belong together in every place they    *)
(* are kept, on the control plane, on a worker and in a user's file, while *)
(* no command is writing them, unless one was stopped or failed in the     *)
(* middle or two ever worked on the same name at once: then nothing heals  *)
(* the pair but a new one.                                                 *)
Fits(id) == Paired(id) /\ (Ca \notin torn => id.pem.ca = id.ca)

PairsFit ==
  /\ Ca \in torn \/ Working(Ca) \/ ca.pem = ca.key
  /\ \A cn \in Names \ torn :
       Working(cn) \/ issued[cn] = NoPair \/ Fits(OnDisk(cn))
  /\ \A n \in Nodes \ torn : Working(n) \/ host[n] = NoIdentity \/ Fits(host[n])
  /\ User \in torn \/ PartsOf(config) # Parts \/ Fits(config)

(* Whoever was given an identity does not fall back to plaintext.  An      *)
(* agent never listens or calls without it, whenever it starts, except in  *)
(* or after an installation of its worker that did not come to its end.    *)
(* barectl refuses to connect as soon as its flags or its file give part   *)
(* of one, and takes all three parts from one place.                       *)
AgentsKeepTls ==
  \A n \in Nodes \ torn :
    host[n] = NoIdentity \/ Working(n) \/ (env[n] /\ running[n].mode # "plaintext")
BarectlKeepsTls ==
  \A given \in NoneSomeAll, named \in BOOLEAN, parts \in NoneSomeAll :
    LET chosen == Barectl(given, named, parts) IN
    given # {} \/ PartsOf(Only(parts)) # {} =>
      chosen \in {Refused, Mtls(OnDisk(User)), Mtls(config)}
TlsIsKept == AgentsKeepTls /\ BarectlKeepsTls

(* What the installer wires up works: two parties that trust the same CA   *)
(* understand each other, the scheduler and the agents are allowed every   *)
(* RPC they make, an agent can call its own Kubelet service, and a config  *)
(* file that was handed out for a user lets barectl do everything it does. *)
Works(client, cn, role, node) ==
  /\ client.mode = "mtls" /\ running[Api].mode = "mtls"
  /\ client.id.ca = running[Api].id.ca /\ {cn, Ca} \cap torn = {}
  => \A rpc \in {r \in Rpcs : RoleOf[r] = role} :
       Serves(client, running[Api], rpc, node)

CallsItself(n) ==
  \/ running[n].mode = "plaintext"
  \/ running[n].mode = "mtls" /\ running[n].id.pem.ca = running[n].id.ca
  => n \in torn \/ ServesKubelet(running[n], running[n], n)

WiredToWork ==
  \A n \in Nodes :
    /\ Works(running[Scheduler], Scheduler, "scheduler", n)
    /\ Works(running[n], n, "node", n) /\ CallsItself(n)
    /\ config.pem # NoCert /\ config.pem.role = "cli" =>
         Works(Barectl({}, FALSE, Parts), User, "cli", n)
=============================================================================
