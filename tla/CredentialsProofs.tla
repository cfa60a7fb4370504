-------------------------- MODULE CredentialsProofs -------------------------
(***************************************************************************)
(* Proofs about Credentials, for any nodes, operators and numbers of keys, *)
(* interruptions and purges: every certificate that is anywhere was signed *)
(* by a barenetes-pki run, so that whoever an API server with TLS serves   *)
(* holds a certificate that entitles it to the call; and what no other     *)
(* command or interruption tore, fits, wherever it was copied to, so that  *)
(* the services that run with it do work.                                  *)
(***************************************************************************)
EXTENDS Credentials, TLAPS

Stored == [pem : granted \cup {NoCert}, key : 0 .. keys, ca : 0 .. keys]
Pairs == [pem : granted \cup {NoCert}, key : 0 .. keys]

Verbs == {"ca", "ensure", "issue", "worker", "plain", "package", "restart", "purge"}
Orders == {c \in [do : Verbs, cn : Names \cup {Ca}, role : Roles \cup {""}] :
             c.do \in {"ca", "purge"} \/ c.cn \in Names}
Tools == [doing : Doings, cn : Names \cup {Ca}, id : Stored]

Scripts == todo \in [Operators -> Seq(Orders)]
Hands ==
  /\ tool \in [Operators -> Tools]
  /\ \A o \in Operators : tool[o].doing \in {"issue", "issue key"} => Paired(tool[o].id)
Files ==
  /\ ca \in [pem : 0 .. keys, key : 0 .. keys]
  /\ issued \in [Names -> Pairs]
  /\ host \in [Nodes -> Stored]
  /\ env \in [Nodes -> BOOLEAN]
  /\ config \in Stored
Loaded ==
  /\ DOMAIN running = Services
  /\ \A s \in Services :
       /\ running[s].id \in Stored
       /\ \/ running[s] \in {Absent, Down, Plaintext}
          \/ running[s] = Mtls(running[s].id) /\ Paired(running[s].id)
  /\ \A s \in {Api, Scheduler} : running[s] # Plaintext
Counted ==
  /\ keys \in Nat
  /\ granted \in SUBSET Certs
  /\ torn \in SUBSET (Names \cup {Ca})

IInv == Counted /\ Files /\ Loaded /\ Hands /\ Scripts

-----------------------------------------------------------------------------
(* What was well typed stays so when keys and certificates are added.      *)
LEMMA Growth ==
  ASSUME IInv, keys' = keys \/ keys' = keys + 1, granted \subseteq granted'
  PROVE  /\ \A id \in Stored : id \in Stored'
         /\ \A pair \in Pairs : pair \in Pairs'
         /\ 0 .. keys \subseteq 0 .. keys'
         /\ keys' \in Nat
<1>1. 0 .. keys \subseteq 0 .. keys' /\ keys' \in Nat
  BY DEF IInv, Counted
<1> QED
  BY <1>1 DEF Stored, Pairs

(* The variables that a step leaves alone stay well typed.                 *)
LEMMA Kept ==
  ASSUME IInv, keys' = keys \/ keys' = keys + 1, granted \subseteq granted'
  PROVE  /\ UNCHANGED files => Files'
         /\ UNCHANGED running => Loaded'
         /\ UNCHANGED tool => Hands'
         /\ UNCHANGED todo => Scripts'
<1>1. /\ \A id \in Stored : id \in Stored'
      /\ \A pair \in Pairs : pair \in Pairs'
      /\ 0 .. keys \subseteq 0 .. keys'
  BY Growth
<1>2. ASSUME UNCHANGED files PROVE Files'
  <2>1. ca \in [pem : 0 .. keys, key : 0 .. keys] /\ UNCHANGED ca
    BY <1>2 DEF IInv, Files, files
  <2>2. ca' \in [pem : 0 .. keys', key : 0 .. keys']
    BY <2>1, <1>1
  <2>3. issued' \in [Names -> Pairs'] /\ host' \in [Nodes -> Stored'] /\ config' \in Stored'
    BY <1>1, <1>2 DEF IInv, Files, files
  <2> QED
    BY <2>2, <2>3, <1>2 DEF IInv, Files, files
<1>3. UNCHANGED running => Loaded'
  BY <1>1 DEF IInv, Loaded
<1>4. ASSUME UNCHANGED tool PROVE Hands'
  <2>1. Tools \subseteq Tools'
    BY <1>1 DEF Tools
  <2> QED
    BY <2>1, <1>4 DEF IInv, Hands
<1> QED
  BY <1>2, <1>3, <1>4 DEF IInv, Scripts

(* The command an operator is about to run.                                *)
LEMMA HeadIsAnOrder ==
  ASSUME IInv, NEW o \in Operators, todo[o] # <<>>
  PROVE  Head(todo[o]) \in Orders /\ Tail(todo[o]) \in Seq(Orders)
BY DEF IInv, Scripts

LEMMA Advancing ==
  ASSUME IInv, NEW o \in Operators, todo[o] # <<>>, Advance(o)
  PROVE  Scripts'
BY HeadIsAnOrder DEF IInv, Scripts, Advance

LEMMA Ending ==
  ASSUME IInv, NEW o \in Operators, todo' = [todo EXCEPT ![o] = <<>>]
  PROVE  Scripts'
BY DEF IInv, Scripts

(* Nothing is a file too, and a certificate with its key is two.           *)
LEMMA NothingIsStored ==
  ASSUME IInv
  PROVE  NoIdentity \in Stored /\ NoPair \in Pairs
BY DEF IInv, Counted, Stored, Pairs, NoIdentity, NoPair, NoKey

LEMMA TouchKeepsNames ==
  ASSUME IInv, NEW o \in Operators, NEW cn \in Names \cup {Ca}, Touch(o, cn)
  PROVE  torn' \in SUBSET (Names \cup {Ca})
BY DEF IInv, Counted, Touch

LEMMA IdleHands ==
  ASSUME IInv, NEW o \in Operators, UNCHANGED <<keys, granted>>,
         tool' = [tool EXCEPT ![o] = Idle]
  PROVE  Hands'
<1>1. Idle \in Tools
  BY NothingIsStored DEF Idle, Tools, Doings
<1>2. Tools' = Tools
  BY DEF Tools, Stored
<1> QED
  BY <1>1, <1>2 DEF IInv, Hands, Idle

(* A command goes on with what it holds.                                   *)
LEMMA Carrying ==
  ASSUME IInv, NEW o \in Operators, NEW doing \in Doings,
         NEW cn \in Names \cup {Ca}, NEW id \in Stored',
         keys' = keys \/ keys' = keys + 1, granted \subseteq granted',
         Carry(o, doing, cn, id),
         doing \in {"issue", "issue key"} => Paired(id)
  PROVE  Hands'
<1>1. Tools \subseteq Tools'
  BY Growth DEF Tools
<1>2. [doing |-> doing, cn |-> cn, id |-> id] \in Tools'
  BY DEF Tools
<1>3. tool' \in [Operators -> Tools']
  BY <1>1, <1>2 DEF IInv, Hands, Carry
<1>4. ASSUME NEW p \in Operators, tool'[p].doing \in {"issue", "issue key"}
      PROVE  Paired(tool'[p].id)
  BY <1>4 DEF IInv, Hands, Carry
<1> QED
  BY <1>3, <1>4 DEF Hands

-----------------------------------------------------------------------------
LEMMA InitInvariant == Init => IInv
<1> SUFFICES ASSUME Init PROVE IInv
  OBVIOUS
<1>1. Counted
  BY DEF Init, Counted
<1>2. Files
  BY DEF Init, Files, Stored, Pairs, NoCa, NoPair, NoIdentity, NoKey
<1>3. Loaded
  BY DEF Init, Loaded, Absent, Plaintext, Stored, NoIdentity, NoKey, Services
<1>4. Hands
  <2>1. Idle \in Tools
    BY DEF Init, Idle, Tools, Doings, Stored, NoIdentity, NoKey
  <2>2. Idle.doing = "nothing"
    BY DEF Idle
  <2> QED
    BY <2>1, <2>2 DEF Init, Hands
<1>5. Scripts
  BY DEF Init, Scripts
<1> QED
  BY <1>1, <1>2, <1>3, <1>4, <1>5 DEF IInv

LEMMA CommandsAreOrders ==
  ASSUME NEW do \in Verbs, NEW cn \in Names \cup {Ca}, NEW role \in Roles \cup {""},
         do \in {"ca", "purge"} \/ cn \in Names
  PROVE  Command(do, cn, role) \in Orders
BY DEF Command, Orders

LEMMA ShortScripts ==
  ASSUME NEW a \in Orders, NEW b \in Orders, NEW c \in Orders,
         NEW d \in Orders, NEW e \in Orders
  PROVE  /\ <<a>> \in Seq(Orders) /\ <<a, b>> \in Seq(Orders)
         /\ <<a, b, c>> \in Seq(Orders) /\ <<a, b, c, d, e>> \in Seq(Orders)
OBVIOUS

LEMMA BeginInvariant == ASSUME IInv, NEW o \in Operators, Begin(o) PROVE IInv'
<1>1. PICK plan \in Plans : todo' = [todo EXCEPT ![o] = plan]
  BY DEF Begin
<1>2. plan \in Seq(Orders)
  <2>1. /\ Command("ca", Ca, "") \in Orders /\ Command("purge", Ca, "") \in Orders
        /\ \A cn \in Names, role \in Roles \cup {""} :
             /\ Command("ensure", cn, role) \in Orders
             /\ Command("issue", cn, role) \in Orders
             /\ Command("worker", cn, role) \in Orders
             /\ Command("plain", cn, role) \in Orders
             /\ Command("package", cn, role) \in Orders
             /\ Command("restart", cn, role) \in Orders
    BY CommandsAreOrders DEF Verbs
  <2>2. {Api, Scheduler, User} \subseteq Names /\ Nodes \subseteq Names
    BY DEF Names
  <2>3. Roles \cup {""} = {"api", "scheduler", "cli", "node", ""}
    BY DEF Roles
  <2>4. CASE plan = InstallControlPlane
    <3>1. /\ Command("ensure", Api, "api") \in Orders
          /\ Command("ensure", Scheduler, "scheduler") \in Orders
          /\ Command("restart", Api, "") \in Orders
          /\ Command("restart", Scheduler, "") \in Orders
      BY <2>1, <2>2, <2>3
    <3> QED
      BY <2>1, <2>4, <3>1, ShortScripts DEF InstallControlPlane
  <2>5. CASE plan = <<Command("purge", Ca, "")>>
    BY <2>1, <2>5, ShortScripts
  <2>6. CASE \E n \in Nodes : plan = JoinWorker(n)
    <3>1. PICK n \in Nodes : plan = JoinWorker(n)
      BY <2>6
    <3>2. /\ Command("issue", n, "node") \in Orders
          /\ Command("worker", n, "") \in Orders
          /\ Command("restart", n, "") \in Orders
      BY <2>1, <2>2, <2>3
    <3> QED
      BY <3>1, <3>2, ShortScripts DEF JoinWorker
  <2>7. CASE \E n \in Nodes : plan = <<Command("plain", n, ""), Command("restart", n, "")>>
    <3>1. PICK n \in Nodes :
            plan = <<Command("plain", n, ""), Command("restart", n, "")>>
      BY <2>7
    <3>2. Command("plain", n, "") \in Orders /\ Command("restart", n, "") \in Orders
      BY <2>1, <2>2, <2>3
    <3> QED
      BY <3>1, <3>2, ShortScripts
  <2>8. CASE \E role \in {"cli", ""} : plan = HandOut(role)
    <3>1. PICK role \in {"cli", ""} : plan = HandOut(role)
      BY <2>8
    <3>2. Command("issue", User, role) \in Orders /\ Command("package", User, "") \in Orders
      BY <2>1, <2>2, <2>3
    <3> QED
      BY <3>1, <3>2, ShortScripts DEF HandOut
  <2> QED
    BY <1>1, <2>4, <2>5, <2>6, <2>7, <2>8 DEF Plans
<1>3. Scripts'
  BY <1>1, <1>2 DEF IInv, Scripts
<1>4. Counted'
  BY DEF IInv, Counted, Begin
<1> QED
  BY <1>3, <1>4, Kept DEF Begin, IInv

LEMMA InitCaInvariant == ASSUME IInv, NEW o \in Operators, InitCa(o) PROVE IInv'
<1>1. keys' = keys \/ keys' = keys + 1
  BY DEF InitCa
<1>2. UNCHANGED files /\ UNCHANGED running /\ UNCHANGED granted
  BY DEF InitCa
<1>3. Scripts'
  BY Advancing DEF InitCa, At
<1>4. \/ UNCHANGED <<tool, keys, torn>>
      \/ /\ keys' = keys + 1 /\ Touch(o, Ca)
         /\ Carry(o, "new ca", Ca, [NoIdentity EXCEPT !.key = keys'])
  BY DEF InitCa
<1>5. Hands'
  <2>1. CASE UNCHANGED tool
    BY <2>1, <1>1, <1>2, Kept
  <2>2. CASE Carry(o, "new ca", Ca, [NoIdentity EXCEPT !.key = keys']) /\ keys' = keys + 1
    <3>0. keys' \in Nat /\ keys' \in 0 .. keys' /\ 0 \in 0 .. keys'
      BY <1>1 DEF IInv, Counted
    <3>1. [NoIdentity EXCEPT !.key = keys'] \in Stored'
      BY <3>0 DEF Stored, NoIdentity, NoKey
    <3>2. "new ca" \in Doings /\ ~("new ca" \in {"issue", "issue key"})
      BY DEF Doings
    <3>3. Ca \in Names \cup {Ca} /\ granted \subseteq granted'
      BY <1>2
    <3> QED
      BY <2>2, <3>1, <3>2, <3>3, Carrying
  <2> QED
    BY <2>1, <2>2, <1>4
<1>6. Counted'
  <2>1. torn' \in SUBSET (Names \cup {Ca})
    BY <1>4, TouchKeepsNames DEF IInv, Counted
  <2> QED
    BY <2>1, <1>1, <1>2 DEF IInv, Counted
<1> QED
  BY <1>1, <1>2, <1>3, <1>5, <1>6, Kept DEF IInv

-----------------------------------------------------------------------------
(* Steps that make no key and no certificate.                              *)
LEMMA SameKeys ==
  ASSUME IInv, UNCHANGED <<keys, granted>>
  PROVE  /\ Stored' = Stored /\ Pairs' = Pairs
         /\ keys' = keys \/ keys' = keys + 1
         /\ granted \subseteq granted'
         /\ torn' \in SUBSET (Names \cup {Ca}) => Counted'
BY DEF IInv, Counted, Stored, Pairs

(* What a command holds is well typed, part by part.                       *)
LEMMA Held ==
  ASSUME IInv, NEW o \in Operators
  PROVE  /\ tool[o].cn \in Names \cup {Ca} /\ tool[o].id \in Stored
         /\ tool[o].id.pem \in granted \cup {NoCert}
         /\ tool[o].id.key \in 0 .. keys /\ tool[o].id.ca \in 0 .. keys
<1>1. tool[o] \in Tools
  BY DEF IInv, Hands
<1> QED
  BY <1>1 DEF Tools, Stored

LEMMA OnTheDisk ==
  ASSUME IInv
  PROVE  /\ ca.pem \in 0 .. keys /\ ca.key \in 0 .. keys
         /\ \A cn \in Names : /\ issued[cn].pem \in granted \cup {NoCert}
                              /\ issued[cn].key \in 0 .. keys
                              /\ OnDisk(cn) \in Stored
         /\ \A n \in Nodes : host[n] \in Stored
BY DEF IInv, Files, Pairs, OnDisk, Stored

(* The next file of a command that makes no key.                           *)
LEMMA GoingOn ==
  ASSUME IInv, NEW o \in Operators, NEW doing \in Doings,
         NEW cn \in Names \cup {Ca}, NEW id \in Stored,
         UNCHANGED <<keys, granted>>, Touch(o, cn), Carry(o, doing, cn, id),
         doing \in {"issue", "issue key"} => Paired(id)
  PROVE  Hands' /\ Counted'
<1>1. /\ id \in Stored'
      /\ (keys' = keys \/ keys' = keys + 1)
      /\ granted \subseteq granted'
  BY SameKeys
<1> QED
  BY <1>1, Carrying, SameKeys, TouchKeepsNames

(* A file replaced by one that is well typed.                              *)
LEMMA IssuedFile ==
  ASSUME IInv, NEW cn, NEW pem \in granted \cup {NoCert}, NEW key \in 0 .. keys,
         UNCHANGED <<keys, granted, ca, host, env, config>>,
         \/ issued' = [issued EXCEPT ![cn].pem = pem]
         \/ issued' = [issued EXCEPT ![cn].key = key]
  PROVE  Files'
<1>1. issued' \in [Names -> Pairs]
  BY DEF IInv, Files, Pairs
<1> QED
  BY <1>1, SameKeys DEF IInv, Files

LEMMA HostFile ==
  ASSUME IInv, NEW n, NEW pem \in granted \cup {NoCert},
         NEW key \in 0 .. keys, NEW trusted \in 0 .. keys,
         UNCHANGED <<keys, granted, ca, issued, env, config>>,
         \/ host' = [host EXCEPT ![n].pem = pem]
         \/ host' = [host EXCEPT ![n].key = key]
         \/ host' = [host EXCEPT ![n].ca = trusted]
  PROVE  Files'
<1>1. host' \in [Nodes -> Stored]
  BY DEF IInv, Files, Stored
<1> QED
  BY <1>1, SameKeys DEF IInv, Files

LEMMA CaFile ==
  ASSUME IInv, NEW key \in 0 .. keys,
         UNCHANGED <<keys, granted, issued, host, env, config>>,
         ca' = [ca EXCEPT !.pem = key] \/ ca' = [ca EXCEPT !.key = key]
  PROVE  Files'
<1>1. ca' \in [pem : 0 .. keys, key : 0 .. keys]
  BY DEF IInv, Files
<1> QED
  BY <1>1, SameKeys DEF IInv, Files

LEMMA EnvFile ==
  ASSUME IInv, NEW n, NEW b \in BOOLEAN,
         UNCHANGED <<keys, granted, ca, issued, host, config>>,
         env' = [env EXCEPT ![n] = b]
  PROVE  Files'
<1>1. env' \in [Nodes -> BOOLEAN]
  BY DEF IInv, Files
<1> QED
  BY <1>1, SameKeys DEF IInv, Files

(* A command that came to its end.                                         *)
LEMMA Finishing ==
  ASSUME IInv, NEW o \in Operators, UNCHANGED <<keys, granted>>, Finish(o),
         Touch(o, tool[o].cn)
  PROVE  Hands' /\ Scripts' /\ Counted'
<1>1. Hands'
  BY IdleHands DEF Finish
<1>2. Scripts'
  BY SameKeys, Kept DEF Finish
<1>3. Counted'
  BY SameKeys, TouchKeepsNames, Held
<1> QED
  BY <1>1, <1>2, <1>3

-----------------------------------------------------------------------------
LEMMA WriteCaCertInvariant ==
  ASSUME IInv, NEW o \in Operators, WriteCaCert(o) PROVE IInv'
<1>1. UNCHANGED <<keys, granted>> /\ UNCHANGED todo /\ UNCHANGED running
  BY DEF WriteCaCert
<1>2. Hands' /\ Counted'
  BY <1>1, GoingOn, Held DEF WriteCaCert, Doings
<1>3. Files'
  BY <1>1, CaFile, Held DEF WriteCaCert
<1> QED
  BY <1>1, <1>2, <1>3, SameKeys, Kept DEF IInv

LEMMA WriteCaKeyInvariant ==
  ASSUME IInv, NEW o \in Operators, WriteCaKey(o) PROVE IInv'
<1>1. UNCHANGED <<keys, granted>> /\ UNCHANGED running
  BY DEF WriteCaKey
<1>2. Hands' /\ Scripts'
  <2>1. Hands'
    BY <1>1, IdleHands DEF WriteCaKey, Finish
  <2>2. Scripts'
    BY <1>1, SameKeys, Kept DEF WriteCaKey, Finish
  <2> QED
    BY <2>1, <2>2
<1>3. Files'
  BY <1>1, CaFile, Held DEF WriteCaKey
<1>4. Counted'
  BY <1>1, SameKeys, TouchKeepsNames DEF WriteCaKey
<1> QED
  BY <1>1, <1>2, <1>3, <1>4, SameKeys, Kept DEF IInv

LEMMA WriteCertInvariant ==
  ASSUME IInv, NEW o \in Operators, WriteCert(o) PROVE IInv'
<1>1. UNCHANGED <<keys, granted>> /\ UNCHANGED todo /\ UNCHANGED running
  BY DEF WriteCert
<1>2. Paired(tool[o].id)
  BY DEF WriteCert, In, IInv, Hands
<1>3. Hands' /\ Counted'
  BY <1>1, <1>2, GoingOn, Held DEF WriteCert, Doings
<1>4. Files'
  BY <1>1, IssuedFile, Held DEF WriteCert
<1> QED
  BY <1>1, <1>3, <1>4, SameKeys, Kept DEF IInv

LEMMA WriteKeyInvariant ==
  ASSUME IInv, NEW o \in Operators, WriteKey(o) PROVE IInv'
<1>1. UNCHANGED <<keys, granted>> /\ UNCHANGED running
  BY DEF WriteKey
<1>2. Hands' /\ Scripts' /\ Counted'
  BY <1>1, Finishing DEF WriteKey
<1>3. Files'
  BY <1>1, IssuedFile, Held DEF WriteKey
<1> QED
  BY <1>1, <1>2, <1>3, SameKeys, Kept DEF IInv

(* The only step that signs: the pair it holds is the one it signed.       *)
LEMMA IssueInvariant == ASSUME IInv, NEW o \in Operators, Issue(o) PROVE IInv'
<1> DEFINE command == Head(todo[o])
           cert == Sign(command)
<1>1. todo[o] # <<>> /\ command.do \in {"ensure", "issue"}
  BY DEF Issue, At
<1>2. command \in Orders /\ command.cn \in Names /\ command.role \in Roles \cup {""}
  BY <1>1, HeadIsAnOrder DEF Orders
<1>3. CASE UNCHANGED <<files, running, tool, keys, stops, purges, granted, torn>>
  <2>1. Advance(o) \/ todo' = [todo EXCEPT ![o] = <<>>]
    <3>1. CASE Skipped(command)
      BY <3>1 DEF Issue
    <3>2. CASE ~Skipped(command) /\ (ca.pem = NoKey \/ ca.key = NoKey)
      BY <3>2 DEF Issue
    <3>3. CASE ~Skipped(command) /\ ~(ca.pem = NoKey \/ ca.key = NoKey)
      BY <3>3 DEF Issue
    <3> QED
      BY <3>1, <3>2, <3>3
  <2>2. Scripts'
    BY <2>1, <1>1, Advancing, Ending
  <2>3. /\ UNCHANGED <<keys, granted>> /\ UNCHANGED files /\ UNCHANGED running
        /\ UNCHANGED tool /\ UNCHANGED torn
    BY <1>3
  <2> QED
    BY <2>2, <2>3, SameKeys, Kept DEF IInv, Counted
<1>4. CASE /\ ca.pem # NoKey /\ ca.key # NoKey /\ ~Skipped(command)
  <2>1. /\ keys' = keys + 1 /\ granted' = granted \cup {cert}
        /\ Carry(o, "issue", cert.cn, Pair(cert))
        /\ Advance(o) /\ Touch(o, cert.cn)
        /\ UNCHANGED files /\ UNCHANGED running
    BY <1>4 DEF Issue
  <2>2. keys \in Nat /\ ca.key \in Nat \ {0}
    BY <1>4, OnTheDisk DEF IInv, Counted, NoKey
  <2>3. cert \in Certs /\ cert.cn \in Names
    <3>1. cert = [cn |-> command.cn, role |-> command.role, key |-> keys + 1, ca |-> ca.key]
      BY DEF Sign
    <3>2. keys + 1 \in Keys /\ ca.key \in Keys
      BY <2>2 DEF Keys, NoKey
    <3>3. command.cn \in Names /\ command.role \in Roles \cup {""}
      BY <1>2
    <3> HIDE DEF command, cert
    <3> QED
      BY <3>1, <3>2, <3>3 DEF Certs
  <2>4. Pair(cert) \in Stored'
    <3>1. cert.key = keys + 1 /\ cert.key \in 0 .. keys' /\ 0 \in 0 .. keys'
      BY <2>1, <2>2 DEF Sign
    <3>2. cert \in granted'
      BY <2>1
    <3> QED
      BY <3>1, <3>2 DEF Pair, NoIdentity, NoKey, Stored
  <2>5. Paired(Pair(cert))
    BY <2>3, NamesDiffer DEF Paired, Pair, NoIdentity
  <2>6. Hands'
    BY <2>1, <2>3, <2>4, <2>5, Carrying DEF Doings
  <2>7. Counted'
    BY <2>1, <2>2, <2>3, TouchKeepsNames DEF IInv, Counted
  <2>8. Scripts'
    BY <2>1, <1>1, Advancing
  <2> QED
    BY <2>1, <2>6, <2>7, <2>8, Kept DEF IInv
<1> QED
  <2>1. CASE Skipped(command)
    BY <2>1, <1>3 DEF Issue
  <2>2. CASE ~Skipped(command) /\ (ca.pem = NoKey \/ ca.key = NoKey)
    BY <2>2, <1>3 DEF Issue
  <2> QED
    BY <2>1, <2>2, <1>4

-----------------------------------------------------------------------------
LEMMA OrderedNode ==
  ASSUME IInv, NEW o \in Operators, NEW do \in {"worker", "plain", "restart"}, At(o, do)
  PROVE  todo[o] # <<>> /\ Head(todo[o]).cn \in Names
BY HeadIsAnOrder DEF At, Orders

LEMMA WorkerInvariant == ASSUME IInv, NEW o \in Operators, Worker(o) PROVE IInv'
<1> DEFINE n == Head(todo[o]).cn
<1>1. UNCHANGED <<keys, granted>> /\ UNCHANGED running
  BY DEF Worker
<1>2. todo[o] # <<>> /\ n \in Names
  BY OrderedNode DEF Worker
<1>3. Scripts'
  BY <1>2, Advancing DEF Worker
<1>4. Hands' /\ Counted'
  BY <1>1, <1>2, GoingOn, NothingIsStored DEF Worker, Doings
<1>5. Files'
  BY <1>1, EnvFile DEF Worker
<1> QED
  BY <1>1, <1>3, <1>4, <1>5, SameKeys, Kept DEF IInv

LEMMA PlainWorkerInvariant ==
  ASSUME IInv, NEW o \in Operators, PlainWorker(o) PROVE IInv'
<1> DEFINE n == Head(todo[o]).cn
<1>1. UNCHANGED <<keys, granted>> /\ UNCHANGED running /\ UNCHANGED tool
  BY DEF PlainWorker
<1>2. todo[o] # <<>> /\ n \in Names
  BY OrderedNode DEF PlainWorker
<1>3. Scripts'
  BY <1>2, Advancing DEF PlainWorker
<1>4. Counted'
  BY <1>1, <1>2, SameKeys, TouchKeepsNames DEF PlainWorker
<1>5. Files'
  <2>1. env' \in [Nodes -> BOOLEAN]
    BY DEF PlainWorker, IInv, Files
  <2> QED
    BY <2>1, <1>1, SameKeys DEF PlainWorker, IInv, Files
<1> QED
  BY <1>1, <1>3, <1>4, <1>5, SameKeys, Kept DEF IInv

(* A copy onto a worker: what is not a name is not on the disk either.     *)
LEMMA CopiedFile ==
  ASSUME IInv, NEW cn \in Names \cup {Ca},
         UNCHANGED <<keys, granted, ca, issued, env, config>>,
         \/ host' = [host EXCEPT ![cn].pem = issued[cn].pem]
         \/ host' = [host EXCEPT ![cn].key = issued[cn].key]
         \/ host' = [host EXCEPT ![cn].ca = ca.pem]
  PROVE  Files'
<1>1. CASE cn \in Names
  BY <1>1, HostFile, OnTheDisk
<1>2. CASE cn \notin Nodes
  <2>1. host' = host
    BY <1>2 DEF IInv, Files
  <2> QED
    BY <2>1, SameKeys DEF IInv, Files
<1> QED
  BY <1>1, <1>2 DEF Names

LEMMA CopyCertInvariant ==
  ASSUME IInv, NEW o \in Operators, CopyCert(o) PROVE IInv'
<1> DEFINE n == tool[o].cn
<1>1. UNCHANGED <<keys, granted>> /\ UNCHANGED running
  BY DEF CopyCert, Fail
<1>2. CASE Fail(o, n)
  <2>1. Scripts'
    BY <1>2, Ending DEF Fail
  <2>2. Hands'
    BY <1>1, <1>2, IdleHands DEF Fail
  <2>3. Counted'
    BY <1>1, <1>2, SameKeys, Held DEF Fail, IInv, Counted
  <2>4. UNCHANGED files
    BY <1>2 DEF Fail
  <2> QED
    BY <1>1, <2>1, <2>2, <2>3, <2>4, SameKeys, Kept DEF IInv
<1>3. CASE /\ host' = [host EXCEPT ![n].pem = issued[n].pem]
           /\ Carry(o, "worker key", n, NoIdentity) /\ Touch(o, n)
           /\ UNCHANGED <<ca, issued, env, config, running, todo, keys, stops,
                          purges, granted>>
  <2>1. Hands' /\ Counted'
    BY <1>1, <1>3, GoingOn, Held, NothingIsStored DEF Doings
  <2>2. Files'
    BY <1>1, <1>3, Held, CopiedFile
  <2> QED
    BY <1>1, <1>3, <2>1, <2>2, SameKeys, Kept DEF IInv
<1> QED
  BY <1>2, <1>3 DEF CopyCert

LEMMA CopyKeyInvariant ==
  ASSUME IInv, NEW o \in Operators, CopyKey(o) PROVE IInv'
<1>1. UNCHANGED <<keys, granted>> /\ UNCHANGED running /\ UNCHANGED todo
  BY DEF CopyKey
<1>2. Hands' /\ Counted'
  BY <1>1, GoingOn, Held, NothingIsStored DEF CopyKey, Doings
<1>3. Files'
  BY <1>1, Held, CopiedFile DEF CopyKey
<1> QED
  BY <1>1, <1>2, <1>3, SameKeys, Kept DEF IInv

LEMMA CopyCaInvariant ==
  ASSUME IInv, NEW o \in Operators, CopyCa(o) PROVE IInv'
<1>1. UNCHANGED <<keys, granted>> /\ UNCHANGED running /\ UNCHANGED todo
  BY DEF CopyCa
<1>2. Hands' /\ Counted'
  BY <1>1, GoingOn, Held, NothingIsStored DEF CopyCa, Doings
<1>3. Files'
  BY <1>1, Held, CopiedFile DEF CopyCa
<1> QED
  BY <1>1, <1>2, <1>3, SameKeys, Kept DEF IInv

LEMMA WriteEnvInvariant ==
  ASSUME IInv, NEW o \in Operators, WriteEnv(o) PROVE IInv'
<1>1. UNCHANGED <<keys, granted>> /\ UNCHANGED running
  BY DEF WriteEnv
<1>2. Hands' /\ Scripts' /\ Counted'
  BY <1>1, Finishing DEF WriteEnv
<1>3. Files'
  BY <1>1, EnvFile DEF WriteEnv
<1> QED
  BY <1>1, <1>2, <1>3, SameKeys, Kept DEF IInv

-----------------------------------------------------------------------------
LEMMA PackageInvariant ==
  ASSUME IInv, NEW o \in Operators, Package(o) PROVE IInv'
<1>1. UNCHANGED <<keys, granted>> /\ UNCHANGED running /\ UNCHANGED files
  BY DEF Package
<1>2. Scripts'
  BY Advancing DEF Package, At
<1>3. [NoIdentity EXCEPT !.ca = ca.pem] \in Stored
  BY NothingIsStored, OnTheDisk DEF Stored
<1>4. Hands' /\ Counted'
  BY <1>1, <1>3, GoingOn DEF Package, Doings, Names
<1> QED
  BY <1>1, <1>2, <1>4, SameKeys, Kept DEF IInv

LEMMA PackageCertInvariant ==
  ASSUME IInv, NEW o \in Operators, PackageCert(o) PROVE IInv'
<1>1. /\ UNCHANGED <<keys, granted>> /\ UNCHANGED running /\ UNCHANGED files
      /\ UNCHANGED todo
  BY DEF PackageCert
<1>2. [tool[o].id EXCEPT !.pem = issued[User].pem] \in Stored
  BY Held, OnTheDisk DEF Stored, Names
<1>3. Hands' /\ Counted'
  BY <1>1, <1>2, GoingOn DEF PackageCert, Doings, Names
<1> QED
  BY <1>1, <1>3, SameKeys, Kept DEF IInv

LEMMA PackageKeyInvariant ==
  ASSUME IInv, NEW o \in Operators, PackageKey(o) PROVE IInv'
<1>1. UNCHANGED <<keys, granted>> /\ UNCHANGED running
  BY DEF PackageKey
<1>2. Hands' /\ Scripts'
  <2>1. Hands'
    BY <1>1, IdleHands DEF PackageKey, Finish
  <2>2. Scripts'
    BY <1>1, SameKeys, Kept DEF PackageKey, Finish
  <2> QED
    BY <2>1, <2>2
<1>3. Counted'
  BY <1>1, SameKeys, TouchKeepsNames DEF PackageKey, Names
<1>4. Files'
  <2>1. [tool[o].id EXCEPT !.key = issued[User].key] \in Stored
    BY Held, OnTheDisk DEF Stored, Names
  <2> QED
    BY <2>1, <1>1, SameKeys DEF PackageKey, IInv, Files
<1> QED
  BY <1>1, <1>2, <1>3, <1>4, SameKeys, Kept DEF IInv

LEMMA GivingUp ==
  ASSUME IInv, NEW o \in Operators,
         todo' = [todo EXCEPT ![o] = <<>>], tool' = [tool EXCEPT ![o] = Idle],
         UNCHANGED <<files, running, keys, granted>>,
         torn' \in SUBSET (Names \cup {Ca})
  PROVE  IInv'
<1>1. UNCHANGED <<keys, granted>> /\ UNCHANGED running /\ UNCHANGED files
  OBVIOUS
<1> QED
  BY <1>1, Ending, IdleHands, SameKeys, Kept DEF IInv

LEMMA PackageFailsInvariant ==
  ASSUME IInv, NEW o \in Operators, PackageFails(o) PROVE IInv'
BY GivingUp DEF PackageFails, IInv, Counted

LEMMA InterruptInvariant ==
  ASSUME IInv, NEW o \in Operators, Interrupt(o) PROVE IInv'
<1>1. torn' \in SUBSET (Names \cup {Ca})
  <2>1. torn \in SUBSET (Names \cup {Ca})
    BY DEF IInv, Counted
  <2>2. CASE tool[o] # Idle
    BY <2>1, <2>2, Held DEF Interrupt
  <2>3. CASE tool[o] = Idle /\ At(o, "restart")
    BY <2>1, <2>3, OrderedNode DEF Interrupt
  <2>4. CASE tool[o] = Idle /\ ~At(o, "restart")
    BY <2>1, <2>4 DEF Interrupt
  <2> QED
    BY <2>2, <2>3, <2>4
<1> QED
  BY <1>1, GivingUp DEF Interrupt

LEMMA PurgeInvariant == ASSUME IInv, NEW o \in Operators, Purge(o) PROVE IInv'
<1>1. UNCHANGED <<keys, granted>> /\ UNCHANGED tool /\ UNCHANGED torn
  BY DEF Purge
<1>2. Scripts'
  BY Advancing DEF Purge, At
<1>3. Files'
  <2>1. NoCa \in [pem : 0 .. keys, key : 0 .. keys]
    BY DEF IInv, Counted, NoCa, NoKey
  <2> QED
    BY <2>1, <1>1, NothingIsStored, SameKeys DEF Purge, IInv, Files
<1>4. Loaded'
  <2>1. Absent.id \in Stored /\ Absent # Plaintext
    BY NothingIsStored DEF Absent, Plaintext
  <2> QED
    BY <2>1, <1>1, SameKeys DEF Purge, IInv, Loaded, Services
<1> QED
  BY <1>1, <1>2, <1>3, <1>4, SameKeys, Kept DEF IInv, Counted

LEMMA RestartInvariant ==
  ASSUME IInv, NEW o \in Operators, Restart(o) PROVE IInv'
<1>1. UNCHANGED <<keys, granted>> /\ UNCHANGED tool /\ UNCHANGED torn /\ UNCHANGED files
  BY DEF Restart
<1>2. Scripts'
  BY Advancing DEF Restart, At
<1>3. Loaded'
  <2>1. Down.id \in Stored /\ Down # Plaintext
    BY NothingIsStored DEF Down, Plaintext
  <2> QED
    BY <2>1, <1>1, SameKeys DEF Restart, IInv, Loaded
<1> QED
  BY <1>1, <1>2, <1>3, SameKeys, Kept DEF IInv, Counted

-----------------------------------------------------------------------------
(* A service that starts has what it found, if that fits together.         *)
LEMMA StartInvariant == ASSUME IInv, NEW s \in Services, Start(s) PROVE IInv'
<1>1. /\ UNCHANGED <<keys, granted>> /\ UNCHANGED tool /\ UNCHANGED torn
      /\ UNCHANGED files /\ UNCHANGED todo
  BY DEF Start
<1>2. /\ Loads(s) \in {Plaintext, Refused} \/ Loads(s) = Mtls(Loads(s).id)
      /\ Loads(s).id \in Stored
  <2>1. CASE s \in Nodes
    BY <2>1, OnTheDisk, NothingIsStored DEF Loads, TlsMode, Mtls, Plaintext, Refused
  <2>2. CASE s \notin Nodes
    <3>1. OnDisk(s) \in Stored
      BY <2>2, OnTheDisk DEF Services, Names
    <3> QED
      BY <2>2, <3>1, NothingIsStored DEF Loads, TlsMode, Mtls, Plaintext, Refused
  <2> QED
    BY <2>1, <2>2
<1>3. s \in {Api, Scheduler} => Loads(s) # Plaintext
  BY NamesDiffer DEF Loads, TlsMode, Parts, Mtls, Plaintext
<1>4. \/ Loads(s) = Plaintext
      \/ Loads(s) = Mtls(Loads(s).id) /\ Paired(Loads(s).id)
  BY <1>2 DEF Start, Refused, Paired, NoIdentity
<1>5. Loaded'
  BY <1>1, <1>2, <1>3, <1>4, SameKeys DEF Start, IInv, Loaded
<1> QED
  BY <1>1, <1>5, SameKeys, Kept DEF IInv, Counted

LEMMA StopInvariant == ASSUME IInv, NEW s \in Services, Stop(s) PROVE IInv'
<1>1. /\ UNCHANGED <<keys, granted>> /\ UNCHANGED tool /\ UNCHANGED torn
      /\ UNCHANGED files /\ UNCHANGED todo
  BY DEF Stop
<1>2. Loaded'
  <2>1. Down.id \in Stored /\ Down # Plaintext
    BY NothingIsStored DEF Down, Plaintext
  <2> QED
    BY <2>1, <1>1, SameKeys DEF Stop, IInv, Loaded
<1> QED
  BY <1>1, <1>2, SameKeys, Kept DEF IInv, Counted

LEMMA StutteringInvariant == ASSUME IInv, UNCHANGED vars PROVE IInv'
<1>1. /\ UNCHANGED <<keys, granted>> /\ UNCHANGED tool /\ UNCHANGED torn
      /\ UNCHANGED files /\ UNCHANGED todo /\ UNCHANGED running
  BY DEF vars, files
<1> QED
  BY <1>1, SameKeys, Kept DEF IInv, Counted

-----------------------------------------------------------------------------
(* Every step of the specification keeps the invariant.                    *)
LEMMA StepInvariant == ASSUME IInv, NEW o \in Operators, Step(o) PROVE IInv'
BY InitCaInvariant, WriteCaCertInvariant, WriteCaKeyInvariant, IssueInvariant,
   WriteCertInvariant, WriteKeyInvariant, WorkerInvariant,
   PlainWorkerInvariant, CopyCertInvariant, CopyKeyInvariant,
   CopyCaInvariant, WriteEnvInvariant, PackageInvariant,
   PackageCertInvariant, PackageKeyInvariant, PackageFailsInvariant,
   PurgeInvariant, RestartInvariant
   DEF Step

(* Whatever operators do, every certificate anywhere was signed by some    *)
(* barenetes-pki run, and a service that runs with TLS has the key of the  *)
(* certificate it presents.                                                *)
THEOREM CredentialsInvariant == Spec => []IInv
<1>1. Init => IInv
  BY InitInvariant
<1>2. ASSUME IInv, [Next]_vars PROVE IInv'
  <2>1. ASSUME NEW o \in Operators, Begin(o) \/ Step(o) \/ Interrupt(o) PROVE IInv'
    BY <2>1, <1>2, BeginInvariant, StepInvariant, InterruptInvariant
  <2>2. ASSUME NEW s \in Services, Start(s) \/ Stop(s) PROVE IInv'
    BY <2>2, <1>2, StartInvariant, StopInvariant
  <2>3. CASE UNCHANGED vars
    BY <2>3, <1>2, StutteringInvariant
  <2> QED
    BY <2>1, <2>2, <2>3, <1>2 DEF Next
<1> QED
  BY <1>1, <1>2, PTL DEF Spec

-----------------------------------------------------------------------------
(* The type invariant of the model.                                        *)
LEMMA InvariantTypes == IInv => CredTypeOK
<1> SUFFICES ASSUME IInv PROVE CredTypeOK
  OBVIOUS
<1>1. /\ ca \in [pem : 0 .. keys, key : 0 .. keys]
      /\ issued \in [Names -> [pem : granted \cup {NoCert}, key : 0 .. keys]]
      /\ host \in [Nodes -> [pem : granted \cup {NoCert}, key : 0 .. keys, ca : 0 .. keys]]
      /\ env \in [Nodes -> BOOLEAN]
      /\ config \in [pem : granted \cup {NoCert}, key : 0 .. keys, ca : 0 .. keys]
  BY DEF IInv, Files, Stored, Pairs
<1>2. ASSUME NEW s \in Services
      PROVE  \/ running[s] \in {Absent, Down} \cup {Plaintext : n \in Nodes}
             \/ running[s] = Mtls(running[s].id) /\ Paired(running[s].id)
  <2>1. running[s] = Plaintext => \E n \in Nodes : TRUE
    BY DEF IInv, Loaded, Services
  <2> QED
    BY <2>1 DEF IInv, Loaded
<1>3. ASSUME NEW o \in Operators
      PROVE  /\ tool[o].doing \in Doings /\ tool[o].cn \in Names \cup {Ca}
             /\ tool[o].doing \in {"issue", "issue key"} => Paired(tool[o].id)
  <2>1. tool[o] \in Tools
    BY DEF IInv, Hands
  <2> QED
    BY <2>1 DEF Tools, IInv, Hands
<1>4. keys \in Nat /\ granted \subseteq Certs /\ torn \subseteq Names \cup {Ca}
  BY DEF IInv, Counted
<1> QED
  BY <1>1, <1>2, <1>3, <1>4 DEF CredTypeOK

THEOREM CredentialTypes == Spec => []CredTypeOK
BY CredentialsInvariant, InvariantTypes, PTL

-----------------------------------------------------------------------------
(* Whoever calls with TLS has a certificate that was granted.              *)
LEMMA ClientsWereGranted ==
  ASSUME IInv, NEW client \in Clients, client.mode = "mtls", Paired(client.id)
  PROVE  client.id.pem \in granted
<1>1. CASE \E s \in Services : client = running[s]
  BY <1>1 DEF IInv, Loaded, Stored, Paired
<1>2. CASE \E given \in NoneSomeAll, named \in BOOLEAN, parts \in NoneSomeAll :
             client = Barectl(given, named, parts)
  <2>1. PICK given \in NoneSomeAll, named \in BOOLEAN, parts \in NoneSomeAll :
               client = Barectl(given, named, parts)
    BY <1>2
  <2>2. client.id \in {OnDisk(User), Only(parts), NoIdentity}
    BY <2>1 DEF Barectl, Resolve, TlsMode, Mtls, Plaintext, Refused
  <2>3. OnDisk(User).pem \in granted \cup {NoCert}
    BY OnTheDisk DEF OnDisk, Names
  <2>4. Only(parts).pem \in granted \cup {NoCert}
    BY DEF Only, IInv, Files, Stored
  <2> QED
    BY <2>2, <2>3, <2>4 DEF Paired, NoIdentity
<1> QED
  BY <1>1, <1>2 DEF Clients

LEMMA InvariantEntitles == IInv => Entitled
<1> SUFFICES ASSUME IInv, running[Api].mode = "mtls",
                    NEW client \in Clients, NEW rpc \in Rpcs, NEW node \in Nodes,
                    Serves(client, running[Api], rpc, node)
             PROVE  \E cert \in granted :
                      /\ cert.key = client.id.key /\ cert.ca = running[Api].id.ca
                      /\ cert.role = RoleOf[rpc]
                      /\ rpc \in NodeRpcs => cert.cn = node
  BY DEF Entitled
<1>1. client.mode = "mtls" /\ Paired(client.id)
  BY DEF Serves, Handshake
<1>2. client.id.pem \in granted
  BY <1>1, ClientsWereGranted
<1>3. client.id.pem.role \in Roles \cup {""}
  BY <1>2 DEF IInv, Counted, Certs
<1>4. /\ client.id.pem.ca = running[Api].id.ca
      /\ client.id.pem.role = RoleOf[rpc]
      /\ rpc \in NodeRpcs => client.id.pem.cn = node
  <2>1. client.id.pem.ca = running[Api].id.ca
    BY DEF Serves, Handshake
  <2>2. /\ Peer(client).tls /\ Peer(client).identity = client.id.pem.cn
        /\ Peer(client).role = client.id.pem.role
    BY <1>1, <1>3 DEF Peer
  <2>3. CheckRole(Peer(client), RoleOf[rpc])
    BY DEF Serves
  <2>4. client.id.pem.role = RoleOf[rpc]
    BY <1>3, <2>2, <2>3 DEF CheckRole
  <2>5. rpc \in NodeRpcs => CheckIdentity(Peer(client), node)
    BY DEF Serves
  <2>6. rpc \in NodeRpcs => client.id.pem.cn = node
    BY <2>2, <2>5 DEF CheckIdentity
  <2> QED
    BY <2>1, <2>4, <2>6
<1> QED
  BY <1>1, <1>2, <1>4 DEF Paired

(* An API server with TLS runs a handler only for a caller that holds the  *)
(* key of a certificate its CA signed for the RPC's role and node, for any *)
(* number of nodes, operators, key pairs, interruptions and purges.        *)
THEOREM CallersAreEntitled == Spec => []Entitled
BY CredentialsInvariant, InvariantEntitles, PTL

-----------------------------------------------------------------------------
(***************************************************************************)
(* The files and the services.  What follows says which pieces belong      *)
(* together while nothing is torn, command by command: JInv, inductive     *)
(* relative to IInv.  From it come the three properties about the pieces   *)
(* of a certificate (PairsFit, TlsIsKept and WiredToWork).                 *)
(***************************************************************************)
AtCa == {"new ca", "ca key"}
AtIssue == {"issue", "issue key"}
AtWorker == {"worker", "worker key", "worker ca", "worker env"}
AtPackage == {"package", "package key"}

Busy(o) == ~In(o, "nothing")
On(o, doings, cn) == tool[o].doing \in doings /\ tool[o].cn = cn

(* Commands are about the names they are for, and an installation of a     *)
(* worker is followed by a restart of its agent.                           *)
RestartOf(order, cn) == order.do = "restart" /\ order.cn = cn
Apt(cn, role) ==
  /\ cn = Api => role = "api"
  /\ cn = Scheduler => role = "scheduler"
  /\ cn \in Nodes => role = "node"

Planned(script) ==
  \A i \in DOMAIN script :
    /\ script[i].do \in {"ensure", "issue"} => Apt(script[i].cn, script[i].role)
    /\ script[i].do = "worker" =>
         /\ script[i].cn \in Nodes
         /\ i + 1 \in DOMAIN script /\ RestartOf(script[i + 1], script[i].cn)

Fitting(hand, script) ==
  /\ hand.doing = "nothing" => hand = Idle
  /\ hand.doing \in AtCa => hand.cn = Ca
  /\ hand.doing \in AtIssue => hand.cn \in Names
  /\ hand.doing \in AtPackage => hand.cn = User
  /\ hand.doing \in AtWorker =>
       hand.cn \in Nodes /\ script # <<>> /\ RestartOf(Head(script), hand.cn)
Purpose(o) == Planned(todo[o]) /\ Fitting(tool[o], todo[o])
Purposes == \A o \in Operators : Purpose(o)

(* Two commands about one name leave it torn.                              *)
Alone ==
  \A o, p \in Operators :
    Busy(o) /\ Busy(p) /\ tool[o].cn = tool[p].cn /\ tool[o].cn \notin torn => o = p

(* Every certificate is of the name under which it is kept, with a role    *)
(* that fits.                                                              *)
Named(pem, cn) == pem # NoCert => pem.cn = cn /\ Apt(cn, pem.role)
Holding(hand) ==
  /\ hand.doing \in AtIssue => Named(hand.id.pem, hand.cn)
  /\ hand.doing \in AtPackage => Named(hand.id.pem, User) /\ hand.id.ca # NoKey
  /\ hand.doing \in AtCa => hand.id.key # NoKey
Owned ==
  /\ \A cn \in Names : Named(issued[cn].pem, cn)
  /\ \A n \in Nodes : Named(host[n].pem, n)
  /\ Named(config.pem, User)
  /\ \A s \in Services : Named(running[s].id.pem, s)
  /\ \A o \in Operators : Holding(tool[o])

(* A CA that nothing tore is complete, or absent, or being made; and it    *)
(* has signed whatever is on the control plane.                            *)
CaWhole ==
  Ca \notin torn =>
    /\ ca.pem = ca.key \/ (ca.key = NoKey /\ \E o \in Operators : On(o, {"ca key"}, Ca))
    /\ \A o \in Operators : In(o, "new ca") => ca = NoCa
    /\ \A o \in Operators : In(o, "ca key") => ca.pem = tool[o].id.key
SignedHere(pem) == pem # NoCert => pem.ca = ca.pem
Signed ==
  Ca \notin torn =>
    /\ \A cn \in Names : SignedHere(issued[cn].pem)
    /\ \A o \in Operators : tool[o].doing \in AtIssue => SignedHere(tool[o].id.pem)
    /\ \A o \in Operators : tool[o].doing \in AtPackage => tool[o].id.ca = ca.pem

(* A pair that nothing tore is complete, or absent, or being written.      *)
PairWhole(cn) ==
  /\ \/ issued[cn] = NoPair \/ Paired(issued[cn])
     \/ \E o \in Operators : On(o, {"issue key"}, cn)
  /\ \A o \in Operators : On(o, {"issue key"}, cn) => issued[cn].pem = tool[o].id.pem
PairsWhole == \A cn \in Names \ torn : PairWhole(cn)

(* So is a worker's copy of it, and its file of settings says so.          *)
AtCopy == {"worker key", "worker ca"}
CopyWhole(n) ==
  /\ \/ host[n] = NoIdentity \/ Fits(host[n])
     \/ \E o \in Operators : On(o, AtCopy, n)
  /\ \A o \in Operators :
       On(o, AtCopy, n) =>
         /\ Paired(issued[n]) /\ ca.pem # NoKey
         /\ host[n].pem = issued[n].pem
         /\ In(o, "worker ca") => host[n].key = issued[n].key
  /\ \A o \in Operators : On(o, AtWorker, n) => ~env[n]
Copies == \A n \in Nodes \ torn : CopyWhole(n)

(* And a user's file.                                                      *)
Packages ==
  User \notin torn =>
    /\ PartsOf(config) = Parts => Fits(config)
    /\ \A o \in Operators :
         In(o, "package key") =>
           tool[o].id.pem = issued[User].pem /\ issued[User].pem # NoCert

(* A service that runs with TLS has loaded what fits; an agent that was    *)
(* given certificates uses them, or is about to be restarted.              *)
Restarting(n) == \E o \in Operators : At(o, "restart") /\ Head(todo[o]).cn = n
Wired ==
  /\ \A s \in {Api, Scheduler} :
       Ca \notin torn /\ running[s].mode = "mtls" => running[s].id.pem.ca = running[s].id.ca
  /\ \A n \in Nodes \ torn :
       /\ running[n].mode = "mtls" => Fits(running[n].id)
       /\ \/ host[n] = NoIdentity
          \/ \E o \in Operators : On(o, AtWorker, n)
          \/ env[n] /\ (running[n].mode # "plaintext" \/ Restarting(n))

JInv ==
  /\ Purposes /\ Alone /\ Owned
  /\ CaWhole /\ Signed /\ PairsWhole /\ Copies /\ Packages /\ Wired

-----------------------------------------------------------------------------
(* What one step changes, file by file.                                    *)
LEMMA HandSet ==
  ASSUME IInv, NEW o \in Operators, NEW hand, tool' = [tool EXCEPT ![o] = hand]
  PROVE  tool'[o] = hand /\ \A p \in Operators : p # o => tool'[p] = tool[p]
BY DEF IInv, Hands

LEMMA ScriptSet ==
  ASSUME IInv, NEW o \in Operators, NEW script, todo' = [todo EXCEPT ![o] = script]
  PROVE  todo'[o] = script /\ \A p \in Operators : p # o => todo'[p] = todo[p]
BY DEF IInv, Scripts

LEMMA IssuedSet ==
  ASSUME IInv, NEW cn \in Names, NEW value
  PROVE  /\ issued' = [issued EXCEPT ![cn].pem = value] =>
              /\ issued'[cn].pem = value /\ issued'[cn].key = issued[cn].key
              /\ \A other \in Names : other # cn => issued'[other] = issued[other]
         /\ issued' = [issued EXCEPT ![cn].key = value] =>
              /\ issued'[cn].key = value /\ issued'[cn].pem = issued[cn].pem
              /\ \A other \in Names : other # cn => issued'[other] = issued[other]
BY DEF IInv, Files, Pairs

LEMMA HostSet ==
  ASSUME IInv, NEW n \in Nodes, NEW value
  PROVE  /\ host' = [host EXCEPT ![n].pem = value] =>
              /\ host'[n].pem = value /\ host'[n].key = host[n].key
              /\ host'[n].ca = host[n].ca
              /\ \A other \in Nodes : other # n => host'[other] = host[other]
         /\ host' = [host EXCEPT ![n].key = value] =>
              /\ host'[n].key = value /\ host'[n].pem = host[n].pem
              /\ host'[n].ca = host[n].ca
              /\ \A other \in Nodes : other # n => host'[other] = host[other]
         /\ host' = [host EXCEPT ![n].ca = value] =>
              /\ host'[n].ca = value /\ host'[n].pem = host[n].pem
              /\ host'[n].key = host[n].key
              /\ \A other \in Nodes : other # n => host'[other] = host[other]
BY DEF IInv, Files, Stored

LEMMA CaSet ==
  ASSUME IInv, NEW value
  PROVE  /\ ca' = [ca EXCEPT !.pem = value] => ca'.pem = value /\ ca'.key = ca.key
         /\ ca' = [ca EXCEPT !.key = value] => ca'.key = value /\ ca'.pem = ca.pem
BY DEF IInv, Files

LEMMA EnvSet ==
  ASSUME IInv, NEW n \in Nodes, NEW value, env' = [env EXCEPT ![n] = value]
  PROVE  env'[n] = value /\ \A other \in Nodes : other # n => env'[other] = env[other]
BY DEF IInv, Files

LEMMA RunningSet ==
  ASSUME IInv, NEW s \in Services, NEW value, running' = [running EXCEPT ![s] = value]
  PROVE  /\ running'[s] = value
         /\ \A other \in Services : other # s => running'[other] = running[other]
BY DEF IInv, Loaded

(* Files are nothing when their parts are.                                 *)
LEMMA Blank ==
  ASSUME IInv
  PROVE  /\ \A cn \in Names : issued[cn].pem = NoCert /\ issued[cn].key = NoKey
                                <=> issued[cn] = NoPair
         /\ \A n \in Nodes : /\ host[n].pem = NoCert /\ host[n].key = NoKey
                             /\ host[n].ca = NoKey
                             <=> host[n] = NoIdentity
         /\ ca.pem = NoKey /\ ca.key = NoKey <=> ca = NoCa
BY DEF IInv, Files, Pairs, Stored, NoPair, NoIdentity, NoCa

LEMMA GrantedBySomeCa ==
  ASSUME IInv, NEW pem \in granted \cup {NoCert}, pem # NoCert
  PROVE  pem.ca # NoKey /\ pem.key # NoKey
BY DEF IInv, Counted, Certs, Keys, NoKey

-----------------------------------------------------------------------------
(* What a step leaves in order because it does not come near it.           *)
Same(doings) ==
  \A p \in Operators :
    tool[p].doing \in doings \/ tool'[p].doing \in doings => tool'[p] = tool[p]

LEMMA OwnedHands ==
  ASSUME Owned, NEW o \in Operators, Holding(tool'[o]),
         \A p \in Operators : p # o => tool'[p] = tool[p]
  PROVE  \A p \in Operators : Holding(tool'[p])
BY DEF Owned

LEMMA OwnedMeans ==
  ASSUME \A cn \in Names : Named(issued'[cn].pem, cn),
         \A n \in Nodes : Named(host'[n].pem, n),
         Named(config'.pem, User),
         \A s \in Services : Named(running'[s].id.pem, s),
         \A p \in Operators : Holding(tool'[p])
  PROVE  Owned'
BY DEF Owned, Holding, Named, Apt, AtIssue, AtPackage, AtCa, NoKey

LEMMA OwnedIs ==
  ASSUME UNCHANGED <<issued, host, config, running>>, Owned,
         \A p \in Operators : Holding(tool'[p])
  PROVE  Owned'
BY DEF Owned, Holding, Named, Apt, AtIssue, AtPackage, AtCa, NoKey

LEMMA OwnedStays ==
  ASSUME Owned, UNCHANGED <<issued, host, config, running>>, Same(AtCa \cup AtIssue \cup AtPackage)
  PROVE  Owned'
<1>1. ASSUME NEW p \in Operators PROVE Holding(tool'[p])
  <2>1. CASE tool'[p] = tool[p]
    BY <2>1 DEF Owned
  <2>2. CASE tool'[p].doing \notin AtCa \cup AtIssue \cup AtPackage
    BY <2>2 DEF Holding
  <2> QED
    BY <2>1, <2>2 DEF Same
<1> QED
  BY <1>1, OwnedIs

LEMMA CaWholeStays ==
  ASSUME CaWhole, UNCHANGED ca, Same(AtCa), torn \subseteq torn'
  PROVE  CaWhole'
BY DEF CaWhole, Same, AtCa, In, On

LEMMA SignedStays ==
  ASSUME Signed, ca'.pem = ca.pem, UNCHANGED issued, Same(AtIssue \cup AtPackage), torn \subseteq torn'
  PROVE  Signed'
BY DEF Signed, SignedHere, Same, AtIssue, AtPackage

SameOn(doings, cn) ==
  \A p \in Operators : On(p, doings, cn) \/ On(p, doings, cn)' => tool'[p] = tool[p]

LEMMA PairStays ==
  ASSUME NEW cn, PairWhole(cn), issued'[cn] = issued[cn], SameOn({"issue key"}, cn)
  PROVE  PairWhole(cn)'
<1>1. \A p \in Operators : On(p, {"issue key"}, cn) \/ On(p, {"issue key"}, cn)' =>
        tool'[p] = tool[p]
  BY DEF SameOn
<1>2. \A p \in Operators : On(p, {"issue key"}, cn) <=> On(p, {"issue key"}, cn)'
  BY <1>1 DEF On
<1>3. Paired(issued[cn])' <=> Paired(issued[cn])
  BY DEF Paired
<1>4. NoPair' = NoPair
  BY DEF NoPair, NoKey
<1> QED
  BY <1>1, <1>2, <1>3, <1>4 DEF PairWhole

LEMMA PairsStay ==
  ASSUME PairsWhole, UNCHANGED issued, Same({"issue key"}), torn \subseteq torn'
  PROVE  PairsWhole'
<1>1. ASSUME NEW cn PROVE SameOn({"issue key"}, cn)
  BY DEF SameOn, Same, On
<1> QED
  BY <1>1, PairStays DEF PairsWhole

LEMMA CopyStays ==
  ASSUME NEW n, CopyWhole(n), host'[n] = host[n], env'[n] \/ env[n] => env'[n] = env[n],
         SameOn(AtWorker, n), torn \subseteq torn',
         \/ ca'.pem = ca.pem /\ issued'[n] = issued[n]
         \/ ca'.pem # NoKey /\ issued'[n] = issued[n]
         \/ \A p \in Operators : ~On(p, AtCopy, n)
  PROVE  CopyWhole(n)'
<1>1. \A p \in Operators : On(p, AtWorker, n) \/ On(p, AtWorker, n)' => tool'[p] = tool[p]
  BY DEF SameOn
<1>2. \A p \in Operators :
        /\ On(p, AtCopy, n) => On(p, AtWorker, n)
        /\ On(p, AtCopy, n)' => On(p, AtWorker, n)'
  BY DEF On, AtWorker, AtCopy
<1>3. \A o \in Operators :
        /\ On(o, AtWorker, n) <=> On(o, AtWorker, n)'
        /\ On(o, AtCopy, n) <=> On(o, AtCopy, n)'
        /\ On(o, AtWorker, n) => (In(o, "worker ca")' <=> In(o, "worker ca"))
  BY <1>1, <1>2 DEF On, In
<1>4. Fits(host[n]) => Fits(host[n])'
  BY DEF Fits, Paired
<1>5. issued'[n] = issued[n] => (Paired(issued[n])' <=> Paired(issued[n]))
  BY DEF Paired
<1>6. NoIdentity' = NoIdentity /\ NoKey' = NoKey
  BY DEF NoIdentity, NoKey
<1> QED
  BY <1>2, <1>3, <1>4, <1>5, <1>6 DEF CopyWhole

LEMMA CopiesStay ==
  ASSUME Copies, ca'.pem = ca.pem \/ ca'.pem # NoKey, UNCHANGED <<issued, host, env>>,
         Same(AtWorker), torn \subseteq torn'
  PROVE  Copies'
<1>1. ASSUME NEW n PROVE SameOn(AtWorker, n)
  BY DEF SameOn, Same, On
<1> QED
  BY <1>1, CopyStays DEF Copies

LEMMA PackagesStay ==
  ASSUME Packages, UNCHANGED <<issued, config>>, Same(AtPackage), torn \subseteq torn'
  PROVE  Packages'
BY DEF Packages, Same, AtPackage, In, Fits

LEMMA WiredStays ==
  ASSUME Wired, UNCHANGED <<running, host, env>>, Same(AtWorker), torn \subseteq torn',
         \A n \in Nodes \ torn' : Restarting(n) => Restarting(n)'
  PROVE  Wired'
BY DEF Wired, Same, AtWorker, On, Fits

-----------------------------------------------------------------------------
(* What the helpers of the commands do to it.                              *)
LEMMA TouchTears ==
  ASSUME NEW o, NEW cn, Touch(o, cn)
  PROVE  /\ torn \subseteq torn' /\ torn' \subseteq torn \cup {cn}
         /\ cn \notin torn' =>
              \A p \in Operators : p # o /\ Busy(p) => tool[p].cn # cn
BY DEF Touch, Meets, Busy, In

LEMMA SameCarrying ==
  ASSUME IInv, NEW o \in Operators, NEW doing, NEW cn, NEW id, Carry(o, doing, cn, id),
         NEW doings, tool[o].doing \notin doings, doing \notin doings
  PROVE  Same(doings)
BY HandSet DEF Carry, Same

LEMMA SameIdling ==
  ASSUME IInv, NEW o \in Operators, tool' = [tool EXCEPT ![o] = Idle],
         NEW doings, tool[o].doing \notin doings, "nothing" \notin doings
  PROVE  Same(doings)
BY HandSet DEF Idle, Same

LEMMA AloneCarrying ==
  ASSUME IInv, Alone, NEW o \in Operators, NEW doing, NEW cn, NEW id,
         Carry(o, doing, cn, id), Touch(o, cn)
  PROVE  Alone'
<1> SUFFICES ASSUME NEW p \in Operators, NEW q \in Operators, Busy(p)', Busy(q)',
                    tool'[p].cn = tool'[q].cn, tool'[p].cn \notin torn', p # q
             PROVE  FALSE
  BY DEF Alone
<1>1. tool'[o].cn = cn /\ \A r \in Operators : r # o => tool'[r] = tool[r]
  <2>1. /\ tool'[o] = [doing |-> doing, cn |-> cn, id |-> id]
        /\ \A r \in Operators : r # o => tool'[r] = tool[r]
    BY HandSet DEF Carry
  <2> QED
    BY <2>1
<1>2. torn \subseteq torn'
  BY TouchTears
<1>3. CASE p = o
  BY <1>1, <1>3, TouchTears DEF Busy, In
<1>4. CASE q = o
  BY <1>1, <1>4, TouchTears DEF Busy, In
<1>5. CASE p # o /\ q # o
  BY <1>1, <1>2, <1>5 DEF Alone, Busy, In
<1> QED
  BY <1>3, <1>4, <1>5

LEMMA AloneIdling ==
  ASSUME IInv, Alone, NEW o \in Operators, tool' = [tool EXCEPT ![o] = Idle],
         torn \subseteq torn'
  PROVE  Alone'
<1>1. ~Busy(o)' /\ \A r \in Operators : r # o => tool'[r] = tool[r]
  <2>1. tool'[o] = Idle /\ \A r \in Operators : r # o => tool'[r] = tool[r]
    BY HandSet
  <2> QED
    BY <2>1 DEF Idle, Busy, In
<1> QED
  BY <1>1 DEF Alone, Busy, In

LEMMA RestartingStays ==
  ASSUME IInv, NEW o \in Operators, ~At(o, "restart"),
         \A p \in Operators : p # o => tool'[p] = tool[p] /\ todo'[p] = todo[p],
         NEW n, Restarting(n)
  PROVE  Restarting(n)'
BY DEF Restarting, At

LEMMA PurposesMean ==
  ASSUME \A p \in Operators : Planned(todo'[p]) /\ Fitting(tool'[p], todo'[p])
  PROVE  Purposes'
<1>1. ASSUME NEW p \in Operators PROVE Purpose(p)'
  <2>1. Planned(todo[p])'
    BY DEF Planned, Apt, RestartOf
  <2>2. Fitting(tool[p], todo[p])'
    BY DEF Fitting, Idle, NoIdentity, NoKey, AtCa, AtIssue, AtPackage, AtWorker, RestartOf
  <2> QED
    BY <2>1, <2>2 DEF Purpose
<1> QED
  BY <1>1 DEF Purposes

LEMMA PurposesKept ==
  ASSUME IInv, Purposes, NEW o \in Operators,
         \A p \in Operators : p # o => tool'[p] = tool[p] /\ todo'[p] = todo[p],
         Planned(todo'[o]), Fitting(tool'[o], todo'[o])
  PROVE  Purposes'
<1>1. ASSUME NEW p \in Operators PROVE Planned(todo'[p]) /\ Fitting(tool'[p], todo'[p])
  <2>1. CASE p = o
    BY <2>1
  <2>2. CASE p # o
    <3>1. Planned(todo[p]) /\ Fitting(tool[p], todo[p])
      BY DEF Purposes, Purpose
    <3> QED
      BY <2>2, <3>1
  <2> QED
    BY <2>1, <2>2
<1> QED
  BY <1>1, PurposesMean

(* The script without the command that is run next.                        *)
LEMMA TailIsPlanned ==
  ASSUME IInv, NEW o \in Operators, Planned(todo[o]), todo[o] # <<>>
  PROVE  /\ Planned(Tail(todo[o]))
         /\ Head(todo[o]).do \in {"ensure", "issue"} => Apt(Head(todo[o]).cn, Head(todo[o]).role)
         /\ Head(todo[o]).do = "worker" =>
              /\ Head(todo[o]).cn \in Nodes /\ Tail(todo[o]) # <<>>
              /\ RestartOf(Head(Tail(todo[o])), Head(todo[o]).cn)
<1> DEFINE script == todo[o]
<1>1. script \in Seq(Orders) /\ Len(script) \in Nat /\ Len(script) >= 1
  BY DEF IInv, Scripts
<1>2. /\ Head(script) = script[1] /\ 1 \in DOMAIN script
      /\ Len(Tail(script)) = Len(script) - 1
      /\ DOMAIN Tail(script) = 1 .. Len(script) - 1
      /\ DOMAIN script = 1 .. Len(script)
      /\ \A i \in DOMAIN Tail(script) : Tail(script)[i] = script[i + 1]
  BY <1>1
<1>3. Planned(Tail(script))
  <2>1. ASSUME NEW i \in DOMAIN Tail(script)
        PROVE  /\ i + 1 \in DOMAIN script /\ Tail(script)[i] = script[i + 1]
               /\ (i + 1) + 1 \in DOMAIN script =>
                     /\ i + 1 \in DOMAIN Tail(script)
                     /\ Tail(script)[i + 1] = script[(i + 1) + 1]
    BY <1>1, <1>2
  <2> HIDE DEF script
  <2>2. Planned(script)
    BY DEF script
  <2>3. ASSUME NEW i \in DOMAIN Tail(script)
        PROVE  /\ Tail(script)[i].do \in {"ensure", "issue"} =>
                    Apt(Tail(script)[i].cn, Tail(script)[i].role)
               /\ Tail(script)[i].do = "worker" =>
                    /\ Tail(script)[i].cn \in Nodes /\ i + 1 \in DOMAIN Tail(script)
                    /\ RestartOf(Tail(script)[i + 1], Tail(script)[i].cn)
    BY <2>1, <2>2 DEF Planned
  <2> QED
    BY <2>3 DEF Planned
<1>4. 1 + 1 \in DOMAIN script => Tail(script) # <<>> /\ Head(Tail(script)) = script[1 + 1]
  BY <1>1, <1>2
<1> HIDE DEF script
<1>5. Planned(script)
  BY DEF script
<1>6. /\ Planned(Tail(script))
      /\ Head(script).do \in {"ensure", "issue"} => Apt(Head(script).cn, Head(script).role)
      /\ Head(script).do = "worker" =>
           /\ Head(script).cn \in Nodes /\ Tail(script) # <<>>
           /\ RestartOf(Head(Tail(script)), Head(script).cn)
  BY <1>2, <1>3, <1>4, <1>5 DEF Planned
<1> QED
  BY <1>6 DEF script

-----------------------------------------------------------------------------
LEMMA InitJ == Init => JInv
<1> SUFFICES ASSUME Init PROVE JInv
  OBVIOUS
<1>1. /\ \A o \in Operators : tool[o].doing = "nothing" /\ tool[o] = Idle /\ todo[o] = <<>>
      /\ \A cn \in Names : issued[cn] = NoPair /\ issued[cn].pem = NoCert
      /\ \A n \in Nodes : host[n] = NoIdentity /\ host[n].pem = NoCert
      /\ config = NoIdentity /\ config.pem = NoCert
      /\ \A s \in Services : running[s].id.pem = NoCert /\ running[s].mode = "absent"
      /\ ca = NoCa /\ ca.pem = ca.key
  BY DEF Init, Idle, NoPair, NoIdentity, Absent, NoCa
<1>2. Purposes
  <2>1. Planned(<<>>)
    BY DEF Planned
  <2> QED
    BY <1>1, <2>1 DEF Purposes, Purpose, Fitting, AtCa, AtIssue, AtPackage, AtWorker
<1>3. Alone
  BY <1>1 DEF Alone, Busy, In
<1>4. Owned
  BY <1>1 DEF Owned, Holding, Named, AtIssue, AtPackage, AtCa
<1>5. CaWhole /\ Signed
  BY <1>1 DEF CaWhole, Signed, SignedHere, In, AtIssue, AtPackage
<1>6. PairsWhole
  BY <1>1 DEF PairsWhole, PairWhole, On
<1>7. Copies
  BY <1>1 DEF Copies, CopyWhole, On, AtCopy, AtWorker
<1>8. Packages
  <2>1. PartsOf(config) # Parts
    BY <1>1 DEF PartsOf, Parts
  <2> QED
    BY <2>1, <1>1 DEF Packages, In, AtPackage
<1>9. Wired
  BY <1>1 DEF Wired, Services
<1> QED
  BY <1>2, <1>3, <1>4, <1>5, <1>6, <1>7, <1>8, <1>9 DEF JInv

-----------------------------------------------------------------------------
(* A step that changes nothing but a script: the next commands are other   *)
(* ones, and no restart is dropped.                                        *)
LEMMA ScriptStep ==
  ASSUME IInv, JInv, NEW o \in Operators, NEW script, tool[o] = Idle,
         todo' = [todo EXCEPT ![o] = script], Planned(script), ~At(o, "restart"),
         UNCHANGED files, UNCHANGED running, UNCHANGED tool, torn \subseteq torn'
  PROVE  JInv'
<1> USE DEF JInv, files
<1>1. todo'[o] = script /\ \A p \in Operators : p # o => todo'[p] = todo[p]
  BY ScriptSet
<1>2. \A doings : Same(doings)
  BY DEF Same
<1>3. Purposes'
  <2>1. Fitting(tool'[o], todo'[o])
    <3>1. tool'[o] = Idle /\ Idle.doing = "nothing"
      BY DEF Idle
    <3> QED
      BY <3>1 DEF Fitting, AtCa, AtIssue, AtPackage, AtWorker
  <2> QED
    BY <1>1, <2>1, PurposesKept
<1>4. Alone'
  BY DEF Alone, Busy, In
<1>5. \A n : Restarting(n) => Restarting(n)'
  BY <1>1, RestartingStays
<1> QED
  BY <1>2, <1>3, <1>4, <1>5, OwnedStays, CaWholeStays, SignedStays, PairsStay,
     CopiesStay, PackagesStay, WiredStays

LEMMA PurgePlanned ==
  ASSUME NEW a, a.do = "purge" PROVE Planned(<<a>>)
<1> DEFINE plan == <<a>>
<1>1. DOMAIN plan = {1} /\ plan[1] = a
  OBVIOUS
<1> HIDE DEF plan
<1>2. Planned(plan)
  BY <1>1 DEF Planned
<1> QED
  BY <1>2 DEF plan

LEMMA PairPlanned ==
  ASSUME NEW a, NEW b,
         \/ a.do = "issue" /\ a.cn = User /\ b.do = "package"
         \/ a.do = "plain" /\ b.do = "restart"
  PROVE  Planned(<<a, b>>)
<1> DEFINE plan == <<a, b>>
<1>1. DOMAIN plan = {1, 2} /\ plan[1] = a /\ plan[2] = b
  OBVIOUS
<1>2. Apt(User, a.role)
  BY NamesDiffer DEF Apt
<1> HIDE DEF plan
<1>3. Planned(plan)
  BY <1>1, <1>2 DEF Planned
<1> QED
  BY <1>3 DEF plan

LEMMA JoinPlanned ==
  ASSUME NEW a, NEW b, NEW c, NEW n \in Nodes,
         a.do = "issue", a.cn = n, a.role = "node", b.do = "worker", b.cn = n,
         c.do = "restart", c.cn = n
  PROVE  Planned(<<a, b, c>>)
<1> DEFINE plan == <<a, b, c>>
<1>1. DOMAIN plan = {1, 2, 3} /\ plan[1] = a /\ plan[2] = b /\ plan[3] = c
  OBVIOUS
<1>2. Apt(n, "node") /\ RestartOf(c, n)
  BY NamesDiffer DEF Apt, RestartOf
<1> HIDE DEF plan
<1>3. Planned(plan)
  BY <1>1, <1>2 DEF Planned
<1> QED
  BY <1>3 DEF plan

LEMMA InstallPlanned ==
  ASSUME NEW a, NEW b, NEW c, NEW d, NEW e, a.do = "ca",
         b.do = "ensure", b.cn = Api, b.role = "api",
         c.do = "ensure", c.cn = Scheduler, c.role = "scheduler",
         d.do = "restart", e.do = "restart"
  PROVE  Planned(<<a, b, c, d, e>>)
<1> DEFINE plan == <<a, b, c, d, e>>
<1>1. /\ DOMAIN plan = {1, 2, 3, 4, 5} /\ plan[1] = a /\ plan[2] = b /\ plan[3] = c
      /\ plan[4] = d /\ plan[5] = e
  OBVIOUS
<1>2. Apt(Api, "api") /\ Apt(Scheduler, "scheduler")
  BY NamesDiffer DEF Apt
<1> HIDE DEF plan
<1>3. Planned(plan)
  BY <1>1, <1>2 DEF Planned
<1> QED
  BY <1>3 DEF plan

LEMMA PlansArePlanned ==
  ASSUME NEW plan \in Plans
  PROVE  Planned(plan)
<1>1. ASSUME plan = InstallControlPlane PROVE Planned(plan)
  <2>1. /\ Command("ca", Ca, "").do = "ca"
        /\ Command("ensure", Api, "api").do = "ensure"
        /\ Command("ensure", Api, "api").cn = Api
        /\ Command("ensure", Api, "api").role = "api"
        /\ Command("ensure", Scheduler, "scheduler").do = "ensure"
        /\ Command("ensure", Scheduler, "scheduler").cn = Scheduler
        /\ Command("ensure", Scheduler, "scheduler").role = "scheduler"
        /\ Command("restart", Api, "").do = "restart"
        /\ Command("restart", Scheduler, "").do = "restart"
    BY DEF Command
  <2>2. Planned(<<Command("ca", Ca, ""), Command("ensure", Api, "api"),
                  Command("ensure", Scheduler, "scheduler"),
                  Command("restart", Api, ""), Command("restart", Scheduler, "")>>)
    BY <2>1, InstallPlanned, Zenon
  <2> QED
    BY <1>1, <2>2 DEF InstallControlPlane
<1>2. ASSUME plan = <<Command("purge", Ca, "")>> PROVE Planned(plan)
  <2>1. Command("purge", Ca, "").do = "purge"
    BY DEF Command
  <2> QED
    BY <1>2, <2>1, PurgePlanned, Zenon
<1>3. ASSUME NEW n \in Nodes, plan = JoinWorker(n) PROVE Planned(plan)
  <2>1. /\ Command("issue", n, "node").do = "issue"
        /\ Command("issue", n, "node").cn = n /\ Command("issue", n, "node").role = "node"
        /\ Command("worker", n, "").do = "worker" /\ Command("worker", n, "").cn = n
        /\ Command("restart", n, "").do = "restart" /\ Command("restart", n, "").cn = n
    BY DEF Command
  <2>2. Planned(<<Command("issue", n, "node"), Command("worker", n, ""),
                  Command("restart", n, "")>>)
    BY <2>1, JoinPlanned, Zenon
  <2> QED
    BY <1>3, <2>2 DEF JoinWorker
<1>4. ASSUME NEW n \in Nodes, plan = <<Command("plain", n, ""), Command("restart", n, "")>>
      PROVE  Planned(plan)
  <2>1. Command("plain", n, "").do = "plain" /\ Command("restart", n, "").do = "restart"
    BY DEF Command
  <2> QED
    BY <1>4, <2>1, PairPlanned, Zenon
<1>5. ASSUME NEW role, plan = HandOut(role) PROVE Planned(plan)
  <2>1. /\ Command("issue", User, role).do = "issue" /\ Command("issue", User, role).cn = User
        /\ Command("package", User, "").do = "package"
    BY DEF Command
  <2>2. Planned(<<Command("issue", User, role), Command("package", User, "")>>)
    BY <2>1, PairPlanned, Zenon
  <2> QED
    BY <1>5, <2>2 DEF HandOut
<1> QED
  BY <1>1, <1>2, <1>3, <1>4, <1>5 DEF Plans

LEMMA BeginJ == ASSUME IInv, JInv, NEW o \in Operators, Begin(o) PROVE JInv'
<1>1. PICK plan \in Plans : todo' = [todo EXCEPT ![o] = plan]
  BY DEF Begin
<1>2. Planned(plan)
  BY PlansArePlanned
<1>3. ~At(o, "restart")
  BY DEF Begin, At
<1> QED
  BY <1>1, <1>2, <1>3, ScriptStep DEF Begin

(* The script after a command that the operator takes from it.             *)
LEMMA Advanced ==
  ASSUME IInv, JInv, NEW o \in Operators, NEW do, At(o, do), Advance(o)
  PROVE  /\ todo' = [todo EXCEPT ![o] = Tail(todo[o])]
         /\ todo'[o] = Tail(todo[o]) /\ \A p \in Operators : p # o => todo'[p] = todo[p]
         /\ Planned(todo'[o]) /\ tool[o] = Idle /\ tool[o].doing = "nothing"
         /\ do # "restart" => ~At(o, "restart")
         /\ todo[o] # <<>> /\ Head(todo[o]).do = do
<1>1. todo' = [todo EXCEPT ![o] = Tail(todo[o])]
  BY DEF Advance
<1>2. todo'[o] = Tail(todo[o]) /\ \A p \in Operators : p # o => todo'[p] = todo[p]
  BY <1>1, ScriptSet
<1>3. tool[o] = Idle /\ todo[o] # <<>> /\ Head(todo[o]).do = do
  BY DEF At
<1>4. Planned(todo[o])
  BY DEF JInv, Purposes, Purpose
<1>5. Planned(Tail(todo[o]))
  BY <1>3, <1>4, TailIsPlanned
<1>6. tool[o].doing = "nothing"
  BY <1>3 DEF Idle
<1>7. do # "restart" => ~At(o, "restart")
  BY <1>3 DEF At
<1> QED
  BY <1>1, <1>2, <1>3, <1>5, <1>6, <1>7

(* A command takes up a file: nobody's hands but its own change, and if    *)
(* the name is not torn then nobody else is busy with it.                  *)
LEMMA CarriedHand ==
  ASSUME IInv, NEW o \in Operators, NEW doing, NEW cn, NEW id, Carry(o, doing, cn, id)
  PROVE  /\ tool'[o].doing = doing /\ tool'[o].cn = cn /\ tool'[o].id = id
         /\ \A p \in Operators : p # o => tool'[p] = tool[p]
<1>1. /\ tool'[o] = [doing |-> doing, cn |-> cn, id |-> id]
      /\ \A p \in Operators : p # o => tool'[p] = tool[p]
  BY HandSet DEF Carry
<1> QED
  BY <1>1

LEMMA OnlyOne ==
  ASSUME NEW o, NEW cn, Touch(o, cn), cn \notin torn', NEW p \in Operators, p # o, Busy(p)
  PROVE  tool[p].cn # cn
BY TouchTears

LEMMA InitCaJ == ASSUME IInv, JInv, NEW o \in Operators, InitCa(o) PROVE JInv'
<1>0. At(o, "ca") /\ Advance(o)
  BY DEF InitCa
<1>1. /\ todo' = [todo EXCEPT ![o] = Tail(todo[o])]
      /\ todo'[o] = Tail(todo[o]) /\ \A p \in Operators : p # o => todo'[p] = todo[p]
      /\ Planned(todo'[o]) /\ tool[o] = Idle /\ tool[o].doing = "nothing"
      /\ ~At(o, "restart")
  BY <1>0, Advanced
<1>2. UNCHANGED files /\ UNCHANGED running
  BY DEF InitCa
<1>3. CASE CaMade
  BY <1>1, <1>2, <1>3, ScriptStep DEF InitCa
<1>4. CASE ~CaMade
  <2> DEFINE id == [NoIdentity EXCEPT !.key = keys']
  <2>1. Carry(o, "new ca", Ca, id) /\ Touch(o, Ca) /\ ca.pem = NoKey /\ keys' = keys + 1
    BY <1>4 DEF InitCa, CaMade
  <2>2. id.key # NoKey
    <3>1. id.key = keys' /\ keys \in Nat
      BY DEF NoIdentity, IInv, Counted
    <3>2. keys' = keys + 1
      BY <2>1
    <3> HIDE DEF id
    <3> QED
      BY <3>2, <3>1 DEF NoKey
  <2> HIDE DEF id
  <2>3. /\ tool'[o].doing = "new ca" /\ tool'[o].cn = Ca /\ tool'[o].id = id
        /\ \A p \in Operators : p # o => tool'[p] = tool[p]
    BY <2>1, CarriedHand
  <2>4. torn \subseteq torn' /\ Alone'
    BY <2>1, TouchTears, AloneCarrying DEF JInv
  <2>5. Purposes'
    <3>1. Fitting(tool'[o], todo'[o])
      BY <2>3 DEF Fitting, AtCa, AtIssue, AtPackage, AtWorker
    <3> QED
      BY <1>1, <2>3, <3>1, PurposesKept DEF JInv
  <2>6. /\ Same(AtIssue \cup AtPackage) /\ Same({"issue key"}) /\ Same(AtWorker)
        /\ Same(AtPackage)
    <3>1. /\ {"nothing", "new ca"} \cap (AtIssue \cup AtPackage) = {}
          /\ {"nothing", "new ca"} \cap {"issue key"} = {}
          /\ {"nothing", "new ca"} \cap AtWorker = {}
          /\ {"nothing", "new ca"} \cap AtPackage = {}
      BY DEF AtIssue, AtPackage, AtWorker
    <3> HIDE DEF AtIssue, AtPackage, AtWorker
    <3>2. ASSUME NEW doings, {"nothing", "new ca"} \cap doings = {} PROVE Same(doings)
      BY <3>2, <1>1, <2>1, SameCarrying
    <3> QED
      BY <3>1, <3>2
  <2>7. Owned'
    <3>1. Holding(tool'[o])
      BY <2>2, <2>3 DEF Holding, AtCa, AtIssue, AtPackage
    <3> QED
      BY <1>2, <2>3, <3>1, OwnedHands, OwnedIs DEF JInv, files
  <2>8. CaWhole'
    <3> SUFFICES ASSUME Ca \notin torn' PROVE CaWhole'
      BY DEF CaWhole
    <3>1. \A p \in Operators : tool[p].doing \notin AtCa
      <4>1. ASSUME NEW p \in Operators, tool[p].doing \in AtCa PROVE FALSE
        <5>1. tool[p].cn = Ca /\ Busy(p)
          BY <4>1 DEF JInv, Purposes, Purpose, Fitting, AtCa, Busy, In
        <5> QED
          BY <5>1, <4>1, <1>1, <2>1, OnlyOne DEF AtCa
      <4> QED
        BY <4>1
    <3>2. ca = NoCa
      BY <2>1, <2>4, <3>1, Blank DEF JInv, CaWhole, On, AtCa
    <3>3. \A p \in Operators : tool'[p].doing # "ca key"
      BY <2>3, <3>1 DEF AtCa
    <3>4. ca' = ca /\ ca.pem = NoKey /\ ca.key = NoKey
      BY <1>2, <3>2 DEF files, NoCa
    <3> QED
      BY <3>2, <3>3, <3>4 DEF CaWhole, In, NoCa, NoKey
  <2> QED
    <3>1. \A n : Restarting(n) => Restarting(n)'
      BY <1>1, <2>3, RestartingStays
    <3> QED
      BY <1>2, <2>4, <2>5, <2>6, <2>7, <2>8, <3>1, SignedStays, PairsStay,
         CopiesStay, PackagesStay, WiredStays DEF JInv, files
<1> QED
  BY <1>3, <1>4

LEMMA BusyHands ==
  ASSUME NEW o, tool[o].doing # "nothing"
  PROVE  tool[o] # Idle /\ Busy(o) /\ \A do : ~At(o, do)
<1>1. Idle.doing = "nothing"
  BY DEF Idle
<1> QED
  BY <1>1 DEF At, Busy, In

(* While nothing tore the CA, whoever works on it is alone.                *)
LEMMA CaMakers ==
  ASSUME JInv, NEW p \in Operators, tool[p].doing \in AtCa
  PROVE  tool[p].cn = Ca /\ Busy(p)
BY DEF JInv, Purposes, Purpose, Fitting, AtCa, Busy, In

LEMMA NobodyElseMakesCa ==
  ASSUME JInv, NEW o \in Operators, Touch(o, Ca), Ca \notin torn',
         NEW p \in Operators, p # o
  PROVE  tool[p].doing \notin AtCa
BY CaMakers, OnlyOne

LEMMA WriteCaCertJ == ASSUME IInv, JInv, NEW o \in Operators, WriteCaCert(o) PROVE JInv'
<1> DEFINE id == tool[o].id
<1>1. /\ tool[o].doing = "new ca" /\ tool[o].cn = Ca /\ id.key # NoKey
      /\ ca' = [ca EXCEPT !.pem = id.key]
      /\ Carry(o, "ca key", Ca, id) /\ Touch(o, Ca)
      /\ UNCHANGED <<issued, host, env, config>> /\ UNCHANGED running /\ UNCHANGED todo
  <2>1. tool[o].doing = "new ca" /\ tool[o].doing \in AtCa
    BY DEF WriteCaCert, In, AtCa
  <2>2. Holding(tool[o]) /\ tool[o].cn = Ca
    BY <2>1, CaMakers DEF JInv, Owned
  <2> QED
    BY <2>1, <2>2 DEF WriteCaCert, Holding
<1> HIDE DEF id
<1>2. /\ tool'[o].doing = "ca key" /\ tool'[o].cn = Ca /\ tool'[o].id = id
      /\ \A p \in Operators : p # o => tool'[p] = tool[p]
  BY <1>1, CarriedHand
<1>3. torn \subseteq torn' /\ Alone'
  BY <1>1, TouchTears, AloneCarrying DEF JInv
<1>4. ca'.pem = id.key /\ ca'.key = ca.key
  BY <1>1, CaSet
<1>5. Purposes'
  <2>1. Planned(todo'[o])
    BY <1>1 DEF JInv, Purposes, Purpose
  <2>2. Fitting(tool'[o], todo'[o])
    BY <1>2 DEF Fitting, AtCa, AtIssue, AtPackage, AtWorker
  <2> QED
    BY <1>1, <1>2, <2>1, <2>2, PurposesKept DEF JInv
<1>6. Same(AtIssue \cup AtPackage) /\ Same({"issue key"}) /\ Same(AtWorker) /\ Same(AtPackage)
  <2>1. /\ {"ca key", "new ca"} \cap (AtIssue \cup AtPackage) = {}
        /\ {"ca key", "new ca"} \cap {"issue key"} = {}
        /\ {"ca key", "new ca"} \cap AtWorker = {}
        /\ {"ca key", "new ca"} \cap AtPackage = {}
    BY DEF AtIssue, AtPackage, AtWorker
  <2>2. ASSUME NEW doings, {"ca key", "new ca"} \cap doings = {} PROVE Same(doings)
    BY <2>2, <1>1, SameCarrying
  <2> QED
    BY <2>1, <2>2
<1>7. Owned'
  <2>1. Holding(tool'[o])
    BY <1>1, <1>2 DEF Holding, AtCa, AtIssue, AtPackage
  <2> QED
    BY <1>1, <1>2, <2>1, OwnedHands, OwnedIs DEF JInv
<1>8. ASSUME Ca \notin torn'
      PROVE  /\ ca = NoCa /\ ca.pem = NoKey /\ ca.key = NoKey
             /\ \A p \in Operators : p # o => tool'[p].doing \notin AtCa
  <2>1. ca = NoCa
    BY <1>1, <1>3, <1>8 DEF JInv, CaWhole, In
  <2> QED
    BY <1>1, <1>2, <1>8, <2>1, NobodyElseMakesCa DEF NoCa
<1>9. CaWhole'
  <2> SUFFICES ASSUME Ca \notin torn' PROVE CaWhole'
    BY DEF CaWhole
  <2>1. ca'.pem = id.key /\ ca'.key = NoKey
    BY <1>4, <1>8
  <2>2. \A p \in Operators : tool'[p].doing # "new ca" /\ (tool'[p].doing = "ca key" => p = o)
    BY <1>2, <1>8 DEF AtCa
  <2> QED
    BY <1>2, <2>1, <2>2 DEF CaWhole, On, In, NoKey
<1>10. Signed'
  <2> SUFFICES ASSUME Ca \notin torn' PROVE Signed'
    BY DEF Signed
  <2>1. ca.pem = NoKey /\ Ca \notin torn
    BY <1>3, <1>8
  <2>2. \A cn \in Names : issued[cn].pem = NoCert
    BY <2>1, OnTheDisk, GrantedBySomeCa DEF JInv, Signed, SignedHere
  <2>3. ASSUME NEW p \in Operators, tool[p].doing \in AtIssue PROVE FALSE
    BY <2>1, <2>3, Held, GrantedBySomeCa DEF JInv, Signed, SignedHere, IInv, Hands,
       AtIssue, Paired
  <2>4. ASSUME NEW p \in Operators, tool[p].doing \in AtPackage PROVE FALSE
    BY <2>1, <2>4 DEF JInv, Signed, Owned, Holding
  <2>5. \A p \in Operators : tool'[p].doing \notin AtIssue \cup AtPackage
    BY <2>3, <2>4, <1>6 DEF Same
  <2> QED
    BY <1>1, <2>2, <2>5 DEF Signed, SignedHere
<1> QED
  <2>1. ~At(o, "restart")
    BY <1>1, BusyHands
  <2>2. \A n : Restarting(n) => Restarting(n)'
    BY <2>1, <1>1, <1>2, RestartingStays
  <2>3. ca'.pem # NoKey
    BY <1>1, <1>4
  <2> QED
    BY <1>1, <1>3, <1>5, <1>6, <1>7, <1>9, <1>10, <2>2, <2>3, PairsStay, CopiesStay,
       PackagesStay, WiredStays DEF JInv

(* A command that came to its end, or was stopped.                         *)
LEMMA IdledHand ==
  ASSUME IInv, NEW o \in Operators, tool' = [tool EXCEPT ![o] = Idle]
  PROVE  /\ tool'[o] = Idle /\ tool'[o].doing = "nothing"
         /\ \A p \in Operators : p # o => tool'[p] = tool[p]
<1>1. tool'[o] = Idle /\ \A p \in Operators : p # o => tool'[p] = tool[p]
  BY HandSet
<1> QED
  BY <1>1 DEF Idle

LEMMA PurposesIdling ==
  ASSUME IInv, Purposes, NEW o \in Operators, tool' = [tool EXCEPT ![o] = Idle],
         UNCHANGED todo \/ todo' = [todo EXCEPT ![o] = <<>>]
  PROVE  Purposes'
<1>1. \A p \in Operators : p # o => tool'[p] = tool[p] /\ todo'[p] = todo[p]
  BY IdledHand, ScriptSet
<1>2. Planned(todo'[o])
  <2>1. Planned(todo[o]) /\ Planned(<<>>)
    BY DEF Purposes, Purpose, Planned
  <2> QED
    BY <2>1, ScriptSet
<1>3. Fitting(tool'[o], todo'[o])
  BY IdledHand DEF Fitting, AtCa, AtIssue, AtPackage, AtWorker
<1> QED
  BY <1>1, <1>2, <1>3, PurposesKept

LEMMA OwnedIdling ==
  ASSUME IInv, Owned, NEW o \in Operators, tool' = [tool EXCEPT ![o] = Idle]
  PROVE  \A p \in Operators : Holding(tool'[p])
<1>1. Holding(tool'[o])
  BY IdledHand DEF Holding, AtCa, AtIssue, AtPackage
<1> QED
  BY <1>1, IdledHand, OwnedHands

LEMMA WriteCaKeyJ == ASSUME IInv, JInv, NEW o \in Operators, WriteCaKey(o) PROVE JInv'
<1> DEFINE id == tool[o].id
<1>1. /\ tool[o].doing = "ca key" /\ tool[o].cn = Ca
      /\ ca' = [ca EXCEPT !.key = id.key]
      /\ tool' = [tool EXCEPT ![o] = Idle] /\ Touch(o, Ca)
      /\ UNCHANGED <<issued, host, env, config>> /\ UNCHANGED running /\ UNCHANGED todo
  <2>1. tool[o].doing = "ca key" /\ tool[o].doing \in AtCa
    BY DEF WriteCaKey, In, AtCa
  <2> QED
    BY <2>1, CaMakers DEF WriteCaKey, Finish
<1>2. ca'.pem = ca.pem /\ ca'.key = id.key
  BY <1>1, CaSet
<1> HIDE DEF id
<1>3. torn \subseteq torn' /\ Alone' /\ Purposes'
  BY <1>1, TouchTears, AloneIdling, PurposesIdling DEF JInv
<1>4. Same(AtIssue \cup AtPackage) /\ Same({"issue key"}) /\ Same(AtWorker) /\ Same(AtPackage)
  <2>1. /\ {"ca key", "nothing"} \cap (AtIssue \cup AtPackage) = {}
        /\ {"ca key", "nothing"} \cap {"issue key"} = {}
        /\ {"ca key", "nothing"} \cap AtWorker = {}
        /\ {"ca key", "nothing"} \cap AtPackage = {}
    BY DEF AtIssue, AtPackage, AtWorker
  <2>2. ASSUME NEW doings, {"ca key", "nothing"} \cap doings = {} PROVE Same(doings)
    BY <2>2, <1>1, SameIdling
  <2> QED
    BY <2>1, <2>2
<1>5. Owned'
  BY <1>1, OwnedIdling, OwnedIs DEF JInv
<1>6. CaWhole'
  <2> SUFFICES ASSUME Ca \notin torn' PROVE CaWhole'
    BY DEF CaWhole
  <2>1. ca'.pem = ca'.key
    BY <1>1, <1>2, <1>3 DEF JInv, CaWhole, In, id
  <2>2. \A p \in Operators : tool'[p].doing \notin AtCa
    <3>1. \A p \in Operators : p # o => tool[p].doing \notin AtCa
      BY <1>1, NobodyElseMakesCa
    <3> QED
      BY <1>1, <3>1, IdledHand DEF AtCa
  <2> QED
    BY <2>1, <2>2 DEF CaWhole, In, AtCa
<1> QED
  <2>1. ~At(o, "restart")
    BY <1>1, BusyHands
  <2>2. \A n : Restarting(n) => Restarting(n)'
    BY <2>1, <1>1, IdledHand, RestartingStays
  <2> QED
    BY <1>1, <1>2, <1>3, <1>4, <1>5, <1>6, <2>2, SignedStays, PairsStay, CopiesStay,
       PackagesStay, WiredStays DEF JInv

-----------------------------------------------------------------------------
LEMMA IssueJ == ASSUME IInv, JInv, NEW o \in Operators, Issue(o) PROVE JInv'
<1> DEFINE command == Head(todo[o])
           cert == Sign(command)
           id == Pair(cert)
<1>1. /\ todo[o] # <<>> /\ command.do \in {"ensure", "issue"}
      /\ tool[o] = Idle /\ tool[o].doing = "nothing" /\ ~At(o, "restart")
  BY DEF Issue, At, Idle
<1>2. /\ Planned(todo[o]) /\ Planned(Tail(todo[o])) /\ Apt(command.cn, command.role)
  <2>1. Planned(todo[o])
    BY DEF JInv, Purposes, Purpose
  <2> QED
    BY <1>1, <2>1, TailIsPlanned
<1>3. command.cn \in Names
  BY <1>1, HeadIsAnOrder DEF Orders
<1>4. CASE UNCHANGED <<files, running, tool, torn>>
  <2>1. \E script : todo' = [todo EXCEPT ![o] = script] /\ Planned(script)
    <3>1. Advance(o) \/ todo' = [todo EXCEPT ![o] = <<>>]
      BY DEF Issue
    <3>2. Planned(<<>>)
      BY DEF Planned
    <3> QED
      BY <1>2, <3>1, <3>2 DEF Advance
  <2>2. PICK script : todo' = [todo EXCEPT ![o] = script] /\ Planned(script)
    BY <2>1
  <2>3. UNCHANGED files /\ UNCHANGED running /\ UNCHANGED tool /\ torn \subseteq torn'
    BY <1>4
  <2> QED
    BY <1>1, <2>2, <2>3, ScriptStep
<1>5. CASE ca.pem # NoKey /\ ca.key # NoKey /\ ~Skipped(command)
  <2>1. /\ Carry(o, "issue", command.cn, id) /\ Touch(o, command.cn) /\ Advance(o)
        /\ UNCHANGED files /\ UNCHANGED running
    <3>1. cert.cn = command.cn
      BY DEF Sign
    <3>2. /\ Carry(o, "issue", cert.cn, id) /\ Touch(o, cert.cn) /\ Advance(o)
          /\ UNCHANGED files /\ UNCHANGED running
      BY <1>5 DEF Issue
    <3> QED
      BY <3>1, <3>2
  <2>2. id.pem.cn = command.cn /\ id.pem.role = command.role /\ id.pem.ca = ca.key
    BY DEF Pair, Sign, NoIdentity
  <2> HIDE DEF id, cert
  <2>3. /\ tool'[o].doing = "issue" /\ tool'[o].cn = command.cn /\ tool'[o].id = id
        /\ \A p \in Operators : p # o => tool'[p] = tool[p]
    BY <2>1, CarriedHand
  <2>4. torn \subseteq torn' /\ Alone'
    BY <2>1, TouchTears, AloneCarrying DEF JInv
  <2>5. todo'[o] = Tail(todo[o]) /\ \A p \in Operators : p # o => todo'[p] = todo[p]
    BY <2>1, ScriptSet DEF Advance
  <2>6. Purposes'
    <3>1. Fitting(tool'[o], todo'[o])
      BY <1>3, <2>3 DEF Fitting, AtCa, AtIssue, AtPackage, AtWorker
    <3> QED
      BY <1>2, <2>3, <2>5, <3>1, PurposesKept DEF JInv
  <2>7. Same(AtCa) /\ Same({"issue key"}) /\ Same(AtWorker) /\ Same(AtPackage)
    <3>1. /\ {"issue", "nothing"} \cap AtCa = {}
          /\ {"issue", "nothing"} \cap {"issue key"} = {}
          /\ {"issue", "nothing"} \cap AtWorker = {}
          /\ {"issue", "nothing"} \cap AtPackage = {}
      BY DEF AtCa, AtPackage, AtWorker
    <3>2. ASSUME NEW doings, {"issue", "nothing"} \cap doings = {} PROVE Same(doings)
      BY <3>2, <1>1, <2>1, SameCarrying
    <3> QED
      BY <3>1, <3>2
  <2>8. Owned'
    <3>1. Named(id.pem, command.cn)
      BY <1>2, <2>2 DEF Named
    <3>2. Holding(tool'[o])
      BY <2>3, <3>1 DEF Holding, AtCa, AtIssue, AtPackage
    <3> QED
      BY <2>1, <2>3, <3>2, OwnedHands, OwnedIs DEF JInv, files
  <2>9. Signed'
    <3> SUFFICES ASSUME Ca \notin torn' PROVE Signed'
      BY DEF Signed
    <3>1. id.pem.ca = ca.pem
      BY <1>5, <2>2, <2>4 DEF JInv, CaWhole
    <3>2. \A cn \in Names : SignedHere(issued[cn].pem)'
      BY <2>1, <2>4 DEF files, JInv, Signed, SignedHere
    <3>3. ASSUME NEW p \in Operators
          PROVE  /\ tool'[p].doing \in AtIssue => SignedHere(tool[p].id.pem)'
                 /\ tool'[p].doing \in AtPackage => tool'[p].id.ca = ca'.pem
      <4>1. CASE p = o
        BY <2>1, <2>3, <3>1, <4>1 DEF SignedHere, AtPackage, files
      <4>2. CASE p # o
        BY <2>1, <2>3, <2>4, <4>2 DEF JInv, Signed, SignedHere, files
      <4> QED
        BY <4>1, <4>2
    <3> QED
      BY <3>2, <3>3 DEF Signed, AtIssue, AtPackage
  <2>10. \A n : Restarting(n) => Restarting(n)'
    BY <1>1, <2>3, <2>5, RestartingStays
  <2> QED
    BY <2>1, <2>4, <2>6, <2>7, <2>8, <2>9, <2>10, CaWholeStays, PairsStay, CopiesStay,
       PackagesStay, WiredStays DEF JInv, files
<1> QED
  <2>1. Skipped(command) \/ ca.pem = NoKey \/ ca.key = NoKey
        => UNCHANGED <<files, running, tool, torn>>
    BY DEF Issue
  <2> QED
    BY <1>4, <1>5, <2>1

(* Who writes a pair that nothing tore is the only one at work on it.      *)
LEMMA IssuersAlone ==
  ASSUME IInv, JInv, NEW o \in Operators, tool[o].doing \in AtIssue,
         Touch(o, tool[o].cn)
  PROVE  /\ tool[o].cn \in Names
         /\ tool[o].cn \notin torn' =>
              \A p \in Operators : p # o => ~Busy(p) \/ tool[p].cn # tool[o].cn
         /\ Holding(tool[o]) /\ Named(tool[o].id.pem, tool[o].cn) /\ Paired(tool[o].id)
         /\ Ca \notin torn => SignedHere(tool[o].id.pem)
<1>1. tool[o].cn \in Names
  BY DEF JInv, Purposes, Purpose, Fitting
<1>2. Holding(tool[o])
  BY DEF JInv, Owned
<1>3. Named(tool[o].id.pem, tool[o].cn)
  BY <1>2 DEF Holding
<1>4. Paired(tool[o].id)
  BY DEF IInv, Hands, AtIssue
<1>5. Ca \notin torn => SignedHere(tool[o].id.pem)
  BY DEF JInv, Signed
<1> QED
  BY <1>1, <1>2, <1>3, <1>4, <1>5, OnlyOne

(* A pair changes that nobody is copying or packaging, unless it is torn.  *)
LEMMA CopiesOutlivePair ==
  ASSUME IInv, JInv, NEW o \in Operators, tool[o].doing \in AtIssue,
         NEW cn \in Names, cn = tool[o].cn,
         Touch(o, cn), UNCHANGED <<ca, host, env, config>>,
         \A other \in Names : other # cn => issued'[other] = issued[other],
         Same(AtWorker), Same(AtPackage)
  PROVE  Copies' /\ Packages'
<1>1. torn \subseteq torn'
  BY TouchTears
<1>2. ASSUME cn \notin torn', NEW p \in Operators
      PROVE  tool[p].doing \in AtWorker \cup AtPackage => tool[p].cn # cn
  <2>1. CASE p = o
    BY <2>1 DEF AtIssue, AtWorker, AtPackage
  <2>2. CASE p # o
    BY <1>2, <2>2, OnlyOne DEF Busy, In, AtWorker, AtPackage
  <2> QED
    BY <2>1, <2>2
<1>3. Copies'
  <2>1. ASSUME NEW n \in Nodes \ torn' PROVE CopyWhole(n)'
    <3>1. CopyWhole(n) /\ n \in Names
      BY <1>1 DEF JInv, Copies, Names
    <3>2. SameOn(AtWorker, n)
      BY DEF SameOn, Same, On
    <3>3. n = cn => \A p \in Operators : ~On(p, AtCopy, n)
      BY <1>2 DEF On, AtCopy, AtWorker
    <3> QED
      BY <3>1, <3>2, <3>3, <1>1, CopyStays
  <2> QED
    BY <2>1 DEF Copies
<1>4. Packages'
  <2> SUFFICES ASSUME User \notin torn' PROVE Packages'
    BY DEF Packages
  <2>1. User \in Names /\ User \notin torn
    BY <1>1 DEF Names
  <2>2. ASSUME NEW p \in Operators, tool'[p].doing = "package key"
        PROVE  issued'[User] = issued[User] /\ tool'[p] = tool[p]
    <3>1. tool'[p] = tool[p]
      BY <2>2 DEF Same, AtPackage
    <3>2. tool[p].cn = User
      BY <2>2, <3>1 DEF JInv, Purposes, Purpose, Fitting, AtPackage
    <3>3. User # cn
      BY <1>2, <2>2, <3>1, <3>2 DEF AtPackage
    <3> QED
      BY <2>1, <3>1, <3>3
  <2>3. PartsOf(config) = Parts => Fits(config)'
    BY <1>1, <2>1 DEF JInv, Packages, Fits, Paired
  <2>4. \A p \in Operators : In(p, "package key")' =>
          tool'[p].id.pem = issued'[User].pem /\ issued'[User].pem # NoCert
    BY <2>1, <2>2 DEF JInv, Packages, In
  <2> QED
    BY <2>3, <2>4 DEF Packages, In, PartsOf, Parts, NoKey
<1> QED
  BY <1>3, <1>4

LEMMA WriteCertJ == ASSUME IInv, JInv, NEW o \in Operators, WriteCert(o) PROVE JInv'
<1>0. PICK cn, id : cn = tool[o].cn /\ id = tool[o].id
  OBVIOUS
<1>1. /\ tool[o].doing = "issue" /\ tool[o].doing \in AtIssue
      /\ issued' = [issued EXCEPT ![cn].pem = id.pem]
      /\ Carry(o, "issue key", cn, id) /\ Touch(o, cn)
      /\ UNCHANGED <<ca, host, env, config>> /\ UNCHANGED running /\ UNCHANGED todo
  BY <1>0 DEF WriteCert, In, AtIssue
<1>2. /\ cn \in Names
      /\ cn \notin torn' => \A p \in Operators : p # o => ~Busy(p) \/ tool[p].cn # cn
      /\ Named(id.pem, cn)
      /\ Ca \notin torn => SignedHere(id.pem)
  BY <1>0, <1>1, IssuersAlone
<1>3. /\ issued'[cn].pem = id.pem
      /\ \A other \in Names : other # cn => issued'[other] = issued[other]
  BY <1>1, <1>2, IssuedSet
<1>4. /\ tool'[o].doing = "issue key" /\ tool'[o].cn = cn /\ tool'[o].id = id
      /\ \A p \in Operators : p # o => tool'[p] = tool[p]
  BY <1>1, CarriedHand
<1>5. torn \subseteq torn' /\ Alone'
  BY <1>1, TouchTears, AloneCarrying DEF JInv
<1>6. Purposes'
  <2>1. Planned(todo'[o])
    BY <1>1 DEF JInv, Purposes, Purpose
  <2>2. Fitting(tool'[o], todo'[o])
    BY <1>2, <1>4 DEF Fitting, AtCa, AtIssue, AtPackage, AtWorker
  <2> QED
    BY <1>1, <1>4, <2>1, <2>2, PurposesKept DEF JInv
<1>7. Same(AtCa) /\ Same(AtWorker) /\ Same(AtPackage)
  <2>1. /\ {"issue", "issue key"} \cap AtCa = {}
        /\ {"issue", "issue key"} \cap AtWorker = {}
        /\ {"issue", "issue key"} \cap AtPackage = {}
    BY DEF AtCa, AtPackage, AtWorker
  <2>2. ASSUME NEW doings, {"issue", "issue key"} \cap doings = {} PROVE Same(doings)
    BY <2>2, <1>1, SameCarrying
  <2> QED
    BY <2>1, <2>2
<1>8. Owned'
  <2>1. Holding(tool'[o])
    BY <1>2, <1>4 DEF Holding, AtCa, AtIssue, AtPackage
  <2>2. \A p \in Operators : Holding(tool'[p])
    BY <1>4, <2>1, OwnedHands DEF JInv
  <2>3. ASSUME NEW other \in Names PROVE Named(issued'[other].pem, other)
    BY <1>2, <1>3 DEF JInv, Owned
  <2> QED
    BY <1>1, <2>2, <2>3, OwnedMeans DEF JInv, Owned
<1>9. Signed'
  <2> SUFFICES ASSUME Ca \notin torn' PROVE Signed'
    BY DEF Signed
  <2>1. Ca \notin torn /\ ca' = ca
    BY <1>1, <1>5
  <2>2. \A other \in Names : SignedHere(issued[other].pem)'
    BY <1>2, <1>3, <2>1 DEF JInv, Signed, SignedHere
  <2>3. ASSUME NEW p \in Operators
        PROVE  /\ tool'[p].doing \in AtIssue => SignedHere(tool[p].id.pem)'
               /\ tool'[p].doing \in AtPackage => tool'[p].id.ca = ca'.pem
    <3>1. CASE p = o
      BY <1>2, <1>4, <2>1, <3>1 DEF SignedHere, AtPackage
    <3>2. CASE p # o
      BY <1>4, <2>1, <3>2 DEF JInv, Signed, SignedHere
    <3> QED
      BY <3>1, <3>2
  <2> QED
    BY <2>2, <2>3 DEF Signed, AtIssue, AtPackage
<1>10. PairsWhole'
  <2>1. ASSUME NEW other \in Names \ torn' PROVE PairWhole(other)'
    <3>1. CASE other = cn
      <4>1. On(o, {"issue key"}, cn)'
        BY <1>4 DEF On
      <4>2. ASSUME NEW p \in Operators, On(p, {"issue key"}, cn)' PROVE p = o
        BY <1>2, <1>4, <3>1, <4>2 DEF On, Busy, In
      <4> QED
        BY <1>3, <1>4, <3>1, <4>1, <4>2 DEF PairWhole
    <3>2. CASE other # cn
      <4>1. PairWhole(other) /\ issued'[other] = issued[other]
        BY <1>3, <1>5, <3>2 DEF JInv, PairsWhole
      <4>2. SameOn({"issue key"}, other)
        BY <1>0, <1>1, <1>4, <3>2 DEF SameOn, On
      <4> QED
        BY <4>1, <4>2, PairStays
    <3> QED
      BY <3>1, <3>2
  <2> QED
    BY <2>1 DEF PairsWhole
<1>11. Copies' /\ Packages'
  BY <1>1, <1>2, <1>3, <1>7, <1>0, CopiesOutlivePair
<1>12. \A n : Restarting(n) => Restarting(n)'
  BY <1>1, <1>4, BusyHands, RestartingStays
<1> QED
  BY <1>1, <1>5, <1>6, <1>7, <1>8, <1>9, <1>10, <1>11, <1>12, CaWholeStays, WiredStays DEF JInv

LEMMA WriteKeyJ == ASSUME IInv, JInv, NEW o \in Operators, WriteKey(o) PROVE JInv'
<1>0. PICK cn, id : cn = tool[o].cn /\ id = tool[o].id
  OBVIOUS
<1>1. /\ tool[o].doing = "issue key" /\ tool[o].doing \in AtIssue
      /\ issued' = [issued EXCEPT ![cn].key = id.key]
      /\ tool' = [tool EXCEPT ![o] = Idle] /\ Touch(o, cn)
      /\ UNCHANGED <<ca, host, env, config>> /\ UNCHANGED running /\ UNCHANGED todo
  BY <1>0 DEF WriteKey, In, AtIssue, Finish
<1>2. /\ cn \in Names
      /\ cn \notin torn' => \A p \in Operators : p # o => ~Busy(p) \/ tool[p].cn # cn
      /\ Paired(id)
  BY <1>0, <1>1, IssuersAlone
<1>3. /\ issued'[cn].pem = issued[cn].pem /\ issued'[cn].key = id.key
      /\ \A other \in Names : other # cn => issued'[other] = issued[other]
  BY <1>1, <1>2, IssuedSet
<1>4. cn \notin torn => issued[cn].pem = id.pem
  BY <1>0, <1>1, <1>2 DEF JInv, PairsWhole, PairWhole, On
<1>5. tool'[o].doing = "nothing" /\ \A p \in Operators : p # o => tool'[p] = tool[p]
  BY <1>1, IdledHand
<1>6. torn \subseteq torn' /\ Alone' /\ Purposes'
  BY <1>1, TouchTears, AloneIdling, PurposesIdling DEF JInv
<1>7. Same(AtCa) /\ Same(AtWorker) /\ Same(AtPackage)
  <2>1. /\ {"issue key", "nothing"} \cap AtCa = {}
        /\ {"issue key", "nothing"} \cap AtWorker = {}
        /\ {"issue key", "nothing"} \cap AtPackage = {}
    BY DEF AtCa, AtPackage, AtWorker
  <2>2. ASSUME NEW doings, {"issue key", "nothing"} \cap doings = {} PROVE Same(doings)
    BY <2>2, <1>1, SameIdling
  <2> QED
    BY <2>1, <2>2
<1>8. \A other \in Names : issued'[other].pem = issued[other].pem
  BY <1>3
<1>9. Owned'
  <2>1. \A p \in Operators : Holding(tool'[p])
    BY <1>1, OwnedIdling DEF JInv
  <2>2. \A other \in Names : Named(issued'[other].pem, other)
    BY <1>8 DEF JInv, Owned
  <2> QED
    BY <1>1, <2>1, <2>2, OwnedMeans DEF JInv, Owned
<1>10. Signed'
  <2> SUFFICES ASSUME Ca \notin torn' PROVE Signed'
    BY DEF Signed
  <2>1. Ca \notin torn /\ ca' = ca
    BY <1>1, <1>6
  <2>2. \A other \in Names : SignedHere(issued[other].pem)'
    BY <1>8, <2>1 DEF JInv, Signed, SignedHere
  <2>3. ASSUME NEW p \in Operators
        PROVE  /\ tool'[p].doing \in AtIssue => SignedHere(tool[p].id.pem)'
               /\ tool'[p].doing \in AtPackage => tool'[p].id.ca = ca'.pem
    <3>1. CASE p = o
      BY <1>5, <3>1 DEF AtIssue, AtPackage
    <3>2. CASE p # o
      BY <1>5, <2>1, <3>2 DEF JInv, Signed, SignedHere
    <3> QED
      BY <3>1, <3>2
  <2> QED
    BY <2>2, <2>3 DEF Signed, AtIssue, AtPackage
<1>11. PairsWhole'
  <2>1. ASSUME NEW other \in Names \ torn' PROVE PairWhole(other)'
    <3>1. CASE other = cn
      <4>1. Paired(issued[cn])'
        BY <1>2, <1>3, <1>4, <1>6, <3>1 DEF Paired
      <4>2. ASSUME NEW p \in Operators, On(p, {"issue key"}, cn)' PROVE FALSE
        BY <1>2, <1>5, <3>1, <4>2 DEF On, Busy, In
      <4> QED
        BY <3>1, <4>1, <4>2 DEF PairWhole
    <3>2. CASE other # cn
      <4>1. PairWhole(other) /\ issued'[other] = issued[other]
        BY <1>3, <1>6, <3>2 DEF JInv, PairsWhole
      <4>2. SameOn({"issue key"}, other)
        BY <1>0, <1>1, <1>5, <3>2 DEF SameOn, On
      <4> QED
        BY <4>1, <4>2, PairStays
    <3> QED
      BY <3>1, <3>2
  <2> QED
    BY <2>1 DEF PairsWhole
<1>12. Copies' /\ Packages'
  BY <1>1, <1>2, <1>3, <1>7, <1>0, CopiesOutlivePair
<1>13. \A n : Restarting(n) => Restarting(n)'
  BY <1>1, <1>5, BusyHands, RestartingStays
<1> QED
  BY <1>1, <1>6, <1>7, <1>9, <1>10, <1>11, <1>12, <1>13, CaWholeStays, WiredStays DEF JInv

-----------------------------------------------------------------------------
(* Who installs a worker that nothing tore is the only one at work on it.  *)
LEMMA InstallersAlone ==
  ASSUME JInv, NEW o \in Operators, tool[o].doing \in AtWorker, Touch(o, tool[o].cn)
  PROVE  /\ tool[o].cn \in Nodes /\ tool[o].cn \in Names
         /\ todo[o] # <<>> /\ RestartOf(Head(todo[o]), tool[o].cn)
         /\ tool[o].cn \notin torn' =>
              \A p \in Operators : p # o => ~Busy(p) \/ tool[p].cn # tool[o].cn
<1>1. /\ tool[o].cn \in Nodes /\ todo[o] # <<>> /\ RestartOf(Head(todo[o]), tool[o].cn)
  BY DEF JInv, Purposes, Purpose, Fitting
<1> QED
  BY <1>1, OnlyOne DEF Names

(* The parts of the invariant that a worker's installation stays away from. *)
LEMMA ElsewhereThanWorker ==
  ASSUME IInv, JInv, NEW o \in Operators, NEW doing \in AtWorker, NEW cn, NEW id,
         Carry(o, doing, cn, id), Touch(o, cn),
         tool[o].doing = "nothing" \/ tool[o].doing \in AtWorker,
         UNCHANGED <<ca, issued, config>>
  PROVE  /\ CaWhole' /\ Signed' /\ PairsWhole' /\ Packages' /\ Alone' /\ torn \subseteq torn'
         /\ \A p \in Operators : Holding(tool'[p])
<1>1. /\ Same(AtCa) /\ Same(AtIssue \cup AtPackage) /\ Same({"issue key"}) /\ Same(AtPackage)
      /\ Same(AtCa \cup AtIssue \cup AtPackage)
  <2>1. /\ (AtWorker \cup {"nothing"}) \cap AtCa = {}
        /\ (AtWorker \cup {"nothing"}) \cap (AtIssue \cup AtPackage) = {}
        /\ (AtWorker \cup {"nothing"}) \cap {"issue key"} = {}
        /\ (AtWorker \cup {"nothing"}) \cap AtPackage = {}
        /\ (AtWorker \cup {"nothing"}) \cap (AtCa \cup AtIssue \cup AtPackage) = {}
    BY DEF AtCa, AtIssue, AtPackage, AtWorker
  <2>2. ASSUME NEW doings, (AtWorker \cup {"nothing"}) \cap doings = {} PROVE Same(doings)
    BY <2>2, SameCarrying
  <2> QED
    BY <2>1, <2>2
<1>2. torn \subseteq torn' /\ Alone'
  BY TouchTears, AloneCarrying DEF JInv
<1>3. \A p \in Operators : Holding(tool'[p])
  <2>1. tool'[o].doing = doing /\ \A p \in Operators : p # o => tool'[p] = tool[p]
    BY CarriedHand
  <2>2. Holding(tool'[o])
    BY <2>1 DEF Holding, AtCa, AtIssue, AtPackage, AtWorker
  <2> QED
    BY <2>1, <2>2, OwnedHands DEF JInv
<1> QED
  BY <1>1, <1>2, <1>3, CaWholeStays, SignedStays, PairsStay, PackagesStay DEF JInv

LEMMA WorkerJ == ASSUME IInv, JInv, NEW o \in Operators, Worker(o) PROVE JInv'
<1>0. PICK n : n = Head(todo[o]).cn
  OBVIOUS
<1>1. /\ At(o, "worker") /\ Advance(o)
      /\ env' = [env EXCEPT ![n] = FALSE]
      /\ Carry(o, "worker", n, NoIdentity) /\ Touch(o, n)
      /\ UNCHANGED <<ca, issued, host, config>> /\ UNCHANGED running
  BY <1>0 DEF Worker
<1>2. /\ todo'[o] = Tail(todo[o]) /\ \A p \in Operators : p # o => todo'[p] = todo[p]
      /\ Planned(todo'[o]) /\ tool[o] = Idle /\ tool[o].doing = "nothing"
      /\ ~At(o, "restart") /\ todo[o] # <<>> /\ Head(todo[o]).do = "worker"
  BY <1>1, Advanced
<1>3. n \in Nodes /\ Tail(todo[o]) # <<>> /\ RestartOf(Head(Tail(todo[o])), n)
  BY <1>0, <1>2, TailIsPlanned DEF JInv, Purposes, Purpose
<1>4. /\ tool'[o].doing = "worker" /\ tool'[o].cn = n
      /\ \A p \in Operators : p # o => tool'[p] = tool[p]
  BY <1>1, CarriedHand
<1>5. /\ CaWhole' /\ Signed' /\ PairsWhole' /\ Packages' /\ Alone' /\ torn \subseteq torn'
      /\ \A p \in Operators : Holding(tool'[p])
  <2>1. "worker" \in AtWorker
    BY DEF AtWorker
  <2> QED
    BY <1>1, <1>2, <2>1, ElsewhereThanWorker
<1>6. Purposes'
  <2>1. Fitting(tool'[o], todo'[o])
    BY <1>2, <1>3, <1>4 DEF Fitting, AtCa, AtIssue, AtPackage, AtWorker
  <2> QED
    BY <1>2, <1>4, <2>1, PurposesKept DEF JInv
<1>7. Owned'
  BY <1>1, <1>5, OwnedIs DEF JInv
<1>8. env'[n] = FALSE /\ \A other \in Nodes : other # n => env'[other] = env[other]
  BY <1>1, <1>3, EnvSet
<1>9. Copies'
  <2>1. ASSUME NEW other \in Nodes \ torn' PROVE CopyWhole(other)'
    <3>0. CopyWhole(other)
      BY <1>5 DEF JInv, Copies
    <3>1. CASE other = n
      <4>1. ASSUME NEW p \in Operators PROVE ~On(p, AtCopy, n) /\ ~On(p, AtCopy, n)'
        <5>1. CASE p = o
          BY <1>2, <1>4, <5>1 DEF On, AtCopy
        <5>2. CASE p # o
          <6>1. Busy(p) => tool[p].cn # n
            BY <1>1, <2>1, <3>1, <5>2, OnlyOne
          <6>2. tool'[p] = tool[p]
            BY <1>4, <5>2
          <6> QED
            BY <6>1, <6>2 DEF On, AtCopy, Busy, In
        <5> QED
          BY <5>1, <5>2
      <4>2. host[n] = NoIdentity \/ Fits(host[n])
        BY <3>0, <3>1, <4>1 DEF CopyWhole
      <4> QED
        BY <1>1, <1>5, <1>8, <3>1, <4>1, <4>2 DEF CopyWhole, Fits, Paired, NoIdentity, NoKey
    <3>2. CASE other # n
      <4>1. SameOn(AtWorker, other)
        BY <1>2, <1>4, <3>2 DEF SameOn, On, AtWorker
      <4> QED
        BY <1>1, <1>5, <1>8, <3>0, <3>2, <4>1, CopyStays
    <3> QED
      BY <3>1, <3>2
  <2> QED
    BY <2>1 DEF Copies
<1>10. Wired'
  <2>1. \A m : Restarting(m) => Restarting(m)'
    BY <1>2, <1>4, RestartingStays
  <2>2. On(o, AtWorker, n)'
    BY <1>4 DEF On, AtWorker
  <2>3. \A p \in Operators : \A m : On(p, AtWorker, m) => On(p, AtWorker, m)'
    BY <1>2, <1>4 DEF On, AtWorker
  <2> QED
    BY <1>1, <1>5, <1>8, <2>1, <2>2, <2>3 DEF JInv, Wired, Fits, Paired, NoIdentity, NoKey
<1> QED
  BY <1>5, <1>6, <1>7, <1>9, <1>10 DEF JInv

LEMMA PlainWorkerJ == ASSUME IInv, JInv, NEW o \in Operators, PlainWorker(o) PROVE JInv'
<1>0. PICK n : n = Head(todo[o]).cn
  OBVIOUS
<1>1. /\ At(o, "plain") /\ Advance(o)
      /\ env' = [env EXCEPT ![n] = @ /\ host[n] # NoIdentity] /\ Touch(o, n)
      /\ UNCHANGED <<ca, issued, host, config>> /\ UNCHANGED running /\ UNCHANGED tool
  BY <1>0 DEF PlainWorker
<1>2. /\ todo'[o] = Tail(todo[o]) /\ \A p \in Operators : p # o => todo'[p] = todo[p]
      /\ Planned(todo'[o]) /\ tool[o] = Idle /\ tool[o].doing = "nothing"
      /\ ~At(o, "restart")
  BY <1>1, Advanced
<1>3. \A other \in Nodes : env'[other] = (env[other] /\ (other = n => host[n] # NoIdentity))
  BY <1>1 DEF IInv, Files
<1>4. torn \subseteq torn' /\ \A doings : Same(doings)
  BY <1>1, TouchTears DEF Same
<1>5. Purposes' /\ Alone'
  <2>1. Fitting(tool'[o], todo'[o])
    BY <1>1, <1>2 DEF Fitting, AtCa, AtIssue, AtPackage, AtWorker
  <2>2. Alone'
    BY <1>1, <1>4 DEF JInv, Alone, Busy, In
  <2> QED
    BY <1>1, <1>2, <2>1, <2>2, PurposesKept DEF JInv
<1>6. Copies'
  <2>1. ASSUME NEW other \in Nodes \ torn' PROVE CopyWhole(other)'
    <3>1. CopyWhole(other)
      BY <1>4 DEF JInv, Copies
    <3>2. \A p \in Operators : On(p, AtWorker, other)' => ~env[other] /\ ~env'[other]
      BY <1>1, <1>3, <3>1 DEF CopyWhole, On
    <3>3. Fits(host[other]) => Fits(host[other])'
      BY <1>1, <1>4 DEF Fits, Paired
    <3> QED
      BY <1>1, <3>1, <3>2, <3>3 DEF CopyWhole, On, In, Paired, AtCopy, NoIdentity, NoKey
  <2> QED
    BY <2>1 DEF Copies
<1>7. Wired'
  <2>1. \A m : Restarting(m) => Restarting(m)'
    BY <1>1, <1>2, RestartingStays
  <2>2. \A p \in Operators : \A m : On(p, AtWorker, m) => On(p, AtWorker, m)'
    BY <1>1 DEF On, AtWorker
  <2>3. \A m \in Nodes : host[m] # NoIdentity /\ env[m] => env'[m]
    BY <1>3
  <2> QED
    BY <1>1, <1>4, <2>1, <2>2, <2>3 DEF JInv, Wired, Fits, Paired, NoIdentity, NoKey
<1> QED
  BY <1>1, <1>4, <1>5, <1>6, <1>7, OwnedStays, CaWholeStays, SignedStays, PairsStay,
     PackagesStay DEF JInv

(* A command that ends before its time leaves its name torn, if it was     *)
(* writing files.                                                          *)
LEMMA GivingUpJ ==
  ASSUME IInv, JInv, NEW o \in Operators,
         todo' = [todo EXCEPT ![o] = <<>>], tool' = [tool EXCEPT ![o] = Idle],
         UNCHANGED files, UNCHANGED running, torn \subseteq torn',
         tool[o].doing \in AtCa \cup AtIssue \cup AtWorker => tool[o].cn \in torn',
         At(o, "restart") => Head(todo[o]).cn \in torn'
  PROVE  JInv'
<1>1. UNCHANGED <<ca, issued, host, env, config>>
  BY DEF files
<1>2. Alone' /\ Purposes'
  BY AloneIdling, PurposesIdling DEF JInv
<1>3. /\ tool'[o].doing = "nothing" /\ \A p \in Operators : p # o => tool'[p] = tool[p]
      /\ todo'[o] = <<>> /\ \A p \in Operators : p # o => todo'[p] = todo[p]
  BY IdledHand, ScriptSet
<1>4. Owned'
  BY <1>1, OwnedIdling, OwnedIs DEF JInv
<1>5. CaWhole'
  <2> SUFFICES ASSUME Ca \notin torn' PROVE CaWhole'
    BY DEF CaWhole
  <2>1. tool[o].doing \notin AtCa
    <3>1. tool[o].doing \in AtCa => tool[o].cn = Ca
      BY CaMakers
    <3> QED
      BY <3>1
  <2>2. Same(AtCa)
    BY <2>1, SameIdling DEF AtCa
  <2> QED
    BY <1>1, <2>2, CaWholeStays DEF JInv
<1>6. Signed'
  <2> SUFFICES ASSUME Ca \notin torn' PROVE Signed'
    BY DEF Signed
  <2>1. Ca \notin torn /\ ca' = ca /\ issued' = issued
    BY <1>1
  <2>2. \A cn \in Names : SignedHere(issued[cn].pem)'
    BY <2>1 DEF JInv, Signed, SignedHere
  <2>3. ASSUME NEW p \in Operators
        PROVE  /\ tool'[p].doing \in AtIssue => SignedHere(tool[p].id.pem)'
               /\ tool'[p].doing \in AtPackage => tool'[p].id.ca = ca'.pem
    <3>1. CASE p = o
      BY <1>3, <3>1 DEF AtIssue, AtPackage
    <3>2. CASE p # o
      BY <1>3, <2>1, <3>2 DEF JInv, Signed, SignedHere
    <3> QED
      BY <3>1, <3>2
  <2> QED
    BY <2>2, <2>3 DEF Signed, AtIssue, AtPackage
<1>7. PairsWhole'
  <2>1. ASSUME NEW cn \in Names \ torn' PROVE PairWhole(cn)'
    <3>1. PairWhole(cn) /\ issued'[cn] = issued[cn]
      BY <1>1 DEF JInv, PairsWhole
    <3>2. SameOn({"issue key"}, cn)
      BY <1>3 DEF SameOn, On, AtIssue
    <3> QED
      BY <3>1, <3>2, PairStays
  <2> QED
    BY <2>1 DEF PairsWhole
<1>8. \A m \in Nodes \ torn' : SameOn(AtWorker, m)
  BY <1>3 DEF SameOn, On, AtWorker
<1>9. Copies'
  <2>1. ASSUME NEW m \in Nodes \ torn' PROVE CopyWhole(m)'
    <3>1. CopyWhole(m)
      BY DEF JInv, Copies
    <3> QED
      BY <1>1, <1>8, <3>1, CopyStays
  <2> QED
    BY <2>1 DEF Copies
<1>10. Packages'
  <2> SUFFICES ASSUME User \notin torn' PROVE Packages'
    BY DEF Packages
  <2>1. config' = config /\ issued' = issued /\ User \notin torn
    BY <1>1
  <2>2. PartsOf(config) = Parts => Fits(config)'
    BY <2>1 DEF JInv, Packages, Fits, Paired
  <2>3. ASSUME NEW p \in Operators, tool'[p].doing = "package key"
        PROVE  tool'[p].id.pem = issued'[User].pem /\ issued'[User].pem # NoCert
    BY <1>3, <2>1, <2>3 DEF JInv, Packages, In
  <2> QED
    BY <2>1, <2>2, <2>3 DEF Packages, In, PartsOf, Parts, NoKey
<1>11. Wired'
  <2>1. ASSUME NEW m \in Nodes \ torn', Restarting(m) PROVE Restarting(m)'
    BY <1>3, <2>1 DEF Restarting, At
  <2>2. \A p \in Operators, m \in Nodes \ torn' : On(p, AtWorker, m) => On(p, AtWorker, m)'
    BY <1>8 DEF SameOn, On
  <2> QED
    BY <1>1, <2>1, <2>2 DEF JInv, Wired, Fits, Paired, NoIdentity, NoKey
<1> QED
  BY <1>2, <1>4, <1>5, <1>6, <1>7, <1>9, <1>10, <1>11 DEF JInv

(* One file more of an installation that goes on.                          *)
LEMMA CopyStep ==
  ASSUME IInv, JInv, NEW o \in Operators, tool[o].doing \in AtWorker,
         NEW n, n = tool[o].cn, NEW doing \in AtWorker, NEW id,
         Carry(o, doing, n, id), Touch(o, n),
         \A other \in Nodes : other # n => host'[other] = host[other],
         UNCHANGED <<ca, issued, env, config>>, UNCHANGED running, UNCHANGED todo,
         Named(host'[n].pem, n), n \notin torn' => CopyWhole(n)'
  PROVE  JInv'
<1>1. /\ CaWhole' /\ Signed' /\ PairsWhole' /\ Packages' /\ Alone' /\ torn \subseteq torn'
      /\ \A p \in Operators : Holding(tool'[p])
  BY ElsewhereThanWorker
<1>2. /\ n \in Nodes /\ todo[o] # <<>> /\ RestartOf(Head(todo[o]), n)
  BY InstallersAlone
<1>3. /\ tool'[o].doing = doing /\ tool'[o].cn = n
      /\ \A p \in Operators : p # o => tool'[p] = tool[p]
  BY CarriedHand
<1>4. Purposes'
  <2>1. Planned(todo'[o])
    BY DEF JInv, Purposes, Purpose
  <2>2. Fitting(tool'[o], todo'[o])
    BY <1>2, <1>3 DEF Fitting, AtCa, AtIssue, AtPackage, AtWorker
  <2> QED
    BY <1>3, <2>1, <2>2, PurposesKept DEF JInv
<1>5. Owned'
  <2>1. \A other \in Nodes : Named(host'[other].pem, other)
    BY DEF JInv, Owned
  <2> QED
    BY <1>1, <2>1, OwnedMeans DEF JInv, Owned
<1>6. Copies'
  <2>1. ASSUME NEW m \in Nodes \ torn', m # n PROVE CopyWhole(m)'
    <3>1. CopyWhole(m)
      BY <1>1 DEF JInv, Copies
    <3>2. SameOn(AtWorker, m)
      BY <1>3, <2>1 DEF SameOn, On
    <3> QED
      BY <1>1, <2>1, <3>1, <3>2, CopyStays
  <2>2. ASSUME NEW m \in Nodes \ torn' PROVE CopyWhole(m)'
    BY <2>1, <2>2
  <2> QED
    BY <2>2 DEF Copies
<1>7. Wired'
  <2>1. ~At(o, "restart")
    BY BusyHands DEF AtWorker
  <2>2. \A m : Restarting(m) => Restarting(m)'
    BY <1>3, <2>1, RestartingStays
  <2>3. \A p \in Operators, m \in Nodes : On(p, AtWorker, m) => On(p, AtWorker, m)'
    BY <1>3 DEF On
  <2>4. On(o, AtWorker, n)'
    BY <1>3 DEF On, AtWorker
  <2> QED
    BY <1>1, <2>2, <2>3, <2>4 DEF JInv, Wired, Fits, Paired, NoIdentity, NoKey
<1> QED
  BY <1>1, <1>4, <1>5, <1>6, <1>7 DEF JInv

(* The copy that the operator at work on a worker leaves is whole.         *)
LEMMA CopyWholeAlone ==
  ASSUME IInv, JInv, NEW o \in Operators, tool[o].doing \in AtWorker,
         NEW n, n = tool[o].cn, NEW doing \in AtWorker, NEW id,
         Carry(o, doing, n, id), Touch(o, n), n \notin torn',
         UNCHANGED <<ca, issued, env, config>>,
         doing \in AtCopy =>
           /\ Paired(issued[n]) /\ ca.pem # NoKey /\ host'[n].pem = issued[n].pem
           /\ doing = "worker ca" => host'[n].key = issued[n].key,
         doing \notin AtCopy => Paired(host'[n]) /\ (Ca \notin torn => host'[n].pem.ca = host'[n].ca)
  PROVE  CopyWhole(n)'
<1>1. torn \subseteq torn' /\ n \in Nodes
  BY TouchTears, InstallersAlone
<1>2. /\ tool'[o].doing = doing /\ tool'[o].cn = n
      /\ \A p \in Operators : p # o => tool'[p] = tool[p]
  <2>1. /\ tool'[o] = [doing |-> doing, cn |-> n, id |-> id]
        /\ \A p \in Operators : p # o => tool'[p] = tool[p]
    BY HandSet DEF Carry
  <2> QED
    BY ONLY <2>1
<1>3. ASSUME NEW p \in Operators, On(p, AtWorker, n)' PROVE p = o
  <2>1. p # o /\ Busy(p) => tool[p].cn # n
    BY OnlyOne
  <2> QED
    BY <1>2, <1>3, <2>1 DEF On, AtWorker, Busy, In
<1>4. ASSUME NEW p \in Operators, On(p, AtCopy, n)' PROVE p = o /\ doing \in AtCopy
  BY <1>2, <1>3, <1>4 DEF On, AtCopy, AtWorker
<1>5. ~env[n]
  BY <1>1 DEF JInv, Copies, CopyWhole, On
<1>6. doing \in AtCopy => On(o, AtCopy, n)'
  BY <1>2 DEF On
<1>7. doing \notin AtCopy => Fits(host[n])'
  BY <1>1 DEF Fits, Paired
<1>8. Paired(issued[n]) => Paired(issued[n])'
  BY DEF Paired
<1> QED
  BY <1>2, <1>3, <1>4, <1>5, <1>6, <1>7, <1>8 DEF CopyWhole, In, NoKey

LEMMA CopyCertJ == ASSUME IInv, JInv, NEW o \in Operators, CopyCert(o) PROVE JInv'
<1>0. PICK n : n = tool[o].cn
  OBVIOUS
<1>1. tool[o].doing = "worker" /\ tool[o].doing \in AtWorker
  BY DEF CopyCert, In, AtWorker
<1>2. CASE Fail(o, n)
  <2>1. torn \subseteq torn' /\ UNCHANGED files /\ UNCHANGED running
    BY <1>2 DEF Fail
  <2>2. ~At(o, "restart")
    BY <1>1, BusyHands
  <2> QED
    BY <1>0, <1>2, <2>1, <2>2, GivingUpJ DEF Fail
<1>3. CASE ~(issued[n].pem = NoCert \/ issued[n].key = NoKey \/ ca.pem = NoKey)
  <2>1. /\ host' = [host EXCEPT ![n].pem = issued[n].pem]
        /\ Carry(o, "worker key", n, NoIdentity) /\ Touch(o, n)
        /\ UNCHANGED <<ca, issued, env, config>> /\ UNCHANGED running /\ UNCHANGED todo
    BY <1>0, <1>3 DEF CopyCert
  <2>2. /\ n \in Nodes /\ n \in Names
        /\ n \notin torn' => \A p \in Operators : p # o => ~Busy(p) \/ tool[p].cn # n
    BY <1>0, <1>1, <2>1, InstallersAlone
  <2>3. /\ host'[n].pem = issued[n].pem
        /\ \A other \in Nodes : other # n => host'[other] = host[other]
    BY <2>1, <2>2, HostSet
  <2>4. Named(host'[n].pem, n)
    BY <2>2, <2>3 DEF JInv, Owned
  <2>5. "worker key" \in AtWorker /\ "worker key" \in AtCopy /\ "worker key" # "worker ca"
    BY DEF AtWorker, AtCopy
  <2>6. ASSUME n \notin torn' PROVE CopyWhole(n)'
    <3>1. n \in Names \ torn
      BY <2>1, <2>2, <2>6, TouchTears
    <3>2. \A p \in Operators : ~On(p, {"issue key"}, n)
      BY <1>1, <2>2, <2>6 DEF On, Busy, In
    <3>3. issued[n] # NoPair
      BY <1>3 DEF NoPair
    <3>4. Paired(issued[n])
      BY <3>1, <3>2, <3>3 DEF JInv, PairsWhole, PairWhole
    <3> QED
      BY <1>0, <1>1, <1>3, <2>1, <2>3, <2>5, <2>6, <3>4, CopyWholeAlone
  <2> QED
    BY <1>0, <1>1, <2>1, <2>3, <2>4, <2>5, <2>6, CopyStep
<1> QED
  BY <1>0, <1>2, <1>3 DEF CopyCert

LEMMA CopyKeyJ == ASSUME IInv, JInv, NEW o \in Operators, CopyKey(o) PROVE JInv'
<1>0. PICK n : n = tool[o].cn
  OBVIOUS
<1>1. tool[o].doing = "worker key" /\ tool[o].doing \in AtWorker /\ tool[o].doing \in AtCopy
  BY DEF CopyKey, In, AtWorker, AtCopy
<1>2. /\ host' = [host EXCEPT ![n].key = issued[n].key]
      /\ Carry(o, "worker ca", n, NoIdentity) /\ Touch(o, n)
      /\ UNCHANGED <<ca, issued, env, config>> /\ UNCHANGED running /\ UNCHANGED todo
  BY <1>0 DEF CopyKey
<1>3. n \in Nodes /\ n \in Names
  BY <1>0, <1>1, <1>2, InstallersAlone
<1>4. /\ host'[n].key = issued[n].key /\ host'[n].pem = host[n].pem
      /\ \A other \in Nodes : other # n => host'[other] = host[other]
  BY <1>2, <1>3, HostSet
<1>5. Named(host'[n].pem, n)
  BY <1>3, <1>4 DEF JInv, Owned
<1>6. "worker ca" \in AtWorker /\ "worker ca" \in AtCopy
  BY DEF AtWorker, AtCopy
<1>7. ASSUME n \notin torn' PROVE CopyWhole(n)'
  <2>1. n \in Nodes \ torn
    BY <1>2, <1>3, <1>7, TouchTears
  <2>2. Paired(issued[n]) /\ ca.pem # NoKey /\ host[n].pem = issued[n].pem
    BY <1>0, <1>1, <2>1 DEF JInv, Copies, CopyWhole, On
  <2> QED
    BY <1>0, <1>1, <1>2, <1>4, <1>6, <1>7, <2>2, CopyWholeAlone
<1>8. n \notin torn' => CopyWhole(n)'
  BY <1>7
<1>9. /\ tool[o].doing \in AtWorker /\ n = tool[o].cn /\ "worker ca" \in AtWorker
      /\ Carry(o, "worker ca", n, NoIdentity) /\ Touch(o, n)
      /\ UNCHANGED <<ca, issued, env, config>> /\ UNCHANGED running /\ UNCHANGED todo
  BY <1>0, <1>1, <1>2, <1>6
<1> QED
  BY <1>4, <1>5, <1>8, <1>9, CopyStep

LEMMA CopyCaJ == ASSUME IInv, JInv, NEW o \in Operators, CopyCa(o) PROVE JInv'
<1>0. PICK n : n = tool[o].cn
  OBVIOUS
<1>1. tool[o].doing = "worker ca" /\ tool[o].doing \in AtWorker /\ tool[o].doing \in AtCopy
  BY DEF CopyCa, In, AtWorker, AtCopy
<1>2. /\ host' = [host EXCEPT ![n].ca = ca.pem]
      /\ Carry(o, "worker env", n, NoIdentity) /\ Touch(o, n)
      /\ UNCHANGED <<ca, issued, env, config>> /\ UNCHANGED running /\ UNCHANGED todo
  BY <1>0 DEF CopyCa
<1>3. n \in Nodes /\ n \in Names
  BY <1>0, <1>1, <1>2, InstallersAlone
<1>4. /\ host'[n].key = host[n].key /\ host'[n].pem = host[n].pem /\ host'[n].ca = ca.pem
      /\ \A other \in Nodes : other # n => host'[other] = host[other]
  BY <1>2, <1>3, HostSet
<1>5. Named(host'[n].pem, n)
  BY <1>3, <1>4 DEF JInv, Owned
<1>6. "worker env" \in AtWorker /\ "worker env" \notin AtCopy
  BY DEF AtWorker, AtCopy
<1>7. ASSUME n \notin torn' PROVE CopyWhole(n)'
  <2>1. n \in Nodes \ torn
    BY <1>2, <1>3, <1>7, TouchTears
  <2>2. Paired(issued[n]) /\ host[n].pem = issued[n].pem /\ host[n].key = issued[n].key
    BY <1>0, <1>1, <2>1 DEF JInv, Copies, CopyWhole, On, In
  <2>3. Ca \notin torn => issued[n].pem.ca = ca.pem
    BY <1>3, <2>2 DEF JInv, Signed, SignedHere, Paired
  <2>4. Paired(host'[n]) /\ (Ca \notin torn => host'[n].pem.ca = host'[n].ca)
    BY <1>4, <2>2, <2>3 DEF Paired
  <2> QED
    BY <1>0, <1>1, <1>2, <1>6, <1>7, <2>4, CopyWholeAlone
<1>8. n \notin torn' => CopyWhole(n)'
  BY <1>7
<1>9. /\ tool[o].doing \in AtWorker /\ n = tool[o].cn /\ "worker env" \in AtWorker
      /\ Carry(o, "worker env", n, NoIdentity) /\ Touch(o, n)
      /\ UNCHANGED <<ca, issued, env, config>> /\ UNCHANGED running /\ UNCHANGED todo
  BY <1>0, <1>1, <1>2, <1>6
<1> QED
  BY <1>4, <1>5, <1>8, <1>9, CopyStep

LEMMA WriteEnvJ == ASSUME IInv, JInv, NEW o \in Operators, WriteEnv(o) PROVE JInv'
<1>0. PICK n : n = tool[o].cn
  OBVIOUS
<1>1. /\ tool[o].doing = "worker env" /\ tool[o].doing \in AtWorker
      /\ tool[o].doing \notin AtCopy /\ tool[o].doing # "nothing"
  BY DEF WriteEnv, In, AtWorker, AtCopy
<1>2. /\ env' = [env EXCEPT ![n] = TRUE]
      /\ tool' = [tool EXCEPT ![o] = Idle] /\ Touch(o, n)
      /\ UNCHANGED <<ca, issued, host, config>> /\ UNCHANGED running /\ UNCHANGED todo
  BY <1>0 DEF WriteEnv, Finish
<1>3. /\ n \in Nodes /\ todo[o] # <<>> /\ RestartOf(Head(todo[o]), n)
      /\ n \notin torn' => \A p \in Operators : p # o => ~Busy(p) \/ tool[p].cn # n
  BY <1>0, <1>1, <1>2, InstallersAlone
<1>4. env'[n] = TRUE /\ \A other \in Nodes : other # n => env'[other] = env[other]
  BY <1>2, <1>3, EnvSet
<1>5. torn \subseteq torn' /\ Alone' /\ Purposes'
  BY <1>2, TouchTears, AloneIdling, PurposesIdling DEF JInv
<1>6. Owned'
  BY <1>2, OwnedIdling, OwnedIs DEF JInv
<1>7. tool'[o] = Idle /\ tool'[o].doing = "nothing" /\ \A p \in Operators : p # o => tool'[p] = tool[p]
  BY <1>2, IdledHand
<1>8. Same(AtCa) /\ Same(AtIssue \cup AtPackage) /\ Same({"issue key"}) /\ Same(AtPackage)
  <2>1. /\ {"worker env", "nothing"} \cap AtCa = {}
        /\ {"worker env", "nothing"} \cap (AtIssue \cup AtPackage) = {}
        /\ {"worker env", "nothing"} \cap {"issue key"} = {}
        /\ {"worker env", "nothing"} \cap AtPackage = {}
    BY DEF AtCa, AtIssue, AtPackage
  <2>2. ASSUME NEW doings, {"worker env", "nothing"} \cap doings = {} PROVE Same(doings)
    BY <1>1, <1>2, <2>2, SameIdling
  <2> QED
    BY <2>1, <2>2
<1>9. Copies'
  <2>1. ASSUME NEW m \in Nodes \ torn', m # n PROVE CopyWhole(m)'
    <3>1. CopyWhole(m)
      BY <1>5 DEF JInv, Copies
    <3>2. SameOn(AtWorker, m)
      BY <1>0, <1>7, <2>1 DEF SameOn, On, AtWorker
    <3> QED
      BY <1>2, <1>4, <1>5, <2>1, <3>1, <3>2, CopyStays
  <2>2. ASSUME n \notin torn' PROVE CopyWhole(n)'
    <3>1. CopyWhole(n)
      BY <1>3, <1>5, <2>2 DEF JInv, Copies
    <3>2. \A p \in Operators : ~On(p, AtCopy, n)
      BY <1>1, <1>3, <2>2 DEF On, AtCopy, Busy, In
    <3>3. \A p \in Operators : ~On(p, AtWorker, n)'
      BY <1>3, <1>7, <2>2 DEF On, AtWorker, Busy, In
    <3>4. \A p \in Operators : ~On(p, AtCopy, n)'
      BY <3>3 DEF On, AtCopy, AtWorker
    <3>5. host[n] = NoIdentity \/ Fits(host[n])
      BY <3>1, <3>2 DEF CopyWhole
    <3>6. host[n] = NoIdentity \/ Fits(host[n])'
      BY <1>2, <1>5, <3>5 DEF Fits, Paired
    <3> QED
      BY <1>2, <3>3, <3>4, <3>6 DEF CopyWhole, NoIdentity, NoKey
  <2>3. ASSUME NEW m \in Nodes \ torn' PROVE CopyWhole(m)'
    BY <2>1, <2>2, <2>3
  <2> QED
    BY <2>3 DEF Copies
<1>10. Wired'
  <2>1. ~At(o, "restart")
    BY <1>1, BusyHands
  <2>2. \A m : Restarting(m) => Restarting(m)'
    BY <1>2, <1>7, <2>1, RestartingStays
  <2>3. Restarting(n)'
    BY <1>2, <1>3, <1>7 DEF Restarting, At, RestartOf, Idle, NoIdentity, NoKey
  <2>4. \A p \in Operators, m \in Nodes : m # n => (On(p, AtWorker, m) => On(p, AtWorker, m)')
    BY <1>0, <1>7 DEF On
  <2> QED
    BY <1>2, <1>4, <1>5, <2>2, <2>3, <2>4 DEF JInv, Wired, Fits, Paired, NoIdentity, NoKey
<1> QED
  BY <1>2, <1>5, <1>6, <1>8, <1>9, <1>10, CaWholeStays, SignedStays, PairsStay,
     PackagesStay DEF JInv

-----------------------------------------------------------------------------
(* Who packages a user's files, when nothing tore them, is alone at it.    *)
LEMMA PackersAlone ==
  ASSUME JInv, NEW o \in Operators, tool[o].doing \in AtPackage, Touch(o, User)
  PROVE  /\ tool[o].cn = User /\ Holding(tool[o])
         /\ tool[o].id.ca # NoKey /\ Named(tool[o].id.pem, User)
         /\ Ca \notin torn => tool[o].id.ca = ca.pem
         /\ User \notin torn' =>
              \A p \in Operators : p # o => ~Busy(p) \/ tool[p].cn # User
<1>1. tool[o].cn = User /\ Holding(tool[o])
  BY DEF JInv, Purposes, Purpose, Fitting, Owned
<1>2. tool[o].id.ca # NoKey /\ Named(tool[o].id.pem, User)
  BY <1>1 DEF Holding
<1>3. Ca \notin torn => tool[o].id.ca = ca.pem
  BY DEF JInv, Signed
<1> QED
  BY <1>1, <1>2, <1>3, OnlyOne

(* One file more in the hands of who packages.                             *)
LEMMA PackageStep ==
  ASSUME IInv, JInv, NEW o \in Operators, ~At(o, "restart"),
         tool[o].doing \in {"nothing", "package"},
         NEW doing \in AtPackage, NEW id, Carry(o, doing, User, id), Touch(o, User),
         UNCHANGED files, UNCHANGED running,
         \A p \in Operators : p # o => todo'[p] = todo[p], Planned(todo'[o]),
         Named(id.pem, User), id.ca # NoKey, Ca \notin torn => id.ca = ca.pem,
         doing = "package key" => id.pem = issued[User].pem /\ issued[User].pem # NoCert
  PROVE  JInv'
<1>1. /\ tool'[o].doing = doing /\ tool'[o].cn = User /\ tool'[o].id = id
      /\ \A p \in Operators : p # o => tool'[p] = tool[p]
  BY CarriedHand
<1>2. torn \subseteq torn' /\ Alone'
  BY TouchTears, AloneCarrying DEF JInv
<1>3. Purposes'
  <2>1. Fitting(tool'[o], todo'[o])
    BY <1>1 DEF Fitting, AtCa, AtIssue, AtPackage, AtWorker
  <2> QED
    BY <1>1, <2>1, PurposesKept DEF JInv
<1>4. Owned'
  <2>1. Holding(tool'[o])
    BY <1>1 DEF Holding, AtCa, AtIssue, AtPackage
  <2> QED
    BY <1>1, <2>1, OwnedHands, OwnedIs DEF JInv, files
<1>5. Same(AtCa) /\ Same({"issue key"}) /\ Same(AtWorker)
  <2>1. /\ (AtPackage \cup {"nothing"}) \cap AtCa = {}
        /\ (AtPackage \cup {"nothing"}) \cap {"issue key"} = {}
        /\ (AtPackage \cup {"nothing"}) \cap AtWorker = {}
        /\ tool[o].doing \in AtPackage \cup {"nothing"}
    BY DEF AtCa, AtPackage, AtWorker
  <2>2. ASSUME NEW doings, (AtPackage \cup {"nothing"}) \cap doings = {} PROVE Same(doings)
    BY <2>1, <2>2, SameCarrying
  <2> QED
    BY <2>1, <2>2
<1>6. Signed'
  <2> SUFFICES ASSUME Ca \notin torn' PROVE Signed'
    BY DEF Signed
  <2>1. Ca \notin torn /\ ca' = ca /\ issued' = issued
    BY <1>2 DEF files
  <2>2. \A cn \in Names : SignedHere(issued[cn].pem)'
    BY <2>1 DEF JInv, Signed, SignedHere
  <2>3. ASSUME NEW p \in Operators
        PROVE  /\ tool'[p].doing \in AtIssue => SignedHere(tool[p].id.pem)'
               /\ tool'[p].doing \in AtPackage => tool'[p].id.ca = ca'.pem
    <3>1. CASE p = o
      BY <1>1, <2>1, <3>1 DEF AtIssue, AtPackage
    <3>2. CASE p # o
      BY <1>1, <2>1, <3>2 DEF JInv, Signed, SignedHere
    <3> QED
      BY <3>1, <3>2
  <2> QED
    BY <2>2, <2>3 DEF Signed, AtIssue, AtPackage
<1>7. Packages'
  <2> SUFFICES ASSUME User \notin torn' PROVE Packages'
    BY DEF Packages
  <2>1. config' = config /\ issued' = issued /\ User \notin torn
    BY <1>2 DEF files
  <2>2. PartsOf(config) = Parts => Fits(config)'
    BY <1>2, <2>1 DEF JInv, Packages, Fits, Paired
  <2>3. ASSUME NEW p \in Operators, tool'[p].doing = "package key"
        PROVE  tool'[p].id.pem = issued'[User].pem /\ issued'[User].pem # NoCert
    <3>1. CASE p = o
      BY <1>1, <2>1, <2>3, <3>1
    <3>2. CASE p # o
      BY <1>1, <2>1, <2>3, <3>2 DEF JInv, Packages, In
    <3> QED
      BY <3>1, <3>2
  <2> QED
    BY <2>1, <2>2, <2>3 DEF Packages, In, PartsOf, Parts, NoKey
<1>8. \A n : Restarting(n) => Restarting(n)'
  BY <1>1, RestartingStays
<1> QED
  BY <1>2, <1>3, <1>4, <1>5, <1>6, <1>7, <1>8, CaWholeStays, PairsStay, CopiesStay,
     WiredStays DEF JInv, files

LEMMA PackageJ == ASSUME IInv, JInv, NEW o \in Operators, Package(o) PROVE JInv'
<1>1. PICK id : id = [NoIdentity EXCEPT !.ca = ca.pem]
  OBVIOUS
<1>2. /\ At(o, "package") /\ ca.pem # NoKey /\ Carry(o, "package", User, id)
      /\ Advance(o) /\ Touch(o, User) /\ UNCHANGED files /\ UNCHANGED running
  BY <1>1 DEF Package
<1>3. /\ \A p \in Operators : p # o => todo'[p] = todo[p]
      /\ Planned(todo'[o]) /\ tool[o].doing = "nothing" /\ ~At(o, "restart")
  BY <1>2, Advanced
<1>4. id.ca = ca.pem /\ id.pem = NoCert
  BY <1>1 DEF NoIdentity
<1>5. Named(id.pem, User)
  BY <1>4 DEF Named
<1>6. "package" \in AtPackage /\ "package" # "package key"
  BY DEF AtPackage
<1> QED
  BY <1>2, <1>3, <1>4, <1>5, <1>6, PackageStep

LEMMA PackageCertJ == ASSUME IInv, JInv, NEW o \in Operators, PackageCert(o) PROVE JInv'
<1>1. PICK id : id = [tool[o].id EXCEPT !.pem = issued[User].pem]
  OBVIOUS
<1>2. /\ tool[o].doing = "package" /\ tool[o].doing \in AtPackage /\ tool[o].doing # "nothing"
      /\ issued[User].pem # NoCert /\ Carry(o, "package key", User, id)
      /\ Touch(o, User) /\ UNCHANGED files /\ UNCHANGED running /\ UNCHANGED todo
  BY <1>1 DEF PackageCert, In, AtPackage
<1>3. /\ tool[o].id.ca # NoKey /\ (Ca \notin torn => tool[o].id.ca = ca.pem)
  BY <1>2, PackersAlone
<1>4. id.ca = tool[o].id.ca /\ id.pem = issued[User].pem
  <2>1. tool[o].id \in Stored
    BY Held
  <2> QED
    BY <1>1, <2>1 DEF Stored
<1>5. Named(id.pem, User)
  BY <1>4 DEF JInv, Owned, Names
<1>6. "package key" \in AtPackage
  BY DEF AtPackage
<1>7. Planned(todo'[o])
  BY <1>2 DEF JInv, Purposes, Purpose
<1>8. ~At(o, "restart")
  BY <1>2, BusyHands
<1> QED
  BY <1>2, <1>3, <1>4, <1>5, <1>6, <1>7, <1>8, PackageStep

LEMMA PackageKeyJ == ASSUME IInv, JInv, NEW o \in Operators, PackageKey(o) PROVE JInv'
<1>1. /\ tool[o].doing = "package key" /\ tool[o].doing \in AtPackage /\ tool[o].doing # "nothing"
      /\ issued[User].key # NoKey /\ config' = [tool[o].id EXCEPT !.key = issued[User].key]
      /\ tool' = [tool EXCEPT ![o] = Idle] /\ Touch(o, User)
      /\ UNCHANGED <<ca, issued, host, env>> /\ UNCHANGED running /\ UNCHANGED todo
  BY DEF PackageKey, In, AtPackage, Finish
<1>2. /\ tool[o].cn = User /\ tool[o].id.ca # NoKey /\ Named(tool[o].id.pem, User)
      /\ Ca \notin torn => tool[o].id.ca = ca.pem
      /\ User \notin torn' => \A p \in Operators : p # o => ~Busy(p) \/ tool[p].cn # User
  BY <1>1, PackersAlone
<1>3. /\ config'.pem = tool[o].id.pem /\ config'.ca = tool[o].id.ca
      /\ config'.key = issued[User].key
  <2>1. tool[o].id \in Stored
    BY Held
  <2> QED
    BY <1>1, <2>1 DEF Stored
<1>4. torn \subseteq torn' /\ Alone' /\ Purposes'
  BY <1>1, TouchTears, AloneIdling, PurposesIdling DEF JInv
<1>5. Owned'
  <2>1. \A p \in Operators : Holding(tool'[p])
    BY <1>1, OwnedIdling DEF JInv
  <2> QED
    BY <1>1, <1>2, <1>3, <2>1, OwnedMeans DEF JInv, Owned
<1>6. tool'[o].doing = "nothing" /\ \A p \in Operators : p # o => tool'[p] = tool[p]
  BY <1>1, IdledHand
<1>7. Same(AtCa) /\ Same({"issue key"}) /\ Same(AtWorker)
  <2>1. /\ {"package key", "nothing"} \cap AtCa = {}
        /\ {"package key", "nothing"} \cap {"issue key"} = {}
        /\ {"package key", "nothing"} \cap AtWorker = {}
    BY DEF AtCa, AtWorker
  <2>2. ASSUME NEW doings, {"package key", "nothing"} \cap doings = {} PROVE Same(doings)
    BY <1>1, <2>2, SameIdling
  <2> QED
    BY <2>1, <2>2
<1>8. Signed'
  <2> SUFFICES ASSUME Ca \notin torn' PROVE Signed'
    BY DEF Signed
  <2>1. Ca \notin torn /\ ca' = ca /\ issued' = issued
    BY <1>1, <1>4
  <2>2. \A cn \in Names : SignedHere(issued[cn].pem)'
    BY <2>1 DEF JInv, Signed, SignedHere
  <2>3. ASSUME NEW p \in Operators
        PROVE  /\ tool'[p].doing \in AtIssue => SignedHere(tool[p].id.pem)'
               /\ tool'[p].doing \in AtPackage => tool'[p].id.ca = ca'.pem
    <3>1. CASE p = o
      BY <1>6, <3>1 DEF AtIssue, AtPackage
    <3>2. CASE p # o
      BY <1>6, <2>1, <3>2 DEF JInv, Signed, SignedHere
    <3> QED
      BY <3>1, <3>2
  <2> QED
    BY <2>2, <2>3 DEF Signed, AtIssue, AtPackage
<1>9. Packages'
  <2> SUFFICES ASSUME User \notin torn' PROVE Packages'
    BY DEF Packages
  <2>1. User \in Names \ torn /\ issued' = issued
    BY <1>1, <1>4 DEF Names
  <2>2. tool[o].id.pem = issued[User].pem /\ issued[User].pem # NoCert
    BY <1>1, <2>1 DEF JInv, Packages, In
  <2>3. Paired(issued[User])
    <3>1. \A p \in Operators : ~On(p, {"issue key"}, User)
      BY <1>1, <1>2 DEF On, Busy, In
    <3>2. issued[User] # NoPair
      BY <2>2 DEF NoPair
    <3> QED
      BY <2>1, <3>1, <3>2 DEF JInv, PairsWhole, PairWhole
  <2>4. Ca \notin torn => config'.pem.ca = config'.ca
    BY <1>2, <1>3, <2>1, <2>2 DEF JInv, Signed, SignedHere
  <2>5. Fits(config)'
    BY <1>3, <1>4, <2>2, <2>3, <2>4 DEF Fits, Paired
  <2>6. ASSUME NEW p \in Operators, tool'[p].doing = "package key"
        PROVE  tool'[p].id.pem = issued'[User].pem /\ issued'[User].pem # NoCert
    BY <1>6, <2>1, <2>6 DEF JInv, Packages, In
  <2> QED
    BY <2>5, <2>6 DEF Packages, In
<1>10. \A n : Restarting(n) => Restarting(n)'
  BY <1>1, <1>6, BusyHands, RestartingStays
<1> QED
  BY <1>1, <1>4, <1>5, <1>7, <1>8, <1>9, <1>10, CaWholeStays, PairsStay, CopiesStay,
     WiredStays DEF JInv

LEMMA PackageFailsJ == ASSUME IInv, JInv, NEW o \in Operators, PackageFails(o) PROVE JInv'
<1>1. /\ todo' = [todo EXCEPT ![o] = <<>>] /\ tool' = [tool EXCEPT ![o] = Idle]
      /\ UNCHANGED files /\ UNCHANGED running /\ torn \subseteq torn'
  BY DEF PackageFails
<1>2. At(o, "package") \/ tool[o].doing \in AtPackage
  BY DEF PackageFails, In, AtPackage
<1>3. tool[o].doing \notin AtCa \cup AtIssue \cup AtWorker
  <2>1. At(o, "package") => tool[o].doing = "nothing"
    BY DEF At, Idle
  <2> QED
    BY <1>2, <2>1 DEF AtCa, AtIssue, AtWorker, AtPackage
<1>4. ~At(o, "restart")
  <2>1. At(o, "package") => ~At(o, "restart")
    BY DEF At
  <2>2. tool[o].doing \in AtPackage => ~At(o, "restart")
    BY BusyHands DEF AtPackage
  <2> QED
    BY <1>2, <2>1, <2>2
<1> QED
  BY <1>1, <1>3, <1>4, GivingUpJ

LEMMA InterruptJ == ASSUME IInv, JInv, NEW o \in Operators, Interrupt(o) PROVE JInv'
<1>1. /\ todo' = [todo EXCEPT ![o] = <<>>] /\ tool' = [tool EXCEPT ![o] = Idle]
      /\ UNCHANGED files /\ UNCHANGED running /\ torn \subseteq torn'
  BY DEF Interrupt
<1>2. tool[o] # Idle => tool[o].cn \in torn'
  BY DEF Interrupt
<1>3. At(o, "restart") => Head(todo[o]).cn \in torn'
  BY DEF Interrupt, At
<1>4. tool[o].doing \in AtCa \cup AtIssue \cup AtWorker => tool[o] # Idle
  BY BusyHands DEF AtCa, AtIssue, AtWorker
<1> QED
  BY <1>1, <1>2, <1>3, <1>4, GivingUpJ

LEMMA PurgeJ == ASSUME IInv, JInv, NEW o \in Operators, Purge(o) PROVE JInv'
<1>1. /\ At(o, "purge") /\ Advance(o) /\ \A p \in Operators : tool[p] = Idle
      /\ ca' = NoCa /\ issued' = [cn \in Names |-> NoPair]
      /\ running' = [running EXCEPT ![Api] = Absent, ![Scheduler] = Absent]
      /\ UNCHANGED <<host, env, config>> /\ UNCHANGED tool /\ UNCHANGED torn
  BY DEF Purge
<1>2. /\ todo'[o] = Tail(todo[o]) /\ \A p \in Operators : p # o => todo'[p] = todo[p]
      /\ Planned(todo'[o]) /\ ~At(o, "restart")
  BY <1>1, Advanced
<1>3. \A p \in Operators : tool'[p] = tool[p] /\ tool[p].doing = "nothing" /\ tool'[p].doing = "nothing"
  <2>1. Idle.doing = "nothing"
    BY DEF Idle
  <2> QED
    BY <1>1, <2>1
<1>4. /\ \A cn \in Names : issued'[cn] = NoPair /\ issued'[cn].pem = NoCert
      /\ ca'.pem = ca'.key
  BY <1>1 DEF NoPair, NoCa
<1>5. \A s \in Services : running'[s] = running[s] \/ (running'[s].mode = "absent" /\ running'[s].id.pem = NoCert)
  <2>1. Absent.mode = "absent" /\ Absent.id.pem = NoCert
    BY DEF Absent, NoIdentity
  <2> QED
    BY <1>1, <2>1 DEF IInv, Loaded
<1>6. Purposes' /\ Alone'
  <2>1. Fitting(tool'[o], todo'[o])
    BY <1>1, <1>3 DEF Fitting, AtCa, AtIssue, AtPackage, AtWorker
  <2>2. Alone'
    BY <1>3 DEF Alone, Busy, In
  <2> QED
    BY <1>2, <1>3, <2>1, <2>2, PurposesKept DEF JInv
<1>7. Owned'
  <2>1. \A p \in Operators : Holding(tool'[p])
    BY <1>1 DEF JInv, Owned
  <2>2. \A s \in Services : Named(running'[s].id.pem, s)
    BY <1>5 DEF JInv, Owned, Named
  <2>3. \A cn \in Names : Named(issued'[cn].pem, cn)
    BY <1>4 DEF Named
  <2> QED
    BY <1>1, <2>1, <2>2, <2>3, OwnedMeans DEF JInv, Owned
<1>8. CaWhole' /\ Signed'
  BY <1>3, <1>4 DEF CaWhole, Signed, SignedHere, In, AtIssue, AtPackage
<1>9. PairsWhole'
  BY <1>3, <1>4 DEF PairsWhole, PairWhole, On, NoPair, NoKey
<1>10. Copies'
  <2>1. ASSUME NEW m \in Nodes \ torn' PROVE CopyWhole(m)'
    <3>1. CopyWhole(m)
      BY <1>1 DEF JInv, Copies
    <3>2. \A p \in Operators : \A doings : "nothing" \notin doings =>
            ~On(p, doings, m) /\ ~On(p, doings, m)'
      BY <1>3 DEF On
    <3>3. SameOn(AtWorker, m) /\ \A p \in Operators : ~On(p, AtCopy, m)
      BY <1>3, <3>2 DEF SameOn, AtCopy
    <3> QED
      BY <1>1, <3>1, <3>3, CopyStays
  <2> QED
    BY <2>1 DEF Copies
<1>11. Packages'
  <2>1. PartsOf(config) = Parts /\ User \notin torn' => Fits(config)'
    BY <1>1 DEF JInv, Packages, Fits, Paired
  <2> QED
    BY <1>1, <1>3, <2>1 DEF Packages, In, PartsOf, Parts, NoKey
<1>12. Wired'
  <2>1. \A m : Restarting(m) => Restarting(m)'
    BY <1>2, <1>3, RestartingStays
  <2>2. \A n \in Nodes : running'[n] = running[n] /\ n \in Services
    <3>1. \A n \in Nodes : n # Api /\ n # Scheduler
      BY NamesDiffer
    <3> QED
      BY <1>1, <3>1 DEF IInv, Loaded, Services
  <2>3. \A s \in {Api, Scheduler} : running'[s].mode = "mtls" => running'[s] = running[s]
    BY <1>5 DEF Services
  <2>4. \A p \in Operators : \A m : ~On(p, AtWorker, m)
    BY <1>3 DEF On, AtWorker
  <2>5. ASSUME NEW n \in Nodes \ torn'
        PROVE  /\ running'[n].mode = "mtls" => Fits(running[n].id)'
               /\ \/ host'[n] = NoIdentity
                  \/ env'[n] /\ (running'[n].mode # "plaintext" \/ Restarting(n)')
    BY <1>1, <2>1, <2>2, <2>4 DEF JInv, Wired, Fits, Paired
  <2>6. ASSUME NEW s \in {Api, Scheduler}
        PROVE  Ca \notin torn' /\ running'[s].mode = "mtls" =>
                 running'[s].id.pem.ca = running'[s].id.ca
    BY <1>1, <2>3 DEF JInv, Wired
  <2> QED
    BY <2>5, <2>6 DEF Wired, NoIdentity, NoKey
<1> QED
  BY <1>6, <1>7, <1>8, <1>9, <1>10, <1>11, <1>12 DEF JInv

-----------------------------------------------------------------------------
(* A service goes down or comes up; files and commands stay as they are.   *)
LEMMA ServiceStep ==
  ASSUME JInv, UNCHANGED files, UNCHANGED tool, UNCHANGED torn,
         Purposes', Wired', \A s \in Services : Named(running'[s].id.pem, s)
  PROVE  JInv'
<1>1. UNCHANGED <<ca, issued, host, env, config>>
  BY DEF files
<1>2. \A doings : Same(doings)
  BY DEF Same
<1>3. Alone'
  BY DEF JInv, Alone, Busy, In
<1>4. Owned'
  BY <1>1, OwnedMeans DEF JInv, Owned
<1> QED
  BY <1>1, <1>2, <1>3, <1>4, CaWholeStays, SignedStays, PairsStay, CopiesStay,
     PackagesStay DEF JInv

LEMMA WiredMeans ==
  ASSUME \A s \in {Api, Scheduler} : Ca \notin torn' /\ running'[s].mode = "mtls" =>
             running'[s].id.pem.ca = running'[s].id.ca,
         \A n \in Nodes \ torn' :
           /\ running'[n].mode = "mtls" => Fits(running[n].id)'
           /\ \/ host'[n] = NoIdentity
              \/ \E o \in Operators : On(o, AtWorker, n)'
              \/ env'[n] /\ (running'[n].mode # "plaintext" \/ Restarting(n)')
  PROVE  Wired'
BY DEF Wired, NoIdentity, NoKey

LEMMA RestartJ == ASSUME IInv, JInv, NEW o \in Operators, Restart(o) PROVE JInv'
<1>1. PICK s : s = Head(todo[o]).cn
  OBVIOUS
<1>2. /\ At(o, "restart") /\ Advance(o) /\ running' = [running EXCEPT ![s] = Down]
      /\ UNCHANGED files /\ UNCHANGED tool /\ UNCHANGED torn
  BY <1>1 DEF Restart
<1>3. /\ todo'[o] = Tail(todo[o]) /\ \A p \in Operators : p # o => todo'[p] = todo[p]
      /\ Planned(todo'[o]) /\ tool[o] = Idle /\ tool[o].doing = "nothing"
  BY <1>2, Advanced
<1>4. \A t \in Services : running'[t] = IF t = s THEN Down ELSE running[t]
  BY <1>2 DEF IInv, Loaded
<1>5. Down.mode = "down" /\ Down.id.pem = NoCert
  BY DEF Down, NoIdentity
<1>6. \A t \in Services : Named(running'[t].id.pem, t)
  BY <1>4, <1>5 DEF JInv, Owned, Named
<1>7. Purposes'
  <2>1. Fitting(tool'[o], todo'[o])
    BY <1>2, <1>3 DEF Fitting, AtCa, AtIssue, AtPackage, AtWorker
  <2> QED
    BY <1>2, <1>3, <2>1, PurposesKept DEF JInv
<1>8. Wired'
  <2>0. UNCHANGED <<host, env>>
    BY <1>2 DEF files
  <2>1. ASSUME NEW n \in Nodes \ torn'
        PROVE  /\ running'[n].mode = "mtls" => Fits(running[n].id)'
               /\ \/ host'[n] = NoIdentity
                  \/ \E p \in Operators : On(p, AtWorker, n)'
                  \/ env'[n] /\ (running'[n].mode # "plaintext" \/ Restarting(n)')
    <3>0. n \in Nodes \ torn /\ n \in Services
      BY <1>2 DEF Services
    <3>1. \A p \in Operators : On(p, AtWorker, n) => On(p, AtWorker, n)'
      BY <1>2 DEF On
    <3>2. CASE n = s
      BY <1>4, <1>5, <2>0, <3>0, <3>1, <3>2 DEF JInv, Wired
    <3>3. CASE n # s
      <4>1. Restarting(n) => Restarting(n)'
        BY <1>1, <1>2, <1>3, <3>3 DEF Restarting, At
      <4>2. running'[n] = running[n]
        BY <1>4, <3>0, <3>3
      <4>3. Fits(running[n].id) => Fits(running[n].id)'
        BY <1>2, <4>2 DEF Fits, Paired
      <4> QED
        BY <2>0, <3>0, <3>1, <4>1, <4>2, <4>3 DEF JInv, Wired
    <3> QED
      BY <3>2, <3>3
  <2>2. ASSUME NEW t \in {Api, Scheduler}
        PROVE  Ca \notin torn' /\ running'[t].mode = "mtls" =>
                 running'[t].id.pem.ca = running'[t].id.ca
    BY <1>2, <1>4, <1>5 DEF JInv, Wired, Services
  <2> QED
    BY <2>1, <2>2, WiredMeans
<1> QED
  BY <1>2, <1>6, <1>7, <1>8, ServiceStep

LEMMA StopJ == ASSUME IInv, JInv, NEW s \in Services, Stop(s) PROVE JInv'
<1>1. /\ running' = [running EXCEPT ![s] = Down]
      /\ UNCHANGED files /\ UNCHANGED tool /\ UNCHANGED torn /\ UNCHANGED todo
  BY DEF Stop
<1>2. \A t \in Services : running'[t] = IF t = s THEN Down ELSE running[t]
  BY <1>1 DEF IInv, Loaded
<1>3. Down.mode = "down" /\ Down.id.pem = NoCert
  BY DEF Down, NoIdentity
<1>4. \A t \in Services : Named(running'[t].id.pem, t)
  BY <1>2, <1>3 DEF JInv, Owned, Named
<1>5. Purposes'
  BY <1>1, PurposesMean DEF JInv, Purposes, Purpose
<1>6. Wired'
  <2>0. UNCHANGED <<host, env>>
    BY <1>1 DEF files
  <2>1. ASSUME NEW n \in Nodes \ torn'
        PROVE  /\ running'[n].mode = "mtls" => Fits(running[n].id)'
               /\ \/ host'[n] = NoIdentity
                  \/ \E p \in Operators : On(p, AtWorker, n)'
                  \/ env'[n] /\ (running'[n].mode # "plaintext" \/ Restarting(n)')
    <3>0. n \in Nodes \ torn /\ n \in Services
      BY <1>1 DEF Services
    <3>1. \A p \in Operators : On(p, AtWorker, n) => On(p, AtWorker, n)'
      BY <1>1 DEF On
    <3>2. Restarting(n) => Restarting(n)'
      BY <1>1 DEF Restarting, At, Idle, NoIdentity, NoKey
    <3>3. running'[n].mode = "mtls" => running'[n] = running[n]
      BY <1>2, <1>3, <3>0
    <3>4. running'[n] = running[n] /\ Fits(running[n].id) => Fits(running[n].id)'
      BY <1>1 DEF Fits, Paired
    <3>5. running'[n].mode = "plaintext" => running'[n] = running[n]
      BY <1>2, <1>3, <3>0
    <3> QED
      BY <2>0, <3>0, <3>1, <3>2, <3>3, <3>4, <3>5 DEF JInv, Wired
  <2>2. ASSUME NEW t \in {Api, Scheduler}
        PROVE  Ca \notin torn' /\ running'[t].mode = "mtls" =>
                 running'[t].id.pem.ca = running'[t].id.ca
    BY <1>1, <1>2, <1>3 DEF JInv, Wired, Services
  <2> QED
    BY <2>1, <2>2, WiredMeans
<1> QED
  BY <1>1, <1>4, <1>5, <1>6, ServiceStep

LEMMA StartJ == ASSUME IInv, JInv, NEW s \in Services, Start(s) PROVE JInv'
<1>1. PICK loaded : loaded = Loads(s)
  OBVIOUS
<1>2. /\ running' = [running EXCEPT ![s] = loaded]
      /\ loaded = Plaintext \/ (PartsOf(loaded.id) = Parts /\ Paired(loaded.id))
      /\ UNCHANGED files /\ UNCHANGED tool /\ UNCHANGED torn /\ UNCHANGED todo
  BY <1>1 DEF Start
<1>3. \A t \in Services : running'[t] = IF t = s THEN loaded ELSE running[t]
  BY <1>2 DEF IInv, Loaded
<1>4. loaded = Plaintext \/ loaded.mode = "mtls"
  <2>1. loaded \in {Plaintext, Refused} \/ loaded.mode = "mtls"
    BY <1>1 DEF Loads, TlsMode, Mtls
  <2>2. loaded = Refused => ~Paired(loaded.id)
    BY DEF Refused, Paired, NoIdentity
  <2> QED
    BY <1>2, <2>1, <2>2
<1>5. Plaintext.mode = "plaintext" /\ Plaintext.id.pem = NoCert
  BY DEF Plaintext, NoIdentity
<1>6. ASSUME s \in Nodes
      PROVE  /\ loaded.mode = "mtls" => loaded.id = host[s] /\ env[s]
             /\ loaded = Plaintext => ~env[s]
  <2>1. Parts # {} /\ Plaintext.mode # "mtls" /\ Refused # Plaintext /\ Refused.mode # "mtls"
        /\ Mtls(host[s]).mode = "mtls" /\ Mtls(host[s]).id = host[s]
    BY DEF Parts, Plaintext, Refused, Mtls
  <2> QED
    BY <1>1, <1>5, <1>6, <2>1 DEF Loads, TlsMode
<1>7. ASSUME s \notin Nodes
      PROVE  loaded.mode = "mtls" /\ loaded.id = OnDisk(s) /\ s \in {Api, Scheduler} /\ s \in Names
  <2>1. Parts # {}
    BY DEF Parts
  <2>2. loaded = Mtls(OnDisk(s))
    BY <1>1, <1>7, <2>1 DEF Loads, TlsMode
  <2> QED
    BY <1>7, <2>2 DEF Mtls, Services, Names
<1>8. \A t \in Services : Named(running'[t].id.pem, t)
  <2>1. Named(loaded.id.pem, s)
    <3>1. CASE s \in Nodes
      BY <1>4, <1>5, <1>6, <3>1 DEF JInv, Owned, Named
    <3>2. CASE s \notin Nodes
      BY <1>7, <3>2 DEF JInv, Owned, OnDisk
    <3> QED
      BY <3>1, <3>2
  <2> QED
    BY <1>3, <2>1 DEF JInv, Owned
<1>9. Purposes'
  BY <1>2, PurposesMean DEF JInv, Purposes, Purpose
<1>10. Wired'
  <2>0. UNCHANGED <<host, env>>
    BY <1>2 DEF files
  <2>1. ASSUME NEW n \in Nodes \ torn'
        PROVE  /\ running'[n].mode = "mtls" => Fits(running[n].id)'
               /\ \/ host'[n] = NoIdentity
                  \/ \E p \in Operators : On(p, AtWorker, n)'
                  \/ env'[n] /\ (running'[n].mode # "plaintext" \/ Restarting(n)')
    <3>0. n \in Nodes \ torn /\ n \in Services
      BY <1>2 DEF Services
    <3>1. \A p \in Operators : On(p, AtWorker, n) => On(p, AtWorker, n)'
      BY <1>2 DEF On
    <3>2. Restarting(n) => Restarting(n)'
      BY <1>2 DEF Restarting, At, Idle, NoIdentity, NoKey
    <3>3. CASE n # s
      <4>1. running'[n] = running[n]
        BY <1>3, <3>0, <3>3
      <4>2. Fits(running[n].id) => Fits(running[n].id)'
        BY <1>2, <4>1 DEF Fits, Paired
      <4> QED
        BY <2>0, <3>0, <3>1, <3>2, <4>1, <4>2 DEF JInv, Wired
    <3>4. CASE n = s /\ loaded.mode = "mtls"
      <4>1. running'[n] = loaded /\ loaded.id = host[n] /\ env[n] /\ Paired(host[n])
        BY <1>2, <1>3, <1>5, <1>6, <3>0, <3>4
      <4>2. CopyWhole(n)
        BY <3>0 DEF JInv, Copies
      <4>3. \A p \in Operators : ~On(p, AtCopy, n)
        BY <4>1, <4>2 DEF CopyWhole, On, AtCopy, AtWorker
      <4>4. host[n] # NoIdentity
        BY <4>1 DEF Paired, NoIdentity
      <4>5. Fits(host[n])
        BY <4>2, <4>3, <4>4 DEF CopyWhole
      <4>6. Fits(running[n].id)'
        BY <1>2, <4>1, <4>5 DEF Fits, Paired
      <4> QED
        BY <2>0, <3>4, <4>1, <4>6
    <3>5. CASE n = s /\ loaded = Plaintext
      <4>1. running'[n] = Plaintext /\ ~env[n]
        BY <1>3, <1>6, <3>0, <3>5
      <4>2. host[n] = NoIdentity \/ \E p \in Operators : On(p, AtWorker, n)
        BY <3>0, <4>1 DEF JInv, Wired
      <4> QED
        BY <1>5, <2>0, <3>1, <4>1, <4>2
    <3> QED
      BY <1>4, <3>3, <3>4, <3>5
  <2>2. ASSUME NEW t \in {Api, Scheduler}
        PROVE  Ca \notin torn' /\ running'[t].mode = "mtls" =>
                 running'[t].id.pem.ca = running'[t].id.ca
    <3>0. t \in Services /\ t \notin Nodes
      BY NamesDiffer DEF Services
    <3>1. CASE t # s
      BY <1>2, <1>3, <3>0, <3>1 DEF JInv, Wired
    <3>2. CASE t = s
      <4>1. running'[t] = loaded /\ loaded.id = OnDisk(t) /\ t \in Names /\ Paired(OnDisk(t))
        BY <1>2, <1>3, <1>5, <1>7, <3>0, <3>2
      <4>2. Ca \notin torn => issued[t].pem.ca = ca.pem
        BY <4>1 DEF JInv, Signed, SignedHere, OnDisk, Paired
      <4> QED
        BY <1>2, <4>1, <4>2 DEF OnDisk
    <3> QED
      BY <3>1, <3>2
  <2> QED
    BY <2>1, <2>2, WiredMeans
<1> QED
  BY <1>2, <1>8, <1>9, <1>10, ServiceStep

LEMMA StutteringJ == ASSUME JInv, UNCHANGED vars PROVE JInv'
<1>1. /\ UNCHANGED files /\ UNCHANGED running /\ UNCHANGED tool /\ UNCHANGED torn
      /\ UNCHANGED todo /\ UNCHANGED <<ca, issued, host, env, config>>
  BY DEF vars, files
<1>2. Purposes'
  BY <1>1, PurposesMean DEF JInv, Purposes, Purpose
<1>3. Wired'
  <2>1. \A doings : Same(doings)
    BY <1>1 DEF Same
  <2>2. \A n : Restarting(n) => Restarting(n)'
    BY <1>1 DEF Restarting, At, Idle, NoIdentity, NoKey
  <2> QED
    BY <1>1, <2>1, <2>2, WiredStays DEF JInv
<1> QED
  BY <1>1, <1>2, <1>3, ServiceStep DEF JInv, Owned

(* Every step keeps what belongs together together.                        *)
LEMMA StepJ == ASSUME IInv, JInv, NEW o \in Operators, Step(o) PROVE JInv'
BY InitCaJ, WriteCaCertJ, WriteCaKeyJ, IssueJ, WriteCertJ, WriteKeyJ, WorkerJ,
   PlainWorkerJ, CopyCertJ, CopyKeyJ, CopyCaJ, WriteEnvJ, PackageJ, PackageCertJ,
   PackageKeyJ, PackageFailsJ, PurgeJ, RestartJ DEF Step

(* Whatever operators do, what a name has on the control plane, on its     *)
(* worker and in its file belongs together, unless a command is at work on *)
(* it or one was stopped in the middle or met another there.               *)
THEOREM FilesBelongTogether == Spec => []JInv
<1>1. Init => JInv
  BY InitJ
<1>2. ASSUME IInv, JInv, [Next]_vars PROVE JInv'
  <2>1. ASSUME NEW o \in Operators, Begin(o) \/ Step(o) \/ Interrupt(o) PROVE JInv'
    BY <2>1, <1>2, BeginJ, StepJ, InterruptJ
  <2>2. ASSUME NEW s \in Services, Start(s) \/ Stop(s) PROVE JInv'
    BY <2>2, <1>2, StartJ, StopJ
  <2>3. CASE UNCHANGED vars
    BY <2>3, <1>2, StutteringJ
  <2> QED
    BY <2>1, <2>2, <2>3, <1>2 DEF Next
<1> QED
  BY <1>1, <1>2, CredentialsInvariant, PTL DEF Spec

-----------------------------------------------------------------------------
LEMMA AtWork ==
  ASSUME NEW o \in Operators, NEW doings, NEW cn, On(o, doings, cn), "nothing" \notin doings
  PROVE  Working(cn)
BY DEF On, Working, In

LEMMA TogetherFits == ASSUME IInv, JInv PROVE PairsFit
<1>1. Ca \in torn \/ Working(Ca) \/ ca.pem = ca.key
  BY AtWork DEF JInv, CaWhole
<1>2. ASSUME NEW cn \in Names \ torn
      PROVE  Working(cn) \/ issued[cn] = NoPair \/ Fits(OnDisk(cn))
  <2>1. Working(cn) \/ issued[cn] = NoPair \/ Paired(issued[cn])
    BY AtWork DEF JInv, PairsWhole, PairWhole
  <2>2. Paired(issued[cn]) /\ Ca \notin torn => issued[cn].pem.ca = ca.pem
    BY DEF JInv, Signed, SignedHere, Paired
  <2> QED
    BY <2>1, <2>2 DEF Fits, Paired, OnDisk
<1>3. ASSUME NEW n \in Nodes \ torn
      PROVE  Working(n) \/ host[n] = NoIdentity \/ Fits(host[n])
  BY AtWork DEF JInv, Copies, CopyWhole, AtCopy
<1>4. User \in torn \/ PartsOf(config) # Parts \/ Fits(config)
  BY DEF JInv, Packages
<1> QED
  BY <1>1, <1>2, <1>3, <1>4 DEF PairsFit

(* A name's certificate, key and CA belong together wherever they are      *)
(* kept, for any number of operators and interruptions: issue writes the   *)
(* certificate before the key, the installer copies file after file.       *)
THEOREM PairsStayTogether == Spec => []PairsFit
BY CredentialsInvariant, FilesBelongTogether, TogetherFits, PTL

LEMMA AgentsStayWired == ASSUME JInv PROVE AgentsKeepTls
<1>1. ASSUME NEW n \in Nodes \ torn
      PROVE  host[n] = NoIdentity \/ Working(n) \/ (env[n] /\ running[n].mode # "plaintext")
  <2>1. \/ host[n] = NoIdentity
        \/ \E o \in Operators : On(o, AtWorker, n)
        \/ env[n] /\ (running[n].mode # "plaintext" \/ Restarting(n))
    BY DEF JInv, Wired
  <2>2. (\E o \in Operators : On(o, AtWorker, n)) => Working(n)
    BY AtWork DEF AtWorker
  <2>3. Restarting(n) => Working(n)
    BY DEF Restarting, Working
  <2> QED
    BY <2>1, <2>2, <2>3
<1> QED
  BY <1>1 DEF AgentsKeepTls

(* What barectl makes of a config file, whole or in parts.                 *)
LEMMA FileResolved ==
  ASSUME IInv, NEW parts \in NoneSomeAll
  PROVE  /\ PartsOf(Only(parts)) = {} \/ PartsOf(Only(parts)) = Parts
              \/ TlsMode(PartsOf(Only(parts)), Only(parts)) = Refused
         /\ PartsOf(Only(parts)) = Parts => Only(parts) = config
<1>1. PartsOf(Only(parts)) = Parts => Only(parts) = config
  <2> SUFFICES ASSUME PartsOf(Only(parts)) = Parts PROVE Only(parts) = config
    OBVIOUS
  <2>1. Only(parts).pem # NoCert /\ Only(parts).key # NoKey /\ Only(parts).ca # NoKey
    BY DEF PartsOf, Parts
  <2>2. parts = Parts
    BY <2>1 DEF Only, NoneSomeAll, Parts
  <2>3. config = [pem |-> config.pem, key |-> config.key, ca |-> config.ca]
    BY DEF IInv, Files, Stored
  <2> QED
    BY <2>2, <2>3 DEF Only, Parts
<1> QED
  BY <1>1 DEF TlsMode

LEMMA BarectlStaysWired == ASSUME IInv PROVE BarectlKeepsTls
<1> SUFFICES ASSUME NEW given \in NoneSomeAll, NEW named \in BOOLEAN, NEW parts \in NoneSomeAll,
                    given # {} \/ PartsOf(Only(parts)) # {}
             PROVE  Barectl(given, named, parts) \in {Refused, Mtls(OnDisk(User)), Mtls(config)}
  BY DEF BarectlKeepsTls
<1>1. Refused # Plaintext /\ Refused.mode # "mtls" /\ Parts # {}
      /\ \A id : Mtls(id) # Plaintext /\ Mtls(id).mode = "mtls"
  BY DEF Refused, Plaintext, Mtls, Parts
<1>2. CASE given = {}
  <2>1. TlsMode(given, OnDisk(User)) = Plaintext
    BY <1>2 DEF TlsMode
  <2>2. TlsMode(PartsOf(Only(parts)), Only(parts)) \in {Refused, Mtls(config)}
    BY <1>1, <1>2, FileResolved DEF TlsMode
  <2> QED
    BY <1>1, <2>1, <2>2 DEF Barectl, Resolve
<1>3. CASE given # {}
  <2>1. TlsMode(given, OnDisk(User)) \in {Refused, Mtls(OnDisk(User))}
    BY <1>3 DEF TlsMode
  <2> QED
    BY <1>1, <2>1 DEF Barectl, Resolve
<1> QED
  BY <1>2, <1>3

(* Whoever was given an identity does not fall back to plaintext: neither  *)
(* an agent, whenever it starts, nor barectl.                              *)
THEOREM TlsStays == Spec => []TlsIsKept
<1>1. IInv /\ JInv => TlsIsKept
  BY AgentsStayWired, BarectlStaysWired DEF TlsIsKept
<1> QED
  BY <1>1, CredentialsInvariant, FilesBelongTogether, PTL

-----------------------------------------------------------------------------
(* A client whose own files fit is served for every RPC of its role.       *)
LEMMA FittingClientIsServed ==
  ASSUME IInv, JInv, NEW client, NEW cn, NEW role \in {"scheduler", "node", "cli"}, NEW node,
         Paired(client.id), client.id.pem.cn = cn, client.id.pem.role = role,
         client.mode = "mtls" /\ Ca \notin torn => client.id.pem.ca = client.id.ca,
         role = "node" => cn = node
  PROVE  Works(client, cn, role, node)
<1> SUFFICES ASSUME client.mode = "mtls", running[Api].mode = "mtls",
                    client.id.ca = running[Api].id.ca, Ca \notin torn,
                    NEW rpc \in Rpcs, RoleOf[rpc] = role
             PROVE  Serves(client, running[Api], rpc, node)
  BY DEF Works
<1>1. Api \in Services
  BY DEF Services
<1>2. Paired(running[Api].id)
  BY <1>1 DEF IInv, Loaded, Absent, Down, Plaintext, Mtls
<1>3. running[Api].id.pem.cn = Api
  BY <1>1, <1>2 DEF JInv, Owned, Named, Paired
<1>4. running[Api].id.pem.ca = running[Api].id.ca
  BY DEF JInv, Wired
<1>5. Handshake(client, running[Api], Api)
  BY <1>2, <1>3, <1>4 DEF Handshake
<1>6. Peer(client).tls /\ Peer(client).identity = cn /\ Peer(client).role = role
  BY DEF Peer, Roles
<1>7. rpc \in NodeRpcs => role = "node"
  BY DEF NodeRpcs, RoleOf, Rpcs
<1> QED
  BY <1>5, <1>6, <1>7 DEF Serves, CheckRole, CheckIdentity

LEMMA WiredWorks == ASSUME IInv, JInv PROVE WiredToWork
<1> SUFFICES ASSUME NEW n \in Nodes
             PROVE  /\ Works(running[Scheduler], Scheduler, "scheduler", n)
                    /\ Works(running[n], n, "node", n) /\ CallsItself(n)
                    /\ config.pem # NoCert /\ config.pem.role = "cli" =>
                         Works(Barectl({}, FALSE, Parts), User, "cli", n)
  BY DEF WiredToWork
<1>1. ASSUME NEW s \in Services, running[s].mode = "mtls"
      PROVE  /\ Paired(running[s].id) /\ running[s].id.pem.cn = s
             /\ Apt(s, running[s].id.pem.role)
  <2>1. Paired(running[s].id)
    BY <1>1 DEF IInv, Loaded, Absent, Down, Plaintext, Mtls
  <2> QED
    BY <2>1 DEF JInv, Owned, Named, Paired
<1>2. Works(running[Scheduler], Scheduler, "scheduler", n)
  <2>1. CASE running[Scheduler].mode = "mtls"
    <3>1. Scheduler \in Services
      BY DEF Services
    <3>2. /\ Paired(running[Scheduler].id) /\ running[Scheduler].id.pem.cn = Scheduler
          /\ running[Scheduler].id.pem.role = "scheduler"
      BY <1>1, <2>1, <3>1 DEF Apt
    <3>3. Ca \notin torn => running[Scheduler].id.pem.ca = running[Scheduler].id.ca
      BY <2>1 DEF JInv, Wired
    <3> QED
      BY <3>2, <3>3, FittingClientIsServed
  <2>2. CASE running[Scheduler].mode # "mtls"
    BY <2>2 DEF Works
  <2> QED
    BY <2>1, <2>2
<1>3. n \in Services /\ n \in Names
  BY DEF Services, Names
<1>4. Works(running[n], n, "node", n)
  <2>1. CASE running[n].mode = "mtls" /\ n \notin torn
    <3>1. /\ Paired(running[n].id) /\ running[n].id.pem.cn = n
          /\ running[n].id.pem.role = "node"
      BY <1>1, <1>3, <2>1 DEF Apt
    <3>2. Ca \notin torn => running[n].id.pem.ca = running[n].id.ca
      BY <2>1 DEF JInv, Wired, Fits
    <3> QED
      BY <3>1, <3>2, FittingClientIsServed
  <2>2. CASE running[n].mode # "mtls" \/ n \in torn
    BY <2>2 DEF Works
  <2> QED
    BY <2>1, <2>2
<1>5. CallsItself(n)
  <2>1. CASE running[n].mode = "plaintext"
    BY <2>1 DEF CallsItself, ServesKubelet, Handshake, CheckRole, Peer, PlainPeer
  <2>2. CASE running[n].mode = "mtls" /\ running[n].id.pem.ca = running[n].id.ca
    <3>1. /\ Paired(running[n].id) /\ running[n].id.pem.cn = n
          /\ running[n].id.pem.role = "node"
      BY <1>1, <1>3, <2>2 DEF Apt
    <3>2. Handshake(running[n], running[n], n)
      BY <2>2, <3>1 DEF Handshake
    <3>3. Peer(running[n]).role = "node"
      BY <2>2, <3>1 DEF Peer, Roles
    <3> QED
      BY <3>2, <3>3 DEF CallsItself, ServesKubelet, CheckRole
  <2> QED
    BY <2>1, <2>2 DEF CallsItself
<1>6. ASSUME config.pem # NoCert, config.pem.role = "cli"
      PROVE  Works(Barectl({}, FALSE, Parts), User, "cli", n)
  <2>1. CASE Barectl({}, FALSE, Parts).mode # "mtls" \/ User \in torn
    BY <2>1 DEF Works
  <2>2. CASE Barectl({}, FALSE, Parts).mode = "mtls" /\ User \notin torn
    <3>1. Refused.mode # "mtls" /\ Plaintext.mode # "mtls" /\ Parts # {}
          /\ Mtls(config).mode = "mtls" /\ Mtls(config).id = config
          /\ Parts \in NoneSomeAll
      BY DEF Refused, Plaintext, Mtls, Parts, NoneSomeAll
    <3>2. TlsMode({}, OnDisk(User)) = Plaintext
      BY DEF TlsMode
    <3>3. Barectl({}, FALSE, Parts) = TlsMode(PartsOf(Only(Parts)), Only(Parts))
      BY <3>1, <3>2 DEF Barectl, Resolve
    <3>4. PartsOf(Only(Parts)) = Parts
      BY <2>2, <3>1, <3>3 DEF TlsMode
    <3>5. Only(Parts) = config /\ Barectl({}, FALSE, Parts) = Mtls(config)
      BY <3>1, <3>3, <3>4, FileResolved DEF TlsMode
    <3>6. Fits(config) /\ config.pem.cn = User
      BY <1>6, <2>2, <3>4, <3>5 DEF JInv, Packages, Owned, Named
    <3> QED
      BY <1>6, <3>1, <3>5, <3>6, FittingClientIsServed DEF Fits
  <2> QED
    BY <2>1, <2>2
<1> QED
  BY <1>2, <1>4, <1>5, <1>6

(* What the installer wires up works, however often it is run and stopped: *)
(* whoever holds files that nothing tore is served for everything it does. *)
THEOREM InstalledPartsWork == Spec => []WiredToWork
BY CredentialsInvariant, FilesBelongTogether, WiredWorks, PTL

=============================================================================
