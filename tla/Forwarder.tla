----------------------------- MODULE Forwarder -----------------------------
(***************************************************************************)
(* cmd/proxy/main.go: main, which binds the mapped ports, dials, opens a   *)
(* channel per further port and then waits for a signal; and the forwarder *)
(* of one of the ports.  readLoop carries the device stream to the         *)
(* attached client for the life of the stream and discards what arrives    *)
(* with none attached; each accepted connection runs serve, which attaches *)
(* it or refuses it.  Both work under f.mu, and readLoop writes to the     *)
(* client's socket while it holds it.                                      *)
(*                                                                         *)
(* The stream (a Tunnel or one of its channels) and the clients' sockets   *)
(* are external: the device's chunks are numbered, a socket holds SockCap  *)
(* chunks before a write to it blocks.                                     *)
(***************************************************************************)
EXTENDS Integers, Sequences, FiniteSets

CONSTANTS
  Maps,       \* the number of mapped ports
  Conn,       \* the connections that may arrive at one of them
  Last,       \* the number of chunks the device sends
  SockCap,    \* chunks a client's socket buffers before Write blocks
  NoConn      \* no connection

ASSUME ForwarderAssumption ==
  /\ Maps \in Nat \ {0} /\ Last \in Nat /\ SockCap \in Nat \ {0}
  /\ NoConn \notin Conn /\ NoConn # "readLoop"

VARIABLES
  main,       \* "bind", "dial", "open", "serve", "closing", "exit"; or "killed"
  mapped,     \* the ports bound, then the streams opened
  tun,        \* the tunnel: "none", "open" or "closed"
  clash,      \* history: a port could not be bound
  client,     \* forwarder.client
  mu,         \* the goroutine in f.mu: NoConn, "readLoop", or a connection
  loop,       \* readLoop: "read", "have", "write", "err" or "ended"
  n,          \* the chunk readLoop has read last
  readFor,    \* history: while it holds it, the client attached at the read
  pc,         \* serve, per connection
  sock,       \* per connection: chunks written to its socket and not read
  strays,     \* history: connections sent what was read with them not attached
  shut,       \* the connections the proxy has closed
  peer,       \* per connection: the client still has its end open
  up          \* the stream: TRUE until the tunnel or the channel dies

looping == <<loop, n, readFor>>
conns == <<pc, sock, strays, shut, peer>>
proc == <<main, mapped, tun, clash>>
port == <<client, mu, looping, conns>>
proxyVars == <<proc, port, up>>

ProxyInit ==
  /\ main = "bind" /\ mapped = 0 /\ tun = "none" /\ clash = FALSE
  /\ client = NoConn /\ mu = NoConn
  /\ loop = "read" /\ n = 0 /\ readFor = NoConn
  /\ pc = [c \in Conn |-> "idle"]
  /\ sock = [c \in Conn |-> 0] /\ strays = {}
  /\ shut = {} /\ peer = [c \in Conn |-> TRUE]
  /\ up = TRUE

-----------------------------------------------------------------------------
(* main.                                                                   *)

Bind ==
  /\ main = "bind"
  /\ mapped' = mapped + 1
  /\ main' = IF mapped' = Maps THEN "dial" ELSE "bind"
  /\ UNCHANGED <<tun, clash, port, up>>

(* The ports bound before are closed again, and the connections that wait  *)
(* on them reset with them.                                                *)
BindFails ==
  /\ main = "bind"
  /\ clash' = TRUE /\ main' = "exit"
  /\ UNCHANGED <<mapped, tun, port, up>>

(* The first port has the tunnel's own channel.                            *)
DialOk ==
  /\ main = "dial"
  /\ tun' = "open" /\ mapped' = 1 /\ main' = "open"
  /\ UNCHANGED <<clash, port, up>>

DialFails ==
  /\ main = "dial" /\ main' = "exit"
  /\ UNCHANGED <<mapped, tun, clash, port, up>>

OpenOk ==
  /\ main = "open" /\ mapped < Maps
  /\ mapped' = mapped + 1
  /\ UNCHANGED <<main, tun, clash, port, up>>

(* Mutant of Closed: the error path leaves the tunnel open.                *)
ClosedNot == tun

Closed == "closed"

OpenFails ==
  /\ main = "open" /\ mapped < Maps
  /\ tun' = Closed /\ main' = "exit"
  /\ UNCHANGED <<mapped, clash, port, up>>

(* The signal handler is installed and the forwarders start.               *)
Start ==
  /\ main = "open" /\ mapped = Maps
  /\ main' = "serve"
  /\ UNCHANGED <<mapped, tun, clash, port, up>>

(* A signal, once: tun.Close, which ends the streams, and os.Exit.         *)
SignalCloses ==
  /\ main = "serve"
  /\ tun' = "closed" /\ up' = FALSE /\ main' = "closing"
  /\ UNCHANGED <<mapped, clash, port>>

SignalExits ==
  /\ main = "closing" /\ main' = "exit"
  /\ UNCHANGED <<mapped, tun, clash, port, up>>

(* Before the handler is installed a signal kills the process.             *)
SignalKills ==
  /\ main \in {"bind", "dial", "open"} /\ main' = "killed"
  /\ UNCHANGED <<mapped, tun, clash, port, up>>

(* The forwarder's goroutines exist from Start to the end of the process.  *)
Running == main \in {"serve", "closing"}

-----------------------------------------------------------------------------
(* readLoop.                                                               *)

(* What is still buffered when the stream dies is read before the error.   *)
LoopRead ==
  /\ loop = "read"
  /\ \/ /\ n < Last
        /\ loop' = "have" /\ n' = n + 1 /\ readFor' = client
     \/ ~up /\ loop' = "err" /\ UNCHANGED <<n, readFor>>
  /\ UNCHANGED <<proc, client, mu, conns, up>>

(* f.mu is taken; with no client the chunk is discarded.                   *)
LoopLock ==
  /\ loop = "have" /\ mu = NoConn
  /\ IF client = NoConn
     THEN loop' = "read" /\ readFor' = NoConn /\ UNCHANGED mu
     ELSE loop' = "write" /\ mu' = "readLoop" /\ UNCHANGED readFor
  /\ UNCHANGED <<proc, client, n, conns, up>>

(* client.Write blocks while the socket is full; on a socket whose other   *)
(* end is gone it fails, and the failure is ignored.                       *)
LoopWrite ==
  /\ loop = "write"
  /\ IF peer[client] /\ client \notin shut
     THEN /\ sock[client] < SockCap
          /\ sock' = [sock EXCEPT ![client] = @ + 1]
          /\ strays' = strays \cup ({client} \ {readFor})
     ELSE UNCHANGED <<sock, strays>>
  /\ loop' = "read" /\ mu' = NoConn /\ readFor' = NoConn
  /\ UNCHANGED <<proc, client, n, pc, shut, peer, up>>

(* The stream ended: the attached client is closed and detached.           *)
LoopEnd ==
  /\ loop = "err" /\ mu = NoConn
  /\ shut' = shut \cup ({client} \ {NoConn})
  /\ client' = NoConn
  /\ loop' = "ended"
  /\ UNCHANGED <<proc, mu, n, readFor, pc, sock, strays, peer, up>>

-----------------------------------------------------------------------------
(* serve, one goroutine per connection.                                    *)

(* A client connects to the bound port and waits for Accept.               *)
Arrive(c) ==
  /\ pc[c] = "idle" /\ main \in {"dial", "open", "serve", "closing"}
  /\ pc' = [pc EXCEPT ![c] = "queued"]
  /\ UNCHANGED <<proc, client, mu, looping, sock, strays, shut, peer, up>>

Accept(c) ==
  /\ pc[c] = "queued"
  /\ pc' = [pc EXCEPT ![c] = "accepted"]
  /\ UNCHANGED <<proc, client, mu, looping, sock, strays, shut, peer, up>>

Busy == client # NoConn


Unlocked(c) == NoConn

ServeAttach(c) ==
  /\ pc[c] = "accepted" /\ mu = NoConn /\ ~Busy
  /\ client' = c
  /\ pc' = [pc EXCEPT ![c] = "copy"]
  /\ UNCHANGED <<proc, mu, looping, sock, strays, shut, peer, up>>

(* replyError and Close.                                                   *)
ServeRefuse(c) ==
  /\ pc[c] = "accepted" /\ mu = NoConn /\ Busy
  /\ mu' = Unlocked(c)
  /\ pc' = [pc EXCEPT ![c] = "refused"]
  /\ shut' = shut \cup {c}
  /\ UNCHANGED <<proc, client, looping, sock, strays, peer, up>>

(* io.Copy(stream, conn) ends at the client's EOF, or because readLoop has *)
(* closed the connection.                                                  *)
CopyEnds(c) ==
  /\ pc[c] = "copy"
  /\ ~peer[c] \/ c \in shut
  /\ pc' = [pc EXCEPT ![c] = "detach"]
  /\ UNCHANGED <<proc, client, mu, looping, sock, strays, shut, peer, up>>

(* io.Copy fails when a chunk the client sends meets a dead stream.        *)
CopyFails(c) ==
  /\ pc[c] = "copy" /\ ~up
  /\ pc' = [pc EXCEPT ![c] = "detach"]
  /\ UNCHANGED <<proc, client, mu, looping, sock, strays, shut, peer, up>>

(* Mutant of Detached: whoever is attached is detached.                    *)
DetachedAny(c) == NoConn

Detached(c) == IF client = c THEN NoConn ELSE client

ServeDetach(c) ==
  /\ pc[c] = "detach" /\ mu = NoConn
  /\ client' = Detached(c)
  /\ pc' = [pc EXCEPT ![c] = "gone"]
  /\ shut' = shut \cup {c}
  /\ UNCHANGED <<proc, mu, looping, sock, strays, peer, up>>

-----------------------------------------------------------------------------
(* The clients and the stream, external.                                   *)

ClientReads(c) ==
  /\ sock[c] > 0
  /\ sock' = [sock EXCEPT ![c] = @ - 1]
  /\ UNCHANGED <<proc, client, mu, looping, pc, strays, shut, peer, up>>

ClientLeaves(c) ==
  /\ pc[c] # "idle" /\ peer[c]
  /\ peer' = [peer EXCEPT ![c] = FALSE]
  /\ UNCHANGED <<proc, client, mu, looping, pc, sock, strays, shut, up>>

StreamDies ==
  /\ up /\ tun = "open"
  /\ up' = FALSE
  /\ UNCHANGED <<proc, client, mu, looping, conns>>

Serve(c) == Accept(c) \/ ServeAttach(c) \/ ServeRefuse(c) \/ CopyEnds(c) \/ CopyFails(c) \/ ServeDetach(c)
ReadLoop == LoopRead \/ LoopLock \/ LoopWrite \/ LoopEnd

Dial == DialOk \/ DialFails
Main == Bind \/ BindFails \/ OpenOk \/ OpenFails \/ Start \/ SignalExits

ProxyNext ==
  \/ Main \/ Dial \/ SignalCloses \/ SignalKills
  \/ Running /\ (ReadLoop \/ \E c \in Conn : Serve(c))
  \/ /\ main \notin {"exit", "killed"}
     /\ StreamDies \/ \E c \in Conn : Arrive(c) \/ ClientReads(c) \/ ClientLeaves(c)

ProxySpec == ProxyInit /\ [][ProxyNext]_proxyVars

(* The scheduler runs every goroutine, and a freed mutex reaches each      *)
(* waiter; OpenChannel has a limit.  seestar.Dial has none, in its requests*)
(* to the cloud, and clients owe nothing: they need not read.              *)
FairProxySpec ==
  /\ ProxySpec
  /\ WF_proxyVars(Main) /\ WF_proxyVars(Running /\ ReadLoop)
  /\ \A c \in Conn : /\ WF_proxyVars(Running /\ (Accept(c) \/ CopyEnds(c)))
                     /\ SF_proxyVars(Running /\ (ServeAttach(c) \/ ServeRefuse(c) \/ ServeDetach(c)))

-----------------------------------------------------------------------------
(* Properties.                                                             *)

(* Every variable has its type, and a mutex is held only across a write.   *)
ProxyTypeOK ==
  /\ main \in {"bind", "dial", "open", "serve", "closing", "exit", "killed"}
  /\ mapped \in 0..Maps /\ tun \in {"none", "open", "closed"}
  /\ client \in Conn \cup {NoConn}
  /\ mu = IF loop = "write" THEN "readLoop" ELSE NoConn
  /\ loop \in {"read", "have", "write", "err", "ended"} /\ n \in 0..Last
  /\ readFor \in Conn \cup {NoConn}
  /\ pc \in [Conn -> {"idle", "queued", "accepted", "copy", "detach", "gone", "refused"}]
  /\ sock \in [Conn -> 0..SockCap]
  /\ strays \subseteq Conn
  /\ shut \subseteq Conn /\ peer \in [Conn -> BOOLEAN] /\ up \in BOOLEAN

(* "One client at a time per mapped port" (README.md:74): two connections  *)
(* never copy into a live stream, and one that copies is attached or has   *)
(* been closed, even when a stream's end and a detach cross an attach.     *)
OneClient ==
  /\ up => Cardinality({c \in Conn : pc[c] = "copy"}) <= 1
  /\ \A c \in Conn : pc[c] = "copy" => client = c \/ c \in shut

(* readLoop is in client.Write, which does not return, with f.mu held.     *)
WriteBlocked ==
  loop = "write" /\ sock[client] = SockCap /\ peer[client] /\ client \notin shut

Waiting(c) == pc[c] \in {"queued", "accepted"} /\ main \notin {"exit", "killed"}


(* "Bind before dialling: a port clash then costs nothing" and "releasing  *)
(* the device session" (main.go:200, 242): however far main had come, it   *)
(* exits with no tunnel open, and on a clash without having had one.       *)
SessionSpared ==
  /\ main = "exit" => tun # "open"
  /\ clash => tun = "none"

-----------------------------------------------------------------------------
(* What the source says of itself and TLC refutes (README, section 3).     *)

(* "a second connection is refused rather than left waiting"               *)
(* (README.md:75): every connection accepted is attached or refused, or    *)
(* reset with the process.                                                 *)
RefusedNotWaiting ==
  \A c \in Conn : pc[c] = "accepted" ~> pc[c] # "accepted" \/ main \in {"exit", "killed"}

(* "discarding output when no client is attached: ... would otherwise      *)
(* queue and be delivered to whoever connected next" (main.go:61-63): a    *)
(* client is sent only what was read while it was attached.                *)
OwnOutputOnly == strays = {}
=============================================================================
