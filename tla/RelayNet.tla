------------------------------ MODULE RelayNet ------------------------------
(***************************************************************************)
(* The WebSockets between a AgentLine server, the relay and the phones, as *)
(* packages/relay and packages/server use the ws library: external code,   *)
(* modelled from its callers.                                              *)
(*                                                                         *)
(* A link is a socket the server opens to the relay; a phone is a client's *)
(* socket, of which only the relay's end is modelled. close() makes an end *)
(* "closing": it sends nothing more, but messages still arrive until its   *)
(* close event. A cut link is silently dead: nothing passes and no close   *)
(* event comes by itself.                                                  *)
(***************************************************************************)
EXTENDS Naturals, Sequences, FiniteSets

CONSTANTS Links, Phones,
          None,          \* no socket
          MaxFailures    \* bound on what the network and the grants get wrong

ASSUME NetAssumption ==
    /\ None \notin Links \cup Phones
    /\ Links \cap Phones = {}
    /\ MaxFailures \in Nat

VARIABLES local,     \* a link's end at the AgentLine server
          remote,    \* a socket's end at the relay
          up,        \* messages from the server to the relay
          down,      \* messages from the relay to the server
          cut,       \* links that are silently dead
          failures   \* failures so far

netVars == <<local, remote, up, down, cut, failures>>

Sockets == Links \cup Phones
Ends == {"unused", "dialing", "open", "closing", "closed"}
DownMessages == {"registered", "rejected", "taken", "hello"}

NetTypeOK ==
    /\ local \in [Links -> Ends]
    /\ remote \in [Sockets -> Ends \ {"dialing"}]
    /\ up \in [Links -> Seq({"register"})]
    /\ down \in [Links -> Seq(DownMessages)]
    /\ cut \subseteq Links
    /\ failures \in 0..MaxFailures

NetInit ==
    /\ local = [l \in Links |-> "unused"]
    /\ remote = [s \in Sockets |-> "unused"]
    /\ up = [l \in Links |-> <<>>]
    /\ down = [l \in Links |-> <<>>]
    /\ cut = {}
    /\ failures = 0

-----------------------------------------------------------------------------
(* ws.close() on a set of sockets, at either end *)
Closing(ends, S) ==
    [s \in DOMAIN ends |->
        IF s \in S /\ ends[s] \in {"dialing", "open"} THEN "closing" ELSE ends[s]]

(* ws.send() on a link: lost unless the sending end is open, the other has *)
(* not had its close event and the link is not cut                         *)
Sent(channels, mine, other, l, m) ==
    IF mine[l] = "open" /\ other[l] # "closed" /\ l \notin cut
    THEN [channels EXCEPT ![l] = Append(@, m)] ELSE channels

(* the close event of an end comes in the end: it called close(), or the   *)
(* other end is gone and everything it sent before has been handled        *)
MustClose(l, mine, other, queue) ==
    \/ mine[l] = "closing"
    \/ /\ mine[l] = "open" /\ other[l] \in {"closing", "closed"}
       /\ l \notin cut /\ queue[l] = <<>>

Failing == failures < MaxFailures /\ failures' = failures + 1

=============================================================================
