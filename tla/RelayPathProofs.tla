-------------------------- MODULE RelayPathProofs ---------------------------
(***************************************************************************)
(* Proofs about RelayPath: TypeOK, MapsAgree, ServiceIsDriven and          *)
(* WaitingIsMutual hold for any links, phones, users and bounds, and       *)
(* whether phones leave early or not.                                      *)
(***************************************************************************)
EXTENDS RelayPath, SequenceTheorems, TLAPS

-----------------------------------------------------------------------------
(* A link that the relay neither keeps waiting nor has paired *)
Unlinked(l) == peer[l] = None /\ \A u \in Users : waiting[u] # l

(* A link that has not been registered *)
Early(l) ==
    \/ local[l] \in {"unused", "dialing"}
    \/ l \in granting
    \/ up[l] # <<>>
    \/ l \in registering

(* How far a link has come: dialled, granted, registering are apart, and   *)
(* until it is registered nothing was sent to it                           *)
StageInv ==
    \A l \in Links :
        /\ local[l] \in {"unused", "dialing"} =>
               remote[l] = "unused" /\ l \notin granting /\ up[l] = <<>> /\ l \notin registering
        /\ l \in granting => up[l] = <<>> /\ l \notin registering
        /\ up[l] # <<>> => up[l] = <<"register">> /\ l \notin registering
        /\ Early(l) => Unlinked(l) /\ down[l] = <<>>
        /\ down[l] # <<>> => local[l] \in {"open", "closing"}

(* The maps of the relay, with what a close event needs to undo them: a   *)
(* waiting link that is not closed has its name, a pair is a link and a    *)
(* phone                                                                   *)
PairInv ==
    /\ \A u \in Users : waiting[u] # None =>
           /\ HasState(waiting[u]) => waiting[u] \in named
           /\ nameOf[waiting[u]] = u
    /\ \A s \in Sockets : peer[s] # None =>
           peer[peer[s]] = s /\ (s \in Links <=> peer[s] \in Phones)
    /\ \A l \in Links :
        /\ active[l] = "paired" <=> peer[l] # None
        /\ active[l] = "waiting" <=> \E u \in Users : waiting[u] = l
        /\ peer[l] # None /\ HasState(l) => l \notin pinging
    /\ \A p \in Phones :
        /\ connecting[p] # None => peer[p] = None
        /\ remote[p] = "unused" => peer[p] = None /\ connecting[p] = None

(* The service listens to the links it remembers, which differ *)
DriveInv ==
    /\ ServiceIsDriven
    /\ connectingWs # None => connectingWs \notin handedOff \cup cut \cup {waitingWs}
    /\ waitingWs # None => waitingWs \notin handedOff /\ local[waitingWs] # "dialing"

(* server_registered, or a refusal, is on its way to the service *)
Announced(l) == \E i \in 1..Len(down[l]) : down[l][i] = "registered"
Rejecting(l) == \E i \in 1..Len(down[l]) : down[l][i] \in {"rejected", "taken"}

(* server_registered comes before a frame of a phone, and a refusal comes  *)
(* alone                                                                   *)
Ordered(l) ==
    /\ l = connectingWs =>
        /\ down[l] = <<>> /\ remote[l] = "open" => Unlinked(l)
        /\ down[l] # <<>> => Head(down[l]) # "hello"
    /\ Rejecting(l) => Len(down[l]) = 1 /\ remote[l] # "open"

OrderInv == \A l \in Links : Ordered(l)

(* WaitingIsMutual, from the moment the relay announces it *)
MutualInv ==
    \A l \in Links :
        (l = waitingWs \/ Announced(l)) /\ remote[l] = "open" =>
            waiting[nameOf[l]] = l \/ peer[l] # None

(* The inductive invariant *)
IInv ==
    /\ NetTypeOK /\ RelayTypeOK /\ ServiceTypeOK
    /\ StageInv /\ PairInv /\ DriveInv /\ OrderInv /\ MutualInv

-----------------------------------------------------------------------------
LEMMA InitInv == Init => IInv
<1> SUFFICES ASSUME Init PROVE IInv
  OBVIOUS
<1> USE NetAssumption DEF Init, NetInit, RelayInit, ServiceInit
<1>1. NetTypeOK
  BY DEF NetTypeOK, Sockets, Ends
<1>2. RelayTypeOK
  BY DEF RelayTypeOK, Sockets
<1>3. ServiceTypeOK
  <2>1. {enabled, timer, keepalive} \subseteq BOOLEAN
    BY Zenon
  <2>2. /\ {connectingWs, waitingWs} \subseteq Links \cup {None}
        /\ claimed \subseteq handedOff /\ handedOff \subseteq Links
        /\ granting \subseteq Links /\ user \in Users /\ starts \in 0..MaxStarts
    BY StartsAssumption
  <2> QED
    BY <2>1, <2>2, Zenon DEF ServiceTypeOK
<1>4. StageInv
  BY DEF StageInv, Early, Unlinked, Sockets
<1>5. PairInv
  BY DEF PairInv, HasState, Sockets
<1>6. DriveInv
  BY DEF DriveInv, ServiceIsDriven
<1>7. OrderInv
  BY DEF OrderInv, Ordered, Rejecting
<1>8. MutualInv
  BY DEF MutualInv, Announced, Sockets
<1> QED
  BY <1>1, <1>2, <1>3, <1>4, <1>5, <1>6, <1>7, <1>8 DEF IInv

(* Sending to a link appends to what it has yet to receive, or is lost *)
LEMMA SendDown ==
  ASSUME NetTypeOK, NEW l \in Links, NEW m \in DownMessages,
         down' = Sent(down, remote, local, l, m)
  PROVE  /\ down' \in [Links -> Seq(DownMessages)]
         /\ \A k \in Links : k # l => down'[k] = down[k]
         /\ \/ down'[l] = down[l]
            \/ /\ remote[l] = "open" /\ local[l] # "closed" /\ l \notin cut
               /\ down'[l] # <<>>
               /\ down[l] = <<>> => Head(down'[l]) = m /\ Len(down'[l]) = 1
               /\ down[l] # <<>> => Head(down'[l]) = Head(down[l])
         /\ remote[l] = "open" /\ local[l] # "closed" /\ l \notin cut => down'[l] # <<>>
         /\ Announced(l)' => Announced(l) \/ (m = "registered" /\ remote[l] = "open")
         /\ Rejecting(l)' => Rejecting(l) \/ m \in {"rejected", "taken"}
<1>1. CASE remote[l] = "open" /\ local[l] # "closed" /\ l \notin cut
  <2>1. down' = [down EXCEPT ![l] = Append(down[l], m)] /\ down[l] \in Seq(DownMessages)
    BY <1>1 DEF Sent, NetTypeOK
  <2>2. /\ Append(down[l], m) \in Seq(DownMessages)
        /\ Append(down[l], m) # <<>>
        /\ Len(Append(down[l], m)) = Len(down[l]) + 1
        /\ \A i \in 1..Len(down[l]) : Append(down[l], m)[i] = down[l][i]
        /\ Append(down[l], m)[Len(down[l]) + 1] = m
    BY <2>1
  <2>3. /\ down[l] = <<>> => Head(Append(down[l], m)) = m
        /\ down[l] # <<>> => Head(Append(down[l], m)) = Head(down[l])
    BY <2>1, <2>2
  <2>4. down'[l] = Append(down[l], m)
    BY <2>1 DEF NetTypeOK
  <2>5. Announced(l)' => Announced(l) \/ m = "registered"
    BY <2>1, <2>2, <2>4 DEF Announced
  <2>6. Rejecting(l)' => Rejecting(l) \/ m \in {"rejected", "taken"}
    BY <2>1, <2>2, <2>4 DEF Rejecting
  <2> QED
    BY <1>1, <2>1, <2>2, <2>3, <2>4, <2>5, <2>6 DEF NetTypeOK
<1>2. CASE ~(remote[l] = "open" /\ local[l] # "closed" /\ l \notin cut)
  <2>1. down' = down
    BY <1>2 DEF Sent
  <2> QED
    BY <1>2, <2>1 DEF NetTypeOK, Announced, Rejecting
<1> QED
  BY <1>1, <1>2

(* Receiving takes the first message *)
LEMMA ReceiveDown ==
  ASSUME NetTypeOK, NEW l \in Links, NEW m, Receive(l, m)
  PROVE  /\ l \notin handedOff /\ down[l] # <<>> /\ Head(down[l]) = m
         /\ down' \in [Links -> Seq(DownMessages)]
         /\ \A k \in Links : k # l => down'[k] = down[k]
         /\ Len(down[l]) = 1 => down'[l] = <<>>
         /\ Announced(l)' => Announced(l)
         /\ Rejecting(l)' => Rejecting(l)
         /\ m = "registered" => Announced(l)
         /\ m \in {"rejected", "taken"} => Rejecting(l)
<1>1. down[l] \in Seq(DownMessages) /\ down[l] # <<>> /\ Head(down[l]) = m
  BY DEF Receive, NetTypeOK
<1>2. down'[l] = Tail(down[l]) /\ \A k \in Links : k # l => down'[k] = down[k]
  BY DEF Receive, NetTypeOK
<1>3. /\ Tail(down[l]) \in Seq(DownMessages)
      /\ Len(Tail(down[l])) = Len(down[l]) - 1
      /\ \A i \in 1..Len(Tail(down[l])) : Tail(down[l])[i] = down[l][i + 1]
      /\ Head(down[l]) = down[l][1] /\ Len(down[l]) \in Nat \ {0}
  BY <1>1
<1>4. Len(down[l]) = 1 => Tail(down[l]) = <<>>
  <2>1. \A s \in Seq(DownMessages) : Len(s) = 0 => s = <<>>
    BY EmptySeq
  <2>2. Len(down[l]) = 1 => Len(Tail(down[l])) = 0
    BY <1>3
  <2> QED
    BY <1>3, <2>1, <2>2, Zenon
<1>5. down' \in [Links -> Seq(DownMessages)]
  BY <1>3 DEF Receive, NetTypeOK
<1>6. Announced(l)' => Announced(l)
  <2> SUFFICES ASSUME NEW i \in 1..Len(Tail(down[l])), Tail(down[l])[i] = "registered"
               PROVE  Announced(l)
    BY <1>2 DEF Announced
  <2> QED
    BY <1>3 DEF Announced
<1>7. Rejecting(l)' => Rejecting(l)
  <2> SUFFICES ASSUME NEW i \in 1..Len(Tail(down[l])),
                      Tail(down[l])[i] \in {"rejected", "taken"}
               PROVE  Rejecting(l)
    BY <1>2 DEF Rejecting
  <2> QED
    BY <1>3 DEF Rejecting
<1>8. m = "registered" => Announced(l)
  BY <1>1, <1>3 DEF Announced
<1>9. m \in {"rejected", "taken"} => Rejecting(l)
  BY <1>1, <1>3 DEF Rejecting
<1> QED
  BY <1>1, <1>2, <1>4, <1>5, <1>6, <1>7, <1>8, <1>9 DEF Receive

(* A name that a new socket takes *)
LEMMA SpareLinkIsSpare == HasSpare => SpareLink \in Links /\ Spare(SpareLink)
BY DEF HasSpare, SpareLink

(* What a link has yet to send becomes its awaited grant *)
LEMMA StepOnRegister ==
  ASSUME IInv, NEW l \in Links, OnRegister(l), UNCHANGED serviceVars
  PROVE  IInv'
<1> USE NetAssumption, StartsAssumption DEF IInv, OnRegister, pairVars,
        phoneVars, nameVars, serviceVars, flowVars
<1>1. NetTypeOK'
  BY DEF NetTypeOK, Sockets, Ends, DownMessages
<1>2. RelayTypeOK'
  BY DEF RelayTypeOK, Sockets
<1>3. ServiceTypeOK'
  BY DEF ServiceTypeOK
<1>4. StageInv'
  <2>1. Tail(<<"register">>) = <<>>
    OBVIOUS
  <2>2. up[l] = <<"register">>
    BY DEF StageInv
  <2>3. /\ up'[l] = <<>>
        /\ \A k \in Links : k # l => up'[k] = up[k]
    BY <2>1, <2>2 DEF NetTypeOK
  <2> QED
    BY <2>2, <2>3 DEF StageInv, Early, Unlinked
<1>5. PairInv'
  BY DEF PairInv, HasState
<1>6. DriveInv'
  BY DEF DriveInv, ServiceIsDriven
<1>7. OrderInv'
  BY DEF OrderInv, Ordered, Rejecting, NetTypeOK, Sockets, StageInv, Early,
        Unlinked
<1>8. MutualInv'
  BY DEF MutualInv, Announced
<1> QED
  BY <1>1, <1>2, <1>3, <1>4, <1>5, <1>6, <1>7, <1>8

(* The name moves to a link that was unlinked, and the previous one is closed *)
LEMMA StepRegistered ==
  ASSUME IInv, NEW l \in Links, Registered(l), UNCHANGED serviceVars
  PROVE  IInv'
<1> USE NetAssumption, StartsAssumption DEF IInv, Registered, RegisterServer,
        Closing, phoneVars, serviceVars, flowVars
<1>0. /\ down' \in [Links -> Seq(DownMessages)]
      /\ \A k \in Links : k # l => down'[k] = down[k]
      /\ \/ down'[l] = down[l]
         \/ /\ remote[l] = "open" /\ local[l] # "closed" /\ l \notin cut
            /\ down'[l] # <<>>
            /\ down[l] = <<>> => Head(down'[l]) = "registered" /\ Len(down'[l]) = 1
            /\ down[l] # <<>> => Head(down'[l]) = Head(down[l])
      /\ remote[l] = "open" /\ local[l] # "closed" /\ l \notin cut => down'[l] # <<>>
      /\ Announced(l)' => Announced(l) \/ remote[l] = "open"
      /\ Rejecting(l)' => Rejecting(l)
  BY SendDown DEF DownMessages
<1>1. NetTypeOK'
  BY <1>0 DEF NetTypeOK, Sockets, Ends, DownMessages
<1>2. RelayTypeOK'
  BY <1>0 DEF RelayTypeOK, Sockets
<1>3. ServiceTypeOK'
  BY <1>0 DEF ServiceTypeOK
<1>4. StageInv'
  BY <1>0, SMTT(20) DEF StageInv, Early, Unlinked, NetTypeOK, Sockets,
        RelayTypeOK, ServiceTypeOK, PairInv, HasState, Ends, DownMessages
<1>5. PairInv'
  BY <1>0 DEF PairInv, HasState, NetTypeOK, Sockets, RelayTypeOK, StageInv, Early,
        Unlinked
<1>6. DriveInv'
  BY <1>0 DEF DriveInv, ServiceIsDriven
<1>7. OrderInv'
  <2>1. Ordered(l)'
    <3>1. down[l] = <<>>
      BY DEF StageInv, Early
    <3>2. ~Rejecting(l)'
      BY <1>0, <3>1 DEF Rejecting
    <3>3. l = connectingWs => local[l] # "closed" /\ l \notin cut
      BY DEF DriveInv, ServiceIsDriven
    <3>4. remote'[l] = "open" => remote[l] = "open"
      BY DEF NetTypeOK, Sockets
    <3> QED
      BY <1>0, <3>1, <3>2, <3>3, <3>4 DEF Ordered
  <2>2. ASSUME NEW k \in Links, k # l PROVE Ordered(k)'
    BY <1>0, <2>2 DEF OrderInv, Ordered, Rejecting, NetTypeOK, Sockets, Unlinked, RelayTypeOK
  <2> QED
    BY <2>1, <2>2 DEF OrderInv
<1>8. MutualInv'
  BY <1>0 DEF MutualInv, Announced, NetTypeOK, Sockets, RelayTypeOK
<1> QED
  BY <1>1, <1>2, <1>3, <1>4, <1>5, <1>6, <1>7, <1>8

(* The refusal is the last message of a link that was never registered *)
LEMMA StepGrantRefused ==
  ASSUME IInv, NEW l \in Links, GrantRefused(l), UNCHANGED serviceVars
  PROVE  IInv'
<1> USE NetAssumption, StartsAssumption DEF IInv, GrantRefused, Failing,
        Refused, Closing, pairVars, phoneVars, nameVars, serviceVars, flowVars
<1>0. /\ down' \in [Links -> Seq(DownMessages)]
      /\ \A k \in Links : k # l => down'[k] = down[k]
      /\ \/ down'[l] = down[l]
         \/ /\ remote[l] = "open" /\ local[l] # "closed" /\ l \notin cut
            /\ down'[l] # <<>>
            /\ down[l] = <<>> => Head(down'[l]) = "rejected" /\ Len(down'[l]) = 1
            /\ down[l] # <<>> => Head(down'[l]) = Head(down[l])
      /\ remote[l] = "open" /\ local[l] # "closed" /\ l \notin cut => down'[l] # <<>>
      /\ Announced(l)' => Announced(l)
  BY SendDown DEF DownMessages
<1>1. NetTypeOK'
  BY <1>0 DEF NetTypeOK, Sockets, Ends, DownMessages
<1>2. RelayTypeOK'
  BY <1>0 DEF RelayTypeOK, Sockets
<1>3. ServiceTypeOK'
  BY <1>0 DEF ServiceTypeOK
<1>4. StageInv'
  BY <1>0, SMTT(20) DEF StageInv, Early, Unlinked, NetTypeOK, Sockets,
        RelayTypeOK, ServiceTypeOK, PairInv, HasState, Ends, DownMessages
<1>5. PairInv'
  BY <1>0 DEF PairInv, HasState, NetTypeOK, Sockets, RelayTypeOK
<1>6. DriveInv'
  BY <1>0 DEF DriveInv, ServiceIsDriven
<1>7. OrderInv'
  BY <1>0 DEF OrderInv, Ordered, Rejecting, NetTypeOK, Sockets, StageInv, Early,
        Unlinked
<1>8. MutualInv'
  BY <1>0 DEF MutualInv, Announced, NetTypeOK, Sockets
<1> QED
  BY <1>1, <1>2, <1>3, <1>4, <1>5, <1>6, <1>7, <1>8

(* Likewise for a name that is another install's *)
LEMMA StepUsernameTaken ==
  ASSUME IInv, NEW l \in Links, UsernameTaken(l), UNCHANGED serviceVars
  PROVE  IInv'
<1> USE NetAssumption, StartsAssumption DEF IInv, UsernameTaken, Refused,
        Closing, pairVars, phoneVars, nameVars, serviceVars, flowVars
<1>0. /\ down' \in [Links -> Seq(DownMessages)]
      /\ \A k \in Links : k # l => down'[k] = down[k]
      /\ \/ down'[l] = down[l]
         \/ /\ remote[l] = "open" /\ local[l] # "closed" /\ l \notin cut
            /\ down'[l] # <<>>
            /\ down[l] = <<>> => Head(down'[l]) = "taken" /\ Len(down'[l]) = 1
            /\ down[l] # <<>> => Head(down'[l]) = Head(down[l])
      /\ remote[l] = "open" /\ local[l] # "closed" /\ l \notin cut => down'[l] # <<>>
      /\ Announced(l)' => Announced(l)
  BY SendDown DEF DownMessages
<1>1. NetTypeOK'
  BY <1>0 DEF NetTypeOK, Sockets, Ends, DownMessages
<1>2. RelayTypeOK'
  BY <1>0 DEF RelayTypeOK, Sockets
<1>3. ServiceTypeOK'
  BY <1>0 DEF ServiceTypeOK
<1>4. StageInv'
  BY <1>0, SMTT(20) DEF StageInv, Early, Unlinked, NetTypeOK, Sockets,
        RelayTypeOK, ServiceTypeOK, PairInv, HasState, Ends, DownMessages
<1>5. PairInv'
  BY <1>0 DEF PairInv, HasState, NetTypeOK, Sockets, RelayTypeOK
<1>6. DriveInv'
  BY <1>0 DEF DriveInv, ServiceIsDriven
<1>7. OrderInv'
  BY <1>0 DEF OrderInv, Ordered, Rejecting, NetTypeOK, Sockets, StageInv, Early,
        Unlinked
<1>8. MutualInv'
  BY <1>0 DEF MutualInv, Announced, NetTypeOK, Sockets
<1> QED
  BY <1>1, <1>2, <1>3, <1>4, <1>5, <1>6, <1>7, <1>8

(* Only the end at the relay changes *)
LEMMA StepRelayPongTimeout ==
  ASSUME IInv, NEW l \in Links, RelayPongTimeout(l), UNCHANGED serviceVars
  PROVE  IInv'
<1> USE NetAssumption, StartsAssumption DEF IInv, RelayPongTimeout, Closing,
        relayVars, serviceVars, flowVars
<1>1. NetTypeOK'
  BY DEF NetTypeOK, Sockets, Ends, DownMessages
<1>2. RelayTypeOK'
  BY DEF RelayTypeOK, Sockets
<1>3. ServiceTypeOK'
  BY DEF ServiceTypeOK
<1>4. StageInv'
  BY DEF StageInv, Early, Unlinked, NetTypeOK, Sockets
<1>5. PairInv'
  BY DEF PairInv, HasState, NetTypeOK, Sockets, RelayTypeOK
<1>6. DriveInv'
  BY DEF DriveInv, ServiceIsDriven
<1>7. OrderInv'
  BY DEF OrderInv, Ordered, Rejecting, NetTypeOK, Sockets, StageInv, Early,
        Unlinked
<1>8. MutualInv'
  BY DEF MutualInv, Announced, NetTypeOK, Sockets
<1> QED
  BY <1>1, <1>2, <1>3, <1>4, <1>5, <1>6, <1>7, <1>8

(* handleClose forgets a waiting link, or both ends of a pair *)
LEMMA StepLinkClosed ==
  ASSUME IInv, NEW l \in Links, LinkClosed(l), UNCHANGED serviceVars
  PROVE  IInv'
<1> USE NetAssumption, StartsAssumption DEF IInv, LinkClosed, MustClose,
        OnClose, HandleClose, IsWaiting, Closing, phoneVars, nameVars,
        serviceVars, flowVars
<1>1. NetTypeOK'
  BY DEF NetTypeOK, Sockets, Ends, DownMessages
<1>2. RelayTypeOK'
  BY DEF RelayTypeOK, Sockets
<1>3. ServiceTypeOK'
  BY DEF ServiceTypeOK
<1>4. StageInv'
  BY DEF StageInv, Early, Unlinked, NetTypeOK, Sockets
<1>5. PairInv'
  BY DEF PairInv, HasState, NetTypeOK, Sockets, RelayTypeOK
<1>6. DriveInv'
  BY DEF DriveInv, ServiceIsDriven
<1>7. OrderInv'
  BY DEF OrderInv, Ordered, Rejecting, NetTypeOK, Sockets, StageInv, Early,
        Unlinked
<1>8. MutualInv'
  BY DEF MutualInv, Announced, NetTypeOK, Sockets, RelayTypeOK
<1> QED
  BY <1>1, <1>2, <1>3, <1>4, <1>5, <1>6, <1>7, <1>8

(* The same, when the connection breaks *)
LEMMA StepLinkBroken ==
  ASSUME IInv, NEW l \in Links, LinkBroken(l), UNCHANGED serviceVars
  PROVE  IInv'
<1> USE NetAssumption, StartsAssumption DEF IInv, LinkBroken, Failing, OnClose,
        HandleClose, IsWaiting, Closing, phoneVars, nameVars, serviceVars,
        flowVars
<1>1. NetTypeOK'
  BY DEF NetTypeOK, Sockets, Ends, DownMessages
<1>2. RelayTypeOK'
  BY DEF RelayTypeOK, Sockets
<1>3. ServiceTypeOK'
  BY DEF ServiceTypeOK
<1>4. StageInv'
  BY DEF StageInv, Early, Unlinked, NetTypeOK, Sockets
<1>5. PairInv'
  BY DEF PairInv, HasState, NetTypeOK, Sockets, RelayTypeOK
<1>6. DriveInv'
  BY DEF DriveInv, ServiceIsDriven
<1>7. OrderInv'
  BY DEF OrderInv, Ordered, Rejecting, NetTypeOK, Sockets, StageInv, Early,
        Unlinked
<1>8. MutualInv'
  BY DEF MutualInv, Announced, NetTypeOK, Sockets, RelayTypeOK
<1> QED
  BY <1>1, <1>2, <1>3, <1>4, <1>5, <1>6, <1>7, <1>8

(* A phone whose connect awaits its grant is not paired *)
LEMMA StepOnClientConnect ==
  ASSUME IInv, NEW p \in Phones, NEW u \in Users, OnClientConnect(p, u), UNCHANGED serviceVars
  PROVE  IInv'
<1> USE NetAssumption, StartsAssumption DEF IInv, OnClientConnect, pairVars,
        nameVars, serviceVars, flowVars
<1>1. NetTypeOK'
  BY DEF NetTypeOK, Sockets, Ends, DownMessages
<1>2. RelayTypeOK'
  BY DEF RelayTypeOK, Sockets
<1>3. ServiceTypeOK'
  BY DEF ServiceTypeOK
<1>4. StageInv'
  BY DEF StageInv, Early, Unlinked
<1>5. PairInv'
  BY DEF PairInv, HasState, NetTypeOK, Sockets, RelayTypeOK
<1>6. DriveInv'
  BY DEF DriveInv, ServiceIsDriven
<1>7. OrderInv'
  BY DEF OrderInv, Ordered, Rejecting, NetTypeOK, Sockets, StageInv, Early,
        Unlinked
<1>8. MutualInv'
  BY DEF MutualInv, Announced
<1> QED
  BY <1>1, <1>2, <1>3, <1>4, <1>5, <1>6, <1>7, <1>8

(* The pair is made of the phone and the link that waits now *)
LEMMA StepConnected ==
  ASSUME IInv, NEW p \in Phones, Connected(p), UNCHANGED serviceVars
  PROVE  IInv'
<1> USE NetAssumption, StartsAssumption DEF IInv, Connected, NowWaiting,
        ConnectClient, netVars, nameVars, serviceVars, flowVars
<1>1. NetTypeOK'
  BY DEF NetTypeOK, Sockets, Ends, DownMessages
<1>2. RelayTypeOK'
  BY DEF RelayTypeOK, Sockets
<1>3. ServiceTypeOK'
  BY DEF ServiceTypeOK
<1>4. StageInv'
  BY DEF StageInv, Early, Unlinked, NetTypeOK, Sockets, RelayTypeOK
<1>5. PairInv'
  <2> DEFINE l == NowWaiting(p)
  <2>1. l \in Links /\ peer[l] = None /\ peer[p] = None /\ l # p /\ active[l] = "waiting"
    BY DEF PairInv, HasState, RelayTypeOK
  <2>2. \A u \in Users : waiting[u] = l <=> u = nameOf[l]
    BY <2>1 DEF PairInv, HasState, RelayTypeOK
  <2>3. /\ \A u \in Users : waiting'[u] = (IF waiting[u] = l THEN None ELSE waiting[u])
        /\ \A s \in Sockets : peer'[s] = (IF s = l THEN p ELSE IF s = p THEN l ELSE peer[s])
        /\ \A k \in Links : active'[k] = (IF k = l THEN "paired" ELSE active[k])
    BY <2>1, <2>2 DEF RelayTypeOK, Sockets
  <2> HIDE DEF l
  <2> QED
    BY <2>1, <2>2, <2>3 DEF PairInv, HasState, RelayTypeOK, Sockets
<1>6. DriveInv'
  BY DEF DriveInv, ServiceIsDriven
<1>7. OrderInv'
  BY DEF OrderInv, Ordered, Rejecting, NetTypeOK, Sockets, StageInv, Early,
        Unlinked, RelayTypeOK
<1>8. MutualInv'
  BY DEF MutualInv, Announced, NetTypeOK, Sockets, RelayTypeOK, StageInv, Early,
        Unlinked, PairInv
<1> QED
  BY <1>1, <1>2, <1>3, <1>4, <1>5, <1>6, <1>7, <1>8

(* Nothing is paired; ends are closed *)
LEMMA StepConnectRefused ==
  ASSUME IInv, NEW p \in Phones, ConnectRefused(p), UNCHANGED serviceVars
  PROVE  IInv'
<1> USE NetAssumption, StartsAssumption DEF IInv, ConnectRefused, NowWaiting,
        Closing, Failing, pairVars, nameVars, serviceVars, flowVars
<1>1. NetTypeOK'
  BY DEF NetTypeOK, Sockets, Ends, DownMessages
<1>2. RelayTypeOK'
  BY DEF RelayTypeOK, Sockets
<1>3. ServiceTypeOK'
  BY DEF ServiceTypeOK
<1>4. StageInv'
  BY DEF StageInv, Early, Unlinked, NetTypeOK, Sockets
<1>5. PairInv'
  BY DEF PairInv, HasState, NetTypeOK, Sockets, RelayTypeOK
<1>6. DriveInv'
  BY DEF DriveInv, ServiceIsDriven
<1>7. OrderInv'
  BY DEF OrderInv, Ordered, Rejecting, NetTypeOK, Sockets, StageInv, Early,
        Unlinked
<1>8. MutualInv'
  BY DEF MutualInv, Announced, NetTypeOK, Sockets
<1> QED
  BY <1>1, <1>2, <1>3, <1>4, <1>5, <1>6, <1>7, <1>8

(* A frame goes to the other end of the phone's pair, which is a link *)
LEMMA StepForward ==
  ASSUME IInv, NEW p \in Phones, Forward(p), UNCHANGED serviceVars
  PROVE  IInv'
<1> USE NetAssumption, StartsAssumption DEF IInv, Forward, pairVars, nameVars,
        serviceVars, flowVars
<1>q. PICK q \in Links : q = peer[p] /\ peer[q] = p
  BY DEF PairInv, HasState, RelayTypeOK, Sockets
<1>0. /\ down' \in [Links -> Seq(DownMessages)]
      /\ \A k \in Links : k # q => down'[k] = down[k]
      /\ \/ down'[q] = down[q]
         \/ /\ remote[q] = "open" /\ local[q] # "closed" /\ q \notin cut
            /\ down'[q] # <<>>
            /\ down[q] = <<>> => Head(down'[q]) = "hello" /\ Len(down'[q]) = 1
            /\ down[q] # <<>> => Head(down'[q]) = Head(down[q])
      /\ remote[q] = "open" /\ local[q] # "closed" /\ q \notin cut => down'[q] # <<>>
      /\ Announced(q)' => Announced(q)
      /\ Rejecting(q)' => Rejecting(q)
  BY <1>q, SendDown DEF DownMessages
<1>1. NetTypeOK'
  BY <1>0, <1>q DEF NetTypeOK, Sockets, Ends, DownMessages
<1>2. RelayTypeOK'
  BY <1>0, <1>q DEF RelayTypeOK, Sockets
<1>3. ServiceTypeOK'
  BY <1>0, <1>q DEF ServiceTypeOK
<1>4. StageInv'
  BY <1>0, <1>q, SMTT(20) DEF StageInv, Early, Unlinked, NetTypeOK, Sockets,
        RelayTypeOK, ServiceTypeOK, PairInv, HasState, Ends, DownMessages
<1>5. PairInv'
  BY <1>0, <1>q DEF PairInv, HasState
<1>6. DriveInv'
  BY <1>0, <1>q DEF DriveInv, ServiceIsDriven
<1>7. OrderInv'
  <2>1. Ordered(q)'
    BY <1>0, <1>q DEF OrderInv, Ordered, Rejecting, NetTypeOK, Sockets, Unlinked
  <2>2. ASSUME NEW k \in Links, k # q PROVE Ordered(k)'
    BY <1>0, <1>q, <2>2 DEF OrderInv, Ordered, Rejecting, NetTypeOK, Sockets, Unlinked
  <2> QED
    BY <2>1, <2>2 DEF OrderInv
<1>8. MutualInv'
  BY <1>0, <1>q DEF MutualInv, Announced
<1> QED
  BY <1>1, <1>2, <1>3, <1>4, <1>5, <1>6, <1>7, <1>8

(* handleClose for a phone *)
LEMMA StepPhoneClosed ==
  ASSUME IInv, NEW p \in Phones, PhoneClosed(p), UNCHANGED serviceVars
  PROVE  IInv'
<1> USE NetAssumption, StartsAssumption DEF IInv, PhoneClosed, OnClose,
        HandleClose, IsWaiting, Closing, phoneVars, nameVars, serviceVars,
        flowVars
<1>1. NetTypeOK'
  BY DEF NetTypeOK, Sockets, Ends, DownMessages
<1>2. RelayTypeOK'
  BY DEF RelayTypeOK, Sockets
<1>3. ServiceTypeOK'
  BY DEF ServiceTypeOK
<1>4. StageInv'
  BY DEF StageInv, Early, Unlinked, NetTypeOK, Sockets
<1>5. PairInv'
  BY DEF PairInv, HasState, NetTypeOK, Sockets, RelayTypeOK
<1>6. DriveInv'
  BY DEF DriveInv, ServiceIsDriven
<1>7. OrderInv'
  BY DEF OrderInv, Ordered, Rejecting, NetTypeOK, Sockets, StageInv, Early,
        Unlinked
<1>8. MutualInv'
  BY DEF MutualInv, Announced, NetTypeOK, Sockets, RelayTypeOK
<1> QED
  BY <1>1, <1>2, <1>3, <1>4, <1>5, <1>6, <1>7, <1>8

(* Only the ends at the relay change *)
LEMMA StepDisconnectServers ==
  ASSUME IInv, DisconnectServers, UNCHANGED serviceVars
  PROVE  IInv'
<1> USE NetAssumption, StartsAssumption DEF IInv, DisconnectServers, Failing,
        Closing, relayVars, serviceVars, flowVars
<1>1. NetTypeOK'
  BY DEF NetTypeOK, Sockets, Ends, DownMessages
<1>2. RelayTypeOK'
  BY DEF RelayTypeOK, Sockets
<1>3. ServiceTypeOK'
  BY DEF ServiceTypeOK
<1>4. StageInv'
  BY DEF StageInv, Early, Unlinked, NetTypeOK, Sockets
<1>5. PairInv'
  BY DEF PairInv, HasState, NetTypeOK, Sockets, RelayTypeOK
<1>6. DriveInv'
  BY DEF DriveInv, ServiceIsDriven
<1>7. OrderInv'
  BY DEF OrderInv, Ordered, Rejecting, NetTypeOK, Sockets, StageInv, Early,
        Unlinked
<1>8. MutualInv'
  BY DEF MutualInv, Announced, NetTypeOK, Sockets
<1> QED
  BY <1>1, <1>2, <1>3, <1>4, <1>5, <1>6, <1>7, <1>8

(* The relay forgets everything, and no link is open there *)
LEMMA StepRelayRestart ==
  ASSUME IInv, RelayRestart, UNCHANGED serviceVars
  PROVE  IInv'
<1> USE NetAssumption, StartsAssumption DEF IInv, RelayRestart, Failing,
        nameVars, serviceVars, flowVars
<1>1. NetTypeOK'
  BY DEF NetTypeOK, Sockets, Ends, DownMessages
<1>2. RelayTypeOK'
  BY DEF RelayTypeOK, Sockets
<1>3. ServiceTypeOK'
  BY DEF ServiceTypeOK
<1>4. StageInv'
  BY DEF StageInv, Early, Unlinked, NetTypeOK, Sockets
<1>5. PairInv'
  BY DEF PairInv, HasState, NetTypeOK, Sockets, RelayTypeOK
<1>6. DriveInv'
  BY DEF DriveInv, ServiceIsDriven
<1>7. OrderInv'
  BY DEF OrderInv, Ordered, Rejecting, NetTypeOK, Sockets
<1>8. MutualInv'
  BY DEF MutualInv, Announced, NetTypeOK, Sockets
<1> QED
  BY <1>1, <1>2, <1>3, <1>4, <1>5, <1>6, <1>7, <1>8

(* Nothing is known of any socket afterwards *)
LEMMA StepStop ==
  ASSUME IInv, Stop
  PROVE  IInv'
<1> USE NetAssumption, StartsAssumption DEF IInv, Stop, Closing, Known,
        offRelay, relayVars
<1>1. NetTypeOK'
  BY DEF NetTypeOK, Sockets, Ends, DownMessages
<1>2. RelayTypeOK'
  BY DEF RelayTypeOK, Sockets
<1>3. ServiceTypeOK'
  <2>1. {enabled, timer, keepalive}' \subseteq BOOLEAN
    BY Zenon DEF ServiceTypeOK
  <2>2. /\ {connectingWs, waitingWs}' \subseteq Links \cup {None}
        /\ (claimed \subseteq handedOff /\ handedOff \subseteq Links)'
        /\ (granting \subseteq Links /\ user \in Users /\ starts \in 0..MaxStarts)'
    BY DEF ServiceTypeOK
  <2> QED
    BY <2>1, <2>2, Zenon DEF ServiceTypeOK
<1>4. StageInv'
  BY DEF StageInv, Early, Unlinked, NetTypeOK, Sockets
<1>5. PairInv'
  BY DEF PairInv, HasState
<1>6. DriveInv'
  BY DEF DriveInv, ServiceIsDriven
<1>7. OrderInv'
  BY DEF OrderInv, Ordered, Rejecting
<1>8. MutualInv'
  BY DEF MutualInv, Announced
<1> QED
  BY <1>1, <1>2, <1>3, <1>4, <1>5, <1>6, <1>7, <1>8

(* A spare link is dialled, or the timer runs *)
LEMMA StepStart ==
  ASSUME IInv, NEW u \in Users, Start(u)
  PROVE  IInv'
<1> USE NetAssumption, StartsAssumption DEF IInv, Start, Closing, Known, relayKept,
        pairVars, phoneVars
<1>1. CASE /\ HasSpare /\ timer' = FALSE
             /\ Dial(SpareLink, Closing(local, Known), u)
  <2>1. PICK k \in Links : k = SpareLink /\ Spare(k)
    BY <1>1, SpareLinkIsSpare
  <2>2. Dial(k, Closing(local, Known), u)
    BY <1>1, <2>1
  <2>3. NetTypeOK'
    BY <1>1, <2>1, <2>2 DEF Dial, Spare,
        NetTypeOK, Sockets, Ends, DownMessages, Failing
  <2>4. RelayTypeOK'
    BY <1>1, <2>1, <2>2 DEF Dial, Spare,
        RelayTypeOK, ServiceTypeOK, Sockets
  <2>5. ServiceTypeOK'
    <3>1. {enabled, timer, keepalive}' \subseteq BOOLEAN
      BY <1>1, Zenon DEF ServiceTypeOK
    <3>2. {connectingWs, waitingWs}' \subseteq Links \cup {None}
      BY <1>1, <2>1, <2>2 DEF ServiceTypeOK, Dial, Spare
    <3>3. /\ claimed' \subseteq handedOff' /\ handedOff' \subseteq Links
          /\ granting' \subseteq Links /\ user' \in Users /\ starts' \in 0..MaxStarts
      BY <1>1, <2>1, <2>2 DEF ServiceTypeOK, DriveInv, Dial, Spare
    <3> QED
      BY <3>1, <3>2, <3>3, Zenon DEF ServiceTypeOK
  <2>6. StageInv'
    BY <1>1, <2>1, <2>2 DEF Dial, Spare,
        StageInv, Early, Unlinked, NetTypeOK, Sockets, RelayTypeOK
  <2>7. PairInv'
    BY <1>1, <2>1, <2>2 DEF Dial, Spare,
        PairInv, HasState, NetTypeOK, RelayTypeOK, Sockets
  <2>8. DriveInv'
    BY <1>1, <2>1, <2>2 DEF Dial, Spare,
        DriveInv, ServiceIsDriven, NetTypeOK, Sockets, ServiceTypeOK, Ends
  <2>9. OrderInv'
    BY <1>1, <2>1, <2>2 DEF Dial, Spare,
        OrderInv, Ordered, Rejecting, Unlinked, NetTypeOK, Sockets, RelayTypeOK,
        StageInv, Early
  <2>10. MutualInv'
    BY <1>1, <2>1, <2>2 DEF Dial, Spare,
        MutualInv, Announced, NetTypeOK, Sockets, RelayTypeOK
  <2> QED
    BY <2>3, <2>4, <2>5, <2>6, <2>7, <2>8, <2>9, <2>10
<1>2. CASE /\ NoDial /\ local' = Closing(local, Known) /\ connectingWs' = None
             /\ timer' = TRUE /\ Failing
  <2>1. NetTypeOK'
    BY <1>2 DEF NoDial,
        NetTypeOK, Sockets, Ends, DownMessages, Failing
  <2>2. RelayTypeOK'
    BY <1>2 DEF NoDial,
        RelayTypeOK, ServiceTypeOK, Sockets
  <2>3. ServiceTypeOK'
    <3>1. {enabled, timer, keepalive}' \subseteq BOOLEAN
      BY <1>2, Zenon DEF ServiceTypeOK
    <3>2. {connectingWs, waitingWs}' \subseteq Links \cup {None}
      BY <1>2 DEF ServiceTypeOK, NoDial
    <3>3. /\ claimed' \subseteq handedOff' /\ handedOff' \subseteq Links
          /\ granting' \subseteq Links /\ user' \in Users /\ starts' \in 0..MaxStarts
      BY <1>2 DEF ServiceTypeOK, DriveInv, NoDial
    <3> QED
      BY <3>1, <3>2, <3>3, Zenon DEF ServiceTypeOK
  <2>4. StageInv'
    BY <1>2 DEF NoDial,
        StageInv, Early, Unlinked, NetTypeOK, Sockets, RelayTypeOK
  <2>5. PairInv'
    BY <1>2 DEF NoDial,
        PairInv, HasState, NetTypeOK, RelayTypeOK, Sockets
  <2>6. DriveInv'
    BY <1>2 DEF NoDial,
        DriveInv, ServiceIsDriven, NetTypeOK, Sockets, ServiceTypeOK, Ends
  <2>7. OrderInv'
    BY <1>2 DEF NoDial,
        OrderInv, Ordered, Rejecting, Unlinked, NetTypeOK, Sockets, RelayTypeOK,
        StageInv, Early
  <2>8. MutualInv'
    BY <1>2 DEF NoDial,
        MutualInv, Announced, NetTypeOK, Sockets, RelayTypeOK
  <2> QED
    BY <2>1, <2>2, <2>3, <2>4, <2>5, <2>6, <2>7, <2>8
<1> QED
  BY <1>1, <1>2, Zenon DEF Start

(* A link that opens is unregistered *)
LEMMA StepHandleOpen ==
  ASSUME IInv, NEW l \in Links, HandleOpen(l)
  PROVE  IInv'
<1> USE NetAssumption, StartsAssumption DEF IInv, HandleOpen, relayVars,
        flowVars
<1>1. NetTypeOK'
  BY DEF NetTypeOK, Sockets, Ends, DownMessages
<1>2. RelayTypeOK'
  BY DEF RelayTypeOK, Sockets
<1>3. ServiceTypeOK'
  BY DEF ServiceTypeOK
<1>4. StageInv'
  BY DEF StageInv, Early, Unlinked, NetTypeOK, Sockets
<1>5. PairInv'
  BY DEF PairInv, HasState, StageInv, Early, Unlinked, NetTypeOK, Sockets,
        RelayTypeOK
<1>6. DriveInv'
  BY DEF DriveInv, ServiceIsDriven
<1>7. OrderInv'
  <2>1. down[l] = <<>> /\ Unlinked(l)
    BY DEF StageInv, Early
  <2>2. Ordered(l)'
    BY <2>1 DEF OrderInv, Ordered, Rejecting, Unlinked
  <2>3. ASSUME NEW k \in Links, k # l PROVE Ordered(k)'
    BY <2>3 DEF OrderInv, Ordered, Rejecting, Unlinked, NetTypeOK, Sockets
  <2> QED
    BY <2>2, <2>3 DEF OrderInv
<1>8. MutualInv'
  BY SMTT(20) DEF MutualInv, Announced, NetTypeOK, Sockets, RelayTypeOK,
        StageInv, Early, Unlinked, PairInv, HasState, DriveInv, ServiceIsDriven,
        ServiceTypeOK
<1> QED
  BY <1>1, <1>2, <1>3, <1>4, <1>5, <1>6, <1>7, <1>8

(* A link that asked for its grant has sent nothing yet *)
LEMMA StepGrantReady ==
  ASSUME IInv, NEW l \in Links, GrantReady(l)
  PROVE  IInv'
<1> USE NetAssumption, StartsAssumption DEF IInv, GrantReady, IsCurrent, Sent,
        offRelay, relayVars, flowVars
<1>1. NetTypeOK'
  BY DEF NetTypeOK, Sockets, Ends, DownMessages
<1>2. RelayTypeOK'
  BY DEF RelayTypeOK, Sockets
<1>3. ServiceTypeOK'
  BY DEF ServiceTypeOK
<1>4. StageInv'
  <2>1. Append(<<>>, "register") = <<"register">>
    OBVIOUS
  <2>2. up[l] = <<>>
    BY DEF StageInv
  <2>3. /\ up'[l] \in {<<>>, <<"register">>}
        /\ \A k \in Links : k # l => up'[k] = up[k]
    BY <2>1, <2>2 DEF NetTypeOK
  <2>4. up'[l] # <<>> => local[l] = "open"
    BY <2>2
  <2> HIDE DEF Sent
  <2> QED
    BY <2>2, <2>3, <2>4 DEF StageInv, Early, Unlinked
<1>5. PairInv'
  BY DEF PairInv, HasState
<1>6. DriveInv'
  BY DEF DriveInv, ServiceIsDriven
<1>7. OrderInv'
  BY DEF OrderInv, Ordered, Rejecting, NetTypeOK, Sockets, StageInv, Early,
        Unlinked
<1>8. MutualInv'
  BY DEF MutualInv, Announced
<1> QED
  BY <1>1, <1>2, <1>3, <1>4, <1>5, <1>6, <1>7, <1>8

(* The link is closed by the service *)
LEMMA StepGrantFailed ==
  ASSUME IInv, NEW l \in Links, GrantFailed(l)
  PROVE  IInv'
<1> USE NetAssumption, StartsAssumption DEF IInv, GrantFailed, Failing, Closing,
        offRelay, relayVars, flowVars
<1>1. NetTypeOK'
  BY DEF NetTypeOK, Sockets, Ends, DownMessages
<1>2. RelayTypeOK'
  BY DEF RelayTypeOK, Sockets
<1>3. ServiceTypeOK'
  BY DEF ServiceTypeOK
<1>4. StageInv'
  BY DEF StageInv, Early, Unlinked, NetTypeOK, Sockets
<1>5. PairInv'
  BY DEF PairInv, HasState
<1>6. DriveInv'
  BY DEF DriveInv, ServiceIsDriven, NetTypeOK, Sockets, ServiceTypeOK
<1>7. OrderInv'
  BY DEF OrderInv, Ordered, Rejecting, NetTypeOK, Sockets, StageInv, Early,
        Unlinked
<1>8. MutualInv'
  BY DEF MutualInv, Announced
<1> QED
  BY <1>1, <1>2, <1>3, <1>4, <1>5, <1>6, <1>7, <1>8

(* The link the relay announced becomes the waiting one *)
LEMMA StepHandleRegistered ==
  ASSUME IInv, NEW l \in Links, HandleRegistered(l)
  PROVE  IInv'
<1> USE NetAssumption, StartsAssumption DEF IInv, HandleRegistered, offRelay,
        relayVars
<1>0. /\ l \notin handedOff /\ down[l] # <<>> /\ Head(down[l]) = "registered"
      /\ down' \in [Links -> Seq(DownMessages)]
      /\ \A k \in Links : k # l => down'[k] = down[k]
      /\ Len(down[l]) = 1 => down'[l] = <<>>
      /\ Announced(l)' => Announced(l)
      /\ Announced(l)
      /\ Rejecting(l)' => Rejecting(l)
  BY ReceiveDown
<1>1. NetTypeOK'
  BY <1>0 DEF NetTypeOK, Sockets, Ends, DownMessages
<1>2. RelayTypeOK'
  BY <1>0 DEF RelayTypeOK, Sockets
<1>3. ServiceTypeOK'
  BY <1>0 DEF ServiceTypeOK
<1>4. StageInv'
  BY <1>0 DEF StageInv, Early, Unlinked
<1>5. PairInv'
  BY <1>0 DEF PairInv, HasState
<1>6. DriveInv'
  BY <1>0 DEF DriveInv, ServiceIsDriven, NetTypeOK, Sockets, ServiceTypeOK,
        StageInv, Early, Unlinked
<1>7. OrderInv'
  <2>1. Ordered(l)'
    BY <1>0 DEF OrderInv, Ordered, Rejecting, NetTypeOK, Sockets, StageInv, Early
  <2>2. ASSUME NEW k \in Links, k # l PROVE Ordered(k)'
    BY <1>0, <2>2 DEF OrderInv, Ordered, Rejecting, NetTypeOK, Sockets
  <2> QED
    BY <2>1, <2>2 DEF OrderInv
<1>8. MutualInv'
  BY <1>0 DEF MutualInv, Announced
<1> QED
  BY <1>1, <1>2, <1>3, <1>4, <1>5, <1>6, <1>7, <1>8

(* A rejected link has received nothing else *)
LEMMA StepHandleRejection ==
  ASSUME IInv, NEW l \in Links, HandleRejection(l)
  PROVE  IInv'
<1> USE NetAssumption, StartsAssumption DEF IInv, HandleRejection, Closing,
        ScheduleReconnect, offRelay, relayVars
<1>0. /\ l \notin handedOff /\ down[l] # <<>> /\ Head(down[l]) \in {"rejected", "taken"} /\ Rejecting(l)
      /\ down' \in [Links -> Seq(DownMessages)]
      /\ \A k \in Links : k # l => down'[k] = down[k]
      /\ Len(down[l]) = 1 => down'[l] = <<>>
      /\ Announced(l)' => Announced(l)
      /\ Rejecting(l)' => Rejecting(l)
  BY ReceiveDown
<1>1. NetTypeOK'
  BY <1>0 DEF NetTypeOK, Sockets, Ends, DownMessages
<1>2. RelayTypeOK'
  BY <1>0 DEF RelayTypeOK, Sockets
<1>3. ServiceTypeOK'
  BY <1>0 DEF ServiceTypeOK
<1>4. StageInv'
  BY <1>0 DEF StageInv, Early, Unlinked, NetTypeOK, Sockets
<1>5. PairInv'
  BY <1>0 DEF PairInv, HasState
<1>6. DriveInv'
  BY <1>0 DEF DriveInv, ServiceIsDriven, NetTypeOK, Sockets, ServiceTypeOK
<1>7. OrderInv'
  <2>1. Ordered(l)'
    BY <1>0 DEF OrderInv, Ordered, Rejecting, NetTypeOK, Sockets, StageInv, Early, Unlinked
  <2>2. ASSUME NEW k \in Links, k # l PROVE Ordered(k)'
    BY <1>0, <2>2 DEF OrderInv, Ordered, Rejecting, NetTypeOK, Sockets, StageInv, Early, Unlinked
  <2> QED
    BY <2>1, <2>2 DEF OrderInv
<1>8. MutualInv'
  BY <1>0 DEF MutualInv, Announced
<1> QED
  BY <1>1, <1>2, <1>3, <1>4, <1>5, <1>6, <1>7, <1>8

(* A claimed link is handed off; it cannot be the connecting one *)
LEMMA StepHandleClaimed ==
  ASSUME IInv, NEW l \in Links, HandleClaimed(l)
  PROVE  IInv'
<1> USE NetAssumption, StartsAssumption DEF IInv, HandleClaimed, relayKept,
        pairVars, phoneVars
<1>0. /\ l \notin handedOff /\ down[l] # <<>> /\ Head(down[l]) = "hello"
      /\ down' \in [Links -> Seq(DownMessages)]
      /\ \A k \in Links : k # l => down'[k] = down[k]
      /\ Len(down[l]) = 1 => down'[l] = <<>>
      /\ Announced(l)' => Announced(l)
      /\ Rejecting(l)' => Rejecting(l)
  BY ReceiveDown
<1>e. PICK ends \in {local, Closing(local, {l})} :
          /\ claimed' \in {claimed, claimed \cup {l}}
          /\ Connect(enabled, ends, user, timer)
  OBVIOUS
<1>f. /\ ends \in [Links -> Ends]
      /\ \A k \in Links : k # l => ends[k] = local[k]
      /\ ends[l] = local[l] \/ (ends[l] = "closing" /\ local[l] = "open")
  <2>1. local \in [Links -> Ends] /\ local[l] \in {"open", "closing"}
    BY <1>0 DEF NetTypeOK, StageInv
  <2>2. CASE ends = local
    BY <2>1, <2>2
  <2>3. CASE ends = Closing(local, {l})
    BY <2>1, <2>3 DEF Closing, Ends
  <2> QED
    BY <1>e, <2>2, <2>3
<1>1. CASE HasSpare /\ timer' = timer /\ Dial(SpareLink, ends, user)
  <2>1. PICK k \in Links : k = SpareLink /\ Spare(k)
    BY <1>1, SpareLinkIsSpare
  <2>2. Dial(k, ends, user)
    BY <1>1, <2>1
  <2>3. NetTypeOK'
    BY <1>0, <1>e, <1>f, <1>1, <2>1, <2>2 DEF Dial, Spare,
        NetTypeOK, Sockets, Ends, DownMessages, Failing
  <2>4. RelayTypeOK'
    BY <1>0, <1>e, <1>f, <1>1, <2>1, <2>2 DEF Dial, Spare,
        RelayTypeOK, ServiceTypeOK, Sockets
  <2>5. ServiceTypeOK'
    <3>1. {enabled, timer, keepalive}' \subseteq BOOLEAN
      BY <1>1, Zenon DEF ServiceTypeOK
    <3>2. {connectingWs, waitingWs}' \subseteq Links \cup {None}
      BY <1>0, <1>e, <1>f, <1>1, <2>1, <2>2 DEF ServiceTypeOK, Dial, Spare
    <3>3. /\ claimed' \subseteq handedOff' /\ handedOff' \subseteq Links
          /\ granting' \subseteq Links /\ user' \in Users /\ starts' \in 0..MaxStarts
      BY <1>0, <1>e, <1>f, <1>1, <2>1, <2>2 DEF ServiceTypeOK, DriveInv, Dial, Spare
    <3> QED
      BY <3>1, <3>2, <3>3, Zenon DEF ServiceTypeOK
  <2>6. StageInv'
    BY <1>0, <1>e, <1>f, <1>1, <2>1, <2>2 DEF Dial, Spare,
        StageInv, Early, Unlinked, NetTypeOK, Sockets, RelayTypeOK
  <2>7. PairInv'
    BY <1>0, <1>e, <1>f, <1>1, <2>1, <2>2 DEF Dial, Spare,
        PairInv, HasState, NetTypeOK, RelayTypeOK, Sockets
  <2>8. DriveInv'
    BY <1>0, <1>e, <1>f, <1>1, <2>1, <2>2 DEF Dial, Spare,
        DriveInv, ServiceIsDriven, NetTypeOK, Sockets, ServiceTypeOK, Ends
  <2>9. OrderInv'
    BY <1>0, <1>e, <1>f, <1>1, <2>1, <2>2 DEF Dial, Spare,
        OrderInv, Ordered, Rejecting, Unlinked, NetTypeOK, Sockets, RelayTypeOK,
        StageInv, Early
  <2>10. MutualInv'
    <3>1. \A j \in Links : Announced(j)' => Announced(j)
      BY <1>0 DEF Announced
    <3> QED
      BY <1>0, <1>e, <1>f, <3>1, <2>1, <2>2 DEF Dial, Spare, MutualInv, NetTypeOK,
        Sockets, RelayTypeOK
  <2> QED
    BY <2>3, <2>4, <2>5, <2>6, <2>7, <2>8, <2>9, <2>10
<1>2. CASE /\ NoDial /\ local' = ends /\ connectingWs' = connectingWs
             /\ \/ timer' = TRUE /\ Failing
                \/ ~enabled /\ timer' = timer /\ UNCHANGED failures
  <2>1. NetTypeOK'
    BY <1>0, <1>e, <1>f, <1>2 DEF NoDial,
        NetTypeOK, Sockets, Ends, DownMessages, Failing
  <2>2. RelayTypeOK'
    BY <1>0, <1>e, <1>f, <1>2 DEF NoDial,
        RelayTypeOK, ServiceTypeOK, Sockets
  <2>3. ServiceTypeOK'
    <3>1. {enabled, timer, keepalive}' \subseteq BOOLEAN
      BY <1>2, Zenon DEF ServiceTypeOK
    <3>2. {connectingWs, waitingWs}' \subseteq Links \cup {None}
      BY <1>0, <1>e, <1>f, <1>2 DEF ServiceTypeOK, NoDial
    <3>3. /\ claimed' \subseteq handedOff' /\ handedOff' \subseteq Links
          /\ granting' \subseteq Links /\ user' \in Users /\ starts' \in 0..MaxStarts
      BY <1>0, <1>e, <1>f, <1>2 DEF ServiceTypeOK, DriveInv, OrderInv, Ordered
    <3> QED
      BY <3>1, <3>2, <3>3, Zenon DEF ServiceTypeOK
  <2>4. StageInv'
    BY <1>0, <1>e, <1>f, <1>2 DEF NoDial,
        StageInv, Early, Unlinked, NetTypeOK, Sockets, RelayTypeOK
  <2>5. PairInv'
    BY <1>0, <1>2 DEF NoDial,
        PairInv, HasState, NetTypeOK, RelayTypeOK, Sockets
  <2>6. DriveInv'
    BY <1>0, <1>e, <1>f, <1>2 DEF NoDial,
        DriveInv, ServiceIsDriven, NetTypeOK, Sockets, ServiceTypeOK, Ends
  <2>7. OrderInv'
    <3>1. l # connectingWs
      BY <1>0 DEF OrderInv, Ordered
    <3>2. Ordered(l)'
      BY <1>0, <1>2, <3>1 DEF OrderInv, Ordered, Rejecting, NoDial
    <3>3. ASSUME NEW k \in Links, k # l PROVE Ordered(k)'
      BY <1>0, <1>e, <1>f, <1>2, <3>3 DEF OrderInv, Ordered, Rejecting, Unlinked, NoDial
    <3> QED
      BY <3>2, <3>3 DEF OrderInv
  <2>8. MutualInv'
    <3>1. \A j \in Links : Announced(j)' => Announced(j)
      BY <1>0 DEF Announced
    <3> QED
      BY <1>0, <1>e, <1>f, <3>1, <1>2 DEF NoDial, MutualInv, NetTypeOK,
        Sockets, RelayTypeOK
  <2> QED
    BY <2>1, <2>2, <2>3, <2>4, <2>5, <2>6, <2>7, <2>8
<1> QED
  BY <1>1, <1>2, <1>e, Zenon DEF Connect

(* Only the end at the server changes *)
LEMMA StepSessionEnds ==
  ASSUME IInv, NEW l \in Links, SessionEnds(l)
  PROVE  IInv'
<1> USE NetAssumption, StartsAssumption DEF IInv, SessionEnds, Closing,
        offRelay, relayVars, serviceVars, flowVars
<1>1. NetTypeOK'
  BY DEF NetTypeOK, Sockets, Ends, DownMessages
<1>2. RelayTypeOK'
  BY DEF RelayTypeOK, Sockets
<1>3. ServiceTypeOK'
  BY DEF ServiceTypeOK
<1>4. StageInv'
  BY DEF StageInv, Early, Unlinked, NetTypeOK, Sockets
<1>5. PairInv'
  BY DEF PairInv, HasState
<1>6. DriveInv'
  BY DEF DriveInv, ServiceIsDriven, NetTypeOK, Sockets, ServiceTypeOK
<1>7. OrderInv'
  BY DEF OrderInv, Ordered, Rejecting, NetTypeOK, Sockets, StageInv, Early,
        Unlinked
<1>8. MutualInv'
  BY DEF MutualInv, Announced
<1> QED
  BY <1>1, <1>2, <1>3, <1>4, <1>5, <1>6, <1>7, <1>8

(* The connecting or waiting link is replaced by the timer *)
LEMMA StepServerEndClosed ==
  ASSUME IInv, NEW l \in Links, ServerEndClosed(l)
  PROVE  IInv'
<1> USE NetAssumption, StartsAssumption DEF IInv, ServerEndClosed, MustClose,
        HandleLinkClose, flowVars, ScheduleReconnect, offRelay, relayVars
<1>1. NetTypeOK'
  BY DEF NetTypeOK, Sockets, Ends, DownMessages
<1>2. RelayTypeOK'
  BY DEF RelayTypeOK, Sockets
<1>3. ServiceTypeOK'
  <2>1. {enabled, timer, keepalive}' \subseteq BOOLEAN
    BY Zenon DEF ServiceTypeOK
  <2>2. /\ {connectingWs, waitingWs}' \subseteq Links \cup {None}
        /\ (claimed \subseteq handedOff /\ handedOff \subseteq Links)'
        /\ (granting \subseteq Links /\ user \in Users /\ starts \in 0..MaxStarts)'
    BY DEF ServiceTypeOK
  <2> QED
    BY <2>1, <2>2, Zenon DEF ServiceTypeOK
<1>4. StageInv'
  BY DEF StageInv, Early, Unlinked, NetTypeOK, Sockets
<1>5. PairInv'
  BY DEF PairInv, HasState
<1>6. DriveInv'
  BY DEF DriveInv, ServiceIsDriven, NetTypeOK, Sockets, ServiceTypeOK
<1>7. OrderInv'
  BY DEF OrderInv, Ordered, Rejecting, NetTypeOK, Sockets, StageInv, Early,
        Unlinked, DriveInv, ServiceIsDriven, RelayTypeOK
<1>8. MutualInv'
  BY DEF MutualInv, Announced
<1> QED
  BY <1>1, <1>2, <1>3, <1>4, <1>5, <1>6, <1>7, <1>8

(* The same, when the connection breaks *)
LEMMA StepServerEndBroken ==
  ASSUME IInv, NEW l \in Links, ServerEndBroken(l)
  PROVE  IInv'
<1> USE NetAssumption, StartsAssumption DEF IInv, ServerEndBroken, Failing,
        HandleLinkClose, flowVars, ScheduleReconnect, offRelay, relayVars
<1>1. NetTypeOK'
  BY DEF NetTypeOK, Sockets, Ends, DownMessages
<1>2. RelayTypeOK'
  BY DEF RelayTypeOK, Sockets
<1>3. ServiceTypeOK'
  BY DEF ServiceTypeOK
<1>4. StageInv'
  BY DEF StageInv, Early, Unlinked, NetTypeOK, Sockets
<1>5. PairInv'
  BY DEF PairInv, HasState
<1>6. DriveInv'
  BY DEF DriveInv, ServiceIsDriven, NetTypeOK, Sockets, ServiceTypeOK
<1>7. OrderInv'
  BY DEF OrderInv, Ordered, Rejecting, NetTypeOK, Sockets, StageInv, Early,
        Unlinked, DriveInv, ServiceIsDriven, RelayTypeOK
<1>8. MutualInv'
  BY DEF MutualInv, Announced
<1> QED
  BY <1>1, <1>2, <1>3, <1>4, <1>5, <1>6, <1>7, <1>8

(* A spare link is dialled, or the timer runs again *)
LEMMA StepReconnectTimer ==
  ASSUME IInv, ReconnectTimer
  PROVE  IInv'
<1> USE NetAssumption, StartsAssumption DEF IInv, ReconnectTimer, relayKept,
        pairVars, phoneVars
<1>1. CASE HasSpare /\ timer' = FALSE /\ Dial(SpareLink, local, user)
  <2>1. PICK k \in Links : k = SpareLink /\ Spare(k)
    BY <1>1, SpareLinkIsSpare
  <2>2. Dial(k, local, user)
    BY <1>1, <2>1
  <2>3. NetTypeOK'
    BY <1>1, <2>1, <2>2 DEF Dial, Spare,
        NetTypeOK, Sockets, Ends, DownMessages, Failing
  <2>4. RelayTypeOK'
    BY <1>1, <2>1, <2>2 DEF Dial, Spare,
        RelayTypeOK, ServiceTypeOK, Sockets
  <2>5. ServiceTypeOK'
    <3>1. {enabled, timer, keepalive}' \subseteq BOOLEAN
      BY <1>1, Zenon DEF ServiceTypeOK
    <3>2. {connectingWs, waitingWs}' \subseteq Links \cup {None}
      BY <1>1, <2>1, <2>2 DEF ServiceTypeOK, Dial, Spare
    <3>3. /\ claimed' \subseteq handedOff' /\ handedOff' \subseteq Links
          /\ granting' \subseteq Links /\ user' \in Users /\ starts' \in 0..MaxStarts
      BY <1>1, <2>1, <2>2 DEF ServiceTypeOK, DriveInv, Dial, Spare
    <3> QED
      BY <3>1, <3>2, <3>3, Zenon DEF ServiceTypeOK
  <2>6. StageInv'
    BY <1>1, <2>1, <2>2 DEF Dial, Spare,
        StageInv, Early, Unlinked, NetTypeOK, Sockets, RelayTypeOK
  <2>7. PairInv'
    BY <1>1, <2>1, <2>2 DEF Dial, Spare,
        PairInv, HasState, NetTypeOK, RelayTypeOK, Sockets
  <2>8. DriveInv'
    BY <1>1, <2>1, <2>2 DEF Dial, Spare,
        DriveInv, ServiceIsDriven, NetTypeOK, Sockets, ServiceTypeOK, Ends
  <2>9. OrderInv'
    BY <1>1, <2>1, <2>2 DEF Dial, Spare,
        OrderInv, Ordered, Rejecting, Unlinked, NetTypeOK, Sockets, RelayTypeOK,
        StageInv, Early
  <2>10. MutualInv'
    BY <1>1, <2>1, <2>2 DEF Dial, Spare,
        MutualInv, Announced, NetTypeOK, Sockets, RelayTypeOK
  <2> QED
    BY <2>3, <2>4, <2>5, <2>6, <2>7, <2>8, <2>9, <2>10
<1>2. CASE /\ NoDial /\ local' = local /\ connectingWs' = connectingWs
             /\ \/ timer' = TRUE /\ Failing
                \/ ~enabled /\ timer' = FALSE /\ UNCHANGED failures
  <2>1. NetTypeOK'
    BY <1>2 DEF NoDial,
        NetTypeOK, Sockets, Ends, DownMessages, Failing
  <2>2. RelayTypeOK'
    BY <1>2 DEF NoDial,
        RelayTypeOK, ServiceTypeOK, Sockets
  <2>3. ServiceTypeOK'
    <3>1. {enabled, timer, keepalive}' \subseteq BOOLEAN
      BY <1>2, Zenon DEF ServiceTypeOK
    <3>2. {connectingWs, waitingWs}' \subseteq Links \cup {None}
      BY <1>2 DEF ServiceTypeOK, NoDial
    <3>3. /\ claimed' \subseteq handedOff' /\ handedOff' \subseteq Links
          /\ granting' \subseteq Links /\ user' \in Users /\ starts' \in 0..MaxStarts
      BY <1>2 DEF ServiceTypeOK, DriveInv, NoDial
    <3> QED
      BY <3>1, <3>2, <3>3, Zenon DEF ServiceTypeOK
  <2>4. StageInv'
    BY <1>2 DEF NoDial,
        StageInv, Early, Unlinked, NetTypeOK, Sockets, RelayTypeOK
  <2>5. PairInv'
    BY <1>2 DEF NoDial,
        PairInv, HasState, NetTypeOK, RelayTypeOK, Sockets
  <2>6. DriveInv'
    BY <1>2 DEF NoDial,
        DriveInv, ServiceIsDriven, NetTypeOK, Sockets, ServiceTypeOK, Ends
  <2>7. OrderInv'
    BY <1>2 DEF NoDial,
        OrderInv, Ordered, Rejecting, Unlinked, NetTypeOK, Sockets, RelayTypeOK,
        StageInv, Early
  <2>8. MutualInv'
    BY <1>2 DEF NoDial,
        MutualInv, Announced, NetTypeOK, Sockets, RelayTypeOK
  <2> QED
    BY <2>1, <2>2, <2>3, <2>4, <2>5, <2>6, <2>7, <2>8
<1> QED
  BY <1>1, <1>2, Zenon DEF Connect, ReconnectTimer

(* The waiting link is replaced by the timer *)
LEMMA StepHandleKeepaliveTimeout ==
  ASSUME IInv, HandleKeepaliveTimeout
  PROVE  IInv'
<1> USE NetAssumption, StartsAssumption DEF IInv, HandleKeepaliveTimeout,
        Failing, Closing, ScheduleReconnect, offRelay, relayVars
<1>1. NetTypeOK'
  BY DEF NetTypeOK, Sockets, Ends, DownMessages
<1>2. RelayTypeOK'
  BY DEF RelayTypeOK, Sockets
<1>3. ServiceTypeOK'
  BY DEF ServiceTypeOK
<1>4. StageInv'
  BY DEF StageInv, Early, Unlinked, NetTypeOK, Sockets
<1>5. PairInv'
  BY DEF PairInv, HasState
<1>6. DriveInv'
  BY DEF DriveInv, ServiceIsDriven, NetTypeOK, Sockets, ServiceTypeOK
<1>7. OrderInv'
  BY DEF OrderInv, Ordered, Rejecting, NetTypeOK, Sockets, StageInv, Early,
        Unlinked
<1>8. MutualInv'
  BY DEF MutualInv, Announced
<1> QED
  BY <1>1, <1>2, <1>3, <1>4, <1>5, <1>6, <1>7, <1>8

(* What was in flight on a cut link is lost *)
LEMMA StepCutLink ==
  ASSUME IInv, NEW l \in Links, CutLink(l)
  PROVE  IInv'
<1> USE NetAssumption, StartsAssumption DEF IInv, CutLink, Failing, relayVars,
        serviceVars, flowVars
<1>1. NetTypeOK'
  BY DEF NetTypeOK, Sockets, Ends, DownMessages
<1>2. RelayTypeOK'
  BY DEF RelayTypeOK, Sockets
<1>3. ServiceTypeOK'
  BY DEF ServiceTypeOK
<1>4. StageInv'
  BY DEF StageInv, Early, Unlinked
<1>5. PairInv'
  BY DEF PairInv, HasState
<1>6. DriveInv'
  BY DEF DriveInv, ServiceIsDriven, NetTypeOK, Sockets, ServiceTypeOK
<1>7. OrderInv'
  BY SMTT(20) DEF OrderInv, Ordered, Rejecting, NetTypeOK, Sockets, StageInv,
        Early, Unlinked, DriveInv, ServiceIsDriven, PairInv, HasState, RelayTypeOK,
        ServiceTypeOK
<1>8. MutualInv'
  BY DEF MutualInv, Announced
<1> QED
  BY <1>1, <1>2, <1>3, <1>4, <1>5, <1>6, <1>7, <1>8

-----------------------------------------------------------------------------
(* Every step of the relay, of the service and of the network keeps IInv *)
LEMMA StepInv == IInv /\ [Next]_vars => IInv'
<1> SUFFICES ASSUME IInv, [Next]_vars PROVE IInv'
  OBVIOUS
<1>1. CASE RelayNext
  BY <1>1, StepOnRegister, StepRegistered, StepGrantRefused, StepUsernameTaken,
     StepRelayPongTimeout, StepLinkClosed, StepLinkBroken, StepOnClientConnect,
     StepConnected, StepConnectRefused, StepForward, StepPhoneClosed,
     StepDisconnectServers, StepRelayRestart DEF RelayNext
<1>2. CASE ServiceNext
  BY <1>2, StepStop, StepStart, StepHandleOpen, StepGrantReady, StepGrantFailed,
     StepHandleRegistered, StepHandleRejection, StepHandleClaimed, StepSessionEnds,
     StepServerEndClosed, StepServerEndBroken, StepReconnectTimer,
     StepHandleKeepaliveTimeout DEF ServiceNext
<1>3. CASE \E l \in Links : CutLink(l)
  BY <1>3, StepCutLink
<1>4. CASE UNCHANGED vars
  <2> USE <1>4 DEF vars, netVars, relayVars, pairVars, phoneVars, nameVars,
        serviceVars, flowVars, IInv
  <2>1. NetTypeOK'
    BY DEF NetTypeOK
  <2>2. RelayTypeOK'
    BY DEF RelayTypeOK
  <2>3. ServiceTypeOK'
    BY DEF ServiceTypeOK
  <2>4. StageInv'
    BY DEF StageInv, Early, Unlinked
  <2>5. PairInv'
    BY DEF PairInv, HasState
  <2>6. DriveInv'
    BY DEF DriveInv, ServiceIsDriven
  <2>7. OrderInv'
    BY DEF OrderInv, Ordered, Rejecting, Unlinked
  <2>8. MutualInv'
    BY DEF MutualInv, Announced
  <2> QED
    BY <2>1, <2>2, <2>3, <2>4, <2>5, <2>6, <2>7, <2>8
<1> QED
  BY <1>1, <1>2, <1>3, <1>4 DEF Next

THEOREM RelayInductive == Spec => []IInv
BY InitInv, StepInv, PTL DEF Spec

(* Type correctness of the links, of the relay's maps and of the service. *)
THEOREM RelayPathTypeOK == Spec => []TypeOK
<1>1. IInv => TypeOK
  BY DEF IInv, TypeOK
<1> QED
  BY <1>1, RelayInductive, PTL

(* However registrations, pairings and closes interleave with the grants   *)
(* the relay awaits, its maps describe one symmetric pairing (connections.ts *)
(* and ws-handler.ts).                                                     *)
THEOREM RelayMapsAgree == Spec => []MapsAgree
<1>1. IInv => MapsAgree
  <2> SUFFICES ASSUME IInv PROVE MapsAgree
    OBVIOUS
  <2>1. \A u, v \in Users : waiting[u] # None /\ waiting[u] = waiting[v] => u = v
    BY DEF IInv, PairInv
  <2> QED
    BY <2>1 DEF IInv, PairInv, HasState, MapsAgree
<1> QED
  BY <1>1, RelayInductive, PTL

(* An enabled RelayClientService always has a timer or a socket whose close *)
(* event is still to come, whatever events of replaced sockets arrive.     *)
THEOREM EnabledServiceIsDriven == Spec => []ServiceIsDriven
<1>1. IInv => ServiceIsDriven
  BY DEF IInv, DriveInv
<1> QED
  BY <1>1, RelayInductive, PTL

(* What the service takes for its waiting socket is waiting or paired at   *)
(* the relay, or the relay is closing it.                                  *)
THEOREM ServiceWaitingIsMutual == Spec => []WaitingIsMutual
<1>1. IInv => WaitingIsMutual
  BY DEF IInv, MutualInv, WaitingIsMutual, ServiceTypeOK
<1> QED
  BY <1>1, RelayInductive, PTL

=============================================================================
