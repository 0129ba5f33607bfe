-------------------------------- MODULE ChatProofs --------------------------------
(***************************************************************************)
(* Proofs about the chat (Chat), for any servers, users and number of      *)
(* messages, connections and failures: a page shows what was sent on one   *)
(* socket in the order in which it was sent, and nothing twice, as long as *)
(* it stays where it is.                                                   *)
(***************************************************************************)
EXTENDS Chat, SequenceTheorems, TLAPS

-----------------------------------------------------------------------------
(* Queues: what they hold, and when they stay sorted. *)

(***************************************************************************)
(* A queue to which an element is appended holds that element as well.     *)
(***************************************************************************)
LEMMA RangeAppend ==
    ASSUME NEW S, NEW q \in Seq(S), NEW e \in S
    PROVE  Range(Append(q, e)) = Range(q) \cup {e}
<1>1. /\ Append(q, e) \in Seq(S) /\ Len(q) \in Nat
      /\ Len(Append(q, e)) = Len(q) + 1
      /\ \A i \in 1..Len(q) : Append(q, e)[i] = q[i]
      /\ Append(q, e)[Len(q) + 1] = e
      /\ DOMAIN q = 1..Len(q)
      /\ DOMAIN Append(q, e) = 1..(Len(q) + 1)
  BY AppendProperties, LenProperties
<1> QED
  BY <1>1 DEF Range

(***************************************************************************)
(* A queue holds its head and what its tail holds.                         *)
(***************************************************************************)
LEMMA RangeTail ==
    ASSUME NEW S, NEW q \in Seq(S), q # <<>>
    PROVE  /\ Head(q) \in S /\ Tail(q) \in Seq(S)
           /\ Range(q) = Range(Tail(q)) \cup {Head(q)}
<1> DEFINE n == Len(q)
           t == Tail(q)
           h == Head(q)
<1>1. /\ n \in Nat \ {0}
      /\ DOMAIN q = 1..n
      /\ DOMAIN t = 1..(n - 1)
      /\ \A i \in 1..(n - 1) : t[i] = q[i + 1]
      /\ h = q[1]
      /\ h \in S /\ t \in Seq(S)
  BY HeadTailProperties, LenProperties, EmptySeq
<1> HIDE DEF n, t, h
<1>2. \A i \in 1..(n - 1) : i + 1 \in 1..n
  BY <1>1
<1>3. \A j \in 1..n : j = 1 \/ (j - 1 \in 1..(n - 1) /\ (j - 1) + 1 = j)
  BY <1>1
<1>4. 1 \in 1..n
  BY <1>1
<1>5. ASSUME NEW x \in Range(q)
      PROVE  x \in Range(t) \cup {h}
  <2>1. PICK j \in 1..n : x = q[j]
    BY <1>1 DEF Range
  <2>2. CASE j = 1
    BY <1>1, <2>1, <2>2
  <2>3. CASE j - 1 \in 1..(n - 1) /\ (j - 1) + 1 = j
    <3>1. x = t[j - 1]
      BY <1>1, <2>1, <2>3
    <3> QED
      BY <1>1, <2>3, <3>1 DEF Range
  <2> QED
    BY <1>3, <2>2, <2>3
<1>6. ASSUME NEW x \in Range(t)
      PROVE  x \in Range(q)
  BY <1>1, <1>2 DEF Range
<1>7. h \in Range(q)
  BY <1>1, <1>4 DEF Range
<1>8. Range(q) = Range(t) \cup {h}
  BY <1>5, <1>6, <1>7
<1> QED
  BY <1>1, <1>8 DEF t, h

(***************************************************************************)
(* A sorted queue stays sorted when what is appended comes after all it    *)
(* holds.                                                                  *)
(***************************************************************************)
LEMMA SortedAppend ==
    ASSUME NEW S, NEW q \in Seq(S), NEW e \in S, NEW f,
           Sorted(f, q), Before(f, Range(q), {e})
    PROVE  Sorted(f, Append(q, e))
<1> DEFINE n == Len(q)
           a == Append(q, e)
<1>1. /\ n \in Nat
      /\ \A i \in 1..n : a[i] = q[i]
      /\ a[n + 1] = e
      /\ DOMAIN q = 1..n
      /\ DOMAIN a = 1..(n + 1)
  BY AppendProperties, LenProperties
<1> HIDE DEF n, a
<1>2. ASSUME NEW i \in 1..(n + 1), NEW j \in 1..(n + 1), i < j, f[a[i]] = f[a[j]]
      PROVE  a[i] < a[j]
  <2>1. i \in 1..n /\ a[i] = q[i] /\ q[i] \in Range(q)
    BY <1>1, <1>2 DEF Range
  <2>2. CASE j \in 1..n
    BY <1>1, <1>2, <2>1, <2>2 DEF Sorted
  <2>3. CASE j = n + 1
    BY <1>1, <1>2, <2>1, <2>3 DEF Before
  <2> QED
    BY <1>1, <2>2, <2>3
<1>3. Sorted(f, a)
  BY <1>1, <1>2 DEF Sorted
<1> QED
  BY <1>3 DEF a

(***************************************************************************)
(* What is left of a sorted queue is sorted, and its head comes before it. *)
(***************************************************************************)
LEMMA SortedTail ==
    ASSUME NEW S, NEW q \in Seq(S), q # <<>>, NEW f, Sorted(f, q)
    PROVE  Sorted(f, Tail(q)) /\ Before(f, {Head(q)}, Range(Tail(q)))
<1>1. /\ Len(q) \in Nat \ {0}
      /\ DOMAIN q = 1..Len(q)
      /\ DOMAIN Tail(q) = 1..(Len(q) - 1)
      /\ \A i \in 1..(Len(q) - 1) : Tail(q)[i] = q[i + 1]
      /\ Head(q) = q[1]
  BY HeadTailProperties, LenProperties, EmptySeq
<1> QED
  BY <1>1, SMTT(20) DEF Sorted, Before, Range

Queues == Seq(1..MaxMessages)

(***************************************************************************)
(* A message appended to a queue of messages.                              *)
(***************************************************************************)
LEMMA QueueAppend ==
    ASSUME NEW q \in Queues, NEW m \in 1..MaxMessages
    PROVE  /\ Append(q, m) \in Queues
           /\ Range(Append(q, m)) = Range(q) \cup {m}
<1> DEFINE S == 1..MaxMessages
<1>1. q \in Seq(S) /\ m \in S /\ Append(q, m) \in Seq(S)
  BY AppendProperties DEF Queues
<1> HIDE DEF S
<1>2. Range(Append(q, m)) = Range(q) \cup {m}
  BY <1>1, RangeAppend
<1> QED
  BY <1>1, <1>2 DEF Queues, S

(***************************************************************************)
(* The head of a queue of messages is one of them; the rest is a queue.    *)
(***************************************************************************)
LEMMA QueueTail ==
    ASSUME NEW q \in Queues, q # <<>>
    PROVE  /\ Head(q) \in 1..MaxMessages /\ Tail(q) \in Queues
           /\ Range(q) = Range(Tail(q)) \cup {Head(q)}
BY RangeTail, Zenon DEF Queues

(***************************************************************************)
(* An empty queue holds nothing and is sorted.                             *)
(***************************************************************************)
LEMMA EmptyQueue ==
    ASSUME NEW f
    PROVE  Range(<<>>) = {} /\ Sorted(f, <<>>)
BY DEF Range, Sorted

(***************************************************************************)
(* Less of what comes before less of what comes after.                     *)
(***************************************************************************)
LEMMA BeforeLess ==
    ASSUME NEW f, NEW M, NEW N, NEW K \in SUBSET M, NEW L \in SUBSET N, Before(f, M, N)
    PROVE  Before(f, K, L)
BY DEF Before

-----------------------------------------------------------------------------
(* Types and places. *)

Places == TypeOK /\ InPlace

(***************************************************************************)
(* A socket belongs to a user and leads to a server.                       *)
(***************************************************************************)
LEMMA SocketTypes ==
    ASSUME TypeOK, NEW k \in 1..Len(sockets)
    PROVE  User(k) \in Users /\ Server(k) \in Servers
<1>1. sockets[k] \in Users \X Servers
  BY ElementOfSeq DEF TypeOK
<1> QED
  BY <1>1 DEF User, Server

(***************************************************************************)
(* A message was sent on a socket that was opened.                         *)
(***************************************************************************)
LEMMA SentTypes ==
    ASSUME Places, NEW m \in Sent
    PROVE  /\ m \in Nat
           /\ from[m] \in 1..Len(sockets) /\ from[m] \in 1..MaxConnects
           /\ Server(from[m]) \in Servers
<1>1. Len(from) \in Nat /\ from[m] \in 1..MaxConnects /\ m \in Nat
  <2>1. from \in Seq(1..MaxConnects)
    BY DEF Places, TypeOK
  <2>2. Len(from) \in Nat /\ m \in 1..Len(from)
    BY <2>1, LenProperties DEF Sent
  <2>3. from[m] \in 1..MaxConnects
    BY <2>1, <2>2, ElementOfSeq
  <2> QED
    BY <2>2, <2>3
<1>2. from[m] \in 1..Len(sockets)
  BY DEF Places, InPlace
<1> QED
  BY <1>1, <1>2, SocketTypes DEF Places

(***************************************************************************)
(* Before anything is sent the invariant holds.                            *)
(***************************************************************************)
LEMMA InitPlaces == Init => IInv
<1> SUFFICES ASSUME Init PROVE IInv
  OBVIOUS
<1> USE DEF Init
<1>1. /\ Len(from) = 0 /\ Len(sockets) = 0
      /\ Sent = {}
  BY DEF Sent
<1>2. TypeOK
  BY ChatBounds DEF TypeOK
<1>3. InPlace
  BY <1>1, EmptyQueue DEF InPlace
<1>4. StagesSorted
  BY EmptyQueue DEF StagesSorted
<1>5. \A t \in Servers : OnWire(t) = {} /\ slot[t] = {}
  BY EmptyQueue DEF OnWire
<1>6. ServersInOrder
  BY <1>5 DEF ServersInOrder, Before
<1>7. PagesInOrder
  BY DEF PagesInOrder
<1>8. InOrder
  BY DEF InOrder
<1>9. OneAtATime /\ DueIsSent /\ NothingVanishes
  BY DEF OneAtATime, DueIsSent, NothingVanishes
<1> QED
  BY <1>2, <1>3, <1>4, <1>6, <1>7, <1>8, <1>9 DEF IInv

(***************************************************************************)
(* A new server instance moves no message.                                 *)
(***************************************************************************)
LEMMA InitializeDdsPlaces ==
    ASSUME Places, NEW s \in Servers, InitializeDds(s)
    PROVE  Places'
<1> USE DEF InitializeDds, socketVars, pageVars, topicVars, sentVars
<1>1. TypeOK'
  BY DEF Places, TypeOK, User, Server
<1>2. InPlace'
  BY DEF Places, InPlace, Server, Sent, Range
<1> QED
  BY <1>1, <1>2 DEF Places

(***************************************************************************)
(* Discovery moves no message.                                             *)
(***************************************************************************)
LEMMA MatchPlaces ==
    ASSUME Places, NEW s \in Servers, NEW t \in Servers, Match(s, t)
    PROVE  Places'
<1> USE DEF Match, socketVars, pageVars, topicVars, sentVars
<1>1. TypeOK'
  <2>1. matched \subseteq matched' /\ matched' \subseteq writers \X readers
    BY DEF Places, TypeOK
  <2>2. \A r, p \in Servers : wire[r][p] # <<>> => <<r, p>> \in matched'
    BY <2>1 DEF Places, TypeOK
  <2> QED
    BY <2>1, <2>2 DEF Places, TypeOK, User, Server
<1>2. InPlace'
  BY DEF Places, InPlace, Server, Sent, Range
<1> QED
  BY <1>1, <1>2 DEF Places

(***************************************************************************)
(* A server that takes a message from a socket writes what was sent there. *)
(***************************************************************************)
LEMMA IncomingPlaces ==
    ASSUME Places, NEW k \in 1..MaxConnects, Incoming(k)
    PROVE  Places'
<1> USE DEF Incoming, serverVars, pageVars, sentVars
<1> DEFINE m == Head(incoming[k])
           s == Server(k)
<1>1. /\ incoming[k] \in Seq(1..MaxMessages) /\ incoming[k] # <<>>
      /\ k \in 1..Len(sockets)
  <2>1. incoming[k] \in Seq(1..MaxMessages) /\ sockets \in Seq(Users \X Servers)
    BY DEF Places, TypeOK
  <2>2. Len(sockets) \in Nat
    BY <2>1, LenProperties
  <2> QED
    BY <2>1, <2>2
<1>2. /\ m \in 1..MaxMessages /\ Tail(incoming[k]) \in Seq(1..MaxMessages)
      /\ Range(incoming[k]) = Range(Tail(incoming[k])) \cup {m}
  BY <1>1, RangeTail
<1>3. s \in Servers /\ m \in Sent /\ from[m] = k
  BY <1>1, <1>2, SocketTypes DEF Places, InPlace
<1> HIDE DEF m, s
<1>4. /\ incoming' = [incoming EXCEPT ![k] = Tail(@)]
      /\ UNCHANGED <<up, writers, readers, matched, sockets, ws, outgoing, messages, slot, from>>
  OBVIOUS
<1>5. PICK to \in SUBSET Servers :
         /\ \A t \in to : <<s, t>> \in matched
         /\ wire' = [wire EXCEPT ![s] =
                      [t \in Servers |-> IF t \in to THEN Append(@[t], m) ELSE @[t]]]
  BY DEF WriteUserMessage, m, s
<1>6. TypeOK'
  <2>1. incoming' \in [1..MaxConnects -> Seq(1..MaxMessages)]
    BY <1>2, <1>4 DEF Places, TypeOK
  <2>2. \A t \in Servers : Append(wire[s][t], m) \in Seq(1..MaxMessages)
    BY <1>2, <1>3, AppendProperties DEF Places, TypeOK
  <2>3. wire' \in [Servers -> [Servers -> Seq(1..MaxMessages)]]
    BY <1>3, <1>5, <2>2 DEF Places, TypeOK
  <2>4. \A r, t \in Servers : wire'[r][t] # <<>> => <<r, t>> \in matched
    BY <1>3, <1>5 DEF Places, TypeOK
  <2> QED
    BY <1>4, <2>1, <2>3, <2>4 DEF Places, TypeOK, User, Server
<1>7. \A r, t \in Servers : Range(wire[r][t])' \subseteq
                             IF r = s THEN Range(wire[r][t]) \cup {m} ELSE Range(wire[r][t])
  <2>1. ASSUME NEW t \in Servers
        PROVE  Range(Append(wire[s][t], m)) = Range(wire[s][t]) \cup {m}
    <3>1. wire[s][t] \in Queues
      BY <1>3 DEF Places, TypeOK, Queues
    <3> QED
      BY <3>1, <1>2, QueueAppend
  <2>2. \A r, t \in Servers : wire'[r][t] = IF r = s /\ t \in to THEN Append(wire[s][t], m) ELSE wire[r][t]
    BY <1>3, <1>5 DEF Places, TypeOK
  <2> QED
    BY <2>1, <2>2
<1>8. InPlace'
  <2>1. \A j \in 1..MaxConnects : Range(incoming[j])' \subseteq Range(incoming[j])
    BY <1>2, <1>4 DEF Places, TypeOK
  <2>2. Sent' = Sent /\ (\A j : Server(j)' = Server(j))
    BY <1>4 DEF Sent, Server
  <2>3. \A j \in 1..MaxConnects : \A x \in Range(incoming[j])' : x \in Sent /\ from[x] = j
    BY <2>1 DEF Places, InPlace
  <2>4. \A r, t \in Servers : \A x \in Range(wire[r][t])' : x \in Sent /\ Server(from[x]) = r
    BY <1>3, <1>7 DEF Places, InPlace, s
  <2> QED
    BY <1>4, <2>2, <2>3, <2>4 DEF Places, InPlace
<1> QED
  BY <1>6, <1>8 DEF Places

(***************************************************************************)
(* A sample that comes into the slot was sent.                             *)
(***************************************************************************)
LEMMA DeliverPlaces ==
    ASSUME Places, NEW s \in Servers, NEW t \in Servers, Deliver(s, t)
    PROVE  Places'
<1> DEFINE m == Head(wire[s][t])
<1>1. /\ wire[s][t] # <<>>
      /\ wire' = [wire EXCEPT ![s][t] = Tail(@)]
      /\ slot' = [slot EXCEPT ![t] = {m}]
      /\ UNCHANGED <<up, writers, readers, matched, sockets, ws, incoming, outgoing, messages, from>>
  BY DEF Deliver, serverVars, socketVars, pageVars, sentVars
<1>2. /\ m \in 1..MaxMessages /\ Tail(wire[s][t]) \in Queues
      /\ Range(wire[s][t]) = Range(Tail(wire[s][t])) \cup {m}
  <2>1. wire[s][t] \in Queues
    BY DEF Places, TypeOK, Queues
  <2> QED
    BY <1>1, <2>1, QueueTail
<1>3. m \in Sent
  BY <1>2 DEF Places, InPlace
<1> HIDE DEF m
<1>4. \A r, p \in Servers :
         wire'[r][p] = IF r = s /\ p = t THEN Tail(wire[s][t]) ELSE wire[r][p]
  BY <1>1 DEF Places, TypeOK
<1>5. TypeOK'
  <2>1. wire' \in [Servers -> [Servers -> Seq(1..MaxMessages)]]
    BY <1>1, <1>2 DEF Places, TypeOK, Queues
  <2>2. slot' \in [Servers -> SUBSET (1..MaxMessages)]
    BY <1>1, <1>2 DEF Places, TypeOK
  <2>3. \A r, p \in Servers : wire'[r][p] # <<>> => <<r, p>> \in matched
    <3>1. \A r, p \in Servers : wire[r][p] # <<>> => <<r, p>> \in matched
      BY DEF Places, TypeOK
    <3> QED
      BY <1>1, <1>4, <3>1
  <2> QED
    BY <1>1, <2>1, <2>2, <2>3 DEF Places, TypeOK, User, Server
<1>6. InPlace'
  <2>1. Sent' = Sent /\ (\A j : Server(j)' = Server(j))
    BY <1>1 DEF Sent, Server
  <2>2. \A r, p \in Servers : Range(wire[r][p])' \subseteq Range(wire[r][p])
    BY <1>2, <1>4
  <2>3. \A p \in Servers : slot'[p] \subseteq Sent
    BY <1>1, <1>3 DEF Places, InPlace, TypeOK
  <2> QED
    BY <1>1, <2>1, <2>2, <2>3 DEF Places, InPlace
<1> QED
  BY <1>5, <1>6 DEF Places

(***************************************************************************)
(* A sample that is overwritten leaves the others on the wire.             *)
(***************************************************************************)
LEMMA OverwrittenWire ==
    ASSUME Places, NEW s \in Servers, NEW t \in Servers, Overwritten(s, t)
    PROVE  /\ wire[s][t] # <<>> /\ wire[s][t] \in Queues
           /\ Tail(wire[s][t]) \in Queues
           /\ Range(wire[s][t]) = Range(Tail(wire[s][t])) \cup {Head(wire[s][t])}
           /\ \A r, p \in Servers :
                 wire'[r][p] = IF r = s /\ p = t THEN Tail(wire[s][t]) ELSE wire[r][p]
           /\ \A r, p \in Servers : Range(wire'[r][p]) \subseteq Range(wire[r][p])
<1>1. wire' = [wire EXCEPT ![s][t] = Tail(@)] /\ wire[s][t] # <<>>
  BY DEF Overwritten
<1>2. wire[s][t] \in Queues
  BY DEF Places, TypeOK, Queues
<1>3. \A r, p \in Servers :
         wire'[r][p] = IF r = s /\ p = t THEN Tail(wire[s][t]) ELSE wire[r][p]
  BY <1>1 DEF Places, TypeOK
<1>4. /\ Tail(wire[s][t]) \in Queues
      /\ Range(wire[s][t]) = Range(Tail(wire[s][t])) \cup {Head(wire[s][t])}
  BY <1>1, <1>2, QueueTail
<1> QED
  BY <1>1, <1>2, <1>3, <1>4

(***************************************************************************)
(* What a sample that is overwritten leaves on the wire was sent.          *)
(***************************************************************************)
LEMMA OverwrittenPlaces ==
    ASSUME Places, NEW s \in Servers, NEW t \in Servers, Overwritten(s, t)
    PROVE  Places'
<1>1. /\ wire' = [wire EXCEPT ![s][t] = Tail(@)]
      /\ UNCHANGED <<up, writers, readers, matched, sockets, ws, incoming, outgoing, messages,
                     slot, from>>
  BY DEF Overwritten, serverVars, socketVars, pageVars, sentVars
<1>2. TypeOK'
  <2>1. wire' \in [Servers -> [Servers -> Seq(1..MaxMessages)]]
    BY <1>1, OverwrittenWire DEF Places, TypeOK, Queues
  <2>2. \A r, p \in Servers : wire'[r][p] # <<>> => <<r, p>> \in matched
    <3>1. \A r, p \in Servers : wire[r][p] # <<>> => <<r, p>> \in matched
      BY DEF Places, TypeOK
    <3> QED
      BY <3>1, OverwrittenWire
  <2> QED
    BY <1>1, <2>1, <2>2 DEF Places, TypeOK, User, Server
<1>3. InPlace'
  <2>1. Sent' = Sent /\ (\A j : Server(j)' = Server(j))
    BY <1>1 DEF Sent, Server
  <2>2. \A r, p \in Servers : Range(wire[r][p])' \subseteq Range(wire[r][p])
    BY OverwrittenWire
  <2> QED
    BY <1>1, <2>1, <2>2 DEF Places, InPlace
<1> QED
  BY <1>2, <1>3 DEF Places

(***************************************************************************)
(* What a server passes on to its pages was sent, and they are connected.  *)
(***************************************************************************)
LEMMA OnMessagePlaces ==
    ASSUME Places, NEW t \in Servers, OnMessage(t)
    PROVE  Places'
<1>1. PICK m \in slot[t] :
         /\ slot' = [slot EXCEPT ![t] = {}]
         /\ outgoing' = [u \in Users |-> IF u \in Clients(t)
                                         THEN Append(outgoing[u], m) ELSE outgoing[u]]
         /\ UNCHANGED <<up, writers, readers, matched, sockets, ws, incoming, messages, wire, from>>
  BY DEF OnMessage, serverVars, socketVars, sentVars
<1>2. m \in 1..MaxMessages /\ m \in Sent
  BY DEF Places, InPlace, TypeOK
<1>3. \A u \in Users : /\ Append(outgoing[u], m) \in Queues
                       /\ Range(Append(outgoing[u], m)) = Range(outgoing[u]) \cup {m}
  BY <1>2, QueueAppend DEF Places, TypeOK, Queues
<1>4. TypeOK'
  <2>1. outgoing' \in [Users -> Seq(1..MaxMessages)]
    BY <1>1, <1>3 DEF Places, TypeOK, Queues
  <2>2. slot' \in [Servers -> SUBSET (1..MaxMessages)]
    BY <1>1 DEF Places, TypeOK
  <2> QED
    BY <1>1, <2>1, <2>2 DEF Places, TypeOK, User, Server
<1>5. InPlace'
  <2>1. Sent' = Sent /\ (\A j : Server(j)' = Server(j))
    BY <1>1 DEF Sent, Server
  <2>2. ASSUME NEW u \in Users
        PROVE  Range(outgoing[u])' \subseteq Sent
    <3>1. outgoing'[u] = IF u \in Clients(t) THEN Append(outgoing[u], m) ELSE outgoing[u]
      BY <1>1
    <3>2. Range(outgoing[u])' \subseteq Range(outgoing[u]) \cup {m}
      BY <1>3, <3>1
    <3> QED
      BY <1>2, <3>2 DEF Places, InPlace
  <2>3. \A u \in Users : ws[u] = 0 => outgoing'[u] = <<>>
    BY <1>1 DEF Places, InPlace, Clients
  <2>4. \A p \in Servers : slot'[p] \subseteq Sent
    BY <1>1 DEF Places, InPlace, TypeOK
  <2> QED
    BY <1>1, <2>1, <2>2, <2>3, <2>4 DEF Places, InPlace
<1> QED
  BY <1>4, <1>5 DEF Places

(***************************************************************************)
(* A server that stops takes its samples with it; no page stays connected  *)
(* to it.                                                                  *)
(***************************************************************************)
LEMMA StopPlaces ==
    ASSUME Places, NEW s \in Servers, Stop(s)
    PROVE  Places'
<1>1. /\ up' = [up EXCEPT ![s] = "stopped"]
      /\ writers' = writers \ {s} /\ readers' = readers \ {s}
      /\ matched' = {p \in matched : s \notin {p[1], p[2]}}
      /\ ws' = [u \in Users |-> IF u \in Clients(s) THEN 0 ELSE ws[u]]
      /\ incoming' = [k \in 1..MaxConnects |->
                       IF k <= Len(sockets) /\ Server(k) = s THEN <<>> ELSE incoming[k]]
      /\ outgoing' = [u \in Users |-> IF u \in Clients(s) THEN <<>> ELSE outgoing[u]]
      /\ wire' = [t \in Servers |-> [r \in Servers |-> IF s \in {t, r} THEN <<>> ELSE wire[t][r]]]
      /\ slot' = [slot EXCEPT ![s] = {}]
      /\ UNCHANGED <<sockets, messages, from>>
  BY DEF Stop, sentVars
<1>2. <<>> \in Queues /\ Range(<<>>) = {}
  BY EmptyQueue DEF Queues
<1>3. TypeOK'
  <2>1. ws' \in [Users -> 0..MaxConnects]
    BY <1>1, ChatBounds DEF Places, TypeOK
  <2>2. /\ incoming' \in [1..MaxConnects -> Seq(1..MaxMessages)]
        /\ outgoing' \in [Users -> Seq(1..MaxMessages)]
    BY <1>1, <1>2 DEF Places, TypeOK, Queues
  <2>3. wire' \in [Servers -> [Servers -> Seq(1..MaxMessages)]]
    BY <1>1, <1>2 DEF Places, TypeOK, Queues
  <2>4. slot' \in [Servers -> SUBSET (1..MaxMessages)]
    BY <1>1 DEF Places, TypeOK
  <2>5. ASSUME NEW u \in Users, ws'[u] # 0
        PROVE  User(ws[u])' = u /\ up'[Server(ws[u])'] = "up"
    <3>1. ws'[u] = ws[u] /\ ws[u] # 0 /\ Server(ws[u]) # s
      BY <1>1, <2>5 DEF Clients
    <3>2. User(ws[u]) = u /\ up[Server(ws[u])] = "up"
      BY <3>1 DEF Places, TypeOK
    <3>3. /\ User(ws[u])' = User(ws'[u]) /\ Server(ws[u])' = Server(ws'[u])
          /\ \A p \in Servers : p # s => up'[p] = up[p]
      BY <1>1 DEF Places, TypeOK, User, Server
    <3>4. ws[u] \in 1..Len(sockets)
      <4>1. ws[u] \in Nat /\ ws[u] <= Len(sockets) /\ Len(sockets) \in Nat
        BY LenProperties, ChatBounds DEF Places, TypeOK, InPlace
      <4> QED
        BY <3>1, <4>1
    <3>5. Server(ws[u]) \in Servers
      BY <3>4, SocketTypes DEF Places
    <3> QED
      BY <3>1, <3>2, <3>3, <3>5
  <2>6. /\ matched' \subseteq writers' \X readers'
        /\ \A t, r \in Servers : wire'[t][r] # <<>> => <<t, r>> \in matched'
    BY <1>1 DEF Places, TypeOK
  <2> QED
    BY <1>1, <2>1, <2>2, <2>3, <2>4, <2>5, <2>6 DEF Places, TypeOK
<1>4. InPlace'
  <2>1. Sent' = Sent /\ (\A j : Server(j)' = Server(j))
    BY <1>1 DEF Sent, Server
  <2>2. \A k \in 1..MaxConnects : Range(incoming[k])' \subseteq Range(incoming[k])
    BY <1>1, <1>2
  <2>3. \A t, r \in Servers : Range(wire[t][r])' \subseteq Range(wire[t][r])
    BY <1>1, <1>2
  <2>4. \A u \in Users : /\ Range(outgoing[u])' \subseteq Range(outgoing[u])
                         /\ ws'[u] = 0 => ws[u] = 0 \/ outgoing'[u] = <<>>
                         /\ outgoing[u] = <<>> => outgoing'[u] = <<>>
                         /\ ws'[u] = 0 \/ ws'[u] = ws[u]
    BY <1>1, <1>2
  <2>5. \A t \in Servers : slot'[t] \subseteq slot[t]
    BY <1>1 DEF Places, TypeOK
  <2>6. \A k \in 1..MaxConnects : \A m \in Range(incoming[k])' : m \in Sent /\ from[m] = k
    BY <2>2 DEF Places, InPlace
  <2>7. \A t, r \in Servers : \A m \in Range(wire[t][r])' : m \in Sent /\ Server(from[m]) = t
    BY <2>3 DEF Places, InPlace
  <2>8. \A u \in Users : /\ Range(outgoing[u])' \subseteq Sent
                         /\ ws'[u] = 0 => outgoing'[u] = <<>>
    BY <2>4 DEF Places, InPlace
  <2>9. \A u \in Users : ws'[u] <= Len(sockets)
    <3>1. Len(sockets) \in Nat
      BY LenProperties DEF Places, TypeOK
    <3> QED
      BY <2>4, <3>1 DEF Places, InPlace
  <2> QED
    BY <1>1, <2>1, <2>5, <2>6, <2>7, <2>8, <2>9 DEF Places, InPlace
<1> QED
  BY <1>3, <1>4 DEF Places

(***************************************************************************)
(* A new socket leaves the others as they are.                             *)
(***************************************************************************)
LEMMA SocketAppend ==
    ASSUME TypeOK, NEW u \in Users, NEW s \in Servers,
           sockets' = Append(sockets, <<u, s>>)
    PROVE  /\ Len(sockets) \in Nat
           /\ sockets' \in Seq(Users \X Servers) /\ Len(sockets') = Len(sockets) + 1
           /\ \A k \in 1..Len(sockets) : User(k)' = User(k) /\ Server(k)' = Server(k)
           /\ \A k : k = Len(sockets) + 1 => User(k)' = u /\ Server(k)' = s
<1> DEFINE S == Users \X Servers
           e == <<u, s>>
           n == Len(sockets)
<1>1. sockets \in Seq(S) /\ e \in S /\ n \in Nat
  BY LenProperties DEF TypeOK
<1>2. e[1] = u /\ e[2] = s /\ sockets' = Append(sockets, e)
  OBVIOUS
<1> HIDE DEF S, e
<1>3. /\ Append(sockets, e) \in Seq(S) /\ Len(Append(sockets, e)) = Len(sockets) + 1
      /\ \A i \in 1..Len(sockets) : Append(sockets, e)[i] = sockets[i]
      /\ Append(sockets, e)[Len(sockets) + 1] = e
  BY <1>1, AppendProperties
<1>4. /\ \A k : User(k)' = Append(sockets, e)[k][1] /\ Server(k)' = Append(sockets, e)[k][2]
      /\ \A k : User(k) = sockets[k][1] /\ Server(k) = sockets[k][2]
  BY <1>2 DEF User, Server
<1>5. \A k \in 1..Len(sockets) : User(k)' = User(k) /\ Server(k)' = Server(k)
  BY <1>3, <1>4
<1>6. \A k : k = Len(sockets) + 1 => User(k)' = u /\ Server(k)' = s
  BY <1>2, <1>3, <1>4
<1>7. sockets' \in Seq(Users \X Servers) /\ Len(sockets') = Len(sockets) + 1
  BY <1>2, <1>3 DEF S
<1> QED
  BY <1>1, <1>5, <1>6, <1>7

(***************************************************************************)
(* A page that connects again has a socket of its own, to a server that    *)
(* runs, or none.                                                          *)
(***************************************************************************)
LEMMA ConnectPlaces ==
    ASSUME Places, NEW u \in Users, NEW s \in Servers, Connect(u, s)
    PROVE  Places'
<1>1. /\ outgoing' = [outgoing EXCEPT ![u] = <<>>]
      /\ UNCHANGED <<up, writers, readers, matched, incoming, messages, wire, slot, from>>
  BY DEF Connect, serverVars, topicVars, sentVars
<1>2. /\ Len(sockets) \in Nat /\ <<>> \in Queues /\ Range(<<>>) = {}
      /\ sockets \in Seq(Users \X Servers)
  <2>1. sockets \in Seq(Users \X Servers)
    BY DEF Places, TypeOK
  <2> QED
    BY <2>1, LenProperties, EmptyQueue DEF Queues
<1>3. outgoing' \in [Users -> Seq(1..MaxMessages)]
  BY <1>1, <1>2 DEF Places, TypeOK, Queues
<1>4. Sent' = Sent
  BY <1>1 DEF Sent
<1>5. \A v \in Users : Range(outgoing[v])' \subseteq Sent
  <2>1. \A v \in Users : Range(outgoing[v])' \subseteq Range(outgoing[v])
    BY <1>1, <1>2 DEF Places, TypeOK
  <2> QED
    BY <2>1 DEF Places, InPlace
<1>6. \A v \in Users : ws[v] # 0 => /\ ws[v] \in 1..Len(sockets)
                                   /\ User(ws[v]) = v /\ up[Server(ws[v])] = "up"
  <2> TAKE v \in Users
  <2>1. ws[v] \in Nat /\ ws[v] <= Len(sockets)
    BY ChatBounds DEF Places, TypeOK, InPlace
  <2> QED
    BY <1>2, <2>1 DEF Places, TypeOK
<1>7. CASE up[s] = "up"
  <2>1. /\ Len(sockets) < MaxConnects
        /\ sockets' = Append(sockets, <<u, s>>)
        /\ ws' = [ws EXCEPT ![u] = Len(sockets) + 1]
    BY <1>7 DEF Connect
  <2>2. /\ sockets' \in Seq(Users \X Servers) /\ Len(sockets') = Len(sockets) + 1
        /\ \A k \in 1..Len(sockets) : User(k)' = User(k) /\ Server(k)' = Server(k)
        /\ \A k : k = Len(sockets) + 1 => User(k)' = u /\ Server(k)' = s
    BY <2>1, SocketAppend DEF Places
  <2>3. \A v \in Users : ws'[v] = IF v = u THEN Len(sockets) + 1 ELSE ws[v]
    BY <2>1 DEF Places, TypeOK
  <2>4. ws' \in [Users -> 0..MaxConnects]
    <3>1. Len(sockets) + 1 \in 0..MaxConnects
      BY <1>2, <2>1, ChatBounds
    <3> QED
      BY <2>1, <3>1 DEF Places, TypeOK
  <2>5. \A v \in Users : ws'[v] # 0 => User(ws[v])' = v /\ up[Server(ws[v])]' = "up"
    <3> TAKE v \in Users
    <3>1. \A k : k = ws'[v] => User(ws[v])' = User(k)' /\ Server(ws[v])' = Server(k)'
      BY DEF User, Server
    <3>2. CASE v = u
      BY <1>1, <1>7, <2>2, <2>3, <3>1, <3>2
    <3>3. CASE v # u /\ ws[v] # 0
      BY <1>1, <1>6, <2>2, <2>3, <3>1, <3>3
    <3> QED
      BY <2>3, <3>2, <3>3
  <2>6. TypeOK'
    BY <1>1, <1>3, <2>2, <2>4, <2>5 DEF Places, TypeOK
  <2>7. InPlace'
    <3>1. \A k \in 1..Len(sockets) : k \in 1..Len(sockets')
      BY <1>2, <2>2
    <3>2. \A m \in Sent : from[m] \in 1..Len(sockets) /\ Server(from[m])' = Server(from[m])
      BY <2>2, <1>1 DEF Places, InPlace, Server
    <3>3. \A v \in Users : ws'[v] = 0 => outgoing'[v] = <<>>
      BY <1>1, <1>2, <2>3 DEF Places, TypeOK, InPlace
    <3>4. \A v \in Users : ws'[v] <= Len(sockets')
      <4> TAKE v \in Users
      <4>1. ws[v] \in Nat /\ ws[v] <= Len(sockets)
        BY ChatBounds DEF Places, TypeOK, InPlace
      <4> QED
        BY <1>2, <2>2, <2>3, <4>1
    <3>5. \A v \in Users : Range(messages[v]) \subseteq (1..Len(sockets')) \X Sent
      BY <3>1 DEF Places, InPlace
    <3>6. \A p, t \in Servers : \A m \in Range(wire[p][t]) : m \in Sent /\ Server(from[m])' = p
      BY <3>2 DEF Places, InPlace
    <3> QED
      BY <1>1, <1>4, <1>5, <3>1, <3>2, <3>3, <3>4, <3>5, <3>6 DEF Places, InPlace
  <2> QED
    BY <2>6, <2>7 DEF Places
<1>8. CASE up[s] # "up"
  <2>1. UNCHANGED sockets /\ ws' = [ws EXCEPT ![u] = 0]
    BY <1>8 DEF Connect
  <2>2. \A v \in Users : ws'[v] = IF v = u THEN 0 ELSE ws[v]
    BY <2>1 DEF Places, TypeOK
  <2>3. \A k : User(k)' = User(k) /\ Server(k)' = Server(k)
    BY <2>1 DEF User, Server
  <2>4. ws' \in [Users -> 0..MaxConnects]
    BY <2>1, ChatBounds DEF Places, TypeOK
  <2>5. \A v \in Users : ws'[v] # 0 => User(ws[v])' = v /\ up[Server(ws[v])]' = "up"
    BY <1>1, <1>6, <2>1, <2>2 DEF User, Server
  <2>6. TypeOK'
    BY <1>1, <1>3, <2>1, <2>4, <2>5 DEF Places, TypeOK
  <2>7. InPlace'
    <3>1. \A v \in Users : ws'[v] = 0 => outgoing'[v] = <<>>
      BY <1>1, <2>2 DEF Places, TypeOK, InPlace
    <3>2. \A v \in Users : ws'[v] <= Len(sockets')
      BY <1>2, <2>1, <2>2 DEF Places, InPlace
    <3> QED
      BY <1>1, <1>4, <1>5, <2>1, <2>3, <3>1, <3>2 DEF Places, InPlace, Server
  <2> QED
    BY <2>6, <2>7 DEF Places
<1> QED
  BY <1>7, <1>8

(***************************************************************************)
(* A new message has the next number; of those before nothing changes.     *)
(***************************************************************************)
LEMMA FromAppend ==
    ASSUME Places, NEW u \in Users, Send(u), NEW m, m = Len(from) + 1
    PROVE  /\ m \in 1..MaxMessages /\ ws[u] \in 1..MaxConnects /\ ws[u] \in 1..Len(sockets)
           /\ from' \in Seq(1..MaxConnects)
           /\ Sent' = Sent \cup {m}
           /\ \A x \in Sent : x \in 1..MaxMessages /\ x < m /\ from'[x] = from[x]
           /\ from'[m] = ws[u]
<1> DEFINE n == Len(from)
           S == 1..MaxConnects
           e == ws[u]
<1>1. from \in Seq(1..MaxConnects) /\ ws[u] \in Nat /\ ws[u] # 0 /\ ws[u] <= MaxConnects
  BY ChatBounds DEF Places, TypeOK, Send
<1>2. n \in Nat /\ n + 1 <= MaxMessages /\ m = n + 1
  BY <1>1, LenProperties DEF Send
<1>3. e \in S /\ from \in Seq(S)
  BY <1>1, ChatBounds
<1>4. Len(sockets) \in Nat /\ ws[u] <= Len(sockets)
  <2>1. sockets \in Seq(Users \X Servers)
    BY DEF Places, TypeOK
  <2> QED
    BY <2>1, LenProperties DEF Places, InPlace
<1> HIDE DEF S, e
<1>5. /\ Append(from, e) \in Seq(S) /\ Len(Append(from, e)) = n + 1
      /\ \A i \in 1..n : Append(from, e)[i] = from[i]
      /\ Append(from, e)[n + 1] = e
  BY <1>3, AppendProperties
<1>6. from' = Append(from, e)
  BY DEF Send, e
<1>7. Sent = 1..n /\ Sent' = 1..(n + 1)
  BY <1>5, <1>6 DEF Sent
<1> HIDE DEF n
<1>8. \A x \in 1..n : x \in 1..MaxMessages /\ x < m
  BY <1>2, ChatBounds
<1>9. 1..(n + 1) = (1..n) \cup {m} /\ m \in 1..MaxMessages
  BY <1>2, ChatBounds
<1>10. ws[u] \in 1..MaxConnects /\ ws[u] \in 1..Len(sockets)
  BY <1>1, <1>4, ChatBounds
<1>11. from' \in Seq(1..MaxConnects)
  BY <1>5, <1>6 DEF S
<1>12. from'[m] = ws[u]
  BY <1>2, <1>5, <1>6 DEF e
<1> QED
  BY <1>5, <1>6, <1>7, <1>8, <1>9, <1>10, <1>11, <1>12

(***************************************************************************)
(* A page sends on its own socket.                                         *)
(***************************************************************************)
LEMMA SendPlaces ==
    ASSUME Places, NEW u \in Users, Send(u)
    PROVE  Places'
<1> DEFINE m == Len(from) + 1
<1>1. /\ m \in 1..MaxMessages /\ ws[u] \in 1..MaxConnects /\ ws[u] \in 1..Len(sockets)
      /\ from' \in Seq(1..MaxConnects)
      /\ Sent' = Sent \cup {m}
      /\ \A x \in Sent : x \in 1..MaxMessages /\ x < m /\ from'[x] = from[x]
      /\ from'[m] = ws[u]
  BY FromAppend
<1>2. /\ incoming' = [incoming EXCEPT ![ws[u]] = Append(@, m)]
      /\ UNCHANGED <<up, writers, readers, matched, sockets, ws, outgoing, messages, wire, slot>>
  BY DEF Send, serverVars, pageVars, topicVars
<1> HIDE DEF m
<1>3. \A k \in 1..MaxConnects : incoming[k] \in Queues
  BY DEF Places, TypeOK, Queues
<1>4. \A k \in 1..MaxConnects : /\ Append(incoming[k], m) \in Queues
                               /\ Range(Append(incoming[k], m)) = Range(incoming[k]) \cup {m}
  BY <1>1, <1>3, QueueAppend
<1>5. \A k \in 1..MaxConnects :
         incoming'[k] = IF k = ws[u] THEN Append(incoming[k], m) ELSE incoming[k]
  BY <1>2 DEF Places, TypeOK
<1>6. TypeOK'
  <2>1. incoming' \in [1..MaxConnects -> Seq(1..MaxMessages)]
    BY <1>2, <1>4 DEF Places, TypeOK, Queues
  <2> QED
    BY <1>1, <1>2, <2>1 DEF Places, TypeOK, User, Server
<1>7. InPlace'
  <2>1. \A x \in Sent' : from'[x] \in 1..Len(sockets)
    BY <1>1 DEF Places, InPlace
  <2>2. \A k \in 1..MaxConnects : \A x \in Range(incoming[k])' : x \in Sent' /\ from'[x] = k
    <3> TAKE k \in 1..MaxConnects
    <3> TAKE x \in Range(incoming[k])'
    <3>1. x \in Range(incoming[k]) \/ (x = m /\ k = ws[u])
      BY <1>4, <1>5
    <3> QED
      BY <1>1, <3>1 DEF Places, InPlace
  <2>3. \A s, t \in Servers : \A x \in Range(wire[s][t]) : x \in Sent' /\ Server(from'[x]) = s
    BY <1>1 DEF Places, InPlace
  <2>4. \A j : Server(j)' = Server(j)
    BY <1>2 DEF Server
  <2>5. \A s, t \in Servers : \A x \in Range(wire[s][t])' : x \in Sent' /\ Server(from[x])' = s
    BY <1>2, <2>3 DEF Server
  <2>6. \A v \in Users : Range(messages[v]) \subseteq (1..Len(sockets)) \X Sent'
    BY <1>1 DEF Places, InPlace
  <2>7. /\ \A t \in Servers : slot[t] \subseteq Sent'
        /\ \A v \in Users : Range(outgoing[v]) \subseteq Sent'
    BY <1>1 DEF Places, InPlace
  <2> QED
    BY <1>2, <2>1, <2>2, <2>5, <2>6, <2>7 DEF Places, InPlace
<1> QED
  BY <1>6, <1>7 DEF Places

(***************************************************************************)
(* What a page shows was sent.                                             *)
(***************************************************************************)
LEMMA ShowMessagePlaces ==
    ASSUME Places, NEW u \in Users, ShowMessage(u)
    PROVE  Places'
<1> DEFINE m == Head(outgoing[u])
           S == (1..MaxConnects) \X (1..MaxMessages)
           e == <<ws[u], m>>
<1>1. /\ outgoing[u] # <<>>
      /\ outgoing' = [outgoing EXCEPT ![u] = Tail(@)]
      /\ messages' = [messages EXCEPT ![u] = Append(@, e)]
      /\ UNCHANGED <<up, writers, readers, matched, sockets, ws, incoming, wire, slot, from>>
  BY DEF ShowMessage, serverVars, socketVars, topicVars, sentVars
<1>2. /\ m \in 1..MaxMessages /\ Tail(outgoing[u]) \in Queues
      /\ Range(outgoing[u]) = Range(Tail(outgoing[u])) \cup {m}
  <2>1. outgoing[u] \in Queues
    BY DEF Places, TypeOK, Queues
  <2> QED
    BY <1>1, <2>1, QueueTail
<1>3. /\ m \in Sent /\ ws[u] \in 1..MaxConnects /\ ws[u] \in 1..Len(sockets)
  <2>1. m \in Sent /\ ws[u] # 0 /\ ws[u] \in 0..MaxConnects /\ ws[u] <= Len(sockets)
    BY <1>1, <1>2 DEF Places, TypeOK, InPlace
  <2>2. sockets \in Seq(Users \X Servers)
    BY DEF Places, TypeOK
  <2> QED
    BY <2>1, <2>2, LenProperties, ChatBounds
<1>4. e \in S /\ e \in (1..Len(sockets)) \X Sent /\ messages[u] \in Seq(S)
  BY <1>2, <1>3 DEF Places, TypeOK
<1> HIDE DEF m, e, S
<1>5. /\ Append(messages[u], e) \in Seq(S)
      /\ Range(Append(messages[u], e)) = Range(messages[u]) \cup {e}
  BY <1>4, AppendProperties, RangeAppend
<1>6. TypeOK'
  <2>1. outgoing' \in [Users -> Seq(1..MaxMessages)]
    BY <1>1, <1>2 DEF Places, TypeOK, Queues
  <2>2. messages' \in [Users -> Seq((1..MaxConnects) \X (1..MaxMessages))]
    BY <1>1, <1>5 DEF Places, TypeOK, S
  <2> QED
    BY <1>1, <2>1, <2>2 DEF Places, TypeOK, User, Server
<1>7. InPlace'
  <2>1. Sent' = Sent /\ (\A j : Server(j)' = Server(j))
    BY <1>1 DEF Sent, Server
  <2>2. \A v \in Users : outgoing'[v] = IF v = u THEN Tail(outgoing[u]) ELSE outgoing[v]
    BY <1>1 DEF Places, TypeOK
  <2>3. \A v \in Users : Range(outgoing[v])' \subseteq Range(outgoing[v])
    BY <1>2, <2>2
  <2>4. \A v \in Users : Range(outgoing[v])' \subseteq Sent
    BY <2>3 DEF Places, InPlace
  <2>5. \A v \in Users : ws[v] = 0 => outgoing'[v] = <<>>
    BY <1>3, <2>2 DEF Places, InPlace
  <2>6. \A v \in Users : messages'[v] = IF v = u THEN Append(messages[u], e) ELSE messages[v]
    BY <1>1 DEF Places, TypeOK
  <2>7. \A v \in Users : Range(messages[v])' \subseteq (1..Len(sockets)) \X Sent
    BY <1>4, <1>5, <2>6 DEF Places, InPlace
  <2> QED
    BY <1>1, <2>1, <2>4, <2>5, <2>7 DEF Places, InPlace
<1> QED
  BY <1>6, <1>7 DEF Places

-----------------------------------------------------------------------------
(* Order. *)

Ordered == StagesSorted /\ ServersInOrder /\ PagesInOrder /\ InOrder

(***************************************************************************)
(* All stages hold messages that were sent.                                *)
(***************************************************************************)
LEMMA Stages ==
    ASSUME Places
    PROVE  /\ \A k \in 1..MaxConnects : incoming[k] \in Queues
           /\ \A s, t \in Servers : wire[s][t] \in Queues
           /\ \A u \in Users : outgoing[u] \in Queues
           /\ Unread \subseteq Sent
           /\ \A t \in Servers : OnWire(t) \subseteq Sent /\ Coming(t) \subseteq Sent
           /\ \A u \in Users : ShownHere(u) \subseteq Sent
           /\ Sent \subseteq Nat
<1>1. /\ \A k \in 1..MaxConnects : incoming[k] \in Queues
      /\ \A s, t \in Servers : wire[s][t] \in Queues
      /\ \A u \in Users : outgoing[u] \in Queues
  BY DEF Places, TypeOK, Queues
<1>2. Unread \subseteq Sent
  BY DEF Places, InPlace, Unread
<1>3. \A t \in Servers : OnWire(t) \subseteq Sent
  BY DEF Places, InPlace, OnWire
<1>4. \A t \in Servers : Coming(t) \subseteq Sent
  BY <1>2, <1>3 DEF Places, InPlace, Coming
<1>5. \A u \in Users : ShownHere(u) \subseteq Sent
  <2> TAKE u \in Users
  <2>1. \A i \in DOMAIN messages[u] : messages[u][i] \in (1..Len(sockets)) \X Sent
    BY DEF Places, InPlace, Range
  <2> QED
    BY <2>1 DEF ShownHere
<1>6. Sent \subseteq Nat
  BY SentTypes
<1> QED
  BY <1>1, <1>2, <1>3, <1>4, <1>5, <1>6

(***************************************************************************)
(* For a user who stays, with what is shown and sent to the page as it is, *)
(* it is enough that no more is to come.                                   *)
(***************************************************************************)
LEMMA PagesKept ==
    ASSUME TypeOK, PagesInOrder, UNCHANGED <<sockets, ws, outgoing, messages, from>>,
           \A t \in Servers : Coming(t)' \subseteq Coming(t),
           \A u \in Users : ws[u] # 0 => Server(ws[u]) \in Servers
    PROVE  PagesInOrder' /\ (InOrder => InOrder')
<1>1. \A u \in Users : /\ Server(ws[u])' = Server(ws[u])
                       /\ Range(outgoing[u])' = Range(outgoing[u])
                       /\ ShownHere(u)' = ShownHere(u)
  BY DEF Server, ShownHere
<1>2. ASSUME NEW u \in Users, ws[u] # 0
      PROVE  /\ Before(from, Range(outgoing[u]), Coming(Server(ws[u]))')
             /\ Before(from, ShownHere(u), Coming(Server(ws[u]))' \cup Range(outgoing[u]))
  <2>1. Coming(Server(ws[u]))' \subseteq Coming(Server(ws[u]))
    <3>1. \A t : t = Server(ws[u])' => Coming(Server(ws[u]))' = Coming(t)'
      BY DEF Coming, OnWire
    <3> QED
      BY <1>1, <1>2, <3>1
  <2> QED
    BY <1>2, <2>1 DEF PagesInOrder, Before
<1>3. PagesInOrder'
  BY <1>1, <1>2 DEF PagesInOrder
<1>4. InOrder => InOrder'
  BY DEF InOrder
<1> QED
  BY <1>3, <1>4

(***************************************************************************)
(* A page with a socket is connected to a server.                          *)
(***************************************************************************)
LEMMA Connected ==
    ASSUME Places, NEW u \in Users, ws[u] # 0
    PROVE  ws[u] \in 1..Len(sockets) /\ Server(ws[u]) \in Servers
<1>1. sockets \in Seq(Users \X Servers) /\ ws[u] \in Nat /\ ws[u] <= Len(sockets)
  BY ChatBounds DEF Places, TypeOK, InPlace
<1>2. ws[u] \in 1..Len(sockets)
  BY <1>1, LenProperties
<1> QED
  BY <1>2, SocketTypes DEF Places

(***************************************************************************)
(* A new server instance changes no order.                                 *)
(***************************************************************************)
LEMMA InitializeDdsOrder ==
    ASSUME Places, Ordered, NEW s \in Servers, InitializeDds(s)
    PROVE  Ordered'
<1> USE DEF InitializeDds, socketVars, pageVars, topicVars, sentVars
<1>1. StagesSorted'
  BY DEF Ordered, StagesSorted, Sorted
<1>2. ServersInOrder'
  BY DEF Ordered, ServersInOrder, Before, OnWire, Unread
<1>3. \A t \in Servers : Coming(t)' \subseteq Coming(t)
  BY DEF Coming, OnWire, Unread
<1>4. PagesInOrder' /\ InOrder'
  BY <1>3, PagesKept, Connected DEF Places, Ordered
<1> QED
  BY <1>1, <1>2, <1>4 DEF Ordered

(***************************************************************************)
(* Discovery changes no order.                                             *)
(***************************************************************************)
LEMMA MatchOrder ==
    ASSUME Places, Ordered, NEW s \in Servers, NEW t \in Servers, Match(s, t)
    PROVE  Ordered'
<1> USE DEF Match, socketVars, pageVars, topicVars, sentVars
<1>1. StagesSorted'
  BY DEF Ordered, StagesSorted, Sorted
<1>2. ServersInOrder'
  BY DEF Ordered, ServersInOrder, Before, OnWire, Unread
<1>3. \A p \in Servers : Coming(p)' \subseteq Coming(p)
  BY DEF Coming, OnWire, Unread
<1>4. PagesInOrder' /\ InOrder'
  BY <1>3, PagesKept, Connected DEF Places, Ordered
<1> QED
  BY <1>1, <1>2, <1>4 DEF Ordered

(***************************************************************************)
(* The head of a socket's queue comes before the rest of what was sent on  *)
(* that socket, and nothing sent on it earlier is still unread: it may join*)
(* the wires.                                                              *)
(***************************************************************************)
LEMMA IncomingOrder ==
    ASSUME Places, Ordered, NEW k \in 1..MaxConnects, Incoming(k)
    PROVE  Ordered'
<1> DEFINE m == Head(incoming[k])
           s == Server(k)
<1>1. /\ incoming[k] # <<>>
      /\ incoming' = [incoming EXCEPT ![k] = Tail(@)]
      /\ UNCHANGED <<sockets, ws, outgoing, messages, slot, from>>
  BY DEF Incoming, serverVars, pageVars, sentVars
<1>2. PICK to \in SUBSET Servers :
         wire' = [wire EXCEPT ![s] =
                      [t \in Servers |-> IF t \in to THEN Append(@[t], m) ELSE @[t]]]
  BY DEF Incoming, WriteUserMessage
<1>3. /\ m \in 1..MaxMessages /\ Tail(incoming[k]) \in Queues
      /\ Range(incoming[k]) = Range(Tail(incoming[k])) \cup {m}
      /\ Sorted(from, Tail(incoming[k])) /\ Before(from, {m}, Range(Tail(incoming[k])))
  <2>1. incoming[k] \in Queues /\ Sorted(from, incoming[k])
    BY Stages DEF Ordered, StagesSorted
  <2>2. Sorted(from, Tail(incoming[k])) /\ Before(from, {m}, Range(Tail(incoming[k])))
    BY <1>1, <2>1, SortedTail DEF Queues
  <2> QED
    BY <1>1, <2>1, <2>2, QueueTail
<1>4. m \in Unread /\ m \in Sent /\ from[m] = k
  BY <1>3 DEF Places, InPlace, Unread
<1> HIDE DEF m, s
<1>5. \A j \in 1..MaxConnects : incoming'[j] = IF j = k THEN Tail(incoming[k]) ELSE incoming[j]
  BY <1>1 DEF Places, TypeOK
<1>6. \A r, t \in Servers :
         wire'[r][t] = IF r = s /\ t \in to THEN Append(wire[r][t], m) ELSE wire[r][t]
  BY <1>2 DEF Places, TypeOK
<1>7. \A r, t \in Servers : Range(Append(wire[r][t], m)) = Range(wire[r][t]) \cup {m}
  BY <1>3, Stages, QueueAppend
<1>8. Unread' \subseteq Unread
  BY <1>3, <1>5 DEF Unread
<1>9. Before(from, {m}, Unread')
  <2> SUFFICES ASSUME NEW x \in Unread', from[x] = from[m]
               PROVE  m < x
    BY DEF Before
  <2>1. PICK j \in 1..MaxConnects : x \in Range(incoming'[j])
    BY DEF Unread
  <2>2. x \in Range(incoming[j])
    BY <1>3, <1>5, <2>1
  <2>3. j = k
    BY <1>4, <2>2 DEF Places, InPlace
  <2> QED
    BY <1>3, <1>5, <2>1, <2>3 DEF Before
<1>10. \A t \in Servers : OnWire(t)' \subseteq OnWire(t) \cup {m}
  BY <1>6, <1>7 DEF OnWire
<1>11. StagesSorted'
  <2>1. \A j \in 1..MaxConnects : Sorted(from, incoming'[j])
    BY <1>3, <1>5 DEF Ordered, StagesSorted
  <2>2. ASSUME NEW r \in Servers, NEW t \in Servers
        PROVE  Sorted(from, wire'[r][t])
    <3>1. wire[r][t] \in Queues /\ Sorted(from, wire[r][t])
      BY Stages DEF Ordered, StagesSorted
    <3>2. Before(from, Range(wire[r][t]), {m})
      BY <1>4 DEF Ordered, ServersInOrder, OnWire, Before
    <3>3. Sorted(from, Append(wire[r][t], m))
      BY <1>3, <3>1, <3>2, SortedAppend, Zenon DEF Queues
    <3> QED
      BY <1>6, <3>1, <3>3
  <2> QED
    BY <1>1, <2>1, <2>2 DEF Ordered, StagesSorted
<1>12. ServersInOrder'
  <2>1. \A t \in Servers : Before(from, OnWire(t)', Unread')
    BY <1>8, <1>9, <1>10 DEF Ordered, ServersInOrder, Before
  <2>2. \A t \in Servers : Before(from, slot[t], Unread' \cup OnWire(t)')
    BY <1>4, <1>8, <1>10 DEF Ordered, ServersInOrder, Before
  <2> QED
    BY <1>1, <2>1, <2>2 DEF ServersInOrder
<1>13. \A t \in Servers : Coming(t)' \subseteq Coming(t)
  BY <1>1, <1>4, <1>8, <1>10 DEF Coming
<1>14. PagesInOrder' /\ InOrder'
  BY <1>1, <1>13, PagesKept, Connected DEF Places, Ordered
<1> QED
  BY <1>11, <1>12, <1>14 DEF Ordered

(***************************************************************************)
(* The head of a wire comes before the rest of what that server has        *)
(* written.                                                                *)
(***************************************************************************)
LEMMA DeliverOrder ==
    ASSUME Places, Ordered, NEW s \in Servers, NEW t \in Servers, Deliver(s, t)
    PROVE  Ordered'
<1> DEFINE m == Head(wire[s][t])
<1>1. /\ wire[s][t] # <<>>
      /\ wire' = [wire EXCEPT ![s][t] = Tail(@)]
      /\ slot' = [slot EXCEPT ![t] = {m}]
      /\ UNCHANGED <<sockets, ws, incoming, outgoing, messages, from>>
  BY DEF Deliver, socketVars, pageVars, sentVars
<1>2. /\ m \in 1..MaxMessages
      /\ Range(wire[s][t]) = Range(Tail(wire[s][t])) \cup {m}
      /\ Sorted(from, Tail(wire[s][t])) /\ Before(from, {m}, Range(Tail(wire[s][t])))
  <2>1. wire[s][t] \in Queues /\ Sorted(from, wire[s][t])
    BY Stages DEF Ordered, StagesSorted
  <2>2. Sorted(from, Tail(wire[s][t])) /\ Before(from, {m}, Range(Tail(wire[s][t])))
    BY <1>1, <2>1, SortedTail DEF Queues
  <2> QED
    BY <1>1, <2>1, <2>2, QueueTail
<1>3. m \in OnWire(t) /\ Server(from[m]) = s
  BY <1>2 DEF Places, InPlace, OnWire
<1> HIDE DEF m
<1>4. \A r, p \in Servers :
         wire'[r][p] = IF r = s /\ p = t THEN Tail(wire[s][t]) ELSE wire[r][p]
  BY <1>1 DEF Places, TypeOK
<1>5. \A p \in Servers : /\ OnWire(p)' \subseteq OnWire(p)
                         /\ slot'[p] = IF p = t THEN {m} ELSE slot[p]
  <2>1. \A r, p \in Servers : Range(wire'[r][p]) \subseteq Range(wire[r][p])
    BY <1>2, <1>4
  <2>2. \A p \in Servers : OnWire(p)' \subseteq OnWire(p)
    BY <2>1 DEF OnWire
  <2>3. slot \in [Servers -> SUBSET (1..MaxMessages)]
    BY DEF Places, TypeOK
  <2> QED
    BY <1>1, <2>2, <2>3
<1>6. Unread' = Unread
  BY <1>1 DEF Unread
<1>7. Before(from, {m}, OnWire(t)')
  <2> SUFFICES ASSUME NEW x \in OnWire(t)', from[x] = from[m]
               PROVE  m < x
    BY DEF Before
  <2>1. PICK r \in Servers : x \in Range(wire'[r][t])
    BY DEF OnWire
  <2>2. x \in Range(wire[r][t])
    BY <1>2, <1>4, <2>1
  <2>3. r = s
    BY <1>3, <2>2 DEF Places, InPlace
  <2> QED
    BY <1>2, <1>4, <2>1, <2>3 DEF Before
<1>8. StagesSorted'
  <2>1. \A r, p \in Servers : Sorted(from, wire'[r][p])
    BY <1>2, <1>4 DEF Ordered, StagesSorted
  <2> QED
    BY <1>1, <2>1 DEF Ordered, StagesSorted
<1>9. ServersInOrder'
  <2>1. \A p \in Servers : Before(from, OnWire(p)', Unread)
    BY <1>5 DEF Ordered, ServersInOrder, Before
  <2>2. ASSUME NEW p \in Servers
        PROVE  Before(from, slot'[p], Unread \cup OnWire(p)')
    <3>1. CASE p = t
      <4>1. Before(from, {m}, Unread)
        BY <1>3 DEF Ordered, ServersInOrder, Before
      <4> QED
        BY <1>5, <1>7, <3>1, <4>1 DEF Before
    <3>2. CASE p # t
      BY <1>5, <3>2 DEF Ordered, ServersInOrder, Before
    <3> QED
      BY <3>1, <3>2
  <2> QED
    BY <1>1, <1>6, <2>1, <2>2 DEF ServersInOrder
<1>10. \A p \in Servers : Coming(p)' \subseteq Coming(p)
  BY <1>3, <1>5, <1>6 DEF Coming
<1>11. PagesInOrder' /\ InOrder'
  BY <1>1, <1>10, PagesKept, Connected DEF Places, Ordered
<1> QED
  BY <1>8, <1>9, <1>11 DEF Ordered

(***************************************************************************)
(* A sample less on a wire changes no order.                               *)
(***************************************************************************)
LEMMA OverwrittenOrder ==
    ASSUME Places, Ordered, NEW s \in Servers, NEW t \in Servers, Overwritten(s, t)
    PROVE  Ordered'
<1>1. UNCHANGED <<sockets, ws, incoming, outgoing, messages, slot, from>>
  BY DEF Overwritten, socketVars, pageVars, sentVars
<1>2. \A p \in Servers : OnWire(p)' \subseteq OnWire(p)
  BY OverwrittenWire DEF OnWire
<1>3. Unread' = Unread
  BY <1>1 DEF Unread
<1>4. StagesSorted'
  <2>1. Sorted(from, Tail(wire[s][t]))
    <3>1. Sorted(from, wire[s][t])
      BY DEF Ordered, StagesSorted
    <3> QED
      BY <3>1, OverwrittenWire, SortedTail DEF Queues
  <2>2. \A r, p \in Servers : Sorted(from, wire'[r][p])
    BY <2>1, OverwrittenWire DEF Ordered, StagesSorted
  <2> QED
    BY <1>1, <2>2 DEF Ordered, StagesSorted
<1>5. ServersInOrder'
  BY <1>1, <1>2, <1>3 DEF Ordered, ServersInOrder, Before
<1>6. \A p \in Servers : Coming(p)' \subseteq Coming(p)
  BY <1>1, <1>2, <1>3 DEF Coming
<1>7. PagesInOrder' /\ InOrder'
  BY <1>1, <1>6, PagesKept, Connected DEF Places, Ordered
<1> QED
  BY <1>4, <1>5, <1>7 DEF Ordered

(***************************************************************************)
(* What the slot held came before all that is still to come to the server, *)
(* and after all it passed on before.                                      *)
(***************************************************************************)
LEMMA OnMessageOrder ==
    ASSUME Places, Ordered, NEW t \in Servers, OnMessage(t)
    PROVE  Ordered'
<1>1. PICK m \in slot[t] :
         /\ slot' = [slot EXCEPT ![t] = {}]
         /\ outgoing' = [u \in Users |-> IF u \in Clients(t)
                                         THEN Append(outgoing[u], m) ELSE outgoing[u]]
         /\ UNCHANGED <<sockets, ws, incoming, messages, wire, from>>
  BY DEF OnMessage, socketVars, sentVars
<1>2. m \in 1..MaxMessages /\ m \in Coming(t)
  BY DEF Places, TypeOK, Coming
<1>3. \A u \in Users : outgoing[u] \in Queues /\ Sorted(from, outgoing[u])
  BY Stages DEF Ordered, StagesSorted
<1>4. \A u \in Users : Range(Append(outgoing[u], m)) = Range(outgoing[u]) \cup {m}
  BY <1>2, <1>3, QueueAppend
<1>5. \A u \in Users :
         outgoing'[u] = IF u \in Clients(t) THEN Append(outgoing[u], m) ELSE outgoing[u]
  BY <1>1
<1>6. \A p \in Servers : slot'[p] = IF p = t THEN {} ELSE slot[p]
  BY <1>1 DEF Places, TypeOK
<1>7. Unread' = Unread /\ \A p \in Servers : OnWire(p)' = OnWire(p)
  BY <1>1 DEF Unread, OnWire
<1>8. \A p \in Servers : Coming(p)' \subseteq Coming(p)
  BY <1>6, <1>7 DEF Coming
<1>9. Before(from, {m}, Coming(t)')
  BY <1>6, <1>7 DEF Coming, Ordered, ServersInOrder, Before
<1>10. ASSUME NEW u \in Users, ws[u] # 0
       PROVE  /\ Before(from, Range(outgoing[u]), Coming(Server(ws[u])))
              /\ Before(from, ShownHere(u), Coming(Server(ws[u])) \cup Range(outgoing[u]))
              /\ Server(ws[u]) \in Servers
  BY <1>10, Connected DEF Ordered, PagesInOrder
<1>11. StagesSorted'
  <2>1. ASSUME NEW u \in Users
        PROVE  Sorted(from, outgoing'[u])
    <3>1. CASE u \in Clients(t)
      <4>1. Before(from, Range(outgoing[u]), {m})
        BY <1>2, <1>10, <3>1 DEF Clients, Before
      <4>2. Sorted(from, Append(outgoing[u], m))
        BY <1>2, <1>3, <4>1, SortedAppend, Zenon DEF Queues
      <4> QED
        BY <1>5, <3>1, <4>2
    <3>2. CASE u \notin Clients(t)
      BY <1>3, <1>5, <3>2
    <3> QED
      BY <3>1, <3>2
  <2> QED
    BY <1>1, <2>1 DEF Ordered, StagesSorted
<1>12. ServersInOrder'
  BY <1>1, <1>6, <1>7 DEF Ordered, ServersInOrder, Before
<1>13. PagesInOrder'
  <2> SUFFICES ASSUME NEW u \in Users, ws[u] # 0, NEW p, p = Server(ws[u])
               PROVE  /\ Before(from, Range(outgoing'[u]), Coming(p)')
                      /\ Before(from, ShownHere(u), Coming(p)' \cup Range(outgoing'[u]))
    <3>1. \A u \in Users : /\ Server(ws[u])' = Server(ws[u])
                           /\ ShownHere(u)' = ShownHere(u) /\ ws'[u] = ws[u]
      BY <1>1 DEF Server, ShownHere
    <3>2. \A u \in Users : \A p : p = Server(ws[u])' => Coming(Server(ws[u]))' = Coming(p)'
      BY DEF Coming, OnWire
    <3> QED
      BY <1>1, <3>1, <3>2 DEF PagesInOrder
  <2>1. p \in Servers
    BY <1>10
  <2>2. CASE u \in Clients(t)
    <3>1. p = t
      BY <2>2 DEF Clients
    <3>2. Range(outgoing'[u]) = Range(outgoing[u]) \cup {m}
      BY <1>4, <1>5, <2>2
    <3> QED
      BY <1>2, <1>8, <1>9, <1>10, <2>1, <3>1, <3>2 DEF Before
  <2>3. CASE u \notin Clients(t)
    BY <1>5, <1>8, <1>10, <2>1, <2>3 DEF Before
  <2> QED
    BY <2>2, <2>3
<1>14. InOrder'
  BY <1>1 DEF Ordered, InOrder
<1> QED
  BY <1>11, <1>12, <1>13, <1>14 DEF Ordered

(***************************************************************************)
(* What disappears with a server leaves the rest in order.                 *)
(***************************************************************************)
LEMMA StopOrder ==
    ASSUME Places, Ordered, NEW s \in Servers, Stop(s)
    PROVE  Ordered'
<1>1. /\ ws' = [u \in Users |-> IF u \in Clients(s) THEN 0 ELSE ws[u]]
      /\ incoming' = [k \in 1..MaxConnects |->
                       IF k <= Len(sockets) /\ Server(k) = s THEN <<>> ELSE incoming[k]]
      /\ outgoing' = [u \in Users |-> IF u \in Clients(s) THEN <<>> ELSE outgoing[u]]
      /\ wire' = [t \in Servers |-> [r \in Servers |-> IF s \in {t, r} THEN <<>> ELSE wire[t][r]]]
      /\ slot' = [slot EXCEPT ![s] = {}]
      /\ UNCHANGED <<sockets, messages, from>>
  BY DEF Stop, sentVars
<1>2. Range(<<>>) = {} /\ \A f : Sorted(f, <<>>)
  BY EmptyQueue
<1>3. \A k \in 1..MaxConnects : incoming'[k] \in {<<>>, incoming[k]}
  BY <1>1
<1>4. \A r, t \in Servers : wire'[r][t] \in {<<>>, wire[r][t]}
  BY <1>1
<1>5. \A u \in Users : /\ outgoing'[u] \in {<<>>, outgoing[u]}
                       /\ ws'[u] # 0 => ws'[u] = ws[u]
  BY <1>1
<1>6. /\ Unread' \subseteq Unread
      /\ \A t \in Servers : OnWire(t)' \subseteq OnWire(t) /\ slot'[t] \subseteq slot[t]
      /\ \A u \in Users : Range(outgoing'[u]) \subseteq Range(outgoing[u])
  BY <1>1, <1>2, <1>3, <1>4, <1>5 DEF Unread, OnWire, Places, TypeOK
<1>7. StagesSorted'
  BY <1>1, <1>2, <1>3, <1>4, <1>5 DEF Ordered, StagesSorted
<1>8. ServersInOrder'
  BY <1>1, <1>6 DEF Ordered, ServersInOrder, Before
<1>9. \A t \in Servers : Coming(t)' \subseteq Coming(t)
  BY <1>6 DEF Coming
<1>10. PagesInOrder'
  <2> SUFFICES ASSUME NEW u \in Users, ws'[u] # 0, NEW p, p = Server(ws[u])
               PROVE  /\ Before(from, Range(outgoing'[u]), Coming(p)')
                      /\ Before(from, ShownHere(u), Coming(p)' \cup Range(outgoing'[u]))
    <3>1. \A u \in Users : ws'[u] # 0 => Server(ws[u])' = Server(ws[u])
                                       /\ ShownHere(u)' = ShownHere(u)
      BY <1>1, <1>5 DEF Server, ShownHere
    <3>2. \A u \in Users : \A p : p = Server(ws[u])' => Coming(Server(ws[u]))' = Coming(p)'
      BY DEF Coming, OnWire
    <3> QED
      BY <1>1, <3>1, <3>2 DEF PagesInOrder
  <2>1. ws[u] # 0 /\ p \in Servers
    BY <1>5, Connected
  <2> QED
    BY <1>6, <1>9, <2>1 DEF Ordered, PagesInOrder, Before
<1>11. InOrder'
  BY <1>1 DEF Ordered, InOrder
<1> QED
  BY <1>7, <1>8, <1>10, <1>11 DEF Ordered

(***************************************************************************)
(* Nothing has been shown or is on its way over a new socket.              *)
(***************************************************************************)
LEMMA ConnectOrder ==
    ASSUME Places, Ordered, NEW u \in Users, NEW s \in Servers, Connect(u, s)
    PROVE  Ordered'
<1>1. /\ outgoing' = [outgoing EXCEPT ![u] = <<>>]
      /\ UNCHANGED <<incoming, messages, wire, slot, from>>
  BY DEF Connect, topicVars, sentVars
<1>2. Range(<<>>) = {} /\ \A f : Sorted(f, <<>>)
  BY EmptyQueue
<1>3. \A v \in Users : outgoing'[v] = IF v = u THEN <<>> ELSE outgoing[v]
  BY <1>1 DEF Places, TypeOK
<1>4. /\ ws'[u] \notin 1..Len(sockets)
      /\ \A v \in Users : v # u => ws'[v] = ws[v]
      /\ \A k \in 1..Len(sockets) : Server(k)' = Server(k)
  <2>1. CASE up[s] = "up"
    <3>1. sockets' = Append(sockets, <<u, s>>) /\ ws' = [ws EXCEPT ![u] = Len(sockets) + 1]
      BY <2>1 DEF Connect
    <3>2. Len(sockets) \in Nat /\ \A k \in 1..Len(sockets) : Server(k)' = Server(k)
      BY <3>1, SocketAppend DEF Places
    <3> QED
      BY <3>1, <3>2 DEF Places, TypeOK
  <2>2. CASE up[s] # "up"
    BY <2>2 DEF Connect, Places, TypeOK, Server
  <2> QED
    BY <2>1, <2>2
<1>5. \A t : Coming(t)' = Coming(t)
  BY <1>1 DEF Coming, Unread, OnWire
<1>6. StagesSorted'
  BY <1>1, <1>2, <1>3 DEF Ordered, StagesSorted
<1>7. ServersInOrder'
  BY <1>1 DEF Ordered, ServersInOrder, Before, Unread, OnWire
<1>8. ShownHere(u)' = {}
  <2> SUFFICES ASSUME NEW i \in DOMAIN messages[u], messages[u][i][1] = ws'[u]
               PROVE  FALSE
    BY <1>1 DEF ShownHere
  <2>1. messages[u][i] \in (1..Len(sockets)) \X Sent
    BY DEF Places, InPlace, Range
  <2> QED
    BY <1>4, <2>1
<1>9. PagesInOrder'
  <2> SUFFICES ASSUME NEW v \in Users, ws'[v] # 0, NEW p, p = Server(ws[v])'
               PROVE  /\ Before(from, Range(outgoing'[v]), Coming(p)')
                      /\ Before(from, ShownHere(v)', Coming(p)' \cup Range(outgoing'[v]))
    <3>1. \A v \in Users : \A p : p = Server(ws[v])' => Coming(Server(ws[v]))' = Coming(p)'
      BY DEF Coming, OnWire
    <3> QED
      BY <1>1, <3>1 DEF PagesInOrder
  <2>1. CASE v = u
    BY <1>2, <1>3, <1>8, <2>1 DEF Before
  <2>2. CASE v # u
    <3>1. ws[v] # 0 /\ ws'[v] = ws[v] /\ ws[v] \in 1..Len(sockets)
      BY <1>4, <2>2, Connected
    <3>2. p = Server(ws[v])
      <4>1. \A k : k = ws'[v] => Server(ws[v])' = Server(k)'
        BY DEF Server
      <4> QED
        BY <1>4, <3>1, <4>1
    <3>3. ShownHere(v)' = ShownHere(v) /\ outgoing'[v] = outgoing[v]
      BY <1>1, <1>3, <2>2, <3>1 DEF ShownHere
    <3> QED
      BY <1>5, <3>1, <3>2, <3>3 DEF Ordered, PagesInOrder
  <2> QED
    BY <2>1, <2>2
<1>10. InOrder'
  BY <1>1 DEF Ordered, InOrder
<1> QED
  BY <1>6, <1>7, <1>9, <1>10 DEF Ordered

(***************************************************************************)
(* A new message does not change the order of those sent before it, and    *)
(* comes after them.                                                       *)
(***************************************************************************)
LEMMA SentLater ==
    ASSUME Places, NEW u \in Users, Send(u), NEW m, m = Len(from) + 1
    PROVE  /\ \A M, N \in SUBSET Sent : Before(from, M, N) => Before(from', M, N \cup {m})
           /\ \A q \in Queues : Range(q) \subseteq Sent /\ Sorted(from, q) => Sorted(from', q)
<1>1. \A x \in Sent : x < m /\ from'[x] = from[x]
  BY FromAppend
<1>2. \A M, N \in SUBSET Sent : Before(from, M, N) => Before(from', M, N \cup {m})
  BY <1>1 DEF Before
<1>3. ASSUME NEW q \in Queues, Range(q) \subseteq Sent, Sorted(from, q)
      PROVE  Sorted(from', q)
  <2>1. \A i \in DOMAIN q : q[i] \in Sent
    BY <1>3 DEF Range
  <2> QED
    BY <1>1, <1>3, <2>1 DEF Sorted
<1> QED
  BY <1>2, <1>3

(***************************************************************************)
(* The newest message comes last in the queue of its socket.               *)
(***************************************************************************)
LEMMA SendOrder ==
    ASSUME Places, Ordered, NEW u \in Users, Send(u)
    PROVE  Ordered'
<1> DEFINE m == Len(from) + 1
<1>1. /\ m \in 1..MaxMessages /\ ws[u] \in 1..MaxConnects
      /\ \A x \in Sent : x < m /\ from'[x] = from[x]
  BY FromAppend
<1>2. /\ incoming' = [incoming EXCEPT ![ws[u]] = Append(@, m)]
      /\ UNCHANGED <<sockets, ws, outgoing, messages, wire, slot>>
  BY DEF Send, pageVars, topicVars
<1>3. /\ \A M, N \in SUBSET Sent : Before(from, M, N) => Before(from', M, N \cup {m})
      /\ \A q \in Queues : Range(q) \subseteq Sent /\ Sorted(from, q) => Sorted(from', q)
  BY SentLater
<1>4. from'[m] = ws[u]
  BY FromAppend
<1> HIDE DEF m
<1>5. \A k \in 1..MaxConnects :
         incoming'[k] = IF k = ws[u] THEN Append(incoming[k], m) ELSE incoming[k]
  BY <1>2 DEF Places, TypeOK
<1>6. \A k \in 1..MaxConnects : Range(Append(incoming[k], m)) = Range(incoming[k]) \cup {m}
  BY <1>1, Stages, QueueAppend
<1>7. Unread' \subseteq Unread \cup {m}
  BY <1>5, <1>6 DEF Unread
<1>8. \A t : /\ OnWire(t)' = OnWire(t)
             /\ Coming(t)' \subseteq Coming(t) \cup {m}
  BY <1>2, <1>7 DEF Coming, OnWire
<1>9. StagesSorted'
  <2>1. ASSUME NEW k \in 1..MaxConnects
        PROVE  Sorted(from', incoming'[k])
    <3>1. /\ incoming[k] \in Queues /\ Range(incoming[k]) \subseteq Sent
          /\ Sorted(from, incoming[k])
      BY Stages DEF Ordered, StagesSorted, Places, InPlace
    <3>2. Sorted(from', incoming[k])
      BY <1>3, <3>1
    <3>3. Before(from', Range(incoming[k]), {m})
      BY <1>1, <3>1 DEF Before
    <3>4. Sorted(from', Append(incoming[k], m))
      BY <1>1, <3>1, <3>2, <3>3, SortedAppend, Zenon DEF Queues
    <3> QED
      BY <1>5, <3>2, <3>4
  <2>2. ASSUME NEW s \in Servers, NEW t \in Servers
        PROVE  Sorted(from', wire[s][t])
    <3>1. Range(wire[s][t]) \subseteq Sent /\ Sorted(from, wire[s][t]) /\ wire[s][t] \in Queues
      BY Stages DEF Ordered, StagesSorted, Places, InPlace
    <3> QED
      BY <1>3, <3>1
  <2>3. ASSUME NEW v \in Users
        PROVE  Sorted(from', outgoing[v])
    <3>1. Range(outgoing[v]) \subseteq Sent /\ Sorted(from, outgoing[v]) /\ outgoing[v] \in Queues
      BY Stages DEF Ordered, StagesSorted, Places, InPlace
    <3> QED
      BY <1>3, <3>1
  <2> QED
    BY <1>2, <2>1, <2>2, <2>3 DEF StagesSorted
<1>10. ServersInOrder'
  <2> SUFFICES ASSUME NEW t \in Servers
               PROVE  /\ Before(from', OnWire(t), Unread')
                      /\ Before(from', slot[t], Unread' \cup OnWire(t))
    BY <1>2, <1>8 DEF ServersInOrder
  <2>1. OnWire(t) \subseteq Sent /\ Unread \subseteq Sent /\ slot[t] \subseteq Sent
    BY Stages DEF Places, InPlace
  <2>2. /\ Before(from', OnWire(t), Unread \cup {m})
        /\ Before(from', slot[t], (Unread \cup OnWire(t)) \cup {m})
    <3>1. Unread \cup OnWire(t) \in SUBSET Sent
      BY <2>1
    <3>2. Before(from, OnWire(t), Unread) /\ Before(from, slot[t], Unread \cup OnWire(t))
      BY DEF Ordered, ServersInOrder
    <3> QED
      BY <1>3, <2>1, <3>1, <3>2
  <2> QED
    BY <1>7, <2>2 DEF Before
<1>11. PagesInOrder'
  <2> SUFFICES ASSUME NEW v \in Users, ws[v] # 0, NEW p, p = Server(ws[v])
               PROVE  /\ Before(from', Range(outgoing[v]), Coming(p)')
                      /\ Before(from', ShownHere(v), Coming(p)' \cup Range(outgoing[v]))
    <3>1. \A v \in Users : /\ Server(ws[v])' = Server(ws[v])
                           /\ ShownHere(v)' = ShownHere(v) /\ ws'[v] = ws[v]
      BY <1>2 DEF Server, ShownHere
    <3>2. \A v \in Users : \A p : p = Server(ws[v])' => Coming(Server(ws[v]))' = Coming(p)'
      BY DEF Coming, OnWire
    <3> QED
      BY <1>2, <3>1, <3>2 DEF PagesInOrder
  <2>1. /\ Coming(p) \subseteq Sent /\ Range(outgoing[v]) \subseteq Sent
        /\ ShownHere(v) \subseteq Sent
    BY Connected, Stages DEF Places, InPlace
  <2>2. /\ Before(from, Range(outgoing[v]), Coming(p))
        /\ Before(from, ShownHere(v), Coming(p) \cup Range(outgoing[v]))
    BY DEF Ordered, PagesInOrder
  <2>3. /\ Before(from', Range(outgoing[v]), Coming(p) \cup {m})
        /\ Before(from', ShownHere(v), (Coming(p) \cup Range(outgoing[v])) \cup {m})
    <3>1. Coming(p) \cup Range(outgoing[v]) \in SUBSET Sent
      BY <2>1
    <3> QED
      BY <1>3, <2>1, <2>2, <3>1
  <2> QED
    BY <1>8, <2>3 DEF Before
<1>12. InOrder'
  <2>1. \A v \in Users : \A i \in DOMAIN messages[v] : from'[messages[v][i][2]] = from[messages[v][i][2]]
    <3> TAKE v \in Users
    <3> TAKE i \in DOMAIN messages[v]
    <3>1. messages[v][i] \in (1..Len(sockets)) \X Sent
      BY DEF Places, InPlace, Range
    <3> QED
      BY <1>1, <3>1
  <2> QED
    BY <1>2, <2>1 DEF Ordered, InOrder
<1> QED
  BY <1>9, <1>10, <1>11, <1>12 DEF Ordered

(***************************************************************************)
(* What a page shows next came before the rest on its socket, and after all*)
(* it has shown since it came to this server.                              *)
(***************************************************************************)
LEMMA ShowMessageOrder ==
    ASSUME Places, Ordered, NEW u \in Users, ShowMessage(u)
    PROVE  Ordered'
<1> DEFINE m == Head(outgoing[u])
           e == <<ws[u], m>>
           n == Len(messages[u])
<1>1. /\ outgoing[u] # <<>>
      /\ outgoing' = [outgoing EXCEPT ![u] = Tail(@)]
      /\ messages' = [messages EXCEPT ![u] = Append(@, e)]
      /\ UNCHANGED <<sockets, ws, incoming, wire, slot, from>>
  BY DEF ShowMessage, socketVars, topicVars, sentVars
<1>2. /\ m \in 1..MaxMessages
      /\ Range(outgoing[u]) = Range(Tail(outgoing[u])) \cup {m}
      /\ Sorted(from, Tail(outgoing[u])) /\ Before(from, {m}, Range(Tail(outgoing[u])))
  <2>1. outgoing[u] \in Queues /\ Sorted(from, outgoing[u])
    BY Stages DEF Ordered, StagesSorted
  <2>2. Sorted(from, Tail(outgoing[u])) /\ Before(from, {m}, Range(Tail(outgoing[u])))
    BY <1>1, <2>1, SortedTail DEF Queues
  <2> QED
    BY <1>1, <2>1, <2>2, QueueTail
<1>3. e[1] = ws[u] /\ e[2] = m /\ ws[u] # 0
  BY <1>1 DEF Places, InPlace
<1>4. /\ n \in Nat
      /\ DOMAIN messages[u] = 1..n
      /\ DOMAIN Append(messages[u], e) = 1..(n + 1)
      /\ \A i \in 1..n : Append(messages[u], e)[i] = messages[u][i]
      /\ Append(messages[u], e)[n + 1] = e
  <2> DEFINE S == (1..MaxConnects) \X (1..MaxMessages)
  <2>1. messages[u] \in Seq(S)
    BY DEF Places, TypeOK
  <2>2. ws[u] \in 1..MaxConnects
    BY <1>3, ChatBounds DEF Places, TypeOK
  <2>3. e \in S
    BY <1>2, <2>2
  <2> HIDE DEF S, e
  <2> QED
    BY <2>1, <2>3, AppendProperties, LenProperties
<1> HIDE DEF m, e, n
<1>5. \A v \in Users : /\ outgoing'[v] = IF v = u THEN Tail(outgoing[u]) ELSE outgoing[v]
                       /\ messages'[v] = IF v = u THEN Append(messages[u], e) ELSE messages[v]
  BY <1>1 DEF Places, TypeOK
<1>6. \A v \in Users : Range(outgoing'[v]) \subseteq Range(outgoing[v])
  BY <1>2, <1>5
<1>7. \A t : Coming(t)' = Coming(t)
  BY <1>1 DEF Coming, Unread, OnWire
<1>8. StagesSorted'
  BY <1>1, <1>2, <1>5 DEF Ordered, StagesSorted
<1>9. ServersInOrder'
  BY <1>1 DEF Ordered, ServersInOrder, Before, Unread, OnWire
<1>10. /\ ShownHere(u)' \subseteq ShownHere(u) \cup {m}
       /\ \A v \in Users : v # u => ShownHere(v)' = ShownHere(v)
  <2>1. \A v \in Users : v # u => ShownHere(v)' = ShownHere(v)
    BY <1>1, <1>5 DEF ShownHere
  <2>2. ASSUME NEW x \in ShownHere(u)'
        PROVE  x \in ShownHere(u) \cup {m}
    <3>1. PICK i \in 1..(n + 1) : /\ x = Append(messages[u], e)[i][2]
                                 /\ Append(messages[u], e)[i][1] = ws[u]
      BY <1>1, <1>4, <1>5 DEF ShownHere
    <3>2. CASE i \in 1..n
      BY <1>4, <3>1, <3>2 DEF ShownHere
    <3>3. CASE i = n + 1
      BY <1>3, <1>4, <3>1, <3>3
    <3> QED
      BY <1>4, <3>2, <3>3
  <2> QED
    BY <2>1, <2>2
<1>11. PagesInOrder'
  <2> SUFFICES ASSUME NEW v \in Users, ws[v] # 0, NEW p, p = Server(ws[v])
               PROVE  /\ Before(from, Range(outgoing'[v]), Coming(p))
                      /\ Before(from, ShownHere(v)', Coming(p) \cup Range(outgoing'[v]))
    <3>1. \A v \in Users : Server(ws[v])' = Server(ws[v]) /\ ws'[v] = ws[v]
      BY <1>1 DEF Server
    <3>2. \A v \in Users : \A p : p = Server(ws[v])' => Coming(Server(ws[v]))' = Coming(p)'
      BY DEF Coming, OnWire
    <3> QED
      BY <1>1, <1>7, <3>1, <3>2 DEF PagesInOrder
  <2>1. /\ Before(from, Range(outgoing[v]), Coming(p))
        /\ Before(from, ShownHere(v), Coming(p) \cup Range(outgoing[v]))
    BY DEF Ordered, PagesInOrder
  <2>2. CASE v = u
    <3>1. m \in Range(outgoing[u])
      BY <1>2
    <3>2. Before(from, {m}, Coming(p) \cup Range(outgoing'[u]))
      BY <1>2, <1>5, <2>1, <2>2, <3>1 DEF Before
    <3> QED
      BY <1>6, <1>10, <2>1, <2>2, <3>2 DEF Before
  <2>3. CASE v # u
    BY <1>6, <1>10, <2>1, <2>3 DEF Before
  <2> QED
    BY <2>2, <2>3
<1>12. InOrder'
  <2>1. ASSUME NEW i \in 1..(n + 1), NEW j \in 1..(n + 1), i < j,
               Append(messages[u], e)[i][1] = Append(messages[u], e)[j][1],
               from[Append(messages[u], e)[i][2]] = from[Append(messages[u], e)[j][2]]
        PROVE  Append(messages[u], e)[i][2] < Append(messages[u], e)[j][2]
    <3>1. i \in 1..n /\ Append(messages[u], e)[i] = messages[u][i]
      BY <1>4, <2>1
    <3>2. CASE j \in 1..n
      BY <1>4, <2>1, <3>1, <3>2 DEF Ordered, InOrder
    <3>3. CASE j = n + 1
      <4>1. messages[u][i][2] \in ShownHere(u) /\ m \in Range(outgoing[u])
        BY <1>2, <1>3, <1>4, <2>1, <3>1, <3>3 DEF ShownHere
      <4>2. Before(from, ShownHere(u), Range(outgoing[u]))
        BY <1>3 DEF Ordered, PagesInOrder, Before
      <4> QED
        BY <1>3, <1>4, <2>1, <3>1, <3>3, <4>1, <4>2 DEF Before
    <3> QED
      BY <1>4, <3>2, <3>3
  <2>2. ASSUME NEW v \in Users, NEW i \in DOMAIN messages'[v], NEW j \in DOMAIN messages'[v],
               i < j, messages'[v][i][1] = messages'[v][j][1],
               from[messages'[v][i][2]] = from[messages'[v][j][2]]
        PROVE  messages'[v][i][2] < messages'[v][j][2]
    <3>1. CASE v = u
      BY <1>4, <1>5, <2>1, <2>2, <3>1
    <3>2. CASE v # u
      BY <1>5, <2>2, <3>2 DEF Ordered, InOrder
    <3> QED
      BY <3>1, <3>2
  <2> QED
    BY <1>1, <2>2 DEF InOrder
<1> QED
  BY <1>8, <1>9, <1>11, <1>12 DEF Ordered

-----------------------------------------------------------------------------
(* Nothing vanishes. *)

Kept == OneAtATime /\ DueIsSent /\ NothingVanishes

(***************************************************************************)
(* What is due is due to a user's page on a socket that was opened.        *)
(***************************************************************************)
LEMMA DueTypes ==
    ASSUME Places, DueIsSent, NEW p \in due
    PROVE  /\ p[1] \in Sent /\ p[2] \in 1..Len(sockets) /\ p[2] # 0
           /\ User(p[2]) \in Users /\ Server(p[2]) \in Servers
<1>1. p[1] \in Sent /\ p[2] \in 1..Len(sockets)
  BY DEF DueIsSent
<1>2. User(p[2]) \in Users /\ Server(p[2]) \in Servers
  BY <1>1, SocketTypes DEF Places
<1> QED
  BY <1>1, <1>2

(***************************************************************************)
(* NothingVanishes in the next state, with the user and the server named.  *)
(***************************************************************************)
LEMMA NothingVanishesNext ==
    ASSUME \A p \in due' : \A u, s :
              /\ u = User(p[2])' /\ s = Server(p[2])'
              /\ ws'[u] = p[2] /\ <<p[1], s>> \notin lost'
              => p[1] \in Coming(s)' \cup Range(outgoing[u])' \cup ShownHere(u)'
    PROVE  NothingVanishes'
<1> SUFFICES ASSUME NEW p \in due', ~Gone(p[1], p[2])'
             PROVE  (p[1] \in Coming(Server(p[2])) \cup Range(outgoing[User(p[2])])
                              \cup ShownHere(User(p[2])))'
  BY DEF NothingVanishes
<1>1. PICK u, s : u = User(p[2])' /\ s = Server(p[2])'
  OBVIOUS
<1>2. ws'[u] = p[2] /\ <<p[1], s>> \notin lost'
  BY <1>1 DEF Gone
<1>3. p[1] \in Coming(s)' \cup Range(outgoing[u])' \cup ShownHere(u)'
  BY <1>1, <1>2
<1>4. /\ Coming(Server(p[2]))' = Coming(s)'
      /\ Range(outgoing[User(p[2])])' = Range(outgoing[u])'
      /\ ShownHere(User(p[2]))' = ShownHere(u)'
  BY <1>1 DEF Coming, OnWire, ShownHere
<1> QED
  BY <1>3, <1>4

(***************************************************************************)
(* A step that leaves the pages and sockets alone keeps what is due, if it *)
(* keeps what is to come or records it as lost.                            *)
(***************************************************************************)
LEMMA ComingKept ==
    ASSUME Places, Kept, UNCHANGED <<sockets, ws, messages, from, due>>, OneAtATime',
           lost \subseteq lost',
           \A u \in Users : Range(outgoing[u]) \subseteq Range(outgoing[u])',
           \A t \in Servers : \A m \in Coming(t) :
               \/ m \in Coming(t)' \/ <<m, t>> \in lost'
               \/ \A u \in Clients(t) : m \in Range(outgoing[u])'
    PROVE  Kept'
<1>1. DueIsSent'
  BY DEF Kept, DueIsSent, Sent
<1>2. ASSUME NEW p \in due, NEW u, u = User(p[2]), NEW s, s = Server(p[2]),
             ws[u] = p[2], <<p[1], s>> \notin lost'
      PROVE  p[1] \in Coming(s)' \cup Range(outgoing[u])' \cup ShownHere(u)'
  <2>1. u \in Users /\ s \in Servers /\ u \in Clients(s)
    BY <1>2, DueTypes DEF Kept, Clients
  <2>2. p[1] \in Coming(s) \cup Range(outgoing[u]) \cup ShownHere(u)
    BY <1>2 DEF Kept, NothingVanishes, Gone
  <2>3. ShownHere(u)' = ShownHere(u)
    BY DEF ShownHere
  <2>4. CASE p[1] \in Coming(s)
    <3>1. \/ p[1] \in Coming(s)' \/ <<p[1], s>> \in lost'
          \/ \A v \in Clients(s) : p[1] \in Range(outgoing[v])'
      BY <2>1, <2>4
    <3> QED
      BY <1>2, <2>1, <3>1
  <2>5. CASE p[1] \in Range(outgoing[u])
    <3>1. Range(outgoing[u]) \subseteq Range(outgoing[u])'
      BY <2>1
    <3> QED
      BY <2>5, <3>1
  <2>6. CASE p[1] \in ShownHere(u)
    BY <2>3, <2>6
  <2> QED
    BY <2>2, <2>4, <2>5, <2>6
<1>3. NothingVanishes'
  <2>1. \A k : User(k)' = User(k) /\ Server(k)' = Server(k)
    BY DEF User, Server
  <2> QED
    BY <1>2, <2>1, NothingVanishesNext
<1> QED
  BY <1>1, <1>3 DEF Kept

(***************************************************************************)
(* A new server instance takes nothing away.                               *)
(***************************************************************************)
LEMMA InitializeDdsKept ==
    ASSUME Places, Kept, NEW s \in Servers, InitializeDds(s)
    PROVE  Kept'
<1>1. UNCHANGED <<sockets, ws, incoming, outgoing, messages, wire, slot, lost, from, due>>
  BY DEF InitializeDds, socketVars, pageVars, topicVars, sentVars
<1>2. OneAtATime'
  BY <1>1 DEF Kept, OneAtATime
<1>3. \A t \in Servers : Coming(t)' = Coming(t)
  BY <1>1 DEF Coming, OnWire, Unread
<1> QED
  BY <1>1, <1>2, <1>3, ComingKept

(***************************************************************************)
(* Discovery takes nothing away.                                           *)
(***************************************************************************)
LEMMA MatchKept ==
    ASSUME Places, Kept, NEW s \in Servers, NEW t \in Servers, Match(s, t)
    PROVE  Kept'
<1>1. UNCHANGED <<sockets, ws, incoming, outgoing, messages, wire, slot, lost, from, due>>
  BY DEF Match, socketVars, pageVars, topicVars, sentVars
<1>2. OneAtATime'
  BY <1>1 DEF Kept, OneAtATime
<1>3. \A p \in Servers : Coming(p)' = Coming(p)
  BY <1>1 DEF Coming, OnWire, Unread
<1> QED
  BY <1>1, <1>2, <1>3, ComingKept

(***************************************************************************)
(* What a server takes from a socket goes to a wire or is lost, for each   *)
(* server.                                                                 *)
(***************************************************************************)
LEMMA IncomingKept ==
    ASSUME Places, Kept, NEW k \in 1..MaxConnects, Incoming(k)
    PROVE  Kept'
<1> DEFINE m == Head(incoming[k])
           s == Server(k)
<1>1. /\ incoming[k] # <<>> /\ k <= Len(sockets)
      /\ incoming' = [incoming EXCEPT ![k] = Tail(@)]
      /\ UNCHANGED <<sockets, ws, outgoing, messages, slot, from, due>>
  BY DEF Incoming, serverVars, pageVars, sentVars
<1>2. PICK to \in SUBSET Servers :
         /\ wire' = [wire EXCEPT ![s] =
                      [t \in Servers |-> IF t \in to THEN Append(@[t], m) ELSE @[t]]]
         /\ lost' = lost \cup ({m} \X (Servers \ to))
  BY DEF Incoming, WriteUserMessage
<1>3. /\ m \in 1..MaxMessages
      /\ Range(incoming[k]) = Range(Tail(incoming[k])) \cup {m}
  <2>1. incoming[k] \in Queues
    BY Stages
  <2> QED
    BY <1>1, <2>1, QueueTail
<1>4. s \in Servers
  <2>1. sockets \in Seq(Users \X Servers)
    BY DEF Places, TypeOK
  <2>2. k \in 1..Len(sockets)
    BY <1>1, <2>1, LenProperties
  <2> QED
    BY <2>2, SocketTypes DEF Places
<1> HIDE DEF m, s
<1>5. \A j \in 1..MaxConnects : incoming'[j] = IF j = k THEN Tail(incoming[k]) ELSE incoming[j]
  BY <1>1 DEF Places, TypeOK
<1>6. \A r, t \in Servers :
         wire'[r][t] = IF r = s /\ t \in to THEN Append(wire[r][t], m) ELSE wire[r][t]
  BY <1>2 DEF Places, TypeOK
<1>7. \A r, t \in Servers : Range(Append(wire[r][t], m)) = Range(wire[r][t]) \cup {m}
  BY <1>3, Stages, QueueAppend
<1>8. Unread \subseteq Unread' \cup {m}
  <2> SUFFICES ASSUME NEW j \in 1..MaxConnects, NEW x \in Range(incoming[j])
               PROVE  x \in Range(incoming'[j]) \cup {m}
    BY DEF Unread
  <2> QED
    BY <1>3, <1>5
<1>9. \A t \in Servers : OnWire(t) \subseteq OnWire(t)'
  BY <1>6, <1>7 DEF OnWire
<1>10. \A t \in Servers : m \in OnWire(t)' \/ <<m, t>> \in lost'
  <2> TAKE t \in Servers
  <2>1. CASE t \in to
    <3>1. m \in Range(wire'[s][t])
      BY <1>4, <1>6, <1>7, <2>1
    <3> QED
      BY <1>4, <3>1 DEF OnWire
  <2>2. CASE t \notin to
    BY <1>2, <2>2
  <2> QED
    BY <2>1, <2>2
<1>11. \A t \in Servers : \A x \in Coming(t) : x \in Coming(t)' \/ <<x, t>> \in lost'
  BY <1>1, <1>8, <1>9, <1>10 DEF Coming
<1>12. OneAtATime'
  BY <1>1 DEF Kept, OneAtATime
<1>13. lost \subseteq lost'
  BY <1>2
<1> QED
  BY <1>1, <1>11, <1>12, <1>13, ComingKept

(***************************************************************************)
(* A sample that comes into a slot was on the wire; the one it replaces is *)
(* lost.                                                                   *)
(***************************************************************************)
LEMMA DeliverKept ==
    ASSUME Places, Kept, NEW s \in Servers, NEW t \in Servers, Deliver(s, t)
    PROVE  Kept'
<1> DEFINE m == Head(wire[s][t])
<1>1. /\ wire[s][t] # <<>>
      /\ wire' = [wire EXCEPT ![s][t] = Tail(@)]
      /\ slot' = [slot EXCEPT ![t] = {m}]
      /\ lost' = lost \cup (slot[t] \X {t})
      /\ UNCHANGED <<sockets, ws, incoming, outgoing, messages, from, due>>
  BY DEF Deliver, socketVars, pageVars, sentVars
<1>2. Range(wire[s][t]) = Range(Tail(wire[s][t])) \cup {m}
  <2>1. wire[s][t] \in Queues
    BY Stages
  <2> QED
    BY <1>1, <2>1, QueueTail
<1> HIDE DEF m
<1>3. \A r, p \in Servers :
         wire'[r][p] = IF r = s /\ p = t THEN Tail(wire[s][t]) ELSE wire[r][p]
  BY <1>1 DEF Places, TypeOK
<1>4. \A p \in Servers : slot'[p] = IF p = t THEN {m} ELSE slot[p]
  BY <1>1 DEF Places, TypeOK
<1>5. \A p \in Servers : OnWire(p) \subseteq OnWire(p)' \cup slot'[p]
  <2> SUFFICES ASSUME NEW p \in Servers, NEW r \in Servers, NEW x \in Range(wire[r][p])
               PROVE  x \in Range(wire'[r][p]) \cup slot'[p]
    BY DEF OnWire
  <2> QED
    BY <1>2, <1>3, <1>4
<1>6. \A p \in Servers : \A x \in Coming(p) : x \in Coming(p)' \/ <<x, p>> \in lost'
  <2>1. Unread' = Unread
    BY <1>1 DEF Unread
  <2>2. \A p \in Servers : \A x \in slot[p] : x \in slot'[p] \/ <<x, p>> \in lost'
    BY <1>1, <1>4
  <2> QED
    BY <1>5, <2>1, <2>2 DEF Coming
<1>7. OneAtATime'
  BY <1>4 DEF Kept, OneAtATime
<1>8. lost \subseteq lost'
  BY <1>1
<1> QED
  BY <1>1, <1>6, <1>7, <1>8, ComingKept

(***************************************************************************)
(* A sample that is overwritten is lost.                                   *)
(***************************************************************************)
LEMMA OverwrittenKept ==
    ASSUME Places, Kept, NEW s \in Servers, NEW t \in Servers, Overwritten(s, t)
    PROVE  Kept'
<1>1. /\ lost' = lost \cup {<<Head(wire[s][t]), t>>}
      /\ UNCHANGED <<sockets, ws, incoming, outgoing, messages, slot, from, due>>
  BY DEF Overwritten, socketVars, pageVars, sentVars
<1>2. \A p \in Servers : \A x \in OnWire(p) : x \in OnWire(p)' \/ <<x, p>> \in lost'
  <2> SUFFICES ASSUME NEW p \in Servers, NEW r \in Servers, NEW x \in Range(wire[r][p])
               PROVE  x \in Range(wire'[r][p]) \/ <<x, p>> \in lost'
    BY DEF OnWire
  <2> QED
    BY <1>1, OverwrittenWire
<1>3. \A p \in Servers : \A x \in Coming(p) : x \in Coming(p)' \/ <<x, p>> \in lost'
  <2>1. Unread' = Unread
    BY <1>1 DEF Unread
  <2> QED
    BY <1>1, <1>2, <2>1 DEF Coming
<1>4. OneAtATime' /\ lost \subseteq lost'
  BY <1>1 DEF Kept, OneAtATime
<1> QED
  BY <1>1, <1>3, <1>4, ComingKept

(***************************************************************************)
(* A server passes what its slot holds on to all its pages.                *)
(***************************************************************************)
LEMMA OnMessageKept ==
    ASSUME Places, Kept, NEW t \in Servers, OnMessage(t)
    PROVE  Kept'
<1>1. PICK m \in slot[t] :
         /\ slot' = [slot EXCEPT ![t] = {}]
         /\ outgoing' = [u \in Users |-> IF u \in Clients(t)
                                         THEN Append(outgoing[u], m) ELSE outgoing[u]]
         /\ UNCHANGED <<sockets, ws, incoming, messages, wire, lost, from, due>>
  BY DEF OnMessage, socketVars, sentVars
<1>2. m \in 1..MaxMessages /\ slot[t] = {m}
  BY DEF Places, TypeOK, Kept, OneAtATime
<1>3. \A u \in Users : Range(Append(outgoing[u], m)) = Range(outgoing[u]) \cup {m}
  BY <1>2, Stages, QueueAppend
<1>4. \A u \in Users :
         outgoing'[u] = IF u \in Clients(t) THEN Append(outgoing[u], m) ELSE outgoing[u]
  BY <1>1
<1>5. \A p \in Servers : slot'[p] = IF p = t THEN {} ELSE slot[p]
  BY <1>1 DEF Places, TypeOK
<1>6. \A u \in Users : Range(outgoing[u]) \subseteq Range(outgoing[u])'
  BY <1>3, <1>4
<1>7. \A u \in Clients(t) : m \in Range(outgoing[u])'
  BY <1>3, <1>4 DEF Clients
<1>8. \A p \in Servers : \A x \in Coming(p) :
         x \in Coming(p)' \/ \A u \in Clients(p) : x \in Range(outgoing[u])'
  <2>1. Unread' = Unread /\ \A p \in Servers : OnWire(p)' = OnWire(p)
    BY <1>1 DEF Unread, OnWire
  <2>2. \A p \in Servers : \A x \in slot[p] : x \in slot'[p] \/ (p = t /\ x = m)
    BY <1>2, <1>5
  <2> QED
    BY <1>7, <2>1, <2>2 DEF Coming
<1>9. OneAtATime'
  BY <1>5 DEF Kept, OneAtATime
<1> QED
  BY <1>1, <1>6, <1>8, <1>9, ComingKept

(***************************************************************************)
(* What disappears with a server came from it or was on its way to it, and *)
(* is lost.                                                                *)
(***************************************************************************)
LEMMA StopKept ==
    ASSUME Places, Kept, NEW s \in Servers, Stop(s)
    PROVE  Kept'
<1>1. /\ ws' = [u \in Users |-> IF u \in Clients(s) THEN 0 ELSE ws[u]]
      /\ incoming' = [k \in 1..MaxConnects |->
                       IF k <= Len(sockets) /\ Server(k) = s THEN <<>> ELSE incoming[k]]
      /\ outgoing' = [u \in Users |-> IF u \in Clients(s) THEN <<>> ELSE outgoing[u]]
      /\ wire' = [t \in Servers |-> [r \in Servers |-> IF s \in {t, r} THEN <<>> ELSE wire[t][r]]]
      /\ slot' = [slot EXCEPT ![s] = {}]
      /\ UNCHANGED <<sockets, messages, from, due>>
  BY DEF Stop, sentVars
<1>2. lost' = lost \cup {p \in Sent \X Servers : s \in {p[2], Server(from[p[1]])}}
  BY DEF Stop, Sent
<1>3. \A t \in Servers : slot'[t] = IF t = s THEN {} ELSE slot[t]
  BY <1>1 DEF Places, TypeOK
<1>4. OneAtATime' /\ DueIsSent'
  BY <1>1, <1>3 DEF Kept, OneAtATime, DueIsSent, Sent
<1>5. ASSUME NEW p \in due, NEW u, NEW r, u = User(p[2]), r = Server(p[2]),
             ws'[u] = p[2], <<p[1], r>> \notin lost'
      PROVE  p[1] \in Coming(r)' \cup Range(outgoing[u])' \cup ShownHere(u)'
  <2>1. p[1] \in Sent /\ p[2] # 0 /\ u \in Users /\ r \in Servers
    BY <1>5, DueTypes DEF Kept
  <2>2. u \notin Clients(s) /\ ws[u] = p[2]
    BY <1>1, <1>5, <2>1
  <2>3. r # s
    BY <1>5, <2>1, <2>2 DEF Clients
  <2> DEFINE q == Server(from[p[1]])
  <2>4. q # s
    <3>1. <<p[1], r>> \in Sent \X Servers
      BY <2>1
    <3>2. <<p[1], r>>[1] = p[1] /\ <<p[1], r>>[2] = r
      OBVIOUS
    <3> QED
      BY <1>2, <1>5, <3>1, <3>2
  <2>5. <<p[1], r>> \notin lost
    BY <1>2, <1>5
  <2>6. p[1] \in Coming(r) \cup Range(outgoing[u]) \cup ShownHere(u)
    BY <1>5, <2>2, <2>5 DEF Kept, NothingVanishes, Gone
  <2>7. CASE p[1] \in Unread
    <3>1. PICK k \in 1..MaxConnects : p[1] \in Range(incoming[k])
      BY <2>7 DEF Unread
    <3>2. from[p[1]] = k
      BY <3>1 DEF Places, InPlace
    <3>3. incoming'[k] = incoming[k]
      BY <1>1, <2>4, <3>2
    <3> QED
      BY <3>1, <3>3 DEF Unread, Coming
  <2>8. CASE p[1] \in OnWire(r)
    <3>1. PICK t \in Servers : p[1] \in Range(wire[t][r])
      BY <2>8 DEF OnWire
    <3>2. t = q
      BY <2>1, <3>1 DEF Places, InPlace
    <3>3. wire'[t][r] = wire[t][r]
      BY <1>1, <2>1, <2>3, <2>4, <3>2
    <3> QED
      BY <3>1, <3>3 DEF OnWire, Coming
  <2>9. CASE p[1] \in slot[r]
    BY <1>3, <2>1, <2>3, <2>9 DEF Coming
  <2>10. outgoing'[u] = outgoing[u] /\ ShownHere(u)' = ShownHere(u)
    BY <1>1, <1>5, <2>1, <2>2 DEF ShownHere
  <2> QED
    BY <2>6, <2>7, <2>8, <2>9, <2>10 DEF Coming
<1>6. NothingVanishes'
  <2>1. \A k : User(k)' = User(k) /\ Server(k)' = Server(k)
    BY <1>1 DEF User, Server
  <2> QED
    BY <1>1, <1>5, <2>1, NothingVanishesNext
<1> QED
  BY <1>4, <1>6 DEF Kept

(***************************************************************************)
(* Nothing is due yet on a new socket; the other pages keep theirs.        *)
(***************************************************************************)
LEMMA ConnectKept ==
    ASSUME Places, Kept, NEW u \in Users, NEW s \in Servers, Connect(u, s)
    PROVE  Kept'
<1>1. /\ outgoing' = [outgoing EXCEPT ![u] = <<>>]
      /\ UNCHANGED <<incoming, messages, wire, slot, lost, from, due>>
  BY DEF Connect, topicVars, sentVars
<1>2. /\ Len(sockets) \in Nat /\ Len(sockets') \in Nat /\ Len(sockets) <= Len(sockets')
      /\ ws'[u] \notin 1..Len(sockets)
      /\ \A v \in Users : v # u => ws'[v] = ws[v]
      /\ \A k \in 1..Len(sockets) : User(k)' = User(k) /\ Server(k)' = Server(k)
  <2> sockets \in Seq(Users \X Servers)
    BY DEF Places, TypeOK
  <2>1. CASE up[s] = "up"
    <3>1. sockets' = Append(sockets, <<u, s>>) /\ ws' = [ws EXCEPT ![u] = Len(sockets) + 1]
      BY <2>1 DEF Connect
    <3>2. /\ Len(sockets) \in Nat /\ Len(sockets') = Len(sockets) + 1
          /\ \A k \in 1..Len(sockets) : User(k)' = User(k) /\ Server(k)' = Server(k)
      BY <3>1, SocketAppend DEF Places
    <3> QED
      BY <3>1, <3>2 DEF Places, TypeOK
  <2>2. CASE up[s] # "up"
    <3>1. sockets' = sockets /\ ws' = [ws EXCEPT ![u] = 0]
      BY <2>2 DEF Connect
    <3>2. Len(sockets) \in Nat
      BY LenProperties
    <3> QED
      BY <3>1, <3>2 DEF Places, TypeOK, User, Server
  <2> QED
    BY <2>1, <2>2
<1>3. OneAtATime' /\ DueIsSent'
  <2>1. \A k \in 1..Len(sockets) : k \in 1..Len(sockets')
    BY <1>2
  <2> QED
    BY <1>1, <2>1 DEF Kept, OneAtATime, DueIsSent, Sent
<1>4. ASSUME NEW p \in due, NEW v, NEW r, v = User(p[2]), r = Server(p[2]),
             ws'[v] = p[2], <<p[1], r>> \notin lost
      PROVE  p[1] \in Coming(r)' \cup Range(outgoing[v])' \cup ShownHere(v)'
  <2>1. p[2] \in 1..Len(sockets) /\ v \in Users
    BY <1>4, DueTypes DEF Kept
  <2>2. v # u /\ ws[v] = p[2]
    BY <1>2, <1>4, <2>1
  <2>3. p[1] \in Coming(r) \cup Range(outgoing[v]) \cup ShownHere(v)
    BY <1>4, <2>2 DEF Kept, NothingVanishes, Gone
  <2>4. outgoing'[v] = outgoing[v] /\ ShownHere(v)' = ShownHere(v)
    BY <1>1, <1>4, <2>1, <2>2 DEF ShownHere, Places, TypeOK
  <2>5. Coming(r)' = Coming(r)
    BY <1>1 DEF Coming, Unread, OnWire
  <2> QED
    BY <2>3, <2>4, <2>5
<1>5. NothingVanishes'
  <2>1. \A p \in due : User(p[2])' = User(p[2]) /\ Server(p[2])' = Server(p[2])
    BY <1>2, DueTypes DEF Kept
  <2> QED
    BY <1>1, <1>4, <2>1, NothingVanishesNext
<1> QED
  BY <1>3, <1>5 DEF Kept

(***************************************************************************)
(* A new message is unread, and due on the sockets there are.              *)
(***************************************************************************)
LEMMA SendKept ==
    ASSUME Places, Kept, NEW u \in Users, Send(u)
    PROVE  Kept'
<1> DEFINE m == Len(from) + 1
           now == {ws[v] : v \in {w \in Users : ws[w] # 0}}
<1>1. m \in 1..MaxMessages /\ ws[u] \in 1..MaxConnects /\ Sent' = Sent \cup {m}
  BY FromAppend
<1>2. /\ incoming' = [incoming EXCEPT ![ws[u]] = Append(@, m)]
      /\ due' = due \cup ({m} \X now)
      /\ UNCHANGED <<sockets, ws, outgoing, messages, wire, slot, lost>>
  BY DEF Send, pageVars, topicVars
<1>3. now \subseteq 1..Len(sockets)
  BY Connected
<1> HIDE DEF m, now
<1>4. \A k \in 1..MaxConnects :
         incoming'[k] = IF k = ws[u] THEN Append(incoming[k], m) ELSE incoming[k]
  BY <1>2 DEF Places, TypeOK
<1>5. \A k \in 1..MaxConnects : Range(Append(incoming[k], m)) = Range(incoming[k]) \cup {m}
  BY <1>1, Stages, QueueAppend
<1>6. Unread \cup {m} \subseteq Unread'
  <2>1. m \in Unread'
    <3>1. m \in Range(incoming'[ws[u]])
      BY <1>1, <1>4, <1>5
    <3> QED
      BY <1>1, <3>1 DEF Unread
  <2>2. \A k \in 1..MaxConnects : Range(incoming[k]) \subseteq Range(incoming'[k])
    BY <1>4, <1>5
  <2>3. Unread \subseteq Unread'
    BY <2>2 DEF Unread
  <2> QED
    BY <2>1, <2>3
<1>7. \A r : Coming(r) \cup {m} \subseteq Coming(r)'
  BY <1>2, <1>6 DEF Coming, OnWire
<1>8. OneAtATime' /\ DueIsSent'
  BY <1>1, <1>2, <1>3 DEF Kept, OneAtATime, DueIsSent
<1>9. ASSUME NEW p \in due', NEW v, NEW r, v = User(p[2]), r = Server(p[2]),
             ws[v] = p[2], <<p[1], r>> \notin lost
      PROVE  p[1] \in Coming(r)' \cup Range(outgoing[v])' \cup ShownHere(v)'
  <2>1. CASE p[1] = m
    BY <1>7, <2>1
  <2>2. CASE p \in due
    <3>1. p[1] \in Coming(r) \cup Range(outgoing[v]) \cup ShownHere(v)
      BY <1>9, <2>2 DEF Kept, NothingVanishes, Gone
    <3>2. outgoing'[v] = outgoing[v] /\ ShownHere(v)' = ShownHere(v)
      BY <1>2 DEF ShownHere
    <3> QED
      BY <1>7, <3>1, <3>2
  <2> QED
    BY <1>2, <2>1, <2>2
<1>10. NothingVanishes'
  <2>1. \A k : User(k)' = User(k) /\ Server(k)' = Server(k)
    BY <1>2 DEF User, Server
  <2> QED
    BY <1>2, <1>9, <2>1, NothingVanishesNext
<1> QED
  BY <1>8, <1>10 DEF Kept

(***************************************************************************)
(* What leaves a page's socket is shown, since the page came here.         *)
(***************************************************************************)
LEMMA ShowMessageKept ==
    ASSUME Places, Kept, NEW u \in Users, ShowMessage(u)
    PROVE  Kept'
<1> DEFINE m == Head(outgoing[u])
           e == <<ws[u], m>>
           n == Len(messages[u])
<1>1. /\ outgoing[u] # <<>>
      /\ outgoing' = [outgoing EXCEPT ![u] = Tail(@)]
      /\ messages' = [messages EXCEPT ![u] = Append(@, e)]
      /\ UNCHANGED <<sockets, ws, incoming, wire, slot, lost, from, due>>
  BY DEF ShowMessage, socketVars, topicVars, sentVars
<1>2. m \in 1..MaxMessages /\ Range(outgoing[u]) = Range(Tail(outgoing[u])) \cup {m}
  <2>1. outgoing[u] \in Queues
    BY Stages
  <2> QED
    BY <1>1, <2>1, QueueTail
<1>3. e[1] = ws[u] /\ e[2] = m /\ ws[u] # 0
  BY <1>1 DEF Places, InPlace
<1>4. /\ n \in Nat
      /\ DOMAIN messages[u] = 1..n
      /\ DOMAIN Append(messages[u], e) = 1..(n + 1)
      /\ \A i \in 1..n : Append(messages[u], e)[i] = messages[u][i]
      /\ Append(messages[u], e)[n + 1] = e
  <2> DEFINE S == (1..MaxConnects) \X (1..MaxMessages)
  <2>1. messages[u] \in Seq(S)
    BY DEF Places, TypeOK
  <2>2. ws[u] \in 1..MaxConnects
    BY <1>3, ChatBounds DEF Places, TypeOK
  <2>3. e \in S
    BY <1>2, <2>2
  <2> HIDE DEF S, e
  <2> QED
    BY <2>1, <2>3, AppendProperties, LenProperties
<1> HIDE DEF m, e, n
<1>5. \A v \in Users : /\ outgoing'[v] = IF v = u THEN Tail(outgoing[u]) ELSE outgoing[v]
                       /\ messages'[v] = IF v = u THEN Append(messages[u], e) ELSE messages[v]
  BY <1>1 DEF Places, TypeOK
<1>6. ShownHere(u) \cup {m} \subseteq ShownHere(u)'
  <2>0. messages'[u] = Append(messages[u], e)
    BY <1>5
  <2>1. \A i \in 1..n : i \in 1..(n + 1) /\ messages'[u][i] = messages[u][i]
    BY <1>4, <2>0
  <2>2. n + 1 \in 1..(n + 1) /\ messages'[u][n + 1] = e
    BY <1>4, <2>0
  <2>3. DOMAIN messages'[u] = 1..(n + 1)
    BY <1>4, <2>0
  <2> QED
    BY <1>1, <1>3, <1>4, <2>1, <2>2, <2>3 DEF ShownHere
<1>7. \A v \in Users : Range(outgoing[v]) \cup ShownHere(v)
                      \subseteq Range(outgoing[v])' \cup ShownHere(v)'
  <2> TAKE v \in Users
  <2>1. CASE v = u
    BY <1>2, <1>5, <1>6, <2>1
  <2>2. CASE v # u
    BY <1>1, <1>5, <2>2 DEF ShownHere
  <2> QED
    BY <2>1, <2>2
<1>8. OneAtATime' /\ DueIsSent'
  BY <1>1 DEF Kept, OneAtATime, DueIsSent, Sent
<1>9. ASSUME NEW p \in due, NEW v, NEW r, v = User(p[2]), r = Server(p[2]),
             ws[v] = p[2], <<p[1], r>> \notin lost
      PROVE  p[1] \in Coming(r)' \cup Range(outgoing[v])' \cup ShownHere(v)'
  <2>1. p[1] \in Coming(r) \cup Range(outgoing[v]) \cup ShownHere(v)
    BY <1>9 DEF Kept, NothingVanishes, Gone
  <2>2. Coming(r)' = Coming(r)
    BY <1>1 DEF Coming, Unread, OnWire
  <2>3. v \in Users
    BY <1>9, DueTypes DEF Kept
  <2> QED
    BY <1>7, <2>1, <2>2, <2>3
<1>10. NothingVanishes'
  <2>1. \A k : User(k)' = User(k) /\ Server(k)' = Server(k)
    BY <1>1 DEF User, Server
  <2> QED
    BY <1>1, <1>9, <2>1, NothingVanishesNext
<1> QED
  BY <1>8, <1>10 DEF Kept

-----------------------------------------------------------------------------
(***************************************************************************)
(* Wherever messages sent on one socket are on their way to a page, they   *)
(* are in the order in which they were sent; every message is where its    *)
(* socket leads, and none vanishes.                                        *)
(***************************************************************************)
THEOREM Inductive == Spec => []IInv
<1>1. IInv = (Places /\ Ordered /\ Kept)
  BY DEF IInv, Places, Ordered, Kept
<1>2. IInv /\ [Next]_vars => IInv'
  <2> SUFFICES ASSUME Places, Ordered, Kept, [Next]_vars PROVE Places' /\ Ordered' /\ Kept'
    BY DEF IInv, Places, Ordered, Kept
  <2>1. ASSUME NEW k \in 1..MaxConnects, Incoming(k) PROVE Places' /\ Ordered' /\ Kept'
    BY <2>1, IncomingPlaces, IncomingOrder, IncomingKept
  <2>2. ASSUME NEW s \in Servers, NEW t \in Servers, Deliver(s, t) PROVE Places' /\ Ordered' /\ Kept'
    BY <2>2, DeliverPlaces, DeliverOrder, DeliverKept
  <2>3. ASSUME NEW s \in Servers, OnMessage(s) PROVE Places' /\ Ordered' /\ Kept'
    BY <2>3, OnMessagePlaces, OnMessageOrder, OnMessageKept
  <2>4. ASSUME NEW u \in Users, ShowMessage(u) PROVE Places' /\ Ordered' /\ Kept'
    BY <2>4, ShowMessagePlaces, ShowMessageOrder, ShowMessageKept
  <2>5. ASSUME NEW s \in Servers, InitializeDds(s) PROVE Places' /\ Ordered' /\ Kept'
    BY <2>5, InitializeDdsPlaces, InitializeDdsOrder, InitializeDdsKept
  <2>6. ASSUME NEW s \in Servers, Stop(s) PROVE Places' /\ Ordered' /\ Kept'
    BY <2>6, StopPlaces, StopOrder, StopKept
  <2>7. ASSUME NEW u \in Users, Send(u) PROVE Places' /\ Ordered' /\ Kept'
    BY <2>7, SendPlaces, SendOrder, SendKept
  <2>8. ASSUME NEW u \in Users, NEW s \in Servers, Connect(u, s) PROVE Places' /\ Ordered' /\ Kept'
    BY <2>8, ConnectPlaces, ConnectOrder, ConnectKept
  <2>9. ASSUME NEW s \in Servers, NEW t \in Servers, Match(s, t) PROVE Places' /\ Ordered' /\ Kept'
    BY <2>9, MatchPlaces, MatchOrder, MatchKept
  <2>10. ASSUME NEW s \in Servers, NEW t \in Servers, Overwritten(s, t) PROVE Places' /\ Ordered' /\ Kept'
    BY <2>10, OverwrittenPlaces, OverwrittenOrder, OverwrittenKept
  <2>11. CASE UNCHANGED vars
    <3> USE <2>11 DEF vars, serverVars, socketVars, pageVars, topicVars, sentVars
    <3>1. TypeOK'
      BY DEF Places, TypeOK, User, Server
    <3>2. InPlace'
      BY DEF Places, InPlace, Server, Sent
    <3>3. StagesSorted'
      BY DEF Ordered, StagesSorted
    <3>4. ServersInOrder'
      BY DEF Ordered, ServersInOrder, OnWire, Unread
    <3>5. \A t \in Servers : Coming(t)' \subseteq Coming(t)
      BY DEF Coming, OnWire, Unread
    <3>6. PagesInOrder' /\ InOrder'
      BY <3>5, PagesKept, Connected DEF Places, Ordered
    <3>7. \A t \in Servers : Coming(t) \subseteq Coming(t)'
      BY DEF Coming, OnWire, Unread
    <3>8. OneAtATime'
      BY DEF Kept, OneAtATime
    <3>9. Kept'
      BY <3>7, <3>8, ComingKept
    <3> QED
      BY <3>1, <3>2, <3>3, <3>4, <3>6, <3>9 DEF Places, Ordered
  <2> QED
    BY <2>1, <2>2, <2>3, <2>4, <2>5, <2>6, <2>7, <2>8, <2>9, <2>10, <2>11 DEF Next, Pass
<1> QED
  BY InitPlaces, <1>2, PTL DEF Spec

(***************************************************************************)
(* A page shows no message twice as long as it stays where it is, and      *)
(* those sent on one socket in the order in which they were sent.          *)
(***************************************************************************)
THEOREM OrderSafe == Spec => []InOrder
<1>1. IInv => InOrder
  BY DEF IInv
<1> QED
  BY Inductive, <1>1, PTL

(***************************************************************************)
(* A message is shown by every page that was connected when it was sent and*)
(* has stayed, or is still at one of the stages on the way to it, unless it*)
(* was recorded as lost on the way to the page's server.                   *)
(***************************************************************************)
THEOREM NothingIsLostUnseen == Spec => []NothingVanishes
<1>1. IInv => NothingVanishes
  BY DEF IInv
<1> QED
  BY Inductive, <1>1, PTL

=============================================================================
