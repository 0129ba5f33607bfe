---------------------------------- MODULE Chat ----------------------------------
(***************************************************************************)
(* The chat demo (node-websocket-chat): web pages connected to instances   *)
(* of a server, which pass the users' messages to each other on a topic.   *)
(* A message goes to all servers and from each of them to all its clients, *)
(* the sender among them.                                                  *)
(*                                                                         *)
(* External: a web socket is a queue in each direction; a writer sends to  *)
(* the readers it has discovered, in order to each; writer and reader keep *)
(* the last sample (no history is asked for), the reader until the event   *)
(* loop of node, which runs one callback at a time, takes it.              *)
(***************************************************************************)
EXTENDS Naturals, Sequences, Functions

CONSTANTS
    Servers,
    Users,          \* web pages
    MaxMessages,    \* bound: messages sent
    MaxConnects,    \* bound: clicks on Connect
    MaxFailures     \* bound: entities not created, servers stopped

ASSUME ChatBounds == MaxMessages \in Nat /\ MaxConnects \in Nat /\ MaxFailures \in Nat

VARIABLES
    up,         \* servers: "down", "up" or "stopped"
    writers,    \* servers whose chatWriter was created
    readers,    \* servers whose chatReader was created
    matched,    \* <<s, t>>: the writer of s and the reader of t have discovered each other
    sockets,    \* the sockets opened: <<user, server>>
    ws,         \* the page's socket, or 0
    incoming,   \* messages on the way to the server, per socket
    outgoing,   \* messages on the way to the page
    messages,   \* what the page shows: <<its socket, message>>
    wire,       \* samples on the way from a writer to a reader
    slot,       \* the sample in a reader
    failures,
    (* history *)
    from,       \* the socket each message was sent on; messages are numbered
    due,        \* <<message, socket>>: the socket was a page's when it was sent
    lost        \* <<message, server>>: it will not come to the server

serverVars == <<up, writers, readers, matched, failures>>
socketVars == <<sockets, ws, incoming>>
pageVars == <<outgoing, messages>>
topicVars == <<wire, slot, lost>>
sentVars == <<from, due>>
vars == <<serverVars, socketVars, pageVars, topicVars, sentVars>>

Init ==
    /\ up = [s \in Servers |-> "down"]
    /\ writers = {} /\ readers = {} /\ matched = {}
    /\ sockets = <<>>
    /\ ws = [u \in Users |-> 0]
    /\ incoming = [k \in 1..MaxConnects |-> <<>>]
    /\ outgoing = [u \in Users |-> <<>>]
    /\ messages = [u \in Users |-> <<>>]
    /\ wire = [s \in Servers |-> [t \in Servers |-> <<>>]]
    /\ slot = [s \in Servers |-> {}]
    /\ failures = 0
    /\ from = <<>> /\ due = {} /\ lost = {}

User(k) == sockets[k][1]
Server(k) == sockets[k][2]

\* The pages among the server's clients.
Clients(s) == {u \in Users : ws[u] # 0 /\ Server(ws[u]) = s}

-----------------------------------------------------------------------------
(* The server. *)

\* That a writer or reader could not be created is only logged.
InitializeDds(s) ==
    /\ up[s] = "down"
    /\ up' = [up EXCEPT ![s] = "up"]
    /\ \/ writers' = writers \cup {s} /\ readers' = readers \cup {s} /\ UNCHANGED failures
       \/ /\ failures < MaxFailures /\ failures' = failures + 1
          /\ \/ writers' = writers \cup {s} /\ UNCHANGED readers
             \/ readers' = readers \cup {s} /\ UNCHANGED writers
    /\ UNCHANGED <<matched, socketVars, pageVars, topicVars, sentVars>>

\* Discovery, at any time after both were created.
Match(s, t) ==
    /\ s \in writers /\ t \in readers /\ <<s, t>> \notin matched
    /\ matched' = matched \cup {<<s, t>>}
    /\ UNCHANGED <<up, writers, readers, failures, socketVars, pageVars, topicVars, sentVars>>

\* To the readers matched by now: a reader that comes later gets nothing old.  A
\* write that throws is only logged: the message is dropped, as without a writer.
WriteUserMessage(s, m) ==
    \E to \in {{t \in Servers : <<s, t>> \in matched}, {}} :
       /\ wire' = [wire EXCEPT ![s] =
                      [t \in Servers |-> IF t \in to THEN Append(@[t], m) ELSE @[t]]]
       /\ lost' = lost \cup ({m} \X (Servers \ to))

\* A later sample takes the place of one that the writer has not sent yet.
Overwritten(s, t) ==
    /\ Len(wire[s][t]) > 1
    /\ wire' = [wire EXCEPT ![s][t] = Tail(@)]
    /\ lost' = lost \cup {<<Head(wire[s][t]), t>>}
    /\ UNCHANGED <<serverVars, socketVars, pageVars, slot, sentVars>>

\* As before there was a topic, the message also goes to the server's other clients.
Incoming_M(k) ==
    /\ k <= Len(sockets) /\ incoming[k] # <<>>
    /\ incoming' = [incoming EXCEPT ![k] = Tail(@)]
    /\ WriteUserMessage(Server(k), Head(incoming[k]))
    /\ outgoing' = [u \in Users |-> IF u \in Clients(Server(k)) \ {User(k)}
                       THEN Append(outgoing[u], Head(incoming[k])) ELSE outgoing[u]]
    /\ UNCHANGED <<serverVars, sockets, ws, messages, slot, sentVars>>

Incoming(k) ==
    /\ k <= Len(sockets) /\ incoming[k] # <<>>
    /\ incoming' = [incoming EXCEPT ![k] = Tail(@)]
    /\ WriteUserMessage(Server(k), Head(incoming[k]))
    /\ UNCHANGED <<serverVars, sockets, ws, pageVars, slot, sentVars>>

\* Takes the place of a sample that has not been taken.
Deliver(s, t) ==
    /\ wire[s][t] # <<>>
    /\ wire' = [wire EXCEPT ![s][t] = Tail(@)]
    /\ slot' = [slot EXCEPT ![t] = {Head(wire[s][t])}]
    /\ lost' = lost \cup (slot[t] \X {t})
    /\ UNCHANGED <<serverVars, socketVars, pageVars, sentVars>>

\* The client that sent the message does not get it back.
OnMessage_M(t) ==
    \E m \in slot[t] :
       /\ slot' = [slot EXCEPT ![t] = {}]
       /\ outgoing' = [u \in Users |-> IF u \in Clients(t) \ {User(from[m])}
                                       THEN Append(outgoing[u], m) ELSE outgoing[u]]
       /\ UNCHANGED <<serverVars, socketVars, messages, wire, lost, sentVars>>

OnMessage(t) ==
    \E m \in slot[t] :
       /\ slot' = [slot EXCEPT ![t] = {}]
       /\ outgoing' = [u \in Users |-> IF u \in Clients(t)
                                       THEN Append(outgoing[u], m) ELSE outgoing[u]]
       /\ UNCHANGED <<serverVars, socketVars, messages, wire, lost, sentVars>>

\* A signal: finalizeDds and exit.  What is on its sockets and wires is gone.
Stop(s) ==
    /\ up[s] = "up"
    /\ failures < MaxFailures /\ failures' = failures + 1
    /\ up' = [up EXCEPT ![s] = "stopped"]
    /\ writers' = writers \ {s} /\ readers' = readers \ {s}
    /\ matched' = {p \in matched : s \notin {p[1], p[2]}}
    /\ ws' = [u \in Users |-> IF u \in Clients(s) THEN 0 ELSE ws[u]]
    /\ incoming' = [k \in 1..MaxConnects |->
                       IF k <= Len(sockets) /\ Server(k) = s THEN <<>> ELSE incoming[k]]
    /\ outgoing' = [u \in Users |-> IF u \in Clients(s) THEN <<>> ELSE outgoing[u]]
    /\ wire' = [t \in Servers |-> [r \in Servers |-> IF s \in {t, r} THEN <<>> ELSE wire[t][r]]]
    /\ slot' = [slot EXCEPT ![s] = {}]
    /\ lost' = lost \cup {p \in (1..Len(from)) \X Servers : s \in {p[2], Server(from[p[1]])}}
    /\ UNCHANGED <<sockets, messages, sentVars>>

-----------------------------------------------------------------------------
(* The page. *)

\* A new socket in place of the one there is, whose messages are no longer shown;
\* none if nothing listens on the port.
Connect(u, s) ==
    /\ IF up[s] = "up"
       THEN /\ Len(sockets) < MaxConnects
            /\ sockets' = Append(sockets, <<u, s>>)
            /\ ws' = [ws EXCEPT ![u] = Len(sockets) + 1]
       ELSE UNCHANGED sockets /\ ws' = [ws EXCEPT ![u] = 0]
    /\ outgoing' = [outgoing EXCEPT ![u] = <<>>]
    /\ UNCHANGED <<serverVars, incoming, messages, topicVars, sentVars>>

\* Without a socket nothing is sent.
Send(u) ==
    LET m == Len(from) + 1
    IN /\ m <= MaxMessages
       /\ ws[u] # 0
       /\ incoming' = [incoming EXCEPT ![ws[u]] = Append(@, m)]
       /\ from' = Append(from, ws[u])
       /\ due' = due \cup ({m} \X {ws[v] : v \in {w \in Users : ws[w] # 0}})
       /\ UNCHANGED <<serverVars, sockets, ws, pageVars, topicVars>>

ShowMessage(u) ==
    /\ outgoing[u] # <<>>
    /\ outgoing' = [outgoing EXCEPT ![u] = Tail(@)]
    /\ messages' = [messages EXCEPT ![u] = Append(@, <<ws[u], Head(outgoing[u])>>)]
    /\ UNCHANGED <<serverVars, socketVars, topicVars, sentVars>>

-----------------------------------------------------------------------------
\* What goes on by itself.
Pass ==
    \/ \E k \in 1..MaxConnects : Incoming(k)
    \/ \E s, t \in Servers : Deliver(s, t)
    \/ \E s \in Servers : OnMessage(s)
    \/ \E u \in Users : ShowMessage(u)

Next ==
    \/ Pass
    \/ \E s \in Servers : InitializeDds(s) \/ Stop(s)
    \/ \E s, t \in Servers : Match(s, t) \/ Overwritten(s, t)
    \/ \E u \in Users : Send(u) \/ \E s \in Servers : Connect(u, s)

\* Sockets and reliable readers deliver, and node's event loop runs.  Nothing is
\* assumed of discovery.
Spec == Init /\ [][Next]_vars /\ WF_vars(Pass)

-----------------------------------------------------------------------------
(***************************************************************************)
(* A page's socket is its own and leads to a server that runs; samples go  *)
(* only from writers to readers that they have discovered.                 *)
(***************************************************************************)
TypeOK ==
    /\ up \in [Servers -> {"down", "up", "stopped"}]
    /\ writers \subseteq Servers /\ readers \subseteq Servers
    /\ matched \subseteq writers \X readers
    /\ sockets \in Seq(Users \X Servers)
    /\ ws \in [Users -> 0..MaxConnects]
    /\ incoming \in [1..MaxConnects -> Seq(1..MaxMessages)]
    /\ outgoing \in [Users -> Seq(1..MaxMessages)]
    /\ messages \in [Users -> Seq((1..MaxConnects) \X (1..MaxMessages))]
    /\ wire \in [Servers -> [Servers -> Seq(1..MaxMessages)]]
    /\ slot \in [Servers -> SUBSET (1..MaxMessages)]
    /\ from \in Seq(1..MaxConnects)
    /\ \A u \in Users : ws[u] # 0 => User(ws[u]) = u /\ up[Server(ws[u])] = "up"
    /\ \A s, t \in Servers : wire[s][t] # <<>> => <<s, t>> \in matched

Shown(u) == {messages[u][i][2] : i \in DOMAIN messages[u]}

(***************************************************************************)
(* A page shows no message twice as long as it stays where it is, and      *)
(* those sent on one socket in the order in which they were sent.  (After  *)
(* it has moved to another server, a message may come again from there.)   *)
(***************************************************************************)
InOrder ==
    \A u \in Users : \A i, j \in DOMAIN messages[u] :
        LET m == messages[u][i]
            n == messages[u][j]
        IN i < j /\ m[1] = n[1] /\ from[m[2]] = from[n[2]] => m[2] < n[2]

(***************************************************************************)
(* A message comes to every page that was connected when it was sent and   *)
(* stays connected, the sender's among them, unless it is lost on the way  *)
(* to the page's server: no writer, a write that fails, a reader that the  *)
(* writer has not discovered yet, a server that stops, a sample replaced by*)
(* a later one before it was sent or before it was taken.  (What is shown  *)
(* or lost stays so, and MaxMessages ends the sending: that all are settled*)
(* again and again says of each that it is in the end.)                    *)
(***************************************************************************)
Gone(m, k) == ws[User(k)] # k \/ <<m, Server(k)>> \in lost

Settled(m, k) == k <= Len(sockets) /\ (m \in Shown(User(k)) \/ Gone(m, k))

MessagesShown == []<>(\A p \in due : Settled(p[1], p[2]))

(***************************************************************************)
(* The inductive invariant behind InOrder: wherever a message is on its way*)
(* to a page, those sent before it on the same socket are ahead of it, at  *)
(* each stage and from one stage to the next: the sockets to the servers,  *)
(* the wires to a page's server, its slot, the socket to the page, and what*)
(* the page has shown since it came to that server.                        *)
(***************************************************************************)
\* f gives the socket each message was sent on.
Before(f, M, N) == \A m \in M, n \in N : f[m] = f[n] => m < n
Sorted(f, q) == \A i, j \in DOMAIN q : i < j /\ f[q[i]] = f[q[j]] => q[i] < q[j]

Sent == 1..Len(from)
Unread == UNION {Range(incoming[k]) : k \in 1..MaxConnects}
OnWire(t) == UNION {Range(wire[s][t]) : s \in Servers}
ShownHere(u) == {messages[u][i][2] : i \in {j \in DOMAIN messages[u] : messages[u][j][1] = ws[u]}}

\* Each message is where its socket leads, and every socket there is was opened.
InPlace ==
    /\ \A m \in Sent : from[m] \in 1..Len(sockets)
    /\ \A k \in 1..MaxConnects : \A m \in Range(incoming[k]) : m \in Sent /\ from[m] = k
    /\ \A s, t \in Servers : \A m \in Range(wire[s][t]) : m \in Sent /\ Server(from[m]) = s
    /\ \A t \in Servers : slot[t] \subseteq Sent
    /\ \A u \in Users : Range(outgoing[u]) \subseteq Sent
    /\ \A u \in Users : ws[u] = 0 => outgoing[u] = <<>>
    /\ \A u \in Users : ws[u] <= Len(sockets)
    /\ \A u \in Users : Range(messages[u]) \subseteq (1..Len(sockets)) \X Sent

StagesSorted ==
    /\ \A k \in 1..MaxConnects : Sorted(from, incoming[k])
    /\ \A s, t \in Servers : Sorted(from, wire[s][t])
    /\ \A u \in Users : Sorted(from, outgoing[u])

\* What is still to come to a server, and from it to its pages.
Coming(t) == Unread \cup OnWire(t) \cup slot[t]

ServersInOrder ==
    \A t \in Servers : /\ Before(from, OnWire(t), Unread)
                       /\ Before(from, slot[t], Unread \cup OnWire(t))

PagesInOrder ==
    \A u \in Users : ws[u] # 0 =>
        /\ Before(from, Range(outgoing[u]), Coming(Server(ws[u])))
        /\ Before(from, ShownHere(u), Coming(Server(ws[u])) \cup Range(outgoing[u]))

(***************************************************************************)
(* The safety behind MessagesShown: a message that is due to a page which  *)
(* has stayed, and is not lost, is at one of the stages on the way there.  *)
(***************************************************************************)
OneAtATime == \A t \in Servers : \A m, n \in slot[t] : m = n
DueIsSent == due \subseteq Sent \X (1..Len(sockets))

NothingVanishes ==
    \A p \in due : LET m == p[1]
                       u == User(p[2])
                       s == Server(p[2])
                   IN ~Gone(m, p[2]) => m \in Coming(s) \cup Range(outgoing[u]) \cup ShownHere(u)

IInv ==
    /\ TypeOK /\ InPlace
    /\ StagesSorted /\ ServersInOrder /\ PagesInOrder /\ InOrder
    /\ OneAtATime /\ DueIsSent /\ NothingVanishes

=============================================================================
