------------------------- MODULE DebugServerProofs -------------------------
(***************************************************************************)
(* Theorems about OAG::DebugServer, for any number of objects, clients,    *)
(* requests, constructions and moves.                                      *)
(***************************************************************************)
EXTENDS DebugServer, BlockingIO, FiniteSetTheorems, SequenceTheorems, WellFoundedInduction,
        TLAPS

-----------------------------------------------------------------------------
(* The inductive invariant.                                                *)

\* Whatever waits in a queue was sent by a client that is connected and has no
\* connection yet, and waits there once.
QueueOK ==
  /\ \A s \in Server : \A i \in DOMAIN backlog[s] :
       serverOf[backlog[s][i]] = None /\ peer[backlog[s][i]] # "off"
  /\ \A s, t \in Server : \A i \in DOMAIN backlog[s] : \A j \in DOMAIN backlog[t] :
       backlog[s][i] = backlog[t][j] => s = t /\ i = j
  /\ \A c \in Client : serverOf[c] # None => peer[c] # "off"
  /\ \A c \in Client : peer[c] = "off" =>
       asked[c] = <<>> /\ inbox[c] = <<>> /\ outbox[c] = <<>> /\ c \notin owing

\* A handler works for a connection that is open, and nothing but clients has
\* acted since lists came to share connections.
MainOK ==
  /\ main.at = "idle" => main = Idle
  /\ main.at # "idle" => /\ main.client \in Client /\ serverOf[main.client] # None
                         /\ Defined
  /\ main.at = "reply" => main.command \in Answered

\* The loop of run scans from the front for connections of its own server,
\* which the one being handled is no longer among.
RunOK ==
  /\ run.server = None => run = NotRunning
  /\ run.server # None => /\ Defined /\ run.i = 1
                          /\ sockfd[run.server] # None
                          /\ run.todo \subseteq ToSet(conns[run.server])
                          /\ main.client \notin run.todo

\* The client owes a command exactly if the last header has none yet.
Owes(c) ==
  LET odd == (Len(inbox[c]) + Headless(c)) % 2 = 1
  IN /\ c \in owing => odd
     /\ c \notin owing /\ "stranger" \notin ToSet(inbox[c]) => ~odd

\* In a stream that is in step headers and commands alternate.
Framed ==
  \A c \in Client \ lost : Joined(c) =>
    /\ \A i \in DOMAIN inbox[c] : inbox[c][i] \in Command <=> (i + Headless(c)) % 2 = 0
    /\ Owes(c)

DInv ==
  /\ TypeOK /\ OwnedOnce /\ SocketsHeld /\ QueueOK /\ MainOK /\ RunOK
  /\ Framed /\ RequestsAccounted
-----------------------------------------------------------------------------
(* Sequences.                                                              *)

LEMMA AppendedSet ==
  ASSUME NEW S, NEW q \in Seq(S), NEW e \in S
  PROVE  /\ ToSet(Append(q, e)) = ToSet(q) \cup {e}
         /\ DOMAIN Append(q, e) = 1 .. (Len(q) + 1) /\ DOMAIN q = 1 .. Len(q)
         /\ Len(q) \in Nat
         /\ \A i \in DOMAIN q : Append(q, e)[i] = q[i]
         /\ Append(q, e)[Len(q) + 1] = e
<1>1. /\ Append(q, e) \in Seq(S) /\ Len(q) \in Nat /\ DOMAIN q = 1 .. Len(q)
      /\ Len(Append(q, e)) = Len(q) + 1
      /\ \A i \in 1 .. Len(q) : Append(q, e)[i] = q[i]
      /\ Append(q, e)[Len(q) + 1] = e
  BY AppendProperties, LenProperties
<1>2. DOMAIN Append(q, e) = 1 .. (Len(q) + 1)
  BY <1>1, LenProperties
<1> DEFINE p == Append(q, e)
           n == Len(q)
<1>3. /\ n \in Nat /\ DOMAIN p = 1 .. (n + 1) /\ DOMAIN q = 1 .. n
      /\ \A i \in 1 .. n : p[i] = q[i]
      /\ p[n + 1] = e
  BY <1>1, <1>2
<1> HIDE DEF p, n
<1>4. ToSet(p) = ToSet(q) \cup {e}
  <2>1. \A i \in 1 .. (n + 1) : i \in 1 .. n \/ i = n + 1
    BY <1>3
  <2>2. \A i \in 1 .. n : i \in 1 .. (n + 1)
    BY <1>3
  <2>3. n + 1 \in 1 .. (n + 1)
    BY <1>3
  <2>4. QED BY <1>3, <2>1, <2>2, <2>3 DEF ToSet
<1>5. QED BY <1>1, <1>2, <1>4 DEF p

\* close_connection takes the connection out of the list, and nothing else.
LEMMA ClosedList ==
  ASSUME NEW list \in Seq(Client), NEW c \in ToSet(list),
         \A i, j \in DOMAIN list : list[i] = list[j] => i = j
  PROVE  /\ Closed(list, c) \in Seq(Client)
         /\ ToSet(Closed(list, c)) = ToSet(list) \ {c}
         /\ \A i, j \in DOMAIN Closed(list, c) :
              Closed(list, c)[i] = Closed(list, c)[j] => i = j
<1> DEFINE n == Len(list)
           k == CHOOSE j \in DOMAIN list : list[j] = c
           filled == [list EXCEPT ![k] = list[n]]
           rest == SubSeq(filled, 1, n - 1)
<1>1. n \in Nat /\ DOMAIN list = 1 .. n /\ \A i \in 1 .. n : list[i] \in Client
  BY LenProperties, ElementOfSeq
<1>2. k \in 1 .. n /\ list[k] = c
  BY <1>1 DEF ToSet
<1> HIDE DEF n, k
<1>3. \A i \in 1 .. n : filled[i] = IF i = k THEN list[n] ELSE list[i]
  BY <1>1, <1>2
<1>4. n \in 1 .. n /\ n - 1 \in Nat
  BY <1>1, <1>2
<1>5. \A i \in 1 .. (n - 1) : filled[i] \in Client
  BY <1>1, <1>3, <1>4
<1>6. Len(filled) = n
  <2>1. filled \in Seq(Client) /\ Len(filled) = Len(list)
    BY <1>1, <1>2, <1>4, ExceptSeq DEF n
  <2>2. QED BY <2>1 DEF n
<1>7. Closed(list, c) = rest
  BY <1>6 DEF Closed, Front, Last, k, n
<1> HIDE DEF filled
<1>8. /\ rest \in Seq(Client) /\ Len(rest) = n - 1
      /\ \A i \in 1 .. (n - 1) : rest[i] = filled[i]
  <2>1. 1 \in Int /\ n - 1 \in Int
    BY <1>4
  <2>2. /\ rest \in Seq(Client)
        /\ Len(rest) = IF 1 <= n - 1 THEN (n - 1) - 1 + 1 ELSE 0
        /\ \A i \in 1 .. (n - 1) - 1 + 1 : rest[i] = filled[1 + i - 1]
    BY <1>5, <2>1, SubSeqProperties
  <2> HIDE DEF rest
  <2>3. Len(rest) = n - 1
    BY <1>4, <2>2
  <2>4. ASSUME NEW i \in 1 .. (n - 1) PROVE rest[i] = filled[i]
    <3>1. i \in 1 .. (n - 1) - 1 + 1 /\ 1 + i - 1 = i
      BY <1>1, <1>4
    <3>2. QED BY <2>2, <3>1
  <2>5. QED BY <2>2, <2>3, <2>4
<1> HIDE DEF rest
<1>9. DOMAIN rest = 1 .. (n - 1)
  BY <1>8, LenProperties
<1>10. ToSet(rest) = ToSet(list) \ {c}
  <2>1. ASSUME NEW i \in 1 .. (n - 1)
        PROVE  rest[i] \in ToSet(list) \ {c}
    <3>1. i \in 1 .. n /\ i # n
      BY <1>1, <1>4
    <3>2. CASE i = k
      <4>1. rest[i] = list[n] /\ n # k
        BY <1>3, <1>8, <3>1, <3>2
      <4>2. QED BY <1>1, <1>2, <1>4, <4>1 DEF ToSet
    <3>3. CASE i # k
      <4>1. rest[i] = list[i]
        BY <1>3, <1>8, <3>1, <3>3
      <4>2. QED BY <1>1, <1>2, <3>1, <3>3, <4>1 DEF ToSet
    <3>4. QED BY <3>2, <3>3
  <2>2. ASSUME NEW j \in 1 .. n, list[j] # c
        PROVE  \E i \in 1 .. (n - 1) : rest[i] = list[j]
    <3>1. CASE j = n
      <4>1. k \in 1 .. (n - 1)
        BY <1>1, <1>2, <2>2, <3>1
      <4>2. rest[k] = list[n]
        BY <1>2, <1>3, <1>8, <4>1
      <4>3. QED BY <3>1, <4>1, <4>2
    <3>2. CASE j # n
      <4>1. j \in 1 .. (n - 1) /\ j # k
        BY <1>1, <1>2, <2>2, <3>2
      <4>2. QED BY <1>3, <1>8, <4>1
    <3>3. QED BY <3>1, <3>2
  <2>3. ToSet(rest) = {rest[i] : i \in 1 .. (n - 1)} /\ ToSet(list) = {list[i] : i \in 1 .. n}
    BY <1>1, <1>9 DEF ToSet
  <2>4. ASSUME NEW x \in ToSet(rest) PROVE x \in ToSet(list) \ {c}
    BY <2>1, <2>3
  <2>5. ASSUME NEW x \in ToSet(list), x # c PROVE x \in ToSet(rest)
    <3>1. PICK j \in 1 .. n : x = list[j]
      BY <2>3
    <3>2. PICK i \in 1 .. (n - 1) : rest[i] = list[j]
      BY <2>2, <2>5, <3>1
    <3>3. QED BY <2>3, <3>1, <3>2
  <2>6. QED BY <2>4, <2>5
<1>11. ASSUME NEW i \in 1 .. (n - 1), NEW j \in 1 .. (n - 1), rest[i] = rest[j]
       PROVE  i = j
  <2>1. i \in 1 .. n /\ j \in 1 .. n /\ i # n /\ j # n
    BY <1>1, <1>4
  <2>2. /\ rest[i] = IF i = k THEN list[n] ELSE list[i]
        /\ rest[j] = IF j = k THEN list[n] ELSE list[j]
    BY <1>3, <1>8, <2>1
  <2>3. QED BY <1>1, <1>4, <1>11, <2>1, <2>2
<1>12. QED BY <1>7, <1>8, <1>9, <1>10, <1>11

-----------------------------------------------------------------------------
(* Parts of the state that a step leaves alone.                            *)

LEMMA SameDefined ==
  ASSUME UNCHANGED <<alive, conns, fault>>
  PROVE  Defined' <=> Defined
  BY DEF Defined

LEMMA SameLists ==
  ASSUME OwnedOnce, UNCHANGED <<alive, conns, serverOf, fault>>
  PROVE  OwnedOnce'
  BY SameDefined DEF OwnedOnce

LEMMA SameSockets ==
  ASSUME SocketsHeld, UNCHANGED <<alive, sockfd, backlog>>
  PROVE  SocketsHeld'
  BY DEF SocketsHeld, Listening

LEMMA SameMain ==
  ASSUME MainOK, UNCHANGED <<main, serverOf, alive, conns, fault>>
  PROVE  MainOK'
  BY SameDefined DEF MainOK

LEMMA SameRun ==
  ASSUME RunOK, UNCHANGED <<run, main, sockfd, alive, conns, fault>>
  PROVE  RunOK'
  BY SameDefined DEF RunOK

LEMMA SameQueue ==
  ASSUME QueueOK, UNCHANGED <<backlog, serverOf, peer, asked, owing, inbox, outbox>>
  PROVE  QueueOK'
  BY DEF QueueOK

\* A client's traffic, if neither the client nor the server has moved any of
\* it, and no connection has come about.
LEMMA QuietTraffic ==
  ASSUME Framed, RequestsAccounted, UNCHANGED <<asked, owing, inbox, outbox, lost, main>>,
         \A c \in Client : Joined(c)' => Joined(c)
  PROVE  Framed' /\ RequestsAccounted'
  BY DEF Framed, RequestsAccounted, Owes, Unread, Headless, InHand

-----------------------------------------------------------------------------
(* What waits to be read: commands at every second place.                  *)

Seconds(q, h) == [i \in 1 .. (Len(q) + h) \div 2 |-> q[2 * i - h]]

Alternates(q, h) == \A i \in DOMAIN q : q[i] \in Command <=> (i + h) % 2 = 0

\* Whether the next part to come is a command.
Odd(q, h) == (Len(q) + h) % 2 = 1

LEMMA PartsType ==
  ASSUME NEW q \in Seq(Part), NEW h \in {0, 1}, Alternates(q, h)
  PROVE  Seconds(q, h) \in Seq(Command)
<1> DEFINE n == (Len(q) + h) \div 2
<1>1. Len(q) \in Nat /\ DOMAIN q = 1 .. Len(q)
  BY LenProperties
<1>2. n \in Nat
  BY <1>1
<1>3. ASSUME NEW i \in 1 .. n PROVE q[2 * i - h] \in Command
  <2>1. 2 * i - h \in 1 .. Len(q) /\ (2 * i - h + h) % 2 = 0
    BY <1>1
  <2>2. QED BY <1>1, <2>1 DEF Alternates
<1>4. Seconds(q, h) = [i \in 1 .. n |-> q[2 * i - h]]
  BY DEF Seconds
<1> HIDE DEF n
<1>5. Seconds(q, h) \in [1 .. n -> Command]
  BY <1>3, <1>4
<1>6. QED BY <1>2, <1>5, SeqDef

LEMMA PartsLength ==
  ASSUME NEW q \in Seq(Part), NEW h \in {0, 1}, Alternates(q, h)
  PROVE  /\ Len(Seconds(q, h)) = (Len(q) + h) \div 2
         /\ \A i \in 1 .. (Len(q) + h) \div 2 : Seconds(q, h)[i] = q[2 * i - h]
<1> DEFINE n == (Len(q) + h) \div 2
<1>1. n \in Nat
  BY LenProperties
<1>2. Seconds(q, h) = [i \in 1 .. n |-> q[2 * i - h]]
  BY DEF Seconds
<1>3. \A i \in 1 .. n : Seconds(q, h)[i] = q[2 * i - h]
  BY <1>2
<1>4. DOMAIN Seconds(q, h) = 1 .. n
  BY <1>2
<1> HIDE DEF n
<1>5. Seconds(q, h) \in Seq(Command)
  BY PartsType
<1>6. Len(Seconds(q, h)) \in Nat /\ DOMAIN Seconds(q, h) = 1 .. Len(Seconds(q, h))
  BY <1>5, LenProperties
<1>7. Len(Seconds(q, h)) = n
  BY <1>1, <1>4, <1>6
<1>8. QED BY <1>3, <1>7 DEF n

LEMMA AlternatesAppend ==
  ASSUME NEW q \in Seq(Part), NEW h \in {0, 1}, NEW x \in Part, Alternates(q, h),
         x \in Command <=> Odd(q, h)
  PROVE  Alternates(Append(q, x), h)
<1>1. /\ DOMAIN Append(q, x) = 1 .. (Len(q) + 1) /\ DOMAIN q = 1 .. Len(q)
      /\ Len(q) \in Nat
      /\ \A i \in DOMAIN q : Append(q, x)[i] = q[i]
      /\ Append(q, x)[Len(q) + 1] = x
  BY AppendedSet
<1> DEFINE n == Len(q)
           p == Append(q, x)
<1>2. x \in Command <=> (n + h) % 2 = 1
  BY DEF Odd
<1>3. /\ DOMAIN p = 1 .. (n + 1) /\ n \in Nat /\ DOMAIN q = 1 .. n
      /\ \A i \in 1 .. n : p[i] = q[i]
      /\ p[n + 1] = x
  BY <1>1
<1> HIDE DEF n, p
<1>4. ASSUME NEW i \in 1 .. (n + 1) PROVE p[i] \in Command <=> (i + h) % 2 = 0
  <2>1. CASE i = n + 1
    BY <1>2, <1>3, <2>1
  <2>2. CASE i # n + 1
    <3>1. i \in 1 .. n
      BY <1>3, <2>2
    <3>2. QED BY <1>3, <3>1 DEF Alternates
  <2>3. QED BY <2>1, <2>2
<1>5. QED BY <1>3, <1>4 DEF Alternates, p

LEMMA PartsHeader ==
  ASSUME NEW q \in Seq(Part), NEW h \in {0, 1}, NEW x \in Part, Alternates(q, h),
         ~Odd(q, h), x \notin Command
  PROVE  Seconds(Append(q, x), h) = Seconds(q, h)
<1>1. /\ Len(q) \in Nat /\ Append(q, x) \in Seq(Part) /\ Len(Append(q, x)) = Len(q) + 1
      /\ \A i \in 1 .. Len(q) : Append(q, x)[i] = q[i]
  BY LenProperties, AppendProperties
<1>2. (Len(q) + 1 + h) \div 2 = (Len(q) + h) \div 2
  BY <1>1 DEF Odd
<1>3. ASSUME NEW i \in 1 .. (Len(q) + h) \div 2 PROVE Append(q, x)[2 * i - h] = q[2 * i - h]
  <2>1. 2 * i - h \in 1 .. Len(q)
    BY <1>1
  <2>2. QED BY <1>1, <2>1
<1>4. QED BY <1>1, <1>2, <1>3 DEF Seconds

LEMMA PartsCommand ==
  ASSUME NEW q \in Seq(Part), NEW h \in {0, 1}, NEW x \in Command, Alternates(q, h),
         Odd(q, h)
  PROVE  Seconds(Append(q, x), h) = Append(Seconds(q, h), x)
<1> x \in Part
  BY DEF Part
<1>1. /\ Len(q) \in Nat /\ Append(q, x) \in Seq(Part) /\ Len(Append(q, x)) = Len(q) + 1
      /\ \A i \in 1 .. Len(q) : Append(q, x)[i] = q[i]
      /\ Append(q, x)[Len(q) + 1] = x
  BY LenProperties, AppendProperties
<1> DEFINE n == (Len(q) + h) \div 2
<1>2. n \in Nat /\ (Len(q) + 1 + h) \div 2 = n + 1 /\ 2 * (n + 1) - h = Len(q) + 1
  BY <1>1 DEF Odd
<1>3. Alternates(Append(q, x), h)
  BY AlternatesAppend
<1>4. /\ Seconds(Append(q, x), h) \in Seq(Command) /\ Seconds(q, h) \in Seq(Command)
      /\ Len(Seconds(Append(q, x), h)) = n + 1
      /\ \A i \in 1 .. (n + 1) : Seconds(Append(q, x), h)[i] = Append(q, x)[2 * i - h]
      /\ Len(Seconds(q, h)) = n
      /\ \A i \in 1 .. n : Seconds(q, h)[i] = q[2 * i - h]
  <2>1. /\ Len(Seconds(Append(q, x), h)) = (Len(q) + 1 + h) \div 2
        /\ \A i \in 1 .. (Len(q) + 1 + h) \div 2 :
             Seconds(Append(q, x), h)[i] = Append(q, x)[2 * i - h]
    BY <1>1, <1>3, PartsLength
  <2>2. QED BY <1>1, <1>2, <1>3, <2>1, PartsType, PartsLength
<1>5. /\ Append(Seconds(q, h), x) \in Seq(Command)
      /\ Len(Append(Seconds(q, h), x)) = n + 1
      /\ \A i \in 1 .. n : Append(Seconds(q, h), x)[i] = Seconds(q, h)[i]
      /\ Append(Seconds(q, h), x)[n + 1] = x
  BY <1>4, AppendProperties
<1>6. \A i \in 1 .. n : Append(q, x)[2 * i - h] = q[2 * i - h]
  <2>1. \A i \in 1 .. n : 2 * i - h \in 1 .. Len(q)
    BY <1>1, <1>2
  <2>2. QED BY <1>1, <2>1
<1> HIDE DEF n
<1>7. ASSUME NEW i \in 1 .. (n + 1)
      PROVE  Seconds(Append(q, x), h)[i] = Append(Seconds(q, h), x)[i]
  <2>1. CASE i = n + 1
    BY <1>1, <1>2, <1>4, <1>5, <2>1
  <2>2. CASE i # n + 1
    <3>1. i \in 1 .. n
      BY <1>2, <2>2
    <3>2. QED BY <1>4, <1>5, <1>6, <3>1
  <2>3. QED BY <2>1, <2>2
<1>8. QED BY <1>4, <1>5, <1>7, SeqEqual

LEMMA TailAt ==
  ASSUME NEW S, NEW q \in Seq(S), q # <<>>
  PROVE  /\ Tail(q) \in Seq(S) /\ Head(q) \in S /\ Head(q) = q[1]
         /\ Len(q) \in Nat \ {0} /\ Len(Tail(q)) = Len(q) - 1
         /\ DOMAIN q = 1 .. Len(q) /\ DOMAIN Tail(q) = 1 .. (Len(q) - 1)
         /\ \A i \in 1 .. (Len(q) - 1) : Tail(q)[i] = q[i + 1]
<1>1. /\ Head(q) \in S /\ Tail(q) \in Seq(S) /\ Len(Tail(q)) = Len(q) - 1
      /\ \A i \in 1 .. Len(Tail(q)) : Tail(q)[i] = q[i + 1]
  BY HeadTailProperties
<1>2. Len(q) \in Nat \ {0} /\ DOMAIN q = 1 .. Len(q)
  BY EmptySeq, LenProperties
<1>3. DOMAIN Tail(q) = 1 .. Len(Tail(q))
  BY <1>1, LenProperties
<1>4. Head(q) = q[1]
  OBVIOUS
<1>5. QED BY <1>1, <1>2, <1>3, <1>4

LEMMA AlternatesTail ==
  ASSUME NEW q \in Seq(Part), NEW h \in {0, 1}, Alternates(q, h), q # <<>>
  PROVE  Alternates(Tail(q), 1 - h)
<1> DEFINE p == Tail(q)
           n == Len(q)
<1>1. /\ n \in Nat \ {0} /\ DOMAIN q = 1 .. n /\ DOMAIN p = 1 .. (n - 1)
      /\ \A i \in 1 .. (n - 1) : p[i] = q[i + 1]
  BY TailAt
<1> HIDE DEF p, n
<1>2. ASSUME NEW i \in 1 .. (n - 1) PROVE p[i] \in Command <=> (i + (1 - h)) % 2 = 0
  <2>1. i + 1 \in 1 .. n /\ p[i] = q[i + 1]
    BY <1>1
  <2>2. p[i] \in Command <=> (i + 1 + h) % 2 = 0
    BY <1>1, <2>1 DEF Alternates
  <2>3. (i + 1 + h) % 2 = 0 <=> (i + (1 - h)) % 2 = 0
    BY <1>1
  <2>4. QED BY <2>2, <2>3
<1>3. QED BY <1>1, <1>2 DEF Alternates, p

LEMMA PartsTakeHeader ==
  ASSUME NEW q \in Seq(Part), q # <<>>
  PROVE  Seconds(Tail(q), 1) = Seconds(q, 0)
<1> DEFINE p == Tail(q)
           n == Len(q)
<1>1. /\ n \in Nat \ {0} /\ Len(p) = n - 1
      /\ \A i \in 1 .. (n - 1) : p[i] = q[i + 1]
  BY TailAt
<1>2. /\ Seconds(p, 1) = [i \in 1 .. (Len(p) + 1) \div 2 |-> p[2 * i - 1]]
      /\ Seconds(q, 0) = [i \in 1 .. (n + 0) \div 2 |-> q[2 * i - 0]]
  BY DEF Seconds
<1> HIDE DEF p, n
<1>3. (Len(p) + 1) \div 2 = (n + 0) \div 2
  BY <1>1
<1>4. ASSUME NEW i \in 1 .. (n + 0) \div 2 PROVE p[2 * i - 1] = q[2 * i - 0]
  <2>1. 2 * i - 1 \in 1 .. (n - 1) /\ 2 * i - 1 + 1 = 2 * i - 0
    BY <1>1
  <2>2. QED BY <1>1, <2>1
<1>5. QED BY <1>2, <1>3, <1>4 DEF p

LEMMA PartsTakeCommand ==
  ASSUME NEW q \in Seq(Part), q # <<>>, Alternates(q, 1)
  PROVE  Seconds(q, 1) = <<Head(q)>> \o Seconds(Tail(q), 0)
<1> DEFINE p == Tail(q)
           n == Len(q)
           m == (n - 1) \div 2
<1>1. /\ n \in Nat \ {0} /\ Len(p) = n - 1 /\ p \in Seq(Part) /\ Head(q) = q[1]
      /\ DOMAIN q = 1 .. n
      /\ \A i \in 1 .. (n - 1) : p[i] = q[i + 1]
  BY TailAt
<1>2. Alternates(p, 0)
  <2>1. Alternates(Tail(q), 1 - 1)
    BY AlternatesTail
  <2>2. QED BY <2>1
<1>3. /\ Seconds(q, 1) \in Seq(Command) /\ Seconds(p, 0) \in Seq(Command)
      /\ Len(Seconds(q, 1)) = (n + 1) \div 2
      /\ \A i \in 1 .. (n + 1) \div 2 : Seconds(q, 1)[i] = q[2 * i - 1]
      /\ Len(Seconds(p, 0)) = (Len(p) + 0) \div 2
      /\ \A i \in 1 .. (Len(p) + 0) \div 2 : Seconds(p, 0)[i] = p[2 * i - 0]
  BY <1>1, <1>2, PartsType, PartsLength
<1>4. /\ m \in Nat /\ (n + 1) \div 2 = m + 1 /\ (Len(p) + 0) \div 2 = m
  BY <1>1
<1>5. Head(q) \in Command
  BY <1>1 DEF Alternates
<1>6. /\ <<Head(q)>> \in Seq(Command) /\ Len(<<Head(q)>>) = 1
      /\ <<Head(q)>>[1] = q[1]
  BY <1>1, <1>5
<1> DEFINE both == <<Head(q)>> \o Seconds(p, 0)
<1>7. /\ both \in Seq(Command) /\ Len(both) = 1 + m
      /\ \A i \in 1 .. (1 + m) : both[i] = IF i <= 1 THEN <<Head(q)>>[i]
                                                     ELSE Seconds(p, 0)[i - 1]
  BY <1>3, <1>4, <1>6, ConcatProperties
<1> HIDE DEF p, n, m, both
<1>8. ASSUME NEW i \in 1 .. (m + 1) PROVE Seconds(q, 1)[i] = both[i]
  <2>1. Seconds(q, 1)[i] = q[2 * i - 1]
    BY <1>3, <1>4
  <2>2. CASE i = 1
    BY <1>4, <1>6, <1>7, <2>1, <2>2
  <2>3. CASE i # 1
    <3>1. i - 1 \in 1 .. m /\ i \in 1 .. (1 + m) /\ ~(i <= 1)
      BY <1>4, <2>3
    <3>2. both[i] = p[2 * (i - 1) - 0]
      BY <1>3, <1>4, <1>7, <3>1
    <3>3. 2 * (i - 1) - 0 \in 1 .. (n - 1) /\ 2 * (i - 1) - 0 + 1 = 2 * i - 1
      BY <1>1, <1>4, <3>1 DEF m
    <3>4. QED BY <1>1, <2>1, <3>2, <3>3
  <2>4. QED BY <2>2, <2>3
<1>9. Seconds(q, 1) = both
  BY <1>3, <1>4, <1>7, <1>8, SeqEqual
<1>10. QED BY <1>9 DEF both, p

-----------------------------------------------------------------------------
(* The traffic of one client.                                              *)

Traffic(c) ==
  Joined(c) /\ c \notin lost =>
               /\ Alternates(inbox[c], Headless(c)) /\ Owes(c)
               /\ asked[c] = outbox[c] \o InHand(c) \o Seconds(inbox[c], Headless(c))

LEMMA TrafficParts ==
  /\ Framed /\ RequestsAccounted => \A c \in Client : Traffic(c)
  /\ (\A c \in Client : Traffic(c)) => Framed /\ RequestsAccounted
<1>1. \A c \in Client : Unread(c) = Seconds(inbox[c], Headless(c))
  BY DEF Unread, Seconds
<1>2. QED BY <1>1 DEF Framed, RequestsAccounted, Traffic, Alternates

LEMMA TrafficPartsNext ==
  (\A c \in Client : Traffic(c)') => Framed' /\ RequestsAccounted'
<1>1. \A c \in Client : Unread(c)' = Seconds(inbox'[c], Headless(c)')
  BY DEF Unread, Seconds
<1>2. QED BY <1>1 DEF Framed, RequestsAccounted, Traffic, Alternates

LEMMA OtherTraffic ==
  ASSUME NEW c \in Client, Traffic(c), Joined(c)' => Joined(c),
         asked'[c] = asked[c], inbox'[c] = inbox[c], outbox'[c] = outbox[c],
         c \in owing' <=> c \in owing, c \in lost => c \in lost',
         Headless(c)' = Headless(c), InHand(c)' = InHand(c)
  PROVE  Traffic(c)'
  BY DEF Traffic, Owes

LEMMA HeadlessType ==
  ASSUME NEW c
  PROVE  Headless(c) \in {0, 1}
  BY DEF Headless

LEMMA InHandType ==
  ASSUME NEW c, MainOK, DebugServerAssumption
  PROVE  InHand(c) \in Seq(Command)
<1>1. CASE main.at = "reply" /\ main.client = c
  <2>1. main.command \in Command
    BY <1>1 DEF MainOK, DebugServerAssumption
  <2>2. <<main.command>> \in Seq(Command)
    BY <2>1
  <2>3. QED BY <1>1, <2>2 DEF InHand
<1>2. CASE ~(main.at = "reply" /\ main.client = c)
  BY <1>2, EmptySeq DEF InHand
<1>3. QED BY <1>1, <1>2

\* Nobody who has not connected is joined, or is being served.
LEMMA OffStage ==
  ASSUME DInv, NEW c \in Client, peer[c] = "off"
  PROVE  /\ ~Joined(c) /\ main.client # c /\ serverOf[c] = None
         /\ Headless(c) = 0 /\ InHand(c) = <<>>
<1>1. serverOf[c] = None
  BY DEF DInv, QueueOK
<1>2. \A s \in Server : c \notin ToSet(backlog[s])
  BY DEF DInv, QueueOK, ToSet
<1>3. main.client # c
  <2>1. CASE main.at = "idle"
    BY <2>1, DebugServerAssumption DEF DInv, MainOK, Idle, DebugServerAssumption
  <2>2. CASE main.at # "idle"
    BY <1>1, <2>2 DEF DInv, MainOK
  <2>3. QED BY <2>1, <2>2
<1>4. QED BY <1>1, <1>2, <1>3 DEF Joined, Headless, InHand

-----------------------------------------------------------------------------
(* Clients.                                                                *)

LEMMA ConnectDInv ==
  ASSUME DInv, NEW c \in Client, Connect(c)
  PROVE  DInv'
<1>1. PICK s \in Listening : /\ Len(backlog[s]) < Backlog
                             /\ backlog' = [backlog EXCEPT ![s] = Append(@, c)]
  BY DEF Connect
<1>2. /\ peer[c] = "off" /\ peer' = [peer EXCEPT ![c] = "up"]
      /\ UNCHANGED <<objects, conns, serverOf, streams, asked, owing, main, run, fault>>
  BY DEF Connect
<1>3. /\ backlog \in [Server -> Seq(Client)] /\ peer \in [Client -> {"off", "up", "down"}]
      /\ s \in Server
  <2>1. /\ backlog \in [Server -> Seq(Client)] /\ peer \in [Client -> {"off", "up", "down"}]
        /\ alive \subseteq Server /\ sockfd \in [Server -> Server \cup {None}]
    BY DEF DInv, TypeOK
  <2>2. s \in Server
    BY <1>1, <2>1 DEF Listening
  <2>3. QED BY <2>1, <2>2
<1>4. /\ Append(backlog[s], c) \in Seq(Client)
      /\ DOMAIN Append(backlog[s], c) = 1 .. (Len(backlog[s]) + 1)
      /\ DOMAIN backlog[s] = 1 .. Len(backlog[s]) /\ Len(backlog[s]) \in Nat
      /\ \A i \in DOMAIN backlog[s] : Append(backlog[s], c)[i] = backlog[s][i]
      /\ Append(backlog[s], c)[Len(backlog[s]) + 1] = c
      /\ ToSet(Append(backlog[s], c)) = ToSet(backlog[s]) \cup {c}
  BY <1>3, AppendedSet, AppendProperties
<1>5. TypeOK'
  <2>1. backlog' \in [Server -> Seq(Client)] /\ peer' \in [Client -> {"off", "up", "down"}]
    BY <1>1, <1>2, <1>3, <1>4
  <2>2. QED BY <1>2, <2>1 DEF DInv, TypeOK, objects, streams
<1>6. OwnedOnce' /\ MainOK' /\ RunOK'
  BY <1>2, SameLists, SameMain, SameRun DEF DInv, objects
<1>7. SocketsHeld'
  <2>1. Listening' = Listening
    BY <1>2 DEF Listening, objects
  <2>2. \A t \in Server : backlog'[t] # <<>> => t \in Listening
    BY <1>1, <1>3 DEF DInv, SocketsHeld
  <2>3. QED BY <1>2, <2>1, <2>2 DEF DInv, SocketsHeld, objects
<1>8. /\ ~Joined(c) /\ serverOf[c] = None /\ Headless(c) = 0 /\ InHand(c) = <<>>
  BY <1>2, OffStage
<1>9. QueueOK'
  <2>1. \A t \in Server : \A i \in DOMAIN backlog[t] : backlog[t][i] # c
    BY <1>2 DEF DInv, QueueOK
  <2>2. \A t \in Server : backlog'[t] = IF t = s THEN Append(backlog[s], c) ELSE backlog[t]
    BY <1>1, <1>3
  <2>3. \A t \in Server : \A i \in DOMAIN backlog'[t] :
          \/ i \in DOMAIN backlog[t] /\ backlog'[t][i] = backlog[t][i]
          \/ t = s /\ i = Len(backlog[s]) + 1 /\ backlog'[t][i] = c
    <3> SUFFICES ASSUME NEW t \in Server, NEW i \in DOMAIN backlog'[t]
                 PROVE  \/ i \in DOMAIN backlog[t] /\ backlog'[t][i] = backlog[t][i]
                        \/ t = s /\ i = Len(backlog[s]) + 1 /\ backlog'[t][i] = c
      OBVIOUS
    <3>1. CASE t # s
      BY <2>2, <3>1
    <3>2. CASE t = s
      <4>1. i \in 1 .. (Len(backlog[s]) + 1) /\ backlog'[t] = Append(backlog[s], c)
        BY <1>4, <2>2, <3>2
      <4>2. i \in 1 .. Len(backlog[s]) \/ i = Len(backlog[s]) + 1
        BY <1>4, <4>1
      <4>3. QED BY <1>4, <3>2, <4>1, <4>2
    <3>3. QED BY <3>1, <3>2
  <2>4. \A d \in Client : peer'[d] = IF d = c THEN "up" ELSE peer[d]
    BY <1>2, <1>3
  <2>5. \A t \in Server : \A i \in DOMAIN backlog[t] : backlog[t][i] \in Client
    BY <1>3, ElementOfSeq, LenProperties
  <2>6. \A t \in Server : \A i \in DOMAIN backlog'[t] :
          serverOf'[backlog'[t][i]] = None /\ peer'[backlog'[t][i]] # "off"
    BY <1>2, <1>8, <2>3, <2>4, <2>5 DEF DInv, QueueOK
  <2>7. \A t, u \in Server : \A i \in DOMAIN backlog'[t] : \A j \in DOMAIN backlog'[u] :
          backlog'[t][i] = backlog'[u][j] => t = u /\ i = j
    BY <2>1, <2>3 DEF DInv, QueueOK
  <2>8. QED BY <1>2, <2>4, <2>6, <2>7 DEF DInv, QueueOK, streams
<1>10. Framed' /\ RequestsAccounted'
  <2>1. ASSUME NEW d \in Client, d # c PROVE Traffic(d)'
    <3>1. Joined(d)' => Joined(d)
      <4>1. \A t \in Server : d \in ToSet(backlog'[t]) => d \in ToSet(backlog[t])
        BY <1>1, <1>3, <1>4, <2>1
      <4>2. QED BY <1>2, <4>1 DEF Joined
    <3>2. Traffic(d)
      BY TrafficParts DEF DInv
    <3>3. Headless(d)' = Headless(d) /\ InHand(d)' = InHand(d)
      BY <1>2 DEF Headless, InHand
    <3>4. QED BY <1>2, <3>1, <3>2, <3>3, OtherTraffic DEF streams
  <2>2. Traffic(c)'
    <3>1. /\ asked'[c] = <<>> /\ inbox'[c] = <<>> /\ outbox'[c] = <<>>
          /\ c \notin owing'
      BY <1>2 DEF DInv, QueueOK, streams
    <3>2. Headless(c)' = 0 /\ InHand(c)' = <<>>
      BY <1>2, <1>8 DEF Headless, InHand
    <3>5. Owes(c)'
      <4>1. Len(<<>>) = 0 /\ (0 + 0) % 2 = 0
        BY EmptySeq
      <4>2. QED BY <3>1, <3>2, <4>1 DEF Owes
    <3>3. Alternates(<<>>, 0) /\ Seconds(<<>>, 0) = <<>>
      <4>1. Len(<<>>) = 0 /\ (0 + 0) \div 2 = 0 /\ 1 .. 0 = {}
        BY EmptySeq
      <4>2. Seconds(<<>>, 0) = [i \in {} |-> <<>>[2 * i - 0]]
        BY <4>1 DEF Seconds
      <4>3. QED BY <4>2 DEF Alternates
    <3>4. QED BY <3>1, <3>2, <3>3, <3>5 DEF Traffic
  <2>3. QED BY <2>1, <2>2, TrafficPartsNext
<1>11. QED BY <1>5, <1>6, <1>7, <1>9, <1>10 DEF DInv

\* What the last part of a stream in step tells of the next.
LEMMA OwesOdd ==
  ASSUME DInv, NEW c \in Client, Joined(c), c \notin lost
  PROVE  /\ c \in owing => Odd(inbox[c], Headless(c))
         /\ c \notin owing /\ "stranger" \notin ToSet(inbox[c])
              => ~Odd(inbox[c], Headless(c))
  BY TrafficParts DEF DInv, Traffic, Owes, Odd

\* What a client sends, and nothing else.
LEMMA SentKeeps ==
  ASSUME DInv, NEW c \in Client, NEW x \in Part, peer[c] = "up",
         inbox' = [inbox EXCEPT ![c] = Append(@, x)],
         asked' \in [Client -> Seq(Command)], owing' \subseteq Client,
         \A d \in Client \ {c} : asked'[d] = asked[d] /\ (d \in owing' <=> d \in owing),
         UNCHANGED <<objects, conns, serverOf, backlog, peer, lost, outbox, main, run, fault>>,
         Traffic(c)'
  PROVE  DInv'
<1>1. /\ inbox \in [Client -> Seq(Part)] /\ inbox[c] \in Seq(Part)
      /\ inbox' \in [Client -> Seq(Part)]
      /\ \A d \in Client \ {c} : inbox'[d] = inbox[d]
  <2>1. inbox \in [Client -> Seq(Part)] /\ inbox[c] \in Seq(Part)
    BY DEF DInv, TypeOK
  <2>2. Append(inbox[c], x) \in Seq(Part)
    BY <2>1, AppendProperties
  <2>3. QED BY <2>1, <2>2
<1>2. TypeOK'
  BY <1>1 DEF DInv, TypeOK, objects
<1>3. OwnedOnce' /\ MainOK' /\ RunOK' /\ SocketsHeld'
  BY SameLists, SameMain, SameRun, SameSockets DEF DInv, objects
<1>4. QueueOK'
  <2>1. \A d \in Client : peer'[d] = "off" =>
          asked'[d] = <<>> /\ inbox'[d] = <<>> /\ outbox'[d] = <<>> /\ d \notin owing'
    <3> SUFFICES ASSUME NEW d \in Client, peer'[d] = "off"
                 PROVE  /\ asked'[d] = <<>> /\ inbox'[d] = <<>> /\ outbox'[d] = <<>>
                        /\ d \notin owing'
      OBVIOUS
    <3>1. /\ d # c /\ asked[d] = <<>> /\ inbox[d] = <<>> /\ outbox[d] = <<>>
          /\ d \notin owing
      BY DEF DInv, QueueOK
    <3>2. QED BY <1>1, <3>1
  <2>2. QED BY <2>1 DEF DInv, QueueOK
<1>5. ASSUME NEW d \in Client, d # c PROVE Traffic(d)'
  <2>1. Traffic(d)
    BY TrafficParts DEF DInv
  <2>2. Joined(d)' => Joined(d)
    BY DEF Joined
  <2>3. Headless(d)' = Headless(d) /\ InHand(d)' = InHand(d)
    BY DEF Headless, InHand
  <2>4. QED BY <1>1, <1>5, <2>1, <2>2, <2>3, OtherTraffic
<1>6. Framed' /\ RequestsAccounted'
  BY <1>5, TrafficPartsNext
<1>7. QED BY <1>2, <1>3, <1>4, <1>6 DEF DInv

LEMMA SendHeaderDInv ==
  ASSUME DInv, NEW c \in Client, SendHeader(c)
  PROVE  DInv'
<1>1. PICK x \in {"header", "stranger"} :
        /\ inbox' = [inbox EXCEPT ![c] = Append(@, x)]
        /\ owing' = IF x = "header" THEN owing \cup {c} ELSE owing
  BY DEF SendHeader
<1>2. /\ peer[c] = "up" /\ Joined(c) /\ c \notin owing /\ "stranger" \notin ToSet(inbox[c])
      /\ UNCHANGED <<objects, conns, serverOf, backlog, peer, asked, lost, outbox, main, run, fault>>
  BY DEF SendHeader
<1>3. x \in Part /\ x \notin Command
  BY DebugServerAssumption DEF DebugServerAssumption, Part
<1>4. inbox[c] \in Seq(Part) /\ inbox'[c] = Append(inbox[c], x)
  BY <1>1 DEF DInv, TypeOK
<1>5. Traffic(c) /\ Headless(c) \in {0, 1}
  BY TrafficParts, HeadlessType DEF DInv
<1>6. Headless(c)' = Headless(c) /\ InHand(c)' = InHand(c)
  BY <1>2 DEF Headless, InHand
<1>7. ASSUME c \notin lost PROVE Traffic(c)'
  <2>1. ~Odd(inbox[c], Headless(c))
    BY <1>2, <1>7, OwesOdd
  <2>2. Alternates(inbox'[c], Headless(c))
    BY <1>2, <1>3, <1>4, <1>5, <1>7, <2>1, AlternatesAppend DEF Traffic
  <2>3. Seconds(inbox'[c], Headless(c)) = Seconds(inbox[c], Headless(c))
    BY <1>2, <1>3, <1>4, <1>5, <1>7, <2>1, PartsHeader DEF Traffic
  <2>4. Owes(c)'
    <3>1. /\ Len(inbox[c]) \in Nat /\ Len(inbox'[c]) = Len(inbox[c]) + 1
          /\ ToSet(inbox'[c]) = ToSet(inbox[c]) \cup {x}
      BY <1>3, <1>4, AppendedSet, AppendProperties
    <3>2. (Len(inbox'[c]) + Headless(c)) % 2 = 1
      BY <1>5, <2>1, <3>1 DEF Odd
    <3>3. c \in owing' \/ "stranger" \in ToSet(inbox'[c])
      BY <1>1, <3>1
    <3>4. QED BY <1>6, <3>2, <3>3 DEF Owes
  <2>5. QED BY <1>2, <1>5, <1>6, <1>7, <2>2, <2>3, <2>4 DEF Traffic
<1>8. Traffic(c)'
  BY <1>2, <1>7 DEF Traffic
<1>9. /\ asked' \in [Client -> Seq(Command)] /\ asked' = asked /\ peer' = peer
      /\ owing' \subseteq Client /\ \A d \in Client \ {c} : d \in owing' <=> d \in owing
  BY <1>1, <1>2 DEF DInv, TypeOK
<1>10. QED BY <1>1, <1>2, <1>3, <1>8, <1>9, SentKeeps

LEMMA SendCommandDInv ==
  ASSUME DInv, NEW c \in Client, SendCommand(c)
  PROVE  DInv'
<1>1. PICK k \in Command : /\ inbox' = [inbox EXCEPT ![c] = Append(@, k)]
                           /\ asked' = [asked EXCEPT ![c] = Append(@, k)]
  BY DEF SendCommand
<1>2. /\ peer[c] = "up" /\ Joined(c) /\ c \in owing /\ owing' = owing \ {c}
      /\ UNCHANGED <<objects, conns, serverOf, backlog, peer, lost, outbox, main, run, fault>>
  BY DEF SendCommand
<1>3. k \in Part
  BY DEF Part
<1>4. /\ inbox[c] \in Seq(Part) /\ inbox'[c] = Append(inbox[c], k)
      /\ asked[c] \in Seq(Command) /\ asked'[c] = Append(asked[c], k)
      /\ asked \in [Client -> Seq(Command)] /\ outbox[c] \in Seq(Command)
  BY <1>1 DEF DInv, TypeOK
<1>5. Traffic(c) /\ Headless(c) \in {0, 1} /\ InHand(c) \in Seq(Command)
  BY TrafficParts, HeadlessType, InHandType, DebugServerAssumption DEF DInv
<1>6. Headless(c)' = Headless(c) /\ InHand(c)' = InHand(c)
  BY <1>2 DEF Headless, InHand
<1>7. ASSUME c \notin lost PROVE Traffic(c)'
  <2>1. Odd(inbox[c], Headless(c))
    BY <1>2, <1>7, OwesOdd
  <2>2. Alternates(inbox'[c], Headless(c))
    BY <1>2, <1>3, <1>4, <1>5, <1>7, <2>1, AlternatesAppend DEF Traffic
  <2> DEFINE a == outbox[c] \o InHand(c)
             u == Seconds(inbox[c], Headless(c))
  <2>3. Seconds(inbox'[c], Headless(c)) = Append(u, k)
    BY <1>2, <1>4, <1>5, <1>7, <2>1, PartsCommand DEF Traffic
  <2>4. asked[c] = a \o u /\ a \in Seq(Command) /\ u \in Seq(Command)
    BY <1>2, <1>4, <1>5, <1>7, PartsType, ConcatProperties DEF Traffic
  <2>5. asked'[c] = a \o Append(u, k)
    <3> HIDE DEF a, u
    <3>1. <<k>> \in Seq(Command)
      OBVIOUS
    <3>2. (a \o u) \in Seq(Command)
      BY <2>4, ConcatProperties
    <3>3. Append(a \o u, k) = (a \o u) \o <<k>> /\ Append(u, k) = u \o <<k>>
      BY <2>4, <3>2, AppendIsConcat
    <3>4. (a \o u) \o <<k>> = a \o (u \o <<k>>)
      BY <2>4, <3>1, ConcatAssociative
    <3>5. QED BY <1>4, <2>4, <3>3, <3>4
  <2>6. Owes(c)'
    <3>1. Len(inbox[c]) \in Nat /\ Len(inbox'[c]) = Len(inbox[c]) + 1
      BY <1>3, <1>4, AppendedSet, AppendProperties
    <3>2. ~((Len(inbox'[c]) + Headless(c)) % 2 = 1)
      BY <1>5, <2>1, <3>1 DEF Odd
    <3>3. QED BY <1>2, <1>6, <3>2 DEF Owes
  <2>7. outbox' = outbox
    BY <1>2
  <2>8. QED BY <1>6, <2>2, <2>3, <2>5, <2>6, <2>7 DEF Traffic, a
<1>8. Traffic(c)'
  BY <1>2, <1>7 DEF Traffic
<1>9. /\ asked' \in [Client -> Seq(Command)] /\ \A d \in Client \ {c} : asked'[d] = asked[d]
      /\ owing' \subseteq Client /\ \A d \in Client \ {c} : d \in owing' <=> d \in owing
  <2>1. Append(asked[c], k) \in Seq(Command)
    BY <1>4, AppendProperties
  <2>2. QED BY <1>1, <1>2, <1>4, <2>1 DEF DInv, TypeOK
<1>10. QED BY <1>1, <1>2, <1>3, <1>8, <1>9, SentKeeps

LEMMA HangUpDInv ==
  ASSUME DInv, NEW c \in Client, HangUp(c)
  PROVE  DInv'
<1>1. /\ peer[c] = "up" /\ peer' = [peer EXCEPT ![c] = "down"]
      /\ UNCHANGED <<objects, conns, serverOf, backlog, streams, asked, owing, main, run, fault>>
  BY DEF HangUp
<1>2. /\ peer' \in [Client -> {"off", "up", "down"}]
      /\ \A d \in Client : peer'[d] = "off" <=> peer[d] = "off"
  BY <1>1 DEF DInv, TypeOK
<1>3. TypeOK'
  BY <1>1, <1>2 DEF DInv, TypeOK, objects, streams
<1>4. OwnedOnce' /\ MainOK' /\ RunOK' /\ SocketsHeld'
  BY <1>1, SameLists, SameMain, SameRun, SameSockets DEF DInv, objects
<1>5. QueueOK'
  <2>1. \A s \in Server : \A i \in DOMAIN backlog[s] : backlog[s][i] \in Client
    BY ElementOfSeq, LenProperties DEF DInv, TypeOK
  <2>2. QED BY <1>1, <1>2, <2>1 DEF DInv, QueueOK, streams
<1>6. Framed' /\ RequestsAccounted'
  BY <1>1, QuietTraffic DEF DInv, Joined, streams
<1>7. QED BY <1>3, <1>4, <1>5, <1>6 DEF DInv

-----------------------------------------------------------------------------
(* Construction, destruction and moves.                                    *)

\* What holds while the main thread is at its queue.
LEMMA AtQueueFacts ==
  ASSUME DInv, AtQueue
  PROVE  /\ main = Idle /\ run = NotRunning /\ Defined
         /\ main.at = "idle" /\ main.client = None /\ run.server = None
         /\ \A s \in Server : s \notin alive => conns[s] = <<>> /\ sockfd[s] = None
         /\ \A c \in Client : Headless(c) = 0 /\ InHand(c) = <<>>
<1>1. main = Idle /\ run = NotRunning /\ Defined
  BY DEF AtQueue
<1>2. main.at = "idle" /\ main.client = None /\ run.server = None
  BY <1>1 DEF Idle, NotRunning
<1>3. ASSUME NEW s \in Server, s \notin alive PROVE conns[s] = <<>> /\ sockfd[s] = None
  <2>1. sockfd[s] = None
    BY <1>3 DEF DInv, SocketsHeld
  <2>2. CASE conns[s] # <<>>
    <3>1. conns[s] \in Seq(Client)
      BY DEF DInv, TypeOK
    <3>2. Len(conns[s]) \in Nat \ {0} /\ DOMAIN conns[s] = 1 .. Len(conns[s])
      BY <2>2, <3>1, EmptySeq, LenProperties
    <3>3. 1 \in DOMAIN conns[s] /\ conns[s][1] \in Client
      BY <3>1, <3>2, ElementOfSeq
    <3>4. serverOf[conns[s][1]] = s
      BY <1>1, <3>3 DEF DInv, OwnedOnce
    <3>5. s # None
      BY DebugServerAssumption DEF DebugServerAssumption
    <3>6. s \in alive
      BY <1>1, <3>3, <3>4, <3>5 DEF DInv, OwnedOnce
    <3>7. QED BY <1>3, <3>6
  <2>3. QED BY <2>1, <2>2
<1>4. \A c \in Client : Headless(c) = 0 /\ InHand(c) = <<>>
  BY <1>2 DEF Headless, InHand
<1>5. QED BY <1>1, <1>2, <1>3, <1>4

\* At the queue, and after it if main and run are left alone.
LEMMA RestAtQueue ==
  ASSUME DInv, AtQueue, UNCHANGED <<main, run>>
  PROVE  MainOK' /\ RunOK'
<1>1. main = Idle /\ run = NotRunning /\ main.at = "idle" /\ run.server = None
  BY AtQueueFacts
<1>2. Idle.at = "idle" /\ Idle' = Idle /\ NotRunning' = NotRunning
  BY DEF Idle, NotRunning
<1>3. MainOK'
  BY <1>1, <1>2 DEF MainOK
<1>4. RunOK'
  BY <1>1, <1>2 DEF RunOK
<1>5. QED BY <1>3, <1>4

LEMMA ConstructedDInv ==
  ASSUME DInv, AtQueue, NEW s \in Server, NEW up \in BOOLEAN, Constructed(s, up),
         shared' \in {shared, s}
  PROVE  DInv'
<1>1. /\ s \notin alive /\ starts < MaxStarts
      /\ \A t \in alive : sockfd[t] # s
      /\ alive' = alive \cup {s}
      /\ sockfd' = [sockfd EXCEPT ![s] = IF up THEN s ELSE None]
      /\ source' = [source EXCEPT ![s] = IF up THEN s ELSE None]
      /\ conns' = [conns EXCEPT ![s] = <<>>]
      /\ starts' = starts + 1
      /\ UNCHANGED <<serverOf, backlog, clients, streams, main, run, moves, fault>>
  BY DEF Constructed
<1>2. /\ Defined /\ conns[s] = <<>>
      /\ \A t \in Server : t \notin alive => sockfd[t] = None
  BY <1>1, AtQueueFacts
<1>3. conns' = conns
  BY <1>1, <1>2 DEF DInv, TypeOK
<1>4. TypeOK'
  <2>1. MaxStarts \in Nat
    BY DebugServerAssumption DEF DebugServerAssumption
  <2>2. starts' \in 0 .. MaxStarts
    BY <1>1, <2>1 DEF DInv, TypeOK
  <2>3. /\ sockfd' \in [Server -> Server \cup {None}]
        /\ source' \in [Server -> Server \cup {None}]
        /\ alive' \subseteq Server /\ shared' \in alive' \cup {None}
    BY <1>1 DEF DInv, TypeOK
  <2>4. QED BY <1>1, <1>3, <2>2, <2>3 DEF DInv, TypeOK, clients, streams
<1>5. OwnedOnce'
  BY <1>1, <1>2, <1>3 DEF DInv, OwnedOnce
<1>6. SocketsHeld'
  <2>1. \A t \in Server : sockfd'[t] = IF t = s THEN IF up THEN s ELSE None ELSE sockfd[t]
    BY <1>1 DEF DInv, TypeOK
  <2>2. \A t \in Server : sockfd'[t] # None => t \in alive'
    BY <1>1, <2>1 DEF DInv, SocketsHeld
  <2>3. \A t \in Server : t # s => sockfd[t] # s
    BY <1>1, <1>2, DebugServerAssumption DEF DebugServerAssumption
  <2>4. \A t, u \in Server : t # u /\ sockfd'[t] # None => sockfd'[t] # sockfd'[u]
    BY <2>1, <2>3 DEF DInv, SocketsHeld
  <2>5. Listening \subseteq Listening'
    <3>1. \A t \in alive : t \in alive' /\ sockfd'[t] = sockfd[t]
      BY <1>1, <2>1 DEF DInv, TypeOK
    <3>2. QED BY <3>1 DEF Listening
  <2>6. \A t \in Server : backlog'[t] # <<>> => t \in Listening'
    BY <1>1, <2>5 DEF DInv, SocketsHeld
  <2>7. QED BY <2>2, <2>4, <2>6 DEF SocketsHeld
<1>7. QueueOK' /\ MainOK' /\ RunOK'
  BY <1>1, SameQueue, RestAtQueue DEF DInv, clients, streams
<1>8. Framed' /\ RequestsAccounted'
  BY <1>1, QuietTraffic DEF DInv, Joined, clients, streams
<1>9. QED BY <1>4, <1>5, <1>6, <1>7, <1>8 DEF DInv

\* What is undefined ends the model, and leaves the rest of the state as it was.
LEMMA FaultDInv ==
  ASSUME DInv, AtQueue, fault' = TRUE,
         UNCHANGED <<objects, conns, serverOf, backlog, clients, streams, main, run>>
  PROVE  DInv'
<1>1. TypeOK'
  BY DEF DInv, TypeOK, objects, clients, streams
<1>2. OwnedOnce'
  BY DEF OwnedOnce, Defined
<1>3. SocketsHeld' /\ QueueOK' /\ MainOK' /\ RunOK'
  BY SameSockets, SameQueue, RestAtQueue DEF DInv, objects, clients, streams
<1>4. Framed' /\ RequestsAccounted'
  BY QuietTraffic DEF DInv, Joined, clients, streams
<1>5. QED BY <1>1, <1>2, <1>3, <1>4 DEF DInv

LEMMA RunBeginsDInv ==
  ASSUME DInv, NEW s \in Server, Run(s)
  PROVE  DInv'
<1>1. /\ AtQueue /\ s \in alive
      /\ UNCHANGED <<objects, conns, serverOf, backlog, clients, streams, main>>
  BY DEF Run
<1>2. CASE fault' = TRUE /\ run' = run
  BY <1>1, <1>2, FaultDInv
<1>3. ASSUME NEW forever \in BOOLEAN, fault' = fault, sockfd[s] # None,
             run' = [server |-> s, todo |-> {}, i |-> 1, accepted |-> FALSE,
                     forever |-> forever, again |-> FALSE]
      PROVE  DInv'
  <2>1. /\ run'.server = s /\ run'.todo = {} /\ run'.i = 1 /\ s # None
        /\ run' \in [server : Server \cup {None}, todo : SUBSET Client, i : Nat,
                     accepted : BOOLEAN, forever : BOOLEAN, again : BOOLEAN]
    BY <1>3, DebugServerAssumption DEF DebugServerAssumption
  <2>2. TypeOK'
    BY <1>1, <1>3, <2>1 DEF DInv, TypeOK, objects, clients, streams
  <2>3. OwnedOnce' /\ MainOK' /\ SocketsHeld' /\ QueueOK'
    BY <1>1, <1>3, SameLists, SameMain, SameSockets, SameQueue
       DEF DInv, objects, clients, streams
  <2>4. RunOK'
    <3>1. Defined'
      BY <1>1, <1>3, AtQueueFacts, SameDefined DEF objects
    <3>2. QED BY <1>1, <1>3, <2>1, <3>1 DEF RunOK, objects
  <2>5. Framed' /\ RequestsAccounted'
    BY <1>1, QuietTraffic DEF DInv, Joined, clients, streams
  <2>6. QED BY <2>2, <2>3, <2>4, <2>5 DEF DInv
<1>4. QED BY <1>2, <1>3 DEF Run

\* A step that empties queues and resets connections, with the clients, streams and the
\* main thread left alone.
LEMMA Emptied ==
  ASSUME DInv, backlog' \in [Server -> Seq(Client)],
         \A s \in Server : backlog'[s] \in {backlog[s], <<>>},
         serverOf' \in [Client -> Server \cup {None}],
         \A c \in Client : serverOf'[c] \in {serverOf[c], None},
         UNCHANGED <<peer, asked, owing, streams, main>>
  PROVE  QueueOK' /\ Framed' /\ RequestsAccounted'
<1>1. \A s \in Server : \A i \in DOMAIN backlog'[s] :
        i \in DOMAIN backlog[s] /\ backlog'[s][i] = backlog[s][i]
  <2>1. DOMAIN <<>> = {}
    BY EmptySeq
  <2>2. QED BY <2>1
<1>2. \A s \in Server : \A i \in DOMAIN backlog[s] : backlog[s][i] \in Client
  BY ElementOfSeq, LenProperties DEF DInv, TypeOK
<1>3. QueueOK'
  <2>1. \A s \in Server : \A i \in DOMAIN backlog'[s] :
          serverOf'[backlog'[s][i]] = None /\ peer'[backlog'[s][i]] # "off"
    BY <1>1, <1>2 DEF DInv, QueueOK
  <2>2. \A s, t \in Server : \A i \in DOMAIN backlog'[s] : \A j \in DOMAIN backlog'[t] :
          backlog'[s][i] = backlog'[t][j] => s = t /\ i = j
    BY <1>1 DEF DInv, QueueOK
  <2>3. \A c \in Client : serverOf'[c] # None => serverOf[c] # None
    OBVIOUS
  <2>4. QED BY <2>1, <2>2, <2>3 DEF DInv, QueueOK, streams
<1>4. \A c \in Client : Joined(c)' => Joined(c)
  BY <1>1 DEF Joined, ToSet
<1>5. QED BY <1>3, <1>4, QuietTraffic DEF DInv, clients, streams

\* An object's calls change nothing of the clients, the streams and the thread.
LEMMA SameTypes ==
  ASSUME TypeOK, UNCHANGED <<clients, streams, main, run, fault>>
  PROVE  /\ peer' \in [Client -> {"off", "up", "down"}]
         /\ inbox' \in [Client -> Seq(Part)]
         /\ asked' \in [Client -> Seq(Command)]
         /\ outbox' \in [Client -> Seq(Command)]
         /\ owing' \subseteq Client /\ lost' \subseteq Client
         /\ main' \in [at : {"idle", "header", "payload", "reply"},
                      client : Client \cup {None}, command : Answered \cup {None}]
         /\ run' \in [server : Server \cup {None}, todo : SUBSET Client, i : Nat,
                     accepted : BOOLEAN, forever : BOOLEAN, again : BOOLEAN]
         /\ fault' \in BOOLEAN
  BY DEF TypeOK, clients, streams

\* What shutdown does to the sockets and the queues.
LEMMA ShutdownTypes ==
  ASSUME DInv, NEW s \in Server, ShutdownLeaves(s)
  PROVE  /\ sockfd' \in [Server -> Server \cup {None}]
         /\ source' \in [Server -> Server \cup {None}]
         /\ backlog' \in [Server -> Seq(Client)]
         /\ \A t \in Server : backlog'[t] \in {backlog[t], <<>>}
         /\ \A t \in Server : sockfd'[t] = IF t = s THEN None ELSE sockfd[t]
         /\ sockfd[s] # None => backlog'[sockfd[s]] = <<>>
<1>1. /\ sockfd \in [Server -> Server \cup {None}]
      /\ source \in [Server -> Server \cup {None}]
      /\ backlog \in [Server -> Seq(Client)]
  BY DEF DInv, TypeOK
<1>2. <<>> \in Seq(Client)
  BY EmptySeq
<1>3. QED BY <1>1, <1>2 DEF ShutdownLeaves

LEMMA ShutdownSockets ==
  ASSUME DInv, NEW s \in Server, ShutdownLeaves(s),
         alive' \subseteq alive, alive \ {s} \subseteq alive'
  PROVE  SocketsHeld'
<1>1. /\ \A t \in Server : backlog'[t] \in {backlog[t], <<>>}
      /\ \A t \in Server : sockfd'[t] = IF t = s THEN None ELSE sockfd[t]
      /\ sockfd[s] # None => backlog'[sockfd[s]] = <<>>
  BY ShutdownTypes
<1>2. alive \subseteq Server /\ None \notin Server
  BY DebugServerAssumption DEF DInv, TypeOK, DebugServerAssumption
<1>3. ASSUME NEW t \in Server, backlog'[t] # <<>> PROVE t \in Listening'
  <2>1. t \in Listening
    BY <1>1, <1>3 DEF DInv, SocketsHeld
  <2>2. PICK u \in alive : sockfd[u] = t /\ t # None
    BY <2>1 DEF Listening
  <2>3. u # s
    BY <1>1, <1>3, <2>2
  <2>4. u \in alive' /\ sockfd'[u] = t
    BY <1>1, <1>2, <2>2, <2>3
  <2>5. QED BY <2>2, <2>4 DEF Listening
<1>4. \A t \in Server : sockfd'[t] # None => t \in alive'
  BY <1>1 DEF DInv, SocketsHeld
<1>5. \A t, u \in Server : t # u /\ sockfd'[t] # None => sockfd'[t] # sockfd'[u]
  BY <1>1 DEF DInv, SocketsHeld
<1>6. QED BY <1>3, <1>4, <1>5 DEF SocketsHeld

LEMMA ShutdownDInv ==
  ASSUME DInv, NEW s \in Server, Shutdown(s)
  PROVE  DInv'
<1>1. /\ AtQueue /\ s \in alive /\ ShutdownLeaves(s)
      /\ UNCHANGED <<alive, shared, conns, serverOf, clients, streams, main, run,
                     starts, moves, fault>>
  BY DEF Shutdown
<1>2. TypeOK'
  BY <1>1, ShutdownTypes, SameTypes DEF DInv, TypeOK
<1>3. OwnedOnce' /\ MainOK' /\ RunOK'
  BY <1>1, SameLists, RestAtQueue DEF DInv
<1>4. SocketsHeld'
  BY <1>1, ShutdownSockets
<1>5. QueueOK' /\ Framed' /\ RequestsAccounted'
  BY <1>1, ShutdownTypes, Emptied DEF clients, streams, DInv, TypeOK
<1>6. QED BY <1>2, <1>3, <1>4, <1>5 DEF DInv

\* The loop of the destructor, or of an assignment, resets exactly the
\* connections in the list.
LEMMA DisconnectedConns ==
  ASSUME DInv, Defined, NEW s \in Server
  PROVE  /\ Disconnected(s) \in [Client -> Server \cup {None}]
         /\ \A c \in Client : Disconnected(s)[c] =
                                IF serverOf[c] = s THEN None ELSE serverOf[c]
<1>1. \A c \in Client : c \in ToSet(conns[s]) <=> serverOf[c] = s
  <2>1. s # None
    BY DebugServerAssumption DEF DebugServerAssumption
  <2>2. QED BY <2>1 DEF DInv, OwnedOnce, ToSet
<1>2. serverOf \in [Client -> Server \cup {None}]
  BY DEF DInv, TypeOK
<1>3. QED BY <1>1, <1>2 DEF Disconnected

LEMMA EmptiedLists ==
  ASSUME DInv, Defined, NEW s \in Server,
         conns' = [conns EXCEPT ![s] = <<>>], serverOf' = Disconnected(s),
         alive \ {s} \subseteq alive'
  PROVE  OwnedOnce'
<1>1. \A c \in Client : serverOf'[c] = IF serverOf[c] = s THEN None ELSE serverOf[c]
  BY DisconnectedConns
<1>2. \A t \in Server : conns'[t] = IF t = s THEN <<>> ELSE conns[t]
  BY DEF DInv, TypeOK
<1>3. DOMAIN <<>> = {} /\ s # None
  BY EmptySeq, DebugServerAssumption DEF DebugServerAssumption
<1>4. \A t \in Server : \A i \in DOMAIN conns[t] : conns[t][i] \in Client
  BY ElementOfSeq, LenProperties DEF DInv, TypeOK
<1>5. ASSUME NEW c \in Client, serverOf'[c] # None
      PROVE  serverOf'[c] \in alive' /\ c \in ToSet(conns'[serverOf'[c]])
  <2>1. serverOf'[c] = serverOf[c] /\ serverOf[c] # s
    BY <1>1, <1>5
  <2>2. serverOf[c] \in alive /\ serverOf[c] \in Server /\ c \in ToSet(conns[serverOf[c]])
    BY <1>5, <2>1 DEF DInv, OwnedOnce, TypeOK
  <2>3. QED BY <1>2, <2>1, <2>2
<1>6. ASSUME NEW t \in Server, NEW i \in DOMAIN conns'[t], NEW j \in DOMAIN conns'[t]
      PROVE  /\ serverOf'[conns'[t][i]] = t
             /\ conns'[t][i] = conns'[t][j] => i = j
  <2>1. t # s /\ conns'[t] = conns[t]
    BY <1>2, <1>3
  <2>2. /\ serverOf[conns[t][i]] = t
        /\ conns[t][i] = conns[t][j] => i = j
    BY <2>1 DEF DInv, OwnedOnce
  <2>3. conns[t][i] \in Client
    BY <1>4, <2>1
  <2>4. QED BY <1>1, <2>1, <2>2, <2>3
<1>7. QED BY <1>5, <1>6 DEF OwnedOnce

LEMMA DestructorDInv ==
  ASSUME DInv, AtQueue, NEW s \in alive, Destructor(s),
         shared' \in alive' \cup {None}
  PROVE  DInv'
<1>1. /\ ShutdownLeaves(s) /\ alive' = alive \ {s}
      /\ serverOf' = Disconnected(s)
      /\ conns' = [conns EXCEPT ![s] = <<>>]
      /\ UNCHANGED <<clients, streams, main, run, starts, moves, fault>>
  BY DEF Destructor
<1>2. s \in Server /\ Defined
  BY AtQueueFacts DEF DInv, TypeOK
<1>3. /\ serverOf' \in [Client -> Server \cup {None}]
      /\ \A c \in Client : serverOf'[c] \in {serverOf[c], None}
  BY <1>1, <1>2, DisconnectedConns
<1>4. TypeOK'
  <2>1. conns' \in [Server -> Seq(Client)]
    BY <1>1, EmptySeq DEF DInv, TypeOK
  <2>2. alive' \subseteq Server
    BY <1>1 DEF DInv, TypeOK
  <2>3. QED BY <1>1, <1>2, <1>3, <2>1, <2>2, ShutdownTypes DEF DInv, TypeOK, clients, streams
<1>5. OwnedOnce'
  BY <1>1, <1>2, EmptiedLists
<1>6. SocketsHeld'
  BY <1>1, <1>2, ShutdownSockets
<1>7. MainOK' /\ RunOK'
  BY <1>1, RestAtQueue
<1>8. QueueOK' /\ Framed' /\ RequestsAccounted'
  BY <1>1, <1>2, <1>3, ShutdownTypes, Emptied DEF clients, streams
<1>9. QED BY <1>4, <1>5, <1>6, <1>7, <1>8 DEF DInv

\* After a move of connections two objects hold them, and the model ends.
LEMMA MovedConns ==
  ASSUME DInv, NEW s \in alive, NEW t \in Server, s # t, t \in alive', s \in alive',
         conns' = [conns EXCEPT ![t] = conns[s]], Defined'
  PROVE  conns[s] = <<>>
<1>1. conns'[s] = conns[s] /\ conns'[t] = conns[s] /\ conns[s] \in Seq(Client)
  BY DEF DInv, TypeOK
<1>2. ToSet(conns'[s]) \cap ToSet(conns'[t]) = {}
  BY DEF Defined
<1>3. ToSet(conns[s]) = {}
  BY <1>1, <1>2
<1>4. CASE conns[s] # <<>>
  <2>1. Len(conns[s]) \in Nat \ {0} /\ DOMAIN conns[s] = 1 .. Len(conns[s])
    BY <1>1, <1>4, EmptySeq, LenProperties
  <2>2. 1 \in DOMAIN conns[s]
    BY <2>1
  <2>3. QED BY <1>3, <2>2 DEF ToSet
<1>5. QED BY <1>4

LEMMA MoveTypes ==
  ASSUME DInv, NEW s \in Server, NEW t \in Server, s # t, moves < MaxMoves, Taken(s, t)
  PROVE  /\ sockfd' \in [Server -> Server \cup {None}]
         /\ source' \in [Server -> Server \cup {None}]
         /\ conns' \in [Server -> Seq(Client)]
         /\ moves' \in 0 .. MaxMoves
         /\ \A u \in Server : sockfd'[u] = IF u = t THEN sockfd[s]
                                           ELSE IF u = s THEN None ELSE sockfd[u]
<1>1. /\ sockfd \in [Server -> Server \cup {None}]
      /\ source \in [Server -> Server \cup {None}]
      /\ conns \in [Server -> Seq(Client)] /\ moves \in 0 .. MaxMoves
  BY DEF DInv, TypeOK
<1>2. MaxMoves \in Nat /\ moves' = moves + 1
  BY DebugServerAssumption DEF DebugServerAssumption, Taken
<1>3. moves' \in 0 .. MaxMoves
  BY <1>1, <1>2
<1>4. sockfd' = [sockfd EXCEPT ![t] = sockfd[s], ![s] = None]
  BY DEF Taken, SocketTaken
<1>5. QED BY <1>1, <1>3, <1>4 DEF Taken

LEMMA MoveConstructDInv ==
  ASSUME DInv, NEW s \in Server, NEW t \in Server, MoveConstruct(s, t)
  PROVE  DInv'
<1>1. /\ AtQueue /\ moves < MaxMoves /\ s \in alive /\ t \notin alive /\ s # t
      /\ Taken(s, t) /\ alive' = alive \cup {t}
      /\ UNCHANGED <<serverOf, backlog>>
  BY DEF MoveConstruct
<1>2. /\ conns' = [conns EXCEPT ![t] = conns[s]]
      /\ UNCHANGED <<shared, clients, streams, main, run, starts, fault>>
  BY <1>1 DEF Taken
<1>3. conns[t] = <<>> /\ sockfd[t] = None /\ Defined
  BY <1>1, AtQueueFacts
<1>4. TypeOK'
  <2>1. alive' \subseteq Server /\ shared' \in alive' \cup {None}
    BY <1>1, <1>2 DEF DInv, TypeOK
  <2>2. QED BY <1>1, <1>2, <2>1, MoveTypes DEF DInv, TypeOK, clients, streams
<1>5. OwnedOnce'
  <2>1. CASE ~Defined'
    BY <2>1 DEF OwnedOnce
  <2>2. CASE Defined'
    <3>1. conns[s] = <<>>
      BY <1>1, <1>2, <2>2, MovedConns
    <3>2. conns' = conns
      BY <1>2, <1>3, <3>1 DEF DInv, TypeOK
    <3>3. QED BY <1>1, <1>3, <3>2 DEF DInv, OwnedOnce
  <2>3. QED BY <2>1, <2>2
<1>6. SocketsHeld'
  <2>1. \A u \in Server : sockfd'[u] = IF u = t THEN sockfd[s]
                                       ELSE IF u = s THEN None ELSE sockfd[u]
    BY <1>1, MoveTypes
  <2>2. \A u \in Server : sockfd'[u] # None => u \in alive'
    BY <1>1, <2>1 DEF DInv, SocketsHeld
  <2>3. \A u, v \in Server : u # v /\ sockfd'[u] # None => sockfd'[u] # sockfd'[v]
    BY <2>1 DEF DInv, SocketsHeld
  <2>4. Listening \subseteq Listening'
    <3>1. ASSUME NEW u \in alive, sockfd[u] # None PROVE sockfd[u] \in Listening'
      <4>1. u \in Server /\ u # t
        BY <1>1 DEF DInv, TypeOK
      <4>2. CASE u = s
        BY <1>1, <2>1, <3>1, <4>2 DEF Listening
      <4>3. CASE u # s
        BY <1>1, <2>1, <3>1, <4>1, <4>3 DEF Listening
      <4>4. QED BY <4>2, <4>3
    <3>2. QED BY <3>1 DEF Listening
  <2>5. QED BY <1>1, <2>2, <2>3, <2>4 DEF DInv, SocketsHeld
<1>7. QueueOK' /\ MainOK' /\ RunOK'
  BY <1>1, <1>2, SameQueue, RestAtQueue DEF DInv, clients, streams
<1>8. Framed' /\ RequestsAccounted'
  BY <1>1, <1>2, QuietTraffic DEF DInv, Joined, clients, streams
<1>9. QED BY <1>4, <1>5, <1>6, <1>7, <1>8 DEF DInv

LEMMA MoveAssignDInv ==
  ASSUME DInv, NEW s \in Server, NEW t \in Server, MoveAssign(s, t)
  PROVE  DInv'
<1>1. /\ AtQueue /\ moves < MaxMoves /\ s \in alive /\ t \in alive /\ s # t
      /\ Taken(s, t) /\ alive' = alive
      /\ backlog' = IF sockfd[t] = None THEN backlog ELSE [backlog EXCEPT ![sockfd[t]] = <<>>]
      /\ serverOf' = Disconnected(t)
  BY DEF MoveAssign
<1>2. /\ conns' = [conns EXCEPT ![t] = conns[s]]
      /\ UNCHANGED <<shared, clients, streams, main, run, starts, fault>>
  BY <1>1 DEF Taken
<1>3. Defined
  BY <1>1, AtQueueFacts
<1>4. /\ serverOf' \in [Client -> Server \cup {None}]
      /\ \A c \in Client : serverOf'[c] \in {serverOf[c], None}
  BY <1>1, <1>3, DisconnectedConns
<1>5. /\ backlog' \in [Server -> Seq(Client)]
      /\ \A u \in Server : backlog'[u] \in {backlog[u], <<>>}
      /\ sockfd[t] # None => backlog'[sockfd[t]] = <<>>
  <2>1. /\ sockfd \in [Server -> Server \cup {None}]
        /\ backlog \in [Server -> Seq(Client)] /\ <<>> \in Seq(Client)
    BY EmptySeq DEF DInv, TypeOK
  <2>2. QED BY <1>1, <2>1
<1>6. TypeOK'
  BY <1>1, <1>2, <1>4, <1>5, MoveTypes, SameTypes DEF DInv, TypeOK
<1>7. OwnedOnce'
  <2>1. CASE ~Defined'
    BY <2>1 DEF OwnedOnce
  <2>2. CASE Defined'
    <3>1. conns[s] = <<>>
      BY <1>1, <1>2, <2>2, MovedConns
    <3>2. conns' = [conns EXCEPT ![t] = <<>>]
      BY <1>2, <3>1
    <3>3. QED BY <1>1, <1>3, <3>2, EmptiedLists
  <2>3. QED BY <2>1, <2>2
<1>8. SocketsHeld'
  <2>1. \A u \in Server : sockfd'[u] = IF u = t THEN sockfd[s]
                                       ELSE IF u = s THEN None ELSE sockfd[u]
    BY <1>1, MoveTypes
  <2>2. \A u \in Server : sockfd'[u] # None => u \in alive'
    BY <1>1, <2>1 DEF DInv, SocketsHeld
  <2>3. \A u, v \in Server : u # v /\ sockfd'[u] # None => sockfd'[u] # sockfd'[v]
    BY <2>1 DEF DInv, SocketsHeld
  <2>4. ASSUME NEW u \in Server, backlog'[u] # <<>> PROVE u \in Listening'
    <3>1. u \in Listening
      BY <1>5, <2>4 DEF DInv, SocketsHeld
    <3>2. PICK v \in alive : sockfd[v] = u /\ u # None
      BY <3>1 DEF Listening
    <3>3. v # t /\ v \in Server
      BY <1>5, <2>4, <3>2 DEF DInv, TypeOK
    <3>4. CASE v = s
      BY <1>1, <2>1, <3>2, <3>4 DEF Listening
    <3>5. CASE v # s
      BY <1>1, <2>1, <3>2, <3>3, <3>5 DEF Listening
    <3>6. QED BY <3>4, <3>5
  <2>5. QED BY <2>2, <2>3, <2>4 DEF SocketsHeld
<1>9. MainOK' /\ RunOK'
  BY <1>1, <1>2, RestAtQueue
<1>10. QueueOK' /\ Framed' /\ RequestsAccounted'
  BY <1>2, <1>4, <1>5, Emptied DEF clients, streams
<1>11. QED BY <1>6, <1>7, <1>8, <1>9, <1>10 DEF DInv

LEMMA ApiDInv ==
  ASSUME DInv, Api
  PROVE  DInv'
<1>1. ASSUME NEW s \in Server, Construct(s) PROVE DInv'
  BY <1>1, ConstructedDInv DEF Construct
<1>2. ASSUME NEW s \in Server, Start(s) PROVE DInv'
  BY <1>2, ConstructedDInv DEF Start
<1>3. ASSUME NEW s \in Server, Destroy(s) PROVE DInv'
  <2>1. shared' \in alive' \cup {None}
    BY <1>3 DEF Destroy, Destructor, DInv, TypeOK
  <2>2. QED BY <1>3, <2>1, DestructorDInv DEF Destroy
<1>4. ASSUME Stop PROVE DInv'
  <2>1. AtQueue /\ shared \in alive /\ Destructor(shared) /\ shared' = None
    BY <1>4 DEF Stop, SharedReset, DInv, TypeOK
  <2>2. QED BY <2>1, DestructorDInv
<1>5. QED BY <1>1, <1>2, <1>3, <1>4, ShutdownDInv, RunBeginsDInv, MoveConstructDInv,
             MoveAssignDInv DEF Api

-----------------------------------------------------------------------------
(* Accepting.                                                              *)

\* What OwnedOnce says of the lists, without the proviso, which follows.
Owned ==
  /\ \A c \in Client : serverOf[c] # None =>
       /\ serverOf[c] \in alive
       /\ c \in ToSet(conns[serverOf[c]])
  /\ \A s \in Server : \A i, j \in DOMAIN conns[s] :
       /\ serverOf[conns[s][i]] = s
       /\ conns[s][i] = conns[s][j] => i = j

LEMMA OwnedNext ==
  ASSUME Owned', alive' \subseteq Server, Defined, UNCHANGED fault
  PROVE  OwnedOnce' /\ Defined'
<1>1. ASSUME NEW s \in alive', NEW t \in alive', s # t
      PROVE  ToSet(conns'[s]) \cap ToSet(conns'[t]) = {}
  <2>1. s \in Server /\ t \in Server
    OBVIOUS
  <2>2. \A x \in ToSet(conns'[s]) : serverOf'[x] = s
    BY <2>1 DEF Owned, ToSet
  <2>3. \A x \in ToSet(conns'[t]) : serverOf'[x] = t
    BY <2>1 DEF Owned, ToSet
  <2>4. QED BY <1>1, <2>2, <2>3
<1>2. Defined'
  BY <1>1 DEF Defined
<1>3. OwnedOnce'
  BY DEF Owned, OwnedOnce
<1>4. QED BY <1>2, <1>3

LEMMA AcceptedKeeps ==
  ASSUME DInv, Defined, NEW s \in alive, NEW succeeds \in BOOLEAN,
         sockfd[s] # None, backlog[sockfd[s]] # <<>>, Accepted(s, succeeds),
         main = Idle, UNCHANGED <<objects, clients, streams, main, fault>>
  PROVE  /\ backlog' \in [Server -> Seq(Client)]
         /\ conns' \in [Server -> Seq(Client)]
         /\ serverOf' \in [Client -> Server \cup {None}]
         /\ OwnedOnce' /\ Defined' /\ SocketsHeld' /\ QueueOK' /\ MainOK'
         /\ Framed' /\ RequestsAccounted'
         /\ \A t \in Server : ToSet(conns[t]) \subseteq ToSet(conns'[t])
<1>1. /\ s \in Server /\ alive \subseteq Server /\ sockfd[s] \in Server
      /\ backlog \in [Server -> Seq(Client)] /\ conns \in [Server -> Seq(Client)]
      /\ serverOf \in [Client -> Server \cup {None}]
  BY DEF DInv, TypeOK
<1>2. MainOK'
  BY DEF MainOK, Idle
<1>3. CASE ~succeeds
  <2>1. UNCHANGED <<backlog, conns, serverOf>>
    BY <1>3 DEF Accepted
  <2>2. OwnedOnce' /\ SocketsHeld' /\ QueueOK' /\ Framed' /\ RequestsAccounted'
    BY <2>1, SameLists, SameSockets, SameQueue, QuietTraffic
       DEF DInv, Joined, objects, clients, streams
  <2>3. Defined'
    BY <2>1, SameDefined DEF objects
  <2>4. QED BY <1>1, <1>2, <2>1, <2>2, <2>3
<1>4. CASE succeeds
  <2>1. PICK f \in Server : f = sockfd[s]
    BY <1>1
  <2>2. PICK c \in Client : c = Head(backlog[f]) /\ c = backlog[f][1]
    BY <1>1, <2>1, TailAt
  <2>3. /\ backlog' = [backlog EXCEPT ![f] = Tail(@)]
        /\ conns' = [conns EXCEPT ![s] = Append(@, c)]
        /\ serverOf' = [serverOf EXCEPT ![c] = s]
    BY <1>4, <2>1, <2>2 DEF Accepted
  <2>4. /\ Tail(backlog[f]) \in Seq(Client)
        /\ Len(backlog[f]) \in Nat \ {0}
        /\ DOMAIN backlog[f] = 1 .. Len(backlog[f])
        /\ DOMAIN Tail(backlog[f]) = 1 .. (Len(backlog[f]) - 1)
        /\ \A i \in 1 .. (Len(backlog[f]) - 1) : Tail(backlog[f])[i] = backlog[f][i + 1]
    BY <1>1, <2>1, TailAt
  <2>5. /\ Append(conns[s], c) \in Seq(Client)
        /\ ToSet(Append(conns[s], c)) = ToSet(conns[s]) \cup {c}
        /\ DOMAIN Append(conns[s], c) = 1 .. (Len(conns[s]) + 1)
        /\ DOMAIN conns[s] = 1 .. Len(conns[s]) /\ Len(conns[s]) \in Nat
        /\ \A i \in DOMAIN conns[s] : Append(conns[s], c)[i] = conns[s][i]
        /\ Append(conns[s], c)[Len(conns[s]) + 1] = c
    BY <1>1, AppendedSet, AppendProperties
  <2>6. /\ backlog' \in [Server -> Seq(Client)]
        /\ conns' \in [Server -> Seq(Client)]
        /\ serverOf' \in [Client -> Server \cup {None}]
    BY <1>1, <2>3, <2>4, <2>5
  <2>7. /\ \A t \in Server : backlog'[t] = IF t = f THEN Tail(backlog[f]) ELSE backlog[t]
        /\ \A t \in Server : conns'[t] = IF t = s THEN Append(conns[s], c) ELSE conns[t]
        /\ \A d \in Client : serverOf'[d] = IF d = c THEN s ELSE serverOf[d]
    BY <1>1, <2>3
  <2>8. 1 \in DOMAIN backlog[f] /\ serverOf[c] = None /\ peer[c] # "off" /\ s # None
    <3>1. 1 \in DOMAIN backlog[f]
      BY <2>4
    <3>2. serverOf[backlog[f][1]] = None /\ peer[backlog[f][1]] # "off"
      BY <3>1 DEF DInv, QueueOK
    <3>3. s # None
      BY <1>1, DebugServerAssumption DEF DebugServerAssumption
    <3>4. QED BY <2>2, <3>1, <3>2, <3>3
  <2>9. \A t \in Server : \A i \in DOMAIN conns[t] :
          conns[t][i] \in Client /\ conns[t][i] # c /\ serverOf[conns[t][i]] = t
    <3>1. \A t \in Server : \A i \in DOMAIN conns[t] :
            conns[t][i] \in Client /\ serverOf[conns[t][i]] = t
      BY <1>1, ElementOfSeq, LenProperties DEF DInv, OwnedOnce
    <3>2. \A t \in Server : t # None
      BY DebugServerAssumption DEF DebugServerAssumption
    <3>3. QED BY <2>8, <3>1, <3>2
  <2>10. Owned'
    <3>1. ASSUME NEW d \in Client, serverOf'[d] # None
          PROVE  serverOf'[d] \in alive' /\ d \in ToSet(conns'[serverOf'[d]])
      <4>1. CASE d = c
        BY <1>1, <2>5, <2>7, <4>1 DEF objects
      <4>2. CASE d # c
        <5>1. serverOf'[d] = serverOf[d] /\ serverOf[d] \in Server
          BY <1>1, <2>7, <3>1, <4>2
        <5>2. serverOf[d] \in alive /\ d \in ToSet(conns[serverOf[d]])
          BY <3>1, <5>1 DEF DInv, OwnedOnce
        <5>3. QED BY <2>5, <2>7, <5>1, <5>2 DEF objects
      <4>3. QED BY <4>1, <4>2
    <3>2. ASSUME NEW t \in Server, NEW i \in DOMAIN conns'[t], NEW j \in DOMAIN conns'[t]
          PROVE  /\ serverOf'[conns'[t][i]] = t
                 /\ conns'[t][i] = conns'[t][j] => i = j
      <4>1. CASE t # s
        <5>1. conns'[t] = conns[t]
          BY <2>7, <4>1
        <5>2. conns[t][i] = conns[t][j] => i = j
          BY <5>1 DEF DInv, OwnedOnce
        <5>3. QED BY <2>7, <2>9, <5>1, <5>2
      <4>2. CASE t = s
        <5>1. conns'[t] = Append(conns[s], c)
          BY <2>7, <4>2
        <5>2. \A l \in DOMAIN conns'[t] : l \in DOMAIN conns[s] \/ l = Len(conns[s]) + 1
          BY <2>5, <5>1
        <5>3. \A k, l \in DOMAIN conns[s] : conns[s][k] = conns[s][l] => k = l
          BY <1>1 DEF DInv, OwnedOnce
        <5>4. QED BY <1>1, <2>5, <2>7, <2>9, <4>2, <5>1, <5>2, <5>3
      <4>3. QED BY <4>1, <4>2
    <3>3. QED BY <3>1, <3>2 DEF Owned
  <2>11. OwnedOnce' /\ Defined'
    BY <1>1, <2>10, OwnedNext DEF objects
  <2>12. SocketsHeld'
    <3>1. \A t \in Server : backlog'[t] # <<>> => backlog[t] # <<>>
      BY <2>1, <2>7
    <3>2. Listening' = Listening
      BY DEF Listening, objects
    <3>3. QED BY <3>1, <3>2 DEF DInv, SocketsHeld, objects
  <2>13. \A t \in Server : \A i \in DOMAIN backlog'[t] :
           /\ t = f => i + 1 \in DOMAIN backlog[f] /\ i + 1 # 1
                       /\ backlog'[t][i] = backlog[f][i + 1]
           /\ t # f => i \in DOMAIN backlog[t] /\ backlog'[t][i] = backlog[t][i]
    <3> SUFFICES ASSUME NEW t \in Server, NEW i \in DOMAIN backlog'[t]
                 PROVE  /\ t = f => i + 1 \in DOMAIN backlog[f] /\ i + 1 # 1
                                    /\ backlog'[t][i] = backlog[f][i + 1]
                        /\ t # f => /\ i \in DOMAIN backlog[t]
                                    /\ backlog'[t][i] = backlog[t][i]
      OBVIOUS
    <3>1. CASE t = f
      <4>1. backlog'[t] = Tail(backlog[f])
        BY <2>7, <3>1
      <4>2. i \in 1 .. (Len(backlog[f]) - 1)
        BY <2>4, <4>1
      <4>3. i + 1 \in 1 .. Len(backlog[f]) /\ i + 1 # 1
        BY <2>4, <4>2
      <4>4. QED BY <2>4, <3>1, <4>1, <4>2, <4>3
    <3>2. CASE t # f
      BY <2>7, <3>2
    <3>3. QED BY <3>1, <3>2
  <2>14. \A t \in Server : \A i \in DOMAIN backlog[t] : backlog[t][i] \in Client
    BY <1>1, ElementOfSeq, LenProperties
  <2>15. QueueOK'
    <3>1. \A t \in Server : \A i \in DOMAIN backlog[t] :
            backlog[t][i] = c => t = f /\ i = 1
      BY <2>2, <2>8 DEF DInv, QueueOK
    <3>2. ASSUME NEW t \in Server, NEW i \in DOMAIN backlog'[t]
          PROVE  serverOf'[backlog'[t][i]] = None /\ peer'[backlog'[t][i]] # "off"
      <4>1. \E u \in Server : \E k \in DOMAIN backlog[u] :
              backlog'[t][i] = backlog[u][k] /\ ~(u = f /\ k = 1)
        BY <2>13
      <4>a. PICK u \in Server : \E k \in DOMAIN backlog[u] :
              backlog'[t][i] = backlog[u][k] /\ ~(u = f /\ k = 1)
        BY <4>1
      <4>b. PICK k \in DOMAIN backlog[u] :
              backlog'[t][i] = backlog[u][k] /\ ~(u = f /\ k = 1)
        BY <4>a
      <4>2. backlog[u][k] # c /\ backlog[u][k] \in Client
        BY <2>14, <3>1, <4>b
      <4>3. serverOf[backlog[u][k]] = None /\ peer[backlog[u][k]] # "off"
        BY DEF DInv, QueueOK
      <4>4. QED BY <2>7, <4>b, <4>2, <4>3 DEF clients, streams
    <3>3. ASSUME NEW t \in Server, NEW u \in Server,
                 NEW i \in DOMAIN backlog'[t], NEW j \in DOMAIN backlog'[u],
                 backlog'[t][i] = backlog'[u][j]
          PROVE  t = u /\ i = j
      <4> DEFINE a == IF t = f THEN i + 1 ELSE i
                 b == IF u = f THEN j + 1 ELSE j
      <4>1. /\ a \in DOMAIN backlog[t] /\ backlog'[t][i] = backlog[t][a]
            /\ b \in DOMAIN backlog[u] /\ backlog'[u][j] = backlog[u][b]
        BY <2>13
      <4> HIDE DEF a, b
      <4>2. t = u /\ a = b
        <5>1. \A k \in DOMAIN backlog[t] : \A l \in DOMAIN backlog[u] :
                backlog[t][k] = backlog[u][l] => t = u /\ k = l
          BY DEF DInv, QueueOK
        <5>2. backlog[t][a] = backlog[u][b]
          BY <3>3, <4>1
        <5>3. QED BY <4>1, <5>1, <5>2
      <4>3. i \in Nat /\ j \in Nat
        <5>1. DOMAIN backlog'[t] \subseteq Nat /\ DOMAIN backlog'[u] \subseteq Nat
          BY <2>6, LenProperties
        <5>2. QED BY <5>1
      <4>4. QED BY <4>2, <4>3 DEF a, b
    <3>4. \A d \in Client : serverOf'[d] # None => peer[d] # "off"
      BY <2>7, <2>8 DEF DInv, QueueOK
    <3>5. QED BY <3>2, <3>3, <3>4 DEF DInv, QueueOK, clients, streams
  <2>16. Framed' /\ RequestsAccounted'
    <3>1. \A t \in Server : ToSet(backlog'[t]) \subseteq ToSet(backlog[t])
      BY <2>13 DEF ToSet
    <3>2. c \in ToSet(backlog[f])
      BY <2>2, <2>8 DEF ToSet
    <3>3. \A d \in Client : Joined(d)' => Joined(d)
      BY <2>7, <3>1, <3>2 DEF Joined
    <3>4. QED BY <3>3, QuietTraffic DEF DInv, clients, streams
  <2>17. \A t \in Server : ToSet(conns[t]) \subseteq ToSet(conns'[t])
    BY <2>5, <2>7
  <2>18. QED BY <1>2, <2>6, <2>11, <2>12, <2>15, <2>16, <2>17
<1>5. QED BY <1>3, <1>4

LEMMA StutterDInv ==
  ASSUME DInv, UNCHANGED vars
  PROVE  DInv'
<1>1. TypeOK'
  BY DEF DInv, TypeOK, vars
<1>2. OwnedOnce' /\ SocketsHeld' /\ QueueOK' /\ MainOK' /\ RunOK'
  BY SameLists, SameSockets, SameQueue, SameMain, SameRun DEF DInv, vars
<1>3. Framed' /\ RequestsAccounted'
  BY QuietTraffic DEF DInv, Joined, vars
<1>4. QED BY <1>1, <1>2, <1>3 DEF DInv

LEMMA AcceptEventDInv ==
  ASSUME DInv, NEW s \in Server, AcceptEvent(s)
  PROVE  DInv'
<1> DEFINE u == source[s]
<1>1. AtQueue /\ UNCHANGED <<objects, clients, streams, main, run>>
  BY DEF AcceptEvent
<1>2. CASE fault' = TRUE /\ UNCHANGED <<backlog, conns, serverOf>>
  BY <1>1, <1>2, FaultDInv
<1>3. ASSUME NEW succeeds \in BOOLEAN, u \in alive, sockfd[u] # None, backlog[sockfd[u]] # <<>>,
             Accepted(u, succeeds), fault' = fault
      PROVE  DInv'
  <2>1. Defined /\ main = Idle
    BY <1>1 DEF AtQueue
  <2>2. /\ backlog' \in [Server -> Seq(Client)]
        /\ conns' \in [Server -> Seq(Client)]
        /\ serverOf' \in [Client -> Server \cup {None}]
        /\ OwnedOnce' /\ SocketsHeld' /\ QueueOK' /\ MainOK'
        /\ Framed' /\ RequestsAccounted'
    <3> HIDE DEF u
    <3>1. QED BY <1>1, <1>3, <2>1, AcceptedKeeps
  <2>3. TypeOK'
    BY <1>1, <1>3, <2>2 DEF DInv, TypeOK, objects, clients, streams
  <2>4. RunOK'
    BY <1>1, RestAtQueue
  <2>5. QED BY <2>2, <2>3, <2>4 DEF DInv
<1>4. CASE UNCHANGED <<backlog, conns, serverOf, fault>>
  <2>1. UNCHANGED vars
    BY <1>1, <1>4 DEF vars, objects, clients, streams
  <2>2. QED BY <2>1, StutterDInv
<1>5. QED BY <1>2, <1>3, <1>4 DEF AcceptEvent

LEMMA RunSelectsDInv == DInv /\ RunSelects => DInv'
<1> SUFFICES ASSUME DInv, RunSelects PROVE DInv'
  OBVIOUS
<1>1. PICK chosen \in SUBSET ToSet(Selected), listener \in BOOLEAN :
        /\ run' = [run EXCEPT !.todo = chosen, !.i = 1, !.accepted = @ \/ listener,
                             !.again = FALSE]
        /\ IF listener
           THEN /\ backlog[sockfd[run.server]] # <<>>
                /\ \E succeeds \in BOOLEAN : Accepted(run.server, succeeds)
           ELSE UNCHANGED <<backlog, conns, serverOf>>
  BY DEF RunSelects
<1>2. /\ run.server # None /\ main = Idle
      /\ UNCHANGED <<objects, clients, streams, main, fault>>
  BY DEF RunSelects, Running
<1>3. /\ run.server \in Server /\ Defined /\ sockfd[run.server] # None /\ run.server \in alive
      /\ chosen \in SUBSET Client
  <2>1. run.server \in Server /\ Defined /\ sockfd[run.server] # None
    BY <1>2 DEF DInv, TypeOK, RunOK
  <2>2. run.server \in alive
    BY <2>1 DEF DInv, SocketsHeld
  <2>3. conns[run.server] \in Seq(Client)
    BY <2>1 DEF DInv, TypeOK
  <2>4. ToSet(conns[run.server]) \subseteq Client
    BY <2>3, ElementOfSeq, LenProperties DEF ToSet
  <2>5. QED BY <1>1, <2>1, <2>2, <2>4 DEF Selected
<1>4. /\ run' \in [server : Server \cup {None}, todo : SUBSET Client, i : Nat,
                   accepted : BOOLEAN, forever : BOOLEAN, again : BOOLEAN]
      /\ run'.server = run.server /\ run'.todo = chosen /\ run'.i = 1
  BY <1>1, <1>3 DEF DInv, TypeOK
<1>5. /\ backlog' \in [Server -> Seq(Client)]
      /\ conns' \in [Server -> Seq(Client)]
      /\ serverOf' \in [Client -> Server \cup {None}]
      /\ OwnedOnce' /\ Defined' /\ SocketsHeld' /\ QueueOK' /\ MainOK'
      /\ Framed' /\ RequestsAccounted'
      /\ ToSet(conns[run.server]) \subseteq ToSet(conns'[run.server])
  <2>1. CASE listener
    <3>1. PICK succeeds \in BOOLEAN : Accepted(run.server, succeeds)
      BY <1>1, <2>1
    <3>2. backlog[sockfd[run.server]] # <<>>
      BY <1>1, <2>1
    <3>3. QED BY <1>2, <1>3, <3>1, <3>2, AcceptedKeeps
  <2>2. CASE ~listener
    <3>1. UNCHANGED <<backlog, conns, serverOf>>
      BY <1>1, <2>2
    <3>2. OwnedOnce' /\ SocketsHeld' /\ QueueOK' /\ MainOK' /\ Framed' /\ RequestsAccounted'
      BY <1>2, <3>1, SameLists, SameSockets, SameQueue, SameMain, QuietTraffic
         DEF DInv, Joined, objects, clients, streams
    <3>3. Defined'
      BY <1>2, <1>3, <3>1, SameDefined DEF objects
    <3>4. QED BY <3>1, <3>2, <3>3 DEF DInv, TypeOK
  <2>3. QED BY <2>1, <2>2
<1>6. TypeOK'
  BY <1>2, <1>4, <1>5 DEF DInv, TypeOK, objects, clients, streams
<1>7. RunOK'
  <2>1. main'.client \notin chosen
    BY <1>2, <1>3, DebugServerAssumption DEF Idle, DebugServerAssumption
  <2>2. chosen \subseteq ToSet(conns'[run.server])
    BY <1>5 DEF Selected
  <2>3. QED BY <1>2, <1>3, <1>4, <1>5, <2>1, <2>2 DEF RunOK, objects
<1>8. QED BY <1>5, <1>6, <1>7 DEF DInv
-----------------------------------------------------------------------------
(* The handler.                                                            *)

LEMMA NoneClient == None \notin Client
  BY DebugServerAssumption DEF DebugServerAssumption

\* close_connection, from whichever step of the handler.
LEMMA CloseKeeps ==
  ASSUME DInv, NEW c \in Client, main.at # "idle", c = main.client, CloseConnection(c),
         inbox' \in [Client -> Seq(Part)],
         \A d \in Client \ {c} : inbox'[d] = inbox[d],
         lost' \in {lost, lost \cup {c}},
         UNCHANGED <<objects, backlog, clients, outbox, run, fault>>
  PROVE  DInv'
<1>1. Defined /\ serverOf[c] # None
  BY DEF DInv, MainOK
<1>2. PICK s \in Server : s = serverOf[c]
  BY <1>1 DEF DInv, TypeOK
<1>3. /\ s \in alive /\ c \in ToSet(conns[s])
      /\ conns' = [conns EXCEPT ![s] = Closed(@, c)]
      /\ serverOf' = [serverOf EXCEPT ![c] = None]
      /\ main' = Idle
  BY <1>1, <1>2 DEF DInv, OwnedOnce, CloseConnection
<1>4. /\ Closed(conns[s], c) \in Seq(Client)
      /\ ToSet(Closed(conns[s], c)) = ToSet(conns[s]) \ {c}
      /\ \A i, j \in DOMAIN Closed(conns[s], c) :
           Closed(conns[s], c)[i] = Closed(conns[s], c)[j] => i = j
  <2>1. conns[s] \in Seq(Client)
    BY DEF DInv, TypeOK
  <2>2. \A i, j \in DOMAIN conns[s] : conns[s][i] = conns[s][j] => i = j
    BY <1>1 DEF DInv, OwnedOnce
  <2>3. QED BY <1>3, <2>1, <2>2, ClosedList
<1>5. PICK list \in Seq(Client) : list = Closed(conns[s], c)
  BY <1>4
<1>6. /\ \A t \in Server : conns'[t] = IF t = s THEN list ELSE conns[t]
      /\ \A d \in Client : serverOf'[d] = IF d = c THEN None ELSE serverOf[d]
      /\ conns' \in [Server -> Seq(Client)]
      /\ serverOf' \in [Client -> Server \cup {None}]
  BY <1>3, <1>4, <1>5 DEF DInv, TypeOK
<1>7. main' = Idle /\ main'.at = "idle" /\ main'.client = None /\ Idle \in
        [at : {"idle", "header", "payload", "reply"}, client : Client \cup {None},
         command : Answered \cup {None}]
  BY <1>3 DEF Idle
<1>8. TypeOK'
  BY <1>6, <1>7 DEF DInv, TypeOK, objects, clients, streams
<1>9. \A t \in Server : \A i \in DOMAIN conns[t] :
        conns[t][i] \in Client /\ serverOf[conns[t][i]] = t
  BY <1>1, ElementOfSeq, LenProperties DEF DInv, OwnedOnce, TypeOK
<1>10. Owned'
  <2>1. ASSUME NEW d \in Client, serverOf'[d] # None
        PROVE  serverOf'[d] \in alive' /\ d \in ToSet(conns'[serverOf'[d]])
    <3>1. d # c /\ serverOf'[d] = serverOf[d] /\ serverOf[d] \in Server
      BY <1>6, <2>1
    <3>2. serverOf[d] \in alive /\ d \in ToSet(conns[serverOf[d]])
      BY <1>1, <2>1, <3>1 DEF DInv, OwnedOnce
    <3>3. QED BY <1>4, <1>5, <1>6, <3>1, <3>2 DEF objects
  <2>2. ASSUME NEW t \in Server, NEW i \in DOMAIN conns'[t], NEW j \in DOMAIN conns'[t]
        PROVE  /\ serverOf'[conns'[t][i]] = t
               /\ conns'[t][i] = conns'[t][j] => i = j
    <3>1. CASE t = s
      <4>1. conns'[t] = list /\ list[i] \in ToSet(list)
        BY <1>6, <3>1 DEF ToSet
      <4>2. list[i] # c /\ list[i] \in ToSet(conns[s])
        BY <1>4, <1>5, <4>1
      <4>3. list[i] \in Client /\ serverOf[list[i]] = s
        BY <1>9, <4>2 DEF ToSet
      <4>4. list[i] = list[j] => i = j
        BY <1>4, <1>5, <4>1
      <4>5. QED BY <1>6, <3>1, <4>1, <4>2, <4>3, <4>4
    <3>2. CASE t # s
      <4>1. conns'[t] = conns[t]
        BY <1>6, <3>2
      <4>2. conns[t][i] \in Client /\ serverOf[conns[t][i]] = t /\ conns[t][i] # c
        BY <1>2, <1>9, <3>2, <4>1
      <4>3. conns[t][i] = conns[t][j] => i = j
        BY <1>1, <4>1 DEF DInv, OwnedOnce
      <4>4. QED BY <1>6, <4>1, <4>2, <4>3
    <3>3. QED BY <3>1, <3>2
  <2>3. QED BY <2>1, <2>2 DEF Owned
<1>11. OwnedOnce' /\ Defined'
  BY <1>1, <1>10, OwnedNext DEF DInv, TypeOK, objects
<1>12. SocketsHeld'
  BY SameSockets DEF DInv, objects
<1>13. \A t \in Server : \A i \in DOMAIN backlog[t] :
         backlog[t][i] \in Client /\ backlog[t][i] # c
  BY <1>1, ElementOfSeq, LenProperties DEF DInv, QueueOK, TypeOK
<1>14. QueueOK'
  <2>1. \A t \in Server : \A i \in DOMAIN backlog'[t] :
          serverOf'[backlog'[t][i]] = None /\ peer'[backlog'[t][i]] # "off"
    <3> SUFFICES ASSUME NEW t \in Server, NEW i \in DOMAIN backlog[t]
                 PROVE  serverOf'[backlog[t][i]] = None /\ peer'[backlog[t][i]] # "off"
      OBVIOUS
    <3>1. PICK d \in Client : d = backlog[t][i] /\ d # c
      BY <1>13
    <3>2. serverOf[d] = None /\ peer[d] # "off"
      BY <3>1 DEF DInv, QueueOK
    <3>3. QED BY <1>6, <3>1, <3>2 DEF clients, streams
  <2>2. peer[c] # "off"
    BY <1>1 DEF DInv, QueueOK
  <2>3. \A d \in Client : serverOf'[d] # None => peer'[d] # "off"
    BY <1>6 DEF DInv, QueueOK, clients, streams
  <2>4. \A d \in Client : peer'[d] = "off" =>
          asked'[d] = <<>> /\ inbox'[d] = <<>> /\ outbox'[d] = <<>> /\ d \notin owing'
    BY <2>2 DEF DInv, QueueOK, clients
  <2>5. \A t, u \in Server : \A i \in DOMAIN backlog'[t] : \A j \in DOMAIN backlog'[u] :
          backlog'[t][i] = backlog'[u][j] => t = u /\ i = j
    BY DEF DInv, QueueOK
  <2>6. QED BY <2>1, <2>3, <2>4, <2>5 DEF QueueOK
<1>15. MainOK'
  BY <1>7 DEF MainOK, Idle
<1>16. RunOK'
  <2>1. CASE run.server = None
    BY <2>1 DEF DInv, RunOK, NotRunning
  <2>2. CASE run.server # None
    <3>1. /\ run.server \in Server /\ run.i = 1 /\ sockfd[run.server] # None
          /\ run.todo \subseteq ToSet(conns[run.server]) /\ c \notin run.todo
          /\ run.todo \subseteq Client
      BY <2>2 DEF DInv, RunOK, TypeOK
    <3>2. run.todo \subseteq ToSet(conns'[run.server])
      BY <1>4, <1>5, <1>6, <3>1
    <3>3. main'.client \notin run.todo
      BY <1>7, <3>1, NoneClient
    <3>4. QED BY <1>11, <2>2, <3>1, <3>2, <3>3 DEF RunOK, objects
  <2>3. QED BY <2>1, <2>2
<1>17. ASSUME NEW d \in Client PROVE Traffic(d)'
  <2>1. CASE d = c
    <3>1. \A t \in Server : c \notin ToSet(backlog'[t])
      BY <1>13 DEF ToSet
    <3>2. ~Joined(c)'
      BY <1>6, <3>1 DEF Joined
    <3>3. QED BY <2>1, <3>2 DEF Traffic
  <2>2. CASE d # c
    <3>1. Traffic(d)
      BY TrafficParts DEF DInv
    <3>2. Joined(d)' => Joined(d)
      BY <1>6, <2>2 DEF Joined
    <3>3. Headless(d)' = Headless(d) /\ InHand(d)' = InHand(d)
      BY <1>7, <2>2 DEF Headless, InHand
    <3>4. QED BY <2>2, <3>1, <3>2, <3>3, OtherTraffic DEF clients, streams
  <2>3. QED BY <2>1, <2>2
<1>18. Framed' /\ RequestsAccounted'
  BY <1>17, TrafficPartsNext
<1>19. QED BY <1>8, <1>11, <1>12, <1>14, <1>15, <1>16, <1>18 DEF DInv

\* A step of the handler that keeps the connection open.
LEMMA HandlerKeeps ==
  ASSUME DInv, NEW c \in Client, serverOf[c] # None, Defined,
         inbox' \in [Client -> Seq(Part)], outbox' \in [Client -> Seq(Command)],
         lost' \in {lost, lost \cup {c}},
         \A d \in Client \ {c} : /\ inbox'[d] = inbox[d] /\ outbox'[d] = outbox[d]
                                 /\ Headless(d)' = Headless(d) /\ InHand(d)' = InHand(d),
         UNCHANGED <<objects, conns, serverOf, backlog, clients, fault>>,
         main' \in [at : {"idle", "header", "payload", "reply"}, client : Client \cup {None},
                    command : Answered \cup {None}],
         run' \in [server : Server \cup {None}, todo : SUBSET Client, i : Nat,
                   accepted : BOOLEAN, forever : BOOLEAN, again : BOOLEAN],
         MainOK', RunOK', Traffic(c)'
  PROVE  DInv'
<1>1. TypeOK'
  BY DEF DInv, TypeOK, objects, clients, streams
<1>2. OwnedOnce' /\ SocketsHeld'
  BY SameLists, SameSockets DEF DInv, objects
<1>3. QueueOK'
  <2>1. peer[c] # "off"
    BY DEF DInv, QueueOK
  <2>2. \A d \in Client : peer'[d] = "off" =>
          asked'[d] = <<>> /\ inbox'[d] = <<>> /\ outbox'[d] = <<>> /\ d \notin owing'
    BY <2>1 DEF DInv, QueueOK, clients
  <2>3. QED BY <2>2 DEF DInv, QueueOK, clients, streams
<1>4. ASSUME NEW d \in Client, d # c PROVE Traffic(d)'
  <2>1. Traffic(d)
    BY TrafficParts DEF DInv
  <2>2. Joined(d)' => Joined(d)
    BY DEF Joined
  <2>3. QED BY <1>4, <2>1, <2>2, OtherTraffic DEF clients, streams
<1>5. Framed' /\ RequestsAccounted'
  BY <1>4, TrafficPartsNext
<1>6. QED BY <1>1, <1>2, <1>3, <1>5 DEF DInv

\* What the main thread may do, and what run remembers.
LEMMA Handles ==
  ASSUME NEW c \in Client, NEW k \in Answered \cup {None},
         NEW at \in {"header", "payload", "reply"}
  PROVE  /\ Handling(at, c, k) \in
              [at : {"idle", "header", "payload", "reply"}, client : Client \cup {None},
               command : Answered \cup {None}]
         /\ Handling(at, c, k).at = at /\ Handling(at, c, k).client = c
         /\ Handling(at, c, k).command = k
  BY DEF Handling

\* The handler goes on to another of its calls for the same client.
LEMMA GoesOn ==
  ASSUME DInv, main.at # "idle", main' # Idle => main'.client = main.client,
         main'.at # "idle" => main' # Idle /\ serverOf[main.client] # None,
         main'.at = "idle" => main' = Idle,
         main'.at = "reply" => main'.command \in Answered,
         UNCHANGED <<objects, conns, serverOf, run, fault>>
  PROVE  MainOK' /\ RunOK'
<1>1. main.client \in Client /\ Defined /\ Defined'
  BY SameDefined DEF DInv, MainOK, objects
<1>2. MainOK'
  BY <1>1 DEF MainOK
<1>3. run.server # None => main'.client \notin run.todo
  <2>1. CASE main' = Idle
    <3>1. main'.client = None
      BY <2>1 DEF Idle
    <3>2. run.todo \subseteq Client
      BY DEF DInv, TypeOK
    <3>3. QED BY <3>1, <3>2, NoneClient
  <2>2. CASE main' # Idle
    BY <2>2 DEF DInv, RunOK
  <2>3. QED BY <2>1, <2>2
<1>4. RunOK'
  <2>1. CASE run.server = None
    BY <2>1 DEF DInv, RunOK, NotRunning
  <2>2. CASE run.server # None
    BY <1>1, <1>3, <2>2 DEF DInv, RunOK, objects
  <2>3. QED BY <2>1, <2>2
<1>5. QED BY <1>2, <1>4

\* ... which is nothing to the others.
LEMMA Proceeds ==
  ASSUME DInv, NEW c \in Client, main.at # "idle", c = main.client,
         main' # Idle => main'.client = c
  PROVE  \A d \in Client \ {c} :
           Headless(d)' = Headless(d) /\ InHand(d)' = InHand(d)
<1>1. Idle.at = "idle"
  BY DEF Idle
<1>2. QED BY <1>1 DEF Headless, InHand

\* What a read takes: the part in front, or more, and then the stream is lost.
LEMMA ReadTakes ==
  ASSUME DInv, NEW c \in Client, inbox[c] # <<>>, Read(c)
  PROVE  /\ inbox' \in [Client -> Seq(Part)]
         /\ \A d \in Client \ {c} : inbox'[d] = inbox[d]
         /\ lost' \in {lost, lost \cup {c}}
         /\ c \notin lost' => inbox'[c] = Tail(inbox[c])
<1>1. /\ inbox \in [Client -> Seq(Part)] /\ inbox[c] \in Seq(Part)
      /\ Len(inbox[c]) \in Nat /\ lost \subseteq Client
  BY LenProperties DEF DInv, TypeOK
<1>2. CASE inbox' = [inbox EXCEPT ![c] = Tail(@)] /\ lost' = lost
  <2>1. Tail(inbox[c]) \in Seq(Part)
    BY <1>1, TailAt
  <2>2. QED BY <1>1, <1>2, <2>1
<1>3. ASSUME NEW j \in 2..Len(inbox[c]), NEW cut \in {<<>>, <<"rest">>}, lost' = lost \cup {c},
             inbox' = [inbox EXCEPT ![c] = cut \o SubSeq(@, j + 1, Len(@))]
      PROVE  /\ inbox' \in [Client -> Seq(Part)] /\ c \in lost'
             /\ \A d \in Client \ {c} : inbox'[d] = inbox[d]
  <2> DEFINE n == Len(inbox[c])
             kept == SubSeq(inbox[c], j + 1, n)
  <2>1. n \in Nat /\ j + 1 \in Int /\ n \in Int
    BY <1>1
  <2>2. \A k \in (j + 1)..n : inbox[c][k] \in Part
    <3>1. \A k \in (j + 1)..n : k \in 1..Len(inbox[c])
      BY <2>1
    <3>2. QED BY <1>1, <3>1, ElementOfSeq
  <2>3. kept \in Seq(Part)
    <3> HIDE DEF n
    <3>1. QED BY <2>1, <2>2, SubSeqProperties
  <2>4. cut \in Seq(Part)
    <3>1. <<>> \in Seq(Part) /\ "rest" \in Part
      BY EmptySeq DEF Part
    <3>2. <<"rest">> \in Seq(Part)
      BY <3>1
    <3>3. QED BY <3>1, <3>2
  <2>5. cut \o kept \in Seq(Part)
    <3> HIDE DEF kept
    <3>1. QED BY <2>3, <2>4, ConcatProperties
  <2>6. QED BY <1>1, <1>3, <2>5
<1>4. QED BY <1>2, <1>3 DEF Read

\* A part that is no stranger leaves none behind that was not there.
LEMMA TailStranger ==
  ASSUME NEW q \in Seq(Part), q # <<>>, Head(q) # "stranger", "stranger" \notin ToSet(Tail(q))
  PROVE  "stranger" \notin ToSet(q)
<1> DEFINE n == Len(q)
           p == Tail(q)
<1>1. /\ Head(q) = q[1] /\ n \in Nat \ {0} /\ DOMAIN q = 1 .. n
      /\ DOMAIN p = 1 .. (n - 1) /\ \A i \in 1 .. (n - 1) : p[i] = q[i + 1]
  BY TailAt
<1> HIDE DEF n, p
<1>2. ASSUME NEW i \in 1 .. n, i # 1 PROVE i - 1 \in 1 .. (n - 1) /\ q[i] = p[i - 1]
  <2>1. i - 1 \in 1 .. (n - 1) /\ i - 1 + 1 = i
    BY <1>1, <1>2
  <2>2. QED BY <1>1, <2>1
<1>3. \A i \in 1 .. n : q[i] # "stranger"
  BY <1>1, <1>2 DEF ToSet, p
<1>4. QED BY <1>1, <1>3 DEF ToSet

LEMMA ReadHeaderDInv ==
  ASSUME DInv, ReadHeader
  PROVE  DInv'
<1>1. PICK c \in Client : c = main.client /\ serverOf[c] # None
  BY DEF ReadHeader, DInv, MainOK
<1>2. /\ main.at = "header" /\ main.at # "idle" /\ Defined /\ Joined(c)
      /\ UNCHANGED <<objects, backlog, clients, outbox, run, fault>>
      /\ inbox \in [Client -> Seq(Part)] /\ outbox \in [Client -> Seq(Command)]
  BY <1>1 DEF ReadHeader, DInv, MainOK, TypeOK, Joined
<1>3. CASE inbox' = inbox /\ lost' = lost /\ CloseConnection(c)
  BY <1>1, <1>2, <1>3, CloseKeeps
<1>4. CASE inbox[c] # <<>> /\ Read(c) /\ CloseConnection(c)
  BY <1>1, <1>2, <1>4, ReadTakes, CloseKeeps
<1>5. CASE /\ inbox[c] # <<>> /\ Head(inbox[c]) = "header" /\ Read(c)
           /\ main' = Handling("payload", c, None)
           /\ UNCHANGED <<conns, serverOf>>
  <2>1. Tail(inbox[c]) \in Seq(Part)
    BY <1>2, <1>5, TailAt
  <2>2. /\ inbox' \in [Client -> Seq(Part)] /\ \A d \in Client \ {c} : inbox'[d] = inbox[d]
        /\ lost' \in {lost, lost \cup {c}} /\ (c \notin lost' => inbox'[c] = Tail(inbox[c]))
    BY <1>5, ReadTakes
  <2>3. /\ main' \in [at : {"idle", "header", "payload", "reply"}, client : Client \cup {None},
                      command : Answered \cup {None}]
        /\ main'.at = "payload" /\ main'.client = c
    BY <1>5, Handles
  <2>4. main' # Idle
    BY <2>3 DEF Idle
  <2>5. MainOK' /\ RunOK'
    BY <1>1, <1>2, <1>5, <2>3, <2>4, GoesOn
  <2>6. \A d \in Client \ {c} : Headless(d)' = Headless(d) /\ InHand(d)' = InHand(d)
    BY <1>1, <1>2, <2>3, Proceeds
  <2>7. /\ Headless(c) = 0 /\ InHand(c) = <<>>
        /\ Headless(c)' = 1 /\ InHand(c)' = <<>>
    BY <1>1, <1>2, <2>3 DEF Headless, InHand
  <2>8. ASSUME c \notin lost' PROVE Traffic(c)'
    <3>1. /\ Alternates(inbox[c], 0) /\ Owes(c)
          /\ asked[c] = outbox[c] \o <<>> \o Seconds(inbox[c], 0)
      BY <1>2, <2>2, <2>7, <2>8, TrafficParts DEF DInv, Traffic
    <3>2. Seconds(Tail(inbox[c]), 1) = Seconds(inbox[c], 0)
      BY <1>2, <1>5, PartsTakeHeader
    <3>3. Alternates(Tail(inbox[c]), 1)
      <4>1. Alternates(Tail(inbox[c]), 1 - 0)
        BY <1>2, <1>5, <3>1, AlternatesTail
      <4>2. QED BY <4>1
    <3>4. Owes(c)'
      <4>1. Len(inbox'[c]) + 1 = Len(inbox[c]) + 0
        BY <1>2, <1>5, <2>2, <2>8, TailAt
      <4>2. "stranger" \notin ToSet(inbox'[c]) => "stranger" \notin ToSet(inbox[c])
        BY <1>2, <1>5, <2>2, <2>8, TailStranger
      <4>3. QED BY <1>2, <2>7, <3>1, <4>1, <4>2 DEF Owes, clients
    <3>5. QED BY <1>2, <2>2, <2>7, <2>8, <3>1, <3>2, <3>3, <3>4 DEF Traffic, clients
  <2>9. outbox' = outbox /\ run' = run
    BY <1>2
  <2>10. run' \in [server : Server \cup {None}, todo : SUBSET Client, i : Nat,
                   accepted : BOOLEAN, forever : BOOLEAN, again : BOOLEAN]
    BY <2>9 DEF DInv, TypeOK
  <2>11. Traffic(c)'
    BY <2>8 DEF Traffic
  <2>12. QED BY <1>1, <1>2, <1>5, <2>2, <2>3, <2>5, <2>6, <2>9, <2>10, <2>11, HandlerKeeps
<1>6. QED BY <1>1, <1>3, <1>4, <1>5 DEF ReadHeader, ReadFailed

LEMMA ReadPayloadDInv ==
  ASSUME DInv, ReadPayload
  PROVE  DInv'
<1>1. PICK c \in Client : c = main.client /\ serverOf[c] # None
  BY DEF ReadPayload, DInv, MainOK
<1>2. /\ main.at = "payload" /\ main.at # "idle" /\ Defined /\ Joined(c)
      /\ UNCHANGED <<objects, backlog, clients, outbox, run, fault>>
      /\ inbox \in [Client -> Seq(Part)] /\ outbox \in [Client -> Seq(Command)]
  BY <1>1 DEF ReadPayload, DInv, MainOK, TypeOK, Joined
<1>3. CASE inbox' = inbox /\ lost' = lost /\ CloseConnection(c)
  BY <1>1, <1>2, <1>3, CloseKeeps
<1>4. CASE inbox[c] # <<>> /\ Read(c) /\ CloseConnection(c)
  BY <1>1, <1>2, <1>4, ReadTakes, CloseKeeps
<1>5. CASE /\ inbox[c] # <<>> /\ Head(inbox[c]) \in Answered
           /\ Read(c)
           /\ main' = Handling("reply", c, Head(inbox[c]))
           /\ UNCHANGED <<conns, serverOf>>
  <2> PICK k \in Answered : k = Head(inbox[c])
    BY <1>5
  <2>1. Tail(inbox[c]) \in Seq(Part)
    BY <1>2, <1>5, TailAt
  <2>2. /\ inbox' \in [Client -> Seq(Part)] /\ \A d \in Client \ {c} : inbox'[d] = inbox[d]
        /\ lost' \in {lost, lost \cup {c}} /\ (c \notin lost' => inbox'[c] = Tail(inbox[c]))
    BY <1>5, ReadTakes
  <2>3. /\ main' \in [at : {"idle", "header", "payload", "reply"}, client : Client \cup {None},
                      command : Answered \cup {None}]
        /\ main'.at = "reply" /\ main'.client = c /\ main'.command = k
    <3>1. main' = Handling("reply", c, k)
      BY <1>5
    <3>2. QED BY <3>1, Handles
  <2>4. main' # Idle
    BY <2>3 DEF Idle
  <2>5. MainOK' /\ RunOK'
    BY <1>1, <1>2, <1>5, <2>3, <2>4, GoesOn
  <2>6. \A d \in Client \ {c} : Headless(d)' = Headless(d) /\ InHand(d)' = InHand(d)
    BY <1>1, <1>2, <2>3, Proceeds
  <2>7. /\ Headless(c) = 1 /\ InHand(c) = <<>>
        /\ Headless(c)' = 0 /\ InHand(c)' = <<k>>
    BY <1>1, <1>2, <2>3 DEF Headless, InHand
  <2>8. ASSUME c \notin lost' PROVE Traffic(c)'
    <3>1. /\ Alternates(inbox[c], 1) /\ Owes(c)
          /\ asked[c] = outbox[c] \o <<>> \o Seconds(inbox[c], 1)
      BY <1>2, <2>2, <2>7, <2>8, TrafficParts DEF DInv, Traffic
    <3>2. Seconds(inbox[c], 1) = <<k>> \o Seconds(Tail(inbox[c]), 0)
      BY <1>2, <1>5, <3>1, PartsTakeCommand
    <3>3. Alternates(Tail(inbox[c]), 0)
      <4>1. Alternates(Tail(inbox[c]), 1 - 1)
        BY <1>2, <1>5, <3>1, AlternatesTail
      <4>2. QED BY <4>1
    <3>4. outbox[c] \o <<>> = outbox[c] /\ outbox[c] \in Seq(Command)
      BY <1>2, ConcatEmptySeq
    <3>5. <<k>> \in Seq(Command)
      BY DebugServerAssumption DEF DebugServerAssumption
    <3>6. Seconds(Tail(inbox[c]), 0) \in Seq(Command)
      BY <2>1, <3>3, PartsType
    <3>7. outbox[c] \o (<<k>> \o Seconds(Tail(inbox[c]), 0))
            = (outbox[c] \o <<k>>) \o Seconds(Tail(inbox[c]), 0)
      <4> DEFINE tail == Seconds(Tail(inbox[c]), 0)
                 out == outbox[c]
                 one == <<k>>
      <4>1. out \in Seq(Command) /\ one \in Seq(Command) /\ tail \in Seq(Command)
        BY <3>4, <3>5, <3>6
      <4> HIDE DEF tail, out, one
      <4>2. out \o (one \o tail) = (out \o one) \o tail
        BY <4>1, ConcatAssociative
      <4>3. QED BY <4>2 DEF tail, out, one
    <3>8. asked[c] = outbox[c] \o <<k>> \o Seconds(Tail(inbox[c]), 0)
      BY <3>1, <3>2, <3>4, <3>7
    <3>9. Owes(c)'
      <4>1. Len(inbox'[c]) + 0 + 2 = Len(inbox[c]) + 1 /\ Len(inbox'[c]) \in Nat
        BY <1>2, <1>5, <2>1, <2>2, <2>8, TailAt, LenProperties
      <4>2. (Len(inbox'[c]) + 0) % 2 = (Len(inbox[c]) + 1) % 2
        <5>1. \A n \in Nat : (n + 2) % 2 = n % 2
          OBVIOUS
        <5>2. PICK n \in Nat : n = Len(inbox'[c])
          BY <4>1
        <5>3. n + 0 = n /\ Len(inbox[c]) + 1 = n + 2
          BY <4>1, <5>2
        <5>4. QED BY <5>1, <5>2, <5>3
      <4>3. "stranger" \notin ToSet(inbox'[c]) => "stranger" \notin ToSet(inbox[c])
        <5>1. Head(inbox[c]) # "stranger"
          BY <1>5, DebugServerAssumption DEF DebugServerAssumption
        <5>2. QED BY <1>2, <1>5, <2>2, <2>8, <5>1, TailStranger
      <4>4. QED BY <1>2, <2>7, <3>1, <4>2, <4>3 DEF Owes, clients
    <3>10. QED BY <1>2, <2>2, <2>7, <2>8, <3>3, <3>8, <3>9 DEF Traffic, clients
  <2>9. outbox' = outbox /\ run' = run
    BY <1>2
  <2>10. run' \in [server : Server \cup {None}, todo : SUBSET Client, i : Nat,
                   accepted : BOOLEAN, forever : BOOLEAN, again : BOOLEAN]
    BY <2>9 DEF DInv, TypeOK
  <2>11. Traffic(c)'
    BY <2>8 DEF Traffic
  <2>12. QED BY <1>1, <1>2, <1>5, <2>2, <2>3, <2>5, <2>6, <2>9, <2>10, <2>11, HandlerKeeps
<1>6. QED BY <1>1, <1>3, <1>4, <1>5 DEF ReadPayload, ReadFailed

LEMMA ReplyDInv ==
  ASSUME DInv, Reply
  PROVE  DInv'
<1>1. PICK c \in Client : c = main.client /\ serverOf[c] # None
  BY DEF Reply, DInv, MainOK
<1>2. /\ main.at = "reply" /\ main.at # "idle" /\ Defined /\ Joined(c)
      /\ UNCHANGED <<objects, backlog, clients, inbox, run, fault>>
      /\ inbox \in [Client -> Seq(Part)] /\ outbox \in [Client -> Seq(Command)]
  BY <1>1 DEF Reply, DInv, MainOK, TypeOK, Joined
<1>3. CASE outbox' = outbox /\ lost' = lost /\ CloseConnection(c)
  BY <1>1, <1>2, <1>3, CloseKeeps
<1>4. CASE /\ outbox' = [outbox EXCEPT ![c] = Append(@, main.command)]
           /\ lost' \in {lost, lost \cup {c}}
           /\ main' = Idle /\ UNCHANGED <<conns, serverOf>>
  <2>1. PICK k \in Command : k = main.command
    BY <1>2, DebugServerAssumption DEF DInv, MainOK, DebugServerAssumption
  <2>2. /\ Append(outbox[c], k) \in Seq(Command)
        /\ Append(outbox[c], k) = outbox[c] \o <<k>>
    BY <1>2, AppendProperties, AppendIsConcat
  <2>3. /\ outbox' \in [Client -> Seq(Command)]
        /\ \A d \in Client \ {c} : outbox'[d] = outbox[d]
        /\ outbox'[c] = outbox[c] \o <<k>> /\ outbox'[c] \in Seq(Command)
    BY <1>2, <1>4, <2>1, <2>2
  <2>4. /\ main' \in [at : {"idle", "header", "payload", "reply"}, client : Client \cup {None},
                      command : Answered \cup {None}]
        /\ main'.at = "idle"
    BY <1>4 DEF Idle
  <2>5. MainOK' /\ RunOK'
    BY <1>2, <1>4, <2>4, GoesOn
  <2>6. \A d \in Client \ {c} : Headless(d)' = Headless(d) /\ InHand(d)' = InHand(d)
    BY <1>1, <1>2, <1>4, Proceeds
  <2>7. /\ Headless(c) = 0 /\ InHand(c) = <<k>>
        /\ Headless(c)' = 0 /\ InHand(c)' = <<>>
    BY <1>1, <1>2, <2>1, <2>4 DEF Headless, InHand
  <2>8. ASSUME c \notin lost' PROVE Traffic(c)'
    <3>1. /\ Alternates(inbox[c], 0) /\ Owes(c)
          /\ asked[c] = outbox[c] \o <<k>> \o Seconds(inbox[c], 0)
      BY <1>2, <1>4, <2>7, <2>8, TrafficParts DEF DInv, Traffic
    <3>2. outbox'[c] \o <<>> = outbox[c] \o <<k>>
      BY <2>3, ConcatEmptySeq
    <3>3. Owes(c)'
      BY <1>2, <2>7, <3>1 DEF Owes, clients
    <3>4. QED BY <1>2, <2>7, <3>1, <3>2, <3>3 DEF Traffic, clients
  <2>9. inbox' = inbox /\ run' = run
    BY <1>2
  <2>10. run' \in [server : Server \cup {None}, todo : SUBSET Client, i : Nat,
                   accepted : BOOLEAN, forever : BOOLEAN, again : BOOLEAN]
    BY <2>9 DEF DInv, TypeOK
  <2>11. Traffic(c)'
    BY <2>8 DEF Traffic
  <2>12. QED BY <1>1, <1>2, <1>4, <2>3, <2>4, <2>5, <2>6, <2>9, <2>10, <2>11, HandlerKeeps
<1>5. QED BY <1>1, <1>3, <1>4 DEF Reply, Written

\* The handler is called: by the main queue, or by run.
LEMMA BeginsKeeps ==
  ASSUME DInv, main = Idle, Defined, NEW c \in Client, serverOf[c] # None,
         main' = Handling("header", c, None),
         run' \in [server : Server \cup {None}, todo : SUBSET Client, i : Nat,
                   accepted : BOOLEAN, forever : BOOLEAN, again : BOOLEAN],
         UNCHANGED <<objects, conns, serverOf, backlog, clients, streams, fault>>,
         RunOK'
  PROVE  DInv'
<1>1. /\ main' \in [at : {"idle", "header", "payload", "reply"}, client : Client \cup {None},
                    command : Answered \cup {None}]
      /\ main'.at = "header" /\ main'.client = c
  BY Handles
<1>2. MainOK'
  BY <1>1, SameDefined DEF MainOK, objects
<1>3. main.at = "idle"
  BY DEF Idle
<1>4. \A d \in Client : Headless(d)' = Headless(d) /\ InHand(d)' = InHand(d)
  BY <1>1, <1>3 DEF Headless, InHand
<1>5. Traffic(c)'
  <2>1. Traffic(c)
    BY TrafficParts DEF DInv
  <2>2. Joined(c)' => Joined(c)
    BY DEF Joined
  <2>3. QED BY <1>4, <2>1, <2>2, OtherTraffic DEF clients, streams
<1>6. inbox' \in [Client -> Seq(Part)] /\ outbox' \in [Client -> Seq(Command)]
  BY DEF DInv, TypeOK, streams
<1>7. inbox' = inbox /\ outbox' = outbox /\ lost' = lost
  BY DEF streams
<1>8. QED BY <1>1, <1>2, <1>4, <1>5, <1>6, <1>7, HandlerKeeps

LEMMA HandlerEventDInv ==
  ASSUME DInv, NEW c \in Client, HandlerEvent(c)
  PROVE  DInv'
<1>1. /\ main = Idle /\ Defined /\ run = NotRunning /\ serverOf[c] # None
      /\ main' = Handling("header", c, None)
      /\ UNCHANGED <<objects, conns, serverOf, backlog, clients, streams, run, fault>>
  BY DEF HandlerEvent, AtQueue
<1>2. RunOK'
  BY <1>1 DEF RunOK, NotRunning
<1>3. run' \in [server : Server \cup {None}, todo : SUBSET Client, i : Nat,
                accepted : BOOLEAN, forever : BOOLEAN, again : BOOLEAN]
  BY <1>1 DEF DInv, TypeOK
<1>4. QED BY <1>1, <1>2, <1>3, BeginsKeeps

-----------------------------------------------------------------------------
(* run.                                                                    *)

LEMMA LeastExists ==
  ASSUME NEW S \in SUBSET Nat, S # {}
  PROVE  \E n \in S : \A m \in S : n <= m
<1> DEFINE UpTo(n) == {m \in S : m <= n}
           Bounded == {UpTo(n) : n \in S}
<1>1. /\ \A m \in S : m \in Nat
      /\ \A n : \A x : x \in UpTo(n) <=> x \in S /\ x <= n
  OBVIOUS
<1> HIDE DEF UpTo
<1>2. IsWellFoundedOn(StrictSubsetOrdering(Nat), FiniteSubsetsOf(Nat))
  BY FS_StrictSubsetOrderingWellFounded
<1>3. ASSUME NEW n \in S PROVE UpTo(n) \in FiniteSubsetsOf(Nat)
  <2>1. n \in Nat /\ UpTo(n) \subseteq Nat
    BY <1>1
  <2>2. UpTo(n) \subseteq 0 .. n
    BY <1>1, <2>1
  <2>3. IsFiniteSet(0 .. n)
    BY <2>1, FS_Interval
  <2>4. IsFiniteSet(UpTo(n))
    BY <2>2, <2>3, FS_Subset
  <2>5. QED BY <2>1, <2>4 DEF FiniteSubsetsOf
<1>4. Bounded \subseteq FiniteSubsetsOf(Nat) /\ Bounded # {}
  BY <1>3
<1>5. PICK U \in Bounded : \A V \in Bounded : ~(<<V, U>> \in StrictSubsetOrdering(Nat))
  <2> HIDE DEF Bounded
  <2>1. QED BY <1>2, <1>4, WFMin
<1>6. PICK n \in S : U = UpTo(n)
  BY <1>5
<1>7. ASSUME NEW m \in S, ~(n <= m)
      PROVE  FALSE
  <2>1. n \in Nat /\ m \in Nat
    BY <1>1
  <2>2. m <= n /\ n <= n /\ \A x \in Nat : x <= m => x <= n
    BY <1>7, <2>1
  <2>3. UpTo(m) \subseteq UpTo(n)
    BY <1>1, <2>2
  <2>4. n \in UpTo(n) /\ n \notin UpTo(m)
    BY <1>1, <1>7, <2>2
  <2>5. UpTo(n) \in SUBSET Nat /\ UpTo(m) \in SUBSET Nat
    BY <1>1
  <2>6. <<UpTo(m), UpTo(n)>> \in StrictSubsetOrdering(Nat)
    BY <2>3, <2>4, <2>5 DEF StrictSubsetOrdering
  <2>7. QED BY <1>5, <1>6, <2>6
<1>8. QED BY <1>7

\* What the scan looks for is in its list.
LEMMA ScanFinds ==
  ASSUME DInv, run.server # None
  PROVE  /\ conns[run.server] \in Seq(Client) /\ run.i = 1
         /\ \A k \in ReadyFrom(run.i) : /\ k \in DOMAIN conns[run.server]
                                        /\ Selected[k] \in run.todo /\ Selected[k] \in Client
         /\ Scanned => run.todo = {}
<1>1. /\ conns[run.server] \in Seq(Client) /\ run.i = 1
      /\ run.todo \subseteq ToSet(conns[run.server])
  BY DEF DInv, TypeOK, RunOK
<1>2. DOMAIN conns[run.server] = 1 .. Len(conns[run.server])
  BY <1>1, LenProperties
<1>3. \A k \in ReadyFrom(run.i) : /\ k \in DOMAIN conns[run.server]
                                  /\ Selected[k] \in run.todo /\ Selected[k] \in Client
  BY <1>1, <1>2, ElementOfSeq DEF ReadyFrom, Selected
<1>4. Scanned => run.todo = {}
  BY <1>1, <1>2 DEF Scanned, ReadyFrom, Selected, ToSet
<1>5. QED BY <1>1, <1>3, <1>4

LEMMA RunHandlesDInv ==
  ASSUME DInv, RunHandles
  PROVE  DInv'
<1> DEFINE first == CHOOSE j \in ReadyFrom(run.i) : \A l \in ReadyFrom(run.i) : j <= l
<1>1. /\ run.server # None /\ main = Idle /\ ReadyFrom(run.i) # {}
      /\ main' = Handling("header", Selected[first], None)
      /\ run' = [run EXCEPT !.todo = @ \ {Selected[first]}, !.i = 1]
      /\ UNCHANGED <<objects, conns, serverOf, backlog, clients, streams, fault>>
  BY DEF RunHandles, Running, Scanned, RestartIndex
<1>2. first \in ReadyFrom(run.i)
  <2>1. \E j \in ReadyFrom(run.i) : \A l \in ReadyFrom(run.i) : j <= l
    <3>1. ReadyFrom(run.i) \subseteq Nat
      <4>1. DOMAIN conns[run.server] = 1 .. Len(conns[run.server])
        BY <1>1, ScanFinds, LenProperties
      <4>2. QED BY <1>1, <4>1, ScanFinds
    <3>2. QED BY <1>1, <3>1, LeastExists
  <2>2. QED BY <2>1
<1> HIDE DEF first
<1>3. PICK c \in Client : c = Selected[first]
  BY <1>1, <1>2, ScanFinds
<1>4. /\ c \in run.todo /\ c \in ToSet(conns[run.server])
      /\ run.server \in Server /\ Defined
      /\ run.todo \subseteq ToSet(conns[run.server]) /\ sockfd[run.server] # None
  BY <1>1, <1>2, <1>3, ScanFinds DEF Selected, ToSet, DInv, RunOK, TypeOK
<1>5. serverOf[c] # None
  <2>1. serverOf[c] = run.server
    BY <1>4 DEF DInv, OwnedOnce, ToSet
  <2>2. QED BY <1>1, <2>1
<1>6. /\ run' \in [server : Server \cup {None}, todo : SUBSET Client, i : Nat,
                   accepted : BOOLEAN, forever : BOOLEAN, again : BOOLEAN]
      /\ run'.server = run.server /\ run'.todo = run.todo \ {c} /\ run'.i = 1
  BY <1>1, <1>3 DEF DInv, TypeOK
<1>7. main'.client = c
  BY <1>1, <1>3, Handles
<1>8. RunOK'
  <2>1. Defined'
    BY <1>1, <1>4, SameDefined DEF objects
  <2>2. QED BY <1>1, <1>4, <1>6, <1>7, <2>1 DEF RunOK, objects
<1>9. QED BY <1>1, <1>3, <1>4, <1>5, <1>6, <1>8, BeginsKeeps

LEMMA RunEndsDInv ==
  ASSUME DInv, RunReturns \/ RunGivesUp
  PROVE  DInv'
<1>1. /\ main = Idle /\ run' = NotRunning
      /\ UNCHANGED <<objects, conns, serverOf, backlog, clients, streams, main, fault>>
  BY DEF RunReturns, RunGivesUp, Running
<1>2. TypeOK'
  <2>1. run' \in [server : Server \cup {None}, todo : SUBSET Client, i : Nat,
                  accepted : BOOLEAN, forever : BOOLEAN, again : BOOLEAN]
    BY <1>1 DEF NotRunning
  <2>2. QED BY <1>1, <2>1 DEF DInv, TypeOK, objects, clients, streams
<1>3. OwnedOnce' /\ SocketsHeld' /\ QueueOK' /\ MainOK'
  BY <1>1, SameLists, SameSockets, SameQueue, SameMain DEF DInv, objects, clients, streams
<1>4. RunOK'
  BY <1>1 DEF RunOK, NotRunning
<1>5. Framed' /\ RequestsAccounted'
  BY <1>1, QuietTraffic DEF DInv, Joined, clients, streams
<1>6. QED BY <1>2, <1>3, <1>4, <1>5 DEF DInv

LEMMA RunAgainDInv ==
  ASSUME DInv, RunAgain
  PROVE  DInv'
<1>1. /\ main = Idle /\ run.server # None /\ run' = [run EXCEPT !.again = TRUE]
      /\ UNCHANGED <<objects, conns, serverOf, backlog, clients, streams, main, fault>>
  BY DEF RunAgain, Running
<1>2. /\ run' \in [server : Server \cup {None}, todo : SUBSET Client, i : Nat,
                   accepted : BOOLEAN, forever : BOOLEAN, again : BOOLEAN]
      /\ run'.server = run.server /\ run'.todo = run.todo /\ run'.i = run.i
  BY <1>1 DEF DInv, TypeOK
<1>3. TypeOK'
  BY <1>1, <1>2 DEF DInv, TypeOK, objects, clients, streams
<1>4. OwnedOnce' /\ SocketsHeld' /\ QueueOK' /\ MainOK'
  BY <1>1, SameLists, SameSockets, SameQueue, SameMain DEF DInv, objects, clients, streams
<1>5. RunOK'
  <2>1. Defined'
    BY <1>1, SameDefined DEF DInv, RunOK, objects
  <2>2. QED BY <1>1, <1>2, <2>1 DEF DInv, RunOK, objects
<1>6. Framed' /\ RequestsAccounted'
  BY <1>1, QuietTraffic DEF DInv, Joined, clients, streams
<1>7. QED BY <1>3, <1>4, <1>5, <1>6 DEF DInv

-----------------------------------------------------------------------------
(* The invariant holds.                                                    *)

LEMMA InitDInv == Init => DInv
<1> SUFFICES ASSUME Init PROVE DInv
  OBVIOUS
<1>1. /\ \A S : <<>> \in Seq(S)
      /\ DOMAIN <<>> = {}
  BY EmptySeq
<1>2. TypeOK
  <2>1. starts \in 0 .. MaxStarts /\ moves \in 0 .. MaxMoves
    BY DebugServerAssumption DEF Init, DebugServerAssumption
  <2>6. owing \subseteq Client /\ lost \subseteq Client /\ fault \in BOOLEAN
    BY DEF Init
  <2>2. /\ conns \in [Server -> Seq(Client)] /\ backlog \in [Server -> Seq(Client)]
        /\ inbox \in [Client -> Seq(Part)] /\ asked \in [Client -> Seq(Command)]
        /\ outbox \in [Client -> Seq(Command)]
    BY <1>1 DEF Init
  <2>3. main \in [at : {"idle", "header", "payload", "reply"}, client : Client \cup {None},
                  command : Answered \cup {None}]
    BY DEF Init, Idle
  <2>4. run \in [server : Server \cup {None}, todo : SUBSET Client, i : Nat,
                 accepted : BOOLEAN, forever : BOOLEAN, again : BOOLEAN]
    BY DEF Init, NotRunning
  <2>5. QED BY <2>1, <2>2, <2>3, <2>4, <2>6 DEF Init, TypeOK
<1>3. OwnedOnce /\ SocketsHeld
  BY <1>1 DEF Init, OwnedOnce, SocketsHeld
<1>4. QueueOK
  BY <1>1 DEF Init, QueueOK
<1>5. MainOK /\ RunOK
  BY DEF Init, MainOK, RunOK, Idle, NotRunning
<1>6. \A c \in Client : ~Joined(c)
  BY <1>1 DEF Init, Joined, ToSet
<1>7. QED BY <1>2, <1>3, <1>4, <1>5, <1>6 DEF DInv, Framed, RequestsAccounted

LEMMA NextDInv == DInv /\ [Next]_vars => DInv'
<1> SUFFICES ASSUME DInv, [Next]_vars PROVE DInv'
  OBVIOUS
<1>1. CASE UNCHANGED vars
  BY <1>1, StutterDInv
<1>2. CASE ClientStep
  BY <1>2, ConnectDInv, SendHeaderDInv, SendCommandDInv, HangUpDInv DEF ClientStep
<1>3. CASE Api
  BY <1>3, ApiDInv
<1>4. CASE \E s \in Server : AcceptEvent(s)
  BY <1>4, AcceptEventDInv
<1>5. CASE \E c \in Client : HandlerEvent(c)
  BY <1>5, HandlerEventDInv
<1>6. CASE Handler
  BY <1>6, ReadHeaderDInv, ReadPayloadDInv, ReplyDInv DEF Handler
<1>7. CASE RunLoop
  BY <1>7, RunSelectsDInv, RunHandlesDInv, RunEndsDInv, RunAgainDInv DEF RunLoop
<1>8. QED BY <1>1, <1>2, <1>3, <1>4, <1>5, <1>6, <1>7 DEF Next

LEMMA InvariantHolds == Spec => []DInv
  BY InitDInv, NextDInv, PTL DEF Spec

\* TypeOK for any number of objects, clients, streams and requests: what main and run
\* hold on to between two steps has its type.
THEOREM TypesRight == Spec => []TypeOK
<1>1. DInv => TypeOK
  BY DEF DInv
<1>2. QED BY <1>1, InvariantHolds, PTL

\* OwnedOnce for any number of servers and clients: as long as no two objects
\* hold the same connections, every connection that is open is in the list of
\* the living server it points to, once, whatever close_connection has moved.
THEOREM OwnedRight == Spec => []OwnedOnce
<1>1. DInv => OwnedOnce
  BY DEF DInv
<1>2. QED BY <1>1, InvariantHolds, PTL

\* SocketsHeld for any number of constructions, moves and shutdowns: no
\* listening socket is left behind or held twice.
THEOREM SocketsRight == Spec => []SocketsHeld
<1>1. DInv => SocketsHeld
  BY DEF DInv
<1>2. QED BY <1>1, InvariantHolds, PTL

\* RequestsAccounted for any number of clients and of requests of any length: no
\* command is skipped but on a connection whose stream a read or a write has put
\* out of step.
THEOREM RequestsRight == Spec => []RequestsAccounted
<1>1. DInv => RequestsAccounted
  BY DEF DInv
<1>2. QED BY <1>1, InvariantHolds, PTL

\* RoundComplete for any number of connections: the scan of run misses none of
\* those that select reported, because it starts again after each of them.
THEOREM RoundRight == Spec => []RoundComplete
<1>1. DInv => RoundComplete
  <2> SUFFICES ASSUME DInv, run.server # None, Scanned PROVE run.todo = {}
    BY DEF RoundComplete
  <2>1. QED BY ScanFinds
<1>2. QED BY <1>1, InvariantHolds, PTL

-----------------------------------------------------------------------------
(***************************************************************************)
(* The order of the answers, in step or not.                               *)
(***************************************************************************)

\* The commands among the parts p are among the parts q, in the same order.
Embeds(at, p, q) ==
  /\ \A i \in DOMAIN p : p[i] \in Command => at[i] \in DOMAIN q /\ p[i] = q[at[i]]
  /\ \A i, j \in DOMAIN p : i < j /\ p[i] \in Command /\ p[j] \in Command => at[i] < at[j]

Thins(p, q) == \E at \in [DOMAIN p -> Nat] : Embeds(at, p, q)

LEMMA ThinsSame ==
  ASSUME NEW p \in Seq(Part)
  PROVE  Thins(p, p)
<1> DEFINE at == [i \in DOMAIN p |-> i]
<1>1. DOMAIN p = 1 .. Len(p) /\ Len(p) \in Nat
  BY LenProperties
<1>2. at \in [DOMAIN p -> Nat]
  BY <1>1
<1>3. Embeds(at, p, p)
  BY DEF Embeds
<1>4. QED BY <1>2, <1>3 DEF Thins

LEMMA ThinsEmpty ==
  ASSUME NEW q
  PROVE  Thins(<<>>, q)
<1>1. DOMAIN <<>> = {}
  BY EmptySeq
<1> DEFINE at == [i \in DOMAIN <<>> |-> 0]
<1>2. at \in [DOMAIN <<>> -> Nat]
  OBVIOUS
<1>3. Embeds(at, <<>>, q)
  BY <1>1 DEF Embeds
<1>4. QED BY <1>2, <1>3 DEF Thins

LEMMA ThinsOther ==
  ASSUME NEW x \in Part, x \notin Command, NEW q
  PROVE  Thins(<<x>>, q)
<1>1. DOMAIN <<x>> = {1} /\ <<x>>[1] = x
  OBVIOUS
<1> DEFINE at == [i \in DOMAIN <<x>> |-> 0]
<1>2. at \in [DOMAIN <<x>> -> Nat]
  OBVIOUS
<1>3. Embeds(at, <<x>>, q)
  BY <1>1 DEF Embeds
<1>4. QED BY <1>2, <1>3 DEF Thins

LEMMA ThinsThins ==
  ASSUME NEW p \in Seq(Part), NEW q \in Seq(Part), NEW r \in Seq(Part),
         Thins(p, q), Thins(q, r)
  PROVE  Thins(p, r)
<1>1. PICK f \in [DOMAIN p -> Nat] : Embeds(f, p, q)
  BY DEF Thins
<1>2. PICK g \in [DOMAIN q -> Nat] : Embeds(g, q, r)
  BY DEF Thins
<1> DEFINE at == [i \in DOMAIN p |-> IF p[i] \in Command THEN g[f[i]] ELSE 0]
<1>3. ASSUME NEW i \in DOMAIN p, p[i] \in Command
      PROVE  /\ f[i] \in DOMAIN q /\ q[f[i]] \in Command /\ at[i] = g[f[i]]
             /\ at[i] \in Nat /\ at[i] \in DOMAIN r /\ p[i] = r[at[i]]
  BY <1>1, <1>2, <1>3 DEF Embeds
<1>4. at \in [DOMAIN p -> Nat]
  BY <1>3
<1>5. ASSUME NEW i \in DOMAIN p, NEW j \in DOMAIN p, i < j,
             p[i] \in Command, p[j] \in Command
      PROVE  at[i] < at[j]
  <2>1. f[i] < f[j]
    BY <1>1, <1>5 DEF Embeds
  <2>2. QED BY <1>2, <1>3, <1>5, <2>1 DEF Embeds
<1>6. Embeds(at, p, r)
  <2> HIDE DEF at
  <2>1. QED BY <1>3, <1>5 DEF Embeds
<1>7. QED BY <1>4, <1>6 DEF Thins

LEMMA ThinsConcat ==
  ASSUME NEW p \in Seq(Part), NEW q \in Seq(Part), NEW s \in Seq(Part), NEW t \in Seq(Part),
         Thins(p, q), Thins(s, t)
  PROVE  Thins(p \o s, q \o t)
<1>1. PICK f \in [DOMAIN p -> Nat] : Embeds(f, p, q)
  BY DEF Thins
<1>2. PICK g \in [DOMAIN s -> Nat] : Embeds(g, s, t)
  BY DEF Thins
<1> DEFINE m == Len(p)
           n == Len(q)
           k == Len(s)
           l == Len(t)
           ps == p \o s
           qt == q \o t
           at == [i \in 1 .. (m + k) |-> IF i <= m THEN f[i] ELSE n + g[i - m]]
<1>3. /\ m \in Nat /\ n \in Nat /\ k \in Nat /\ l \in Nat
      /\ DOMAIN p = 1 .. m /\ DOMAIN q = 1 .. n /\ DOMAIN s = 1 .. k /\ DOMAIN t = 1 .. l
  BY LenProperties
<1>4. /\ DOMAIN ps = 1 .. (m + k)
      /\ \A i \in 1 .. (m + k) : ps[i] = IF i <= m THEN p[i] ELSE s[i - m]
  BY ConcatProperties, LenProperties
<1>5. /\ DOMAIN qt = 1 .. (n + l)
      /\ \A i \in 1 .. (n + l) : qt[i] = IF i <= n THEN q[i] ELSE t[i - n]
  BY ConcatProperties, LenProperties
<1> HIDE DEF m, n, k, l, ps, qt
<1>6. at \in [1 .. (m + k) -> Nat]
  <2>1. ASSUME NEW i \in 1 .. (m + k) PROVE (IF i <= m THEN f[i] ELSE n + g[i - m]) \in Nat
    <3>1. CASE i <= m
      BY <1>3, <3>1
    <3>2. CASE ~(i <= m)
      <4>1. i - m \in 1 .. k
        BY <1>3, <3>2
      <4>2. g[i - m] \in Nat
        BY <1>3, <4>1
      <4>3. QED BY <1>3, <3>2, <4>2
    <3>3. QED BY <3>1, <3>2
  <2>2. QED BY <2>1
<1>7. ASSUME NEW i \in 1 .. (m + k), ps[i] \in Command
      PROVE  /\ i <= m => at[i] = f[i] /\ at[i] \in 1 .. n /\ i \in 1 .. m /\ p[i] \in Command
             /\ ~(i <= m) => /\ at[i] = n + g[i - m] /\ g[i - m] \in 1 .. l /\ i - m \in 1 .. k
                             /\ s[i - m] \in Command
             /\ at[i] \in 1 .. (n + l) /\ ps[i] = qt[at[i]]
  <2>1. CASE i <= m
    <3>1. i \in DOMAIN p /\ ps[i] = p[i] /\ at[i] = f[i]
      BY <1>3, <1>4, <2>1
    <3>2. f[i] \in 1 .. n /\ p[i] = q[f[i]]
      BY <1>1, <1>3, <1>7, <3>1 DEF Embeds
    <3>3. qt[f[i]] = q[f[i]] /\ f[i] \in 1 .. (n + l)
      BY <1>3, <1>5, <3>2
    <3>4. QED BY <1>3, <1>7, <2>1, <3>1, <3>2, <3>3
  <2>2. CASE ~(i <= m)
    <3>1. i - m \in 1 .. k /\ ps[i] = s[i - m] /\ at[i] = n + g[i - m]
      BY <1>3, <1>4, <2>2
    <3>2. g[i - m] \in 1 .. l /\ s[i - m] = t[g[i - m]]
      BY <1>2, <1>3, <1>7, <3>1 DEF Embeds
    <3>3. qt[n + g[i - m]] = t[g[i - m]] /\ n + g[i - m] \in 1 .. (n + l)
      <4> DEFINE x == g[i - m]
      <4>1. x \in 1 .. l
        BY <3>2
      <4> HIDE DEF x
      <4>2. n + x \in 1 .. (n + l) /\ ~(n + x <= n) /\ (n + x) - n = x
        BY <1>3, <4>1
      <4>3. qt[n + x] = t[x]
        BY <1>5, <4>2
      <4>4. QED BY <4>2, <4>3 DEF x
    <3>4. QED BY <1>7, <2>2, <3>1, <3>2, <3>3
  <2>3. QED BY <2>1, <2>2
<1>8. ASSUME NEW i \in 1 .. (m + k), NEW j \in 1 .. (m + k), i < j,
             ps[i] \in Command, ps[j] \in Command
      PROVE  at[i] < at[j]
  <2> HIDE DEF at
  <2>1. CASE j <= m
    <3>1. i <= m
      BY <1>3, <1>8, <2>1
    <3>2. i \in DOMAIN p /\ j \in DOMAIN p /\ p[i] \in Command /\ p[j] \in Command
          /\ at[i] = f[i] /\ at[j] = f[j]
      BY <1>3, <1>7, <1>8, <2>1, <3>1
    <3>3. QED BY <1>1, <1>8, <3>2 DEF Embeds
  <2>2. CASE i <= m /\ ~(j <= m)
    <3>1. at[i] \in 1 .. n /\ at[j] = n + g[j - m] /\ g[j - m] \in 1 .. l
      BY <1>7, <1>8, <2>2
    <3>2. QED BY <1>3, <3>1
  <2>3. CASE ~(i <= m)
    <3>1. ~(j <= m)
      BY <1>3, <1>8, <2>3
    <3>2. /\ at[i] = n + g[i - m] /\ g[i - m] \in 1 .. l /\ i - m \in DOMAIN s /\ s[i - m] \in Command
          /\ at[j] = n + g[j - m] /\ g[j - m] \in 1 .. l /\ j - m \in DOMAIN s /\ s[j - m] \in Command
      BY <1>3, <1>7, <1>8, <2>3, <3>1
    <3>3. i - m < j - m
      BY <1>3, <1>8
    <3>4. g[i - m] < g[j - m]
      BY <1>2, <3>2, <3>3 DEF Embeds
    <3>5. QED BY <1>3, <3>2, <3>4
  <2>4. QED BY <2>1, <2>2, <2>3
<1>9. Embeds(at, ps, qt)
  <2> HIDE DEF at
  <2>1. \A i \in DOMAIN ps : ps[i] \in Command => at[i] \in DOMAIN qt /\ ps[i] = qt[at[i]]
    BY <1>4, <1>5, <1>7
  <2>2. \A i, j \in DOMAIN ps : i < j /\ ps[i] \in Command /\ ps[j] \in Command => at[i] < at[j]
    BY <1>4, <1>8
  <2>3. QED BY <2>1, <2>2 DEF Embeds
<1>10. Thins(ps, qt)
  <2> HIDE DEF at
  <2>1. QED BY <1>4, <1>6, <1>9 DEF Thins
<1>11. QED BY <1>10 DEF ps, qt

\* A part less in front, and the rest of a stream behind some of its parts.
LEMMA ThinsTail ==
  ASSUME NEW q \in Seq(Part), q # <<>>
  PROVE  Tail(q) \in Seq(Part) /\ Thins(Tail(q), q) /\ q = <<Head(q)>> \o Tail(q)
<1>1. Tail(q) \in Seq(Part) /\ Head(q) \in Part /\ <<Head(q)>> \in Seq(Part)
  BY TailAt
<1>2. q = <<Head(q)>> \o Tail(q)
  <2> DEFINE r == <<Head(q)>> \o Tail(q)
             n == Len(q)
             h == Head(q)
             t == Tail(q)
  <2>1. /\ n \in Nat \ {0} /\ Len(t) = n - 1 /\ h = q[1]
        /\ \A i \in 1 .. (n - 1) : t[i] = q[i + 1]
    BY TailAt
  <2>2. Len(<<h>>) = 1 /\ <<h>>[1] = h /\ <<h>> \in Seq(Part) /\ t \in Seq(Part)
    BY <1>1
  <2>3. /\ r \in Seq(Part) /\ Len(r) = 1 + Len(t)
        /\ \A i \in 1 .. 1 + Len(t) : r[i] = IF i <= 1 THEN <<h>>[i] ELSE t[i - 1]
    BY <2>2, ConcatProperties
  <2> HIDE DEF r, n, h, t
  <2>4. Len(r) = n
    BY <2>1, <2>3
  <2>5. ASSUME NEW i \in 1 .. n PROVE r[i] = q[i]
    <3>1. CASE i = 1
      BY <2>1, <2>2, <2>3, <3>1
    <3>2. CASE i # 1
      <4>1. i - 1 \in 1 .. (n - 1) /\ (i - 1) + 1 = i /\ ~(i <= 1)
        BY <2>1, <3>2
      <4>2. t[i - 1] = q[i]
        BY <2>1, <4>1
      <4>3. QED BY <2>1, <2>3, <4>1, <4>2
    <3>3. QED BY <3>1, <3>2
  <2>6. r = q
    BY <2>3, <2>4, <2>5, SeqEqual DEF n
  <2>7. QED BY <2>6 DEF r, h, t
<1>3. <<>> \o Tail(q) = Tail(q) /\ <<>> \in Seq(Part)
  BY <1>1, ConcatEmptySeq, EmptySeq
<1>4. Thins(<<>> \o Tail(q), <<Head(q)>> \o Tail(q))
  BY <1>1, <1>3, ThinsEmpty, ThinsSame, ThinsConcat
<1>5. QED BY <1>1, <1>2, <1>3, <1>4

LEMMA ThinsRest ==
  ASSUME NEW q \in Seq(Part), NEW j \in 2 .. Len(q), NEW cut \in {<<>>, <<"rest">>}
  PROVE  /\ cut \o SubSeq(q, j + 1, Len(q)) \in Seq(Part)
         /\ Thins(cut \o SubSeq(q, j + 1, Len(q)), Tail(q))
<1> DEFINE n == Len(q)
           t == Tail(q)
           s == SubSeq(q, j + 1, n)
<1>1. n \in Nat /\ j \in Nat /\ 2 <= j /\ j <= n /\ DOMAIN q = 1 .. n
  BY LenProperties
<1>2. q # <<>>
  BY <1>1, EmptySeq
<1>3. /\ t \in Seq(Part) /\ DOMAIN t = 1 .. (n - 1)
      /\ \A i \in 1 .. (n - 1) : t[i] = q[i + 1]
  BY <1>2, TailAt
<1>4. \A i \in 1 .. n : q[i] \in Part
  BY ElementOfSeq
<1>5. /\ s \in Seq(Part) /\ DOMAIN s = 1 .. Len(s)
      /\ Len(s) = IF j + 1 <= n THEN n - (j + 1) + 1 ELSE 0
      /\ \A i \in 1 .. n - (j + 1) + 1 : s[i] = q[(j + 1) + i - 1]
  <2>1. j + 1 \in Int /\ n \in Int /\ \A i \in (j + 1) .. n : q[i] \in Part
    BY <1>1, <1>4
  <2> HIDE DEF n
  <2>2. QED BY <2>1, SubSeqProperties, LenProperties
<1> DEFINE at == [i \in DOMAIN s |-> i + j - 1]
<1> HIDE DEF n, s, t
<1>6. ASSUME NEW i \in DOMAIN s
      PROVE  i + j - 1 \in 1 .. (n - 1) /\ s[i] = t[i + j - 1]
  <2>1. i \in Nat /\ 1 <= i /\ i <= n - j
    BY <1>1, <1>5
  <2>2. i + j - 1 \in 1 .. (n - 1) /\ (i + j - 1) + 1 = i + j /\ (j + 1) + i - 1 = i + j
    BY <1>1, <2>1
  <2>3. s[i] = q[i + j]
    BY <1>1, <1>5, <2>1, <2>2
  <2>4. QED BY <1>3, <2>2, <2>3
<1>7. at \in [DOMAIN s -> Nat]
  <2>1. \A i \in DOMAIN s : i + j - 1 \in Nat
    BY <1>1, <1>6
  <2>2. QED BY <2>1
<1>8. Embeds(at, s, t)
  <2>1. \A i, l \in DOMAIN s : i < l => at[i] < at[l]
    BY <1>1, <1>5
  <2>2. QED BY <1>3, <1>6, <2>1 DEF Embeds
<1>9. Thins(s, t)
  <2> HIDE DEF at
  <2>1. QED BY <1>7, <1>8 DEF Thins
<1>10. cut \in Seq(Part) /\ Thins(cut, <<>>) /\ <<>> \in Seq(Part)
  <2>1. <<>> \in Seq(Part) /\ Thins(<<>>, <<>>)
    BY EmptySeq, ThinsEmpty
  <2>2. "rest" \in Part /\ "rest" \notin Command
    BY DebugServerAssumption DEF DebugServerAssumption, Part
  <2>3. <<"rest">> \in Seq(Part) /\ Thins(<<"rest">>, <<>>)
    BY <2>2, ThinsOther
  <2>4. QED BY <2>1, <2>3
<1>11. cut \o s \in Seq(Part) /\ <<>> \o t = t
  BY <1>3, <1>5, <1>10, ConcatProperties, ConcatEmptySeq
<1>12. Thins(cut \o s, t)
  <2>1. Thins(cut \o s, <<>> \o t)
    BY <1>3, <1>5, <1>9, <1>10, ThinsConcat
  <2>2. QED BY <1>11, <2>1
<1>13. QED BY <1>11, <1>12 DEF s, t, n

-----------------------------------------------------------------------------
\* What was answered, is in hand, and waits, is thinned out of what was asked.
Line(c) == (outbox[c] \o InHand(c)) \o inbox[c]
InLine == \A c \in Client : Thins(Line(c), asked[c])

LEMMA LineTypes ==
  ASSUME DInv, NEW c \in Client
  PROVE  /\ outbox[c] \in Seq(Part) /\ InHand(c) \in Seq(Part) /\ inbox[c] \in Seq(Part)
         /\ asked[c] \in Seq(Part) /\ outbox[c] \o InHand(c) \in Seq(Part)
         /\ Line(c) \in Seq(Part)
<1>1. outbox[c] \in Seq(Command) /\ asked[c] \in Seq(Command) /\ inbox[c] \in Seq(Part)
  BY DEF DInv, TypeOK
<1>2. InHand(c) \in Seq(Command)
  BY InHandType, DebugServerAssumption DEF DInv
<1>3. \A q \in Seq(Command) : q \in Seq(Part)
  BY SeqMonotonic DEF Part
<1>4. outbox[c] \in Seq(Part) /\ asked[c] \in Seq(Part) /\ InHand(c) \in Seq(Part)
  BY <1>1, <1>2, <1>3
<1>5. outbox[c] \o InHand(c) \in Seq(Part)
  BY <1>4, ConcatProperties
<1>6. QED BY <1>1, <1>4, <1>5, ConcatProperties DEF Line

\* A client's line only gets thinner.
LEMMA LineThins ==
  ASSUME DInv, NEW c \in Client, Thins(Line(c), asked[c]), NEW line \in Seq(Part),
         asked'[c] = asked[c], Line(c)' = line, Thins(line, Line(c))
  PROVE  Thins(Line(c), asked[c])'
<1>1. Line(c) \in Seq(Part) /\ asked[c] \in Seq(Part)
  BY LineTypes
<1>2. Thins(line, asked[c])
  BY <1>1, ThinsThins
<1>3. QED BY <1>2

LEMMA LineStays ==
  ASSUME DInv, NEW c \in Client, Thins(Line(c), asked[c]),
         asked'[c] = asked[c], outbox'[c] = outbox[c], inbox'[c] = inbox[c],
         InHand(c)' = InHand(c)
  PROVE  Thins(Line(c), asked[c])'
BY DEF Line, Thins, Embeds

LEMMA LineSends ==
  ASSUME DInv, InLine, NEW c \in Client, SendHeader(c) \/ SendCommand(c)
  PROVE  InLine'
<1>1. ASSUME NEW d \in Client, d # c PROVE Thins(Line(d), asked[d])'
  BY <1>1, LineStays DEF SendHeader, SendCommand, InLine, DInv, TypeOK, InHand
<1> DEFINE done == outbox[c] \o InHand(c)
           line == done \o inbox[c]
<1>2. /\ inbox[c] \in Seq(Part) /\ asked[c] \in Seq(Part) /\ done \in Seq(Part)
      /\ line \in Seq(Part) /\ Thins(line, asked[c]) /\ asked[c] \in Seq(Command)
  BY LineTypes DEF InLine, Line, DInv, TypeOK
<1>3. PICK x \in Part : inbox'[c] = Append(inbox[c], x)
        /\ \/ x \notin Command /\ asked'[c] = asked[c]
           \/ x \in Command /\ asked'[c] = Append(asked[c], x)
  <2>1. /\ inbox \in [Client -> Seq(Part)] /\ asked \in [Client -> Seq(Command)]
        /\ {"header", "stranger"} \cap Command = {} /\ {"header", "stranger"} \cup Command \subseteq Part
    BY DebugServerAssumption DEF DInv, TypeOK, Part, DebugServerAssumption
  <2>2. CASE SendHeader(c)
    BY <2>1, <2>2 DEF SendHeader
  <2>3. CASE SendCommand(c)
    BY <2>1, <2>3 DEF SendCommand
  <2>4. QED BY <2>2, <2>3
<1>4. InHand(c)' = InHand(c) /\ outbox'[c] = outbox[c]
  BY DEF SendHeader, SendCommand, InHand
<1>5. Line(c)' = line \o <<x>> /\ <<x>> \in Seq(Part)
  <2> DEFINE q == inbox[c]
             one == <<x>>
  <2>1. one \in Seq(Part)
    OBVIOUS
  <2>2. q \in Seq(Part) /\ done \in Seq(Part) /\ Append(q, x) = q \o one
    BY <1>2, AppendIsConcat
  <2>3. Line(c)' = done \o Append(q, x)
    BY <1>3, <1>4 DEF Line
  <2> HIDE DEF done, q, one
  <2>4. done \o (q \o one) = (done \o q) \o one
    BY <2>1, <2>2, ConcatAssociative
  <2>5. QED BY <2>1, <2>2, <2>3, <2>4 DEF q, one
<1> HIDE DEF line, done
<1>6. Thins(Line(c), asked[c])'
  <2>1. CASE x \notin Command /\ asked'[c] = asked[c]
    <3>1. Thins(line \o <<x>>, asked[c] \o <<>>) /\ asked[c] \o <<>> = asked[c]
      BY <1>2, <1>5, <2>1, ThinsOther, ThinsConcat, EmptySeq, ConcatEmptySeq
    <3>2. Thins(line \o <<x>>, asked'[c])
      BY <2>1, <3>1
    <3>3. QED BY <1>5, <3>2
  <2>2. CASE asked'[c] = Append(asked[c], x)
    <3>1. Thins(line \o <<x>>, asked[c] \o <<x>>)
      BY <1>2, <1>5, ThinsSame, ThinsConcat
    <3>2. asked'[c] = asked[c] \o <<x>>
      BY <1>2, <2>2, AppendIsConcat
    <3>3. QED BY <1>5, <3>1, <3>2
  <2>3. QED BY <1>3, <2>1, <2>2
<1>7. QED BY <1>1, <1>6 DEF InLine

\* What a read leaves of the line.
LEMMA ReadThins ==
  ASSUME DInv, NEW c \in Client, inbox[c] # <<>>, Read(c)
  PROVE  /\ inbox'[c] \in Seq(Part) /\ Thins(inbox'[c], Tail(inbox[c]))
         /\ Thins(inbox'[c], inbox[c])
<1>1. inbox \in [Client -> Seq(Part)] /\ inbox[c] \in Seq(Part)
  BY DEF DInv, TypeOK
<1>2. /\ Tail(inbox[c]) \in Seq(Part) /\ Thins(Tail(inbox[c]), inbox[c])
  BY <1>1, ThinsTail
<1>3. inbox'[c] \in Seq(Part) /\ Thins(inbox'[c], Tail(inbox[c]))
  <2>1. CASE inbox' = [inbox EXCEPT ![c] = Tail(@)]
    <3>1. inbox'[c] = Tail(inbox[c])
      BY <1>1, <2>1
    <3>2. QED BY <1>2, <3>1, ThinsSame
  <2>2. ASSUME NEW j \in 2..Len(inbox[c]), NEW cut \in {<<>>, <<"rest">>},
               inbox' = [inbox EXCEPT ![c] = cut \o SubSeq(@, j + 1, Len(@))]
        PROVE  inbox'[c] \in Seq(Part) /\ Thins(inbox'[c], Tail(inbox[c]))
    <3>1. inbox'[c] = cut \o SubSeq(inbox[c], j + 1, Len(inbox[c]))
      BY <1>1, <2>2
    <3>2. QED BY <1>1, <3>1, ThinsRest
  <2>3. QED BY <2>1, <2>2 DEF Read
<1>4. QED BY <1>1, <1>2, <1>3, ThinsThins

\* The handler reads without a command in hand: one it reads is in hand then.
LEMMA LineReads ==
  ASSUME DInv, InLine, ReadHeader \/ ReadPayload
  PROVE  InLine'
<1> PICK c \in Client : c = main.client
  BY DEF ReadHeader, ReadPayload, DInv, MainOK
<1>1. main.at \in {"header", "payload"} /\ asked' = asked /\ outbox' = outbox
  BY DEF ReadHeader, ReadPayload, clients
<1>2. Idle.at = "idle"
  BY DEF Idle
<1>3. /\ InHand(c) = <<>>
      /\ \/ InHand(c)' = <<>> /\ inbox' = inbox
         \/ InHand(c)' = <<>> /\ inbox[c] # <<>> /\ Read(c)
         \/ InHand(c)' = <<Head(inbox[c])>> /\ inbox[c] # <<>> /\ Read(c)
  BY <1>1, <1>2 DEF ReadHeader, ReadPayload, ReadFailed, CloseConnection, InHand, Handling
<1>4. \A d \in Client \ {c} : InHand(d) = <<>> /\ InHand(d)' = <<>> /\ inbox'[d] = inbox[d]
  <2>1. main'.at = "idle" \/ main'.client = c
    <3>1. CASE ReadHeader
      BY <1>2, <3>1 DEF ReadHeader, ReadFailed, CloseConnection, Handling
    <3>2. CASE ReadPayload
      BY <1>2, <3>2 DEF ReadPayload, ReadFailed, CloseConnection, Handling
    <3>3. QED BY <3>1, <3>2
  <2>2. inbox' = inbox \/ (inbox[c] # <<>> /\ Read(c))
    BY <1>3
  <2>3. \A d \in Client \ {c} : inbox'[d] = inbox[d]
    BY <1>1, <2>2, ReadTakes
  <2>4. QED BY <1>1, <2>1, <2>3 DEF InHand
<1>5. ASSUME NEW d \in Client, d # c PROVE Thins(Line(d), asked[d])'
  BY <1>1, <1>4, <1>5, LineStays DEF InLine
<1>6. /\ outbox[c] \in Seq(Part) /\ inbox[c] \in Seq(Part) /\ <<>> \in Seq(Part)
      /\ outbox[c] \o <<>> = outbox[c] /\ Line(c) = outbox[c] \o inbox[c]
      /\ Thins(Line(c), asked[c])
  BY <1>1, <1>3, LineTypes, ConcatEmptySeq, EmptySeq DEF Line, InLine
<1>7. Thins(Line(c), asked[c])'
  <2>1. CASE InHand(c)' = <<>> /\ inbox' = inbox
    BY <1>1, <1>3, <1>6, <2>1, LineStays
  <2>2. CASE InHand(c)' = <<>> /\ inbox[c] # <<>> /\ Read(c)
    <3>1. inbox'[c] \in Seq(Part) /\ Thins(inbox'[c], inbox[c])
      BY <1>1, <2>2, ReadThins
    <3>2. Thins(outbox[c] \o inbox'[c], outbox[c] \o inbox[c])
      BY <1>6, <3>1, ThinsSame, ThinsConcat
    <3>3. Line(c)' = outbox[c] \o inbox'[c]
      BY <1>1, <1>6, <2>2 DEF Line
    <3>4. outbox[c] \o inbox'[c] \in Seq(Part)
      BY <1>6, <3>1, ConcatProperties
    <3>5. QED BY <1>1, <1>6, <3>2, <3>3, <3>4, LineThins
  <2>3. CASE InHand(c)' = <<Head(inbox[c])>> /\ inbox[c] # <<>> /\ Read(c)
    <3> DEFINE out == outbox[c]
               h == <<Head(inbox[c])>>
               t == Tail(inbox[c])
               r == inbox'[c]
    <3>1. r \in Seq(Part) /\ Thins(r, t)
      BY <1>1, <2>3, ReadThins
    <3>2. t \in Seq(Part) /\ inbox[c] = h \o t /\ h \in Seq(Part) /\ out \in Seq(Part)
      BY <1>6, <2>3, ThinsTail, TailAt
    <3>3. Line(c)' = (out \o h) \o r
      BY <1>1, <2>3 DEF Line
    <3>4. Line(c) = out \o (h \o t)
      BY <1>6, <3>2
    <3> HIDE DEF out, h, t, r
    <3>5. out \o h \in Seq(Part) /\ out \o (h \o t) = (out \o h) \o t
      BY <3>2, ConcatProperties, ConcatAssociative
    <3>6. Thins((out \o h) \o r, (out \o h) \o t)
      BY <3>1, <3>2, <3>5, ThinsSame, ThinsConcat
    <3>7. (out \o h) \o r \in Seq(Part) /\ Thins((out \o h) \o r, Line(c))
      BY <3>1, <3>4, <3>5, <3>6, ConcatProperties
    <3>8. QED BY <1>1, <1>6, <3>3, <3>7, LineThins
  <2>4. QED BY <1>3, <2>1, <2>2, <2>3
<1>8. QED BY <1>5, <1>7 DEF InLine

LEMMA LineReplies ==
  ASSUME DInv, InLine, Reply
  PROVE  InLine'
<1> PICK c \in Client : c = main.client
  BY DEF Reply, DInv, MainOK
<1> PICK k \in Command : k = main.command
  BY DebugServerAssumption DEF Reply, DInv, MainOK, DebugServerAssumption
<1>1. /\ main.at = "reply" /\ asked' = asked /\ inbox' = inbox
      /\ main' = Idle
  BY DEF Reply, CloseConnection, clients
<1>2. Idle.at = "idle"
  BY DEF Idle
<1>3. InHand(c) = <<k>> /\ InHand(c)' = <<>> /\ \A d \in Client \ {c} : InHand(d) = <<>> /\ InHand(d)' = <<>>
  BY <1>1, <1>2 DEF InHand
<1>4. \/ outbox' = [outbox EXCEPT ![c] = Append(@, k)]
      \/ outbox' = outbox
  BY DEF Reply, Written
<1>5. outbox \in [Client -> Seq(Command)]
  BY DEF DInv, TypeOK
<1>6. ASSUME NEW d \in Client, d # c PROVE Thins(Line(d), asked[d])'
  BY <1>1, <1>3, <1>4, <1>5, <1>6, LineStays DEF InLine
<1>7. /\ outbox[c] \in Seq(Part) /\ inbox[c] \in Seq(Part) /\ <<>> \in Seq(Part)
      /\ <<k>> \in Seq(Part) /\ Line(c) = (outbox[c] \o <<k>>) \o inbox[c]
      /\ outbox[c] \o <<k>> \in Seq(Part)
      /\ Thins(Line(c), asked[c])
  BY <1>1, <1>3, LineTypes, EmptySeq DEF Line, InLine
<1>8. Thins(Line(c), asked[c])'
  <2>1. CASE outbox' = [outbox EXCEPT ![c] = Append(@, k)]
    <3>1. outbox'[c] = outbox[c] \o <<k>>
      BY <1>1, <1>5, <2>1, AppendIsConcat
    <3>2. (outbox[c] \o <<k>>) \o <<>> = outbox[c] \o <<k>>
      BY <1>7, ConcatEmptySeq
    <3>3. Line(c)' = Line(c)
      BY <1>1, <1>3, <1>7, <3>1, <3>2 DEF Line
    <3>4. Thins(Line(c), Line(c)) /\ Line(c) \in Seq(Part)
      BY LineTypes, ThinsSame
    <3>5. QED BY <1>1, <1>7, <3>3, <3>4, LineThins
  <2>2. CASE outbox' = outbox
    <3>1. Thins(<<>>, <<k>>) /\ outbox[c] \o <<>> \in Seq(Part)
      BY <1>7, ThinsEmpty, ConcatProperties
    <3>2. Thins(outbox[c] \o <<>>, outbox[c] \o <<k>>)
      BY <1>7, <3>1, ThinsSame, ThinsConcat
    <3>3. Thins((outbox[c] \o <<>>) \o inbox[c], (outbox[c] \o <<k>>) \o inbox[c])
      BY <1>7, <3>1, <3>2, ThinsSame, ThinsConcat
    <3>4. Line(c)' = (outbox[c] \o <<>>) \o inbox[c]
      BY <1>1, <1>3, <2>2 DEF Line
    <3>5. (outbox[c] \o <<>>) \o inbox[c] \in Seq(Part)
      BY <1>7, <3>1, ConcatProperties
    <3>6. QED BY <1>1, <1>7, <3>3, <3>4, <3>5, LineThins
  <2>3. QED BY <1>4, <2>1, <2>2
<1>9. QED BY <1>6, <1>8 DEF InLine

\* The other steps leave every line alone.
LEMMA LineRests ==
  ASSUME DInv, InLine, UNCHANGED <<asked, inbox, outbox, main>>
  PROVE  InLine'
<1>1. \A c \in Client : InHand(c)' = InHand(c)
  BY DEF InHand
<1>2. QED BY <1>1, LineStays DEF InLine

LEMMA LineBegins ==
  ASSUME DInv, InLine, UNCHANGED <<asked, inbox, outbox>>,
         main.at = "idle", main'.at = "header"
  PROVE  InLine'
<1>1. \A c \in Client : InHand(c)' = InHand(c)
  BY DEF InHand
<1>2. QED BY <1>1, LineStays DEF InLine

LEMMA LineNext ==
  ASSUME DInv, InLine, [Next]_vars
  PROVE  InLine'
<1>1. CASE \E c \in Client : SendHeader(c) \/ SendCommand(c)
  BY <1>1, LineSends
<1>2. CASE \E c \in Client : Connect(c) \/ HangUp(c)
  <2>1. UNCHANGED <<asked, inbox, outbox, main>>
    BY <1>2 DEF Connect, HangUp, streams
  <2>2. QED BY <2>1, LineRests
<1>3. CASE Api
  <2>1. CASE \E s \in Server : Construct(s) \/ Start(s) \/ Shutdown(s) \/ Destroy(s) \/ Run(s)
    <3>1. UNCHANGED <<clients, streams, main>>
      BY <2>1 DEF Construct, Start, Constructed, Shutdown, Destroy, Destructor, Run
    <3>2. QED BY <3>1, LineRests DEF clients, streams
  <2>2. CASE Stop \/ \E s, t \in Server : MoveConstruct(s, t) \/ MoveAssign(s, t)
    <3>1. UNCHANGED <<clients, streams, main>>
      BY <2>2 DEF MoveConstruct, MoveAssign, Taken, Stop, Destructor
    <3>2. QED BY <3>1, LineRests DEF clients, streams
  <2>3. QED BY <1>3, <2>1, <2>2 DEF Api
<1>4. CASE \E s \in Server : AcceptEvent(s)
  BY <1>4, LineRests DEF AcceptEvent, clients, streams
<1>5. CASE \E c \in Client : HandlerEvent(c)
  <2>1. UNCHANGED <<clients, streams>> /\ main = Idle /\ main'.at = "header"
    BY <1>5 DEF HandlerEvent, AtQueue, Handling
  <2>2. UNCHANGED <<asked, inbox, outbox>> /\ main.at = "idle"
    BY <2>1 DEF clients, streams, Idle
  <2>3. QED BY <2>1, <2>2, LineBegins
<1>6. CASE ReadHeader \/ ReadPayload
  BY <1>6, LineReads
<1>7. CASE Reply
  BY <1>7, LineReplies
<1>8. CASE RunReturns \/ RunSelects \/ RunGivesUp \/ RunAgain
  <2>1. UNCHANGED <<asked, inbox, outbox, main>>
    BY <1>8 DEF RunReturns, RunSelects, RunGivesUp, RunAgain, clients, streams
  <2>2. QED BY <2>1, LineRests
<1>9. CASE RunHandles
  <2>1. UNCHANGED <<clients, streams>> /\ main = Idle /\ main'.at = "header"
    BY <1>9 DEF RunHandles, Running, Handling
  <2>2. UNCHANGED <<asked, inbox, outbox>> /\ main.at = "idle"
    BY <2>1 DEF clients, streams, Idle
  <2>3. QED BY <2>1, <2>2, LineBegins
<1>10. CASE UNCHANGED vars
  BY <1>10, LineRests DEF vars
<1>11. QED
  BY <1>1, <1>2, <1>3, <1>4, <1>5, <1>6, <1>7, <1>8, <1>9, <1>10
     DEF Next, ClientStep, Handler, RunLoop

LEMMA LineInit == Init => InLine
<1> SUFFICES ASSUME Init, NEW c \in Client PROVE Thins(Line(c), asked[c])
  BY DEF InLine
<1>1. outbox[c] = <<>> /\ inbox[c] = <<>> /\ InHand(c) = <<>>
  BY DEF Init, InHand, Idle
<1>2. <<>> \in Seq(Part) /\ (<<>> \o <<>>) \o <<>> = <<>>
  BY EmptySeq, ConcatEmptySeq
<1>3. QED BY <1>1, <1>2, ThinsEmpty DEF Line

\* AnswersInOrder for any number of clients and requests and whatever the reads
\* take: no reply is one the client did not ask for, or comes before an earlier
\* one's.
THEOREM AnswersRight == Spec => []AnswersInOrder
<1>1. DInv /\ InLine => AnswersInOrder
  <2> SUFFICES ASSUME DInv, InLine, NEW c \in Client
      PROVE  LET answered == outbox[c] \o InHand(c)
             IN \E at \in [DOMAIN answered -> DOMAIN asked[c]] :
                  \A i, j \in DOMAIN answered :
                    answered[i] = asked[c][at[i]] /\ (i < j => at[i] < at[j])
    BY DEF AnswersInOrder
  <2> DEFINE answered == outbox[c] \o InHand(c)
  <2>1. /\ answered \in Seq(Part) /\ inbox[c] \in Seq(Part) /\ asked[c] \in Seq(Part)
        /\ answered \o inbox[c] \in Seq(Part) /\ Thins(answered \o inbox[c], asked[c])
    BY LineTypes DEF InLine, Line
  <2>2. outbox[c] \in Seq(Command) /\ InHand(c) \in Seq(Command)
    BY InHandType, DebugServerAssumption DEF DInv, TypeOK
  <2>3. answered \in Seq(Command)
    BY <2>2, ConcatProperties
  <2> HIDE DEF answered
  <2>4. Thins(answered, answered \o inbox[c])
    <3>1. answered \o <<>> = answered /\ <<>> \in Seq(Part)
      BY <2>1, ConcatEmptySeq, EmptySeq
    <3>2. Thins(answered \o <<>>, answered \o inbox[c])
      BY <2>1, <3>1, ThinsSame, ThinsEmpty, ThinsConcat
    <3>3. QED BY <3>1, <3>2
  <2>5. Thins(answered, asked[c])
    BY <2>1, <2>4, ThinsThins
  <2>6. PICK at \in [DOMAIN answered -> Nat] : Embeds(at, answered, asked[c])
    BY <2>5 DEF Thins
  <2>7. \A i \in DOMAIN answered : answered[i] \in Command
    BY <2>3, ElementOfSeq, LenProperties
  <2>8. /\ at \in [DOMAIN answered -> DOMAIN asked[c]]
        /\ \A i, j \in DOMAIN answered :
             answered[i] = asked[c][at[i]] /\ (i < j => at[i] < at[j])
    BY <2>6, <2>7 DEF Embeds
  <2>9. QED BY <2>8 DEF answered
<1>2. DInv /\ InLine /\ [Next]_vars => InLine'
  BY LineNext
<1>3. QED BY <1>1, <1>2, LineInit, InvariantHolds, PTL DEF Spec

-----------------------------------------------------------------------------
(***************************************************************************)
(* blocking_read and blocking_write, with any peer.  A part that is moved  *)
(* by one call of read or write is moved exactly, because its whole length *)
(* is what is asked for; the calls after the first ask for too much.       *)
(***************************************************************************)

IOInv == IOTypeOK /\ moved <= ready

LEMMA Constants ==
  /\ LastPart \in Nat /\ Total \in Nat /\ PartStart[1] = 0
  /\ \A p \in 1..(LastPart + 1) : PartStart[p] \in Nat
  /\ \A p \in Parts : /\ p \in 1..(LastPart + 1) /\ p + 1 \in 1..(LastPart + 1)
                      /\ PartStart[p + 1] - PartStart[p] \in Nat
BY BlockingIOAssumption DEF Parts, Total

LEMMA Initially == IOInit => IOInv
<1> SUFFICES ASSUME IOInit PROVE IOInv
  OBVIOUS
<1>1. open \in BOOLEAN /\ failed \in BOOLEAN
  BY Zenon DEF IOInit
<1>2. /\ ready \in 0..Total /\ offset \in Nat /\ moved \in 0..Total /\ moved <= ready
      /\ part \in 1..(LastPart + 1)
  BY Constants DEF IOInit
<1>3. QED BY <1>1, <1>2 DEF IOInv, IOTypeOK

\* The numbers of a step of the loop that moves n bytes.
LEMMA StepMoves ==
  ASSUME IOInv, NEW n \in 1..Asked, part \in Parts, offset < PartLength,
         moved + n <= ready, Moves(n, offset + n), ready' = ready
  PROVE  /\ n \in Nat /\ n <= PartLength + offset /\ moved' = moved + n
         /\ part \in Nat /\ part' \in {part, part + 1} /\ part' \in 1..(LastPart + 1)
         /\ PartStart[part] \in Nat /\ PartStart[part + 1] \in Nat
         /\ PartLength = PartStart[part + 1] - PartStart[part]
         /\ offset \in Nat /\ offset' \in Nat /\ moved \in Nat /\ ready \in Nat
         /\ moved' \in 0..Total /\ moved' <= ready'
         /\ part' = part => offset' = offset + n
         /\ part' = part + 1 => offset' = 0 /\ PartLength <= offset + n
<1>1. /\ part \in Nat /\ part \in 1..(LastPart + 1) /\ part + 1 \in 1..(LastPart + 1)
      /\ PartLength = PartStart[part + 1] - PartStart[part] /\ PartLength \in Nat
      /\ PartStart[part] \in Nat /\ PartStart[part + 1] \in Nat /\ Total \in Nat
      /\ offset \in Nat /\ moved \in 0..Total /\ ready \in 0..Total
  BY Constants DEF IOInv, IOTypeOK, PartLength, Parts
<1>2. n \in Nat /\ n <= PartLength + offset
  BY <1>1 DEF Asked
<1>3. moved' = moved + n /\ moved' \in 0..Total
  BY <1>1, <1>2 DEF Moves
<1>4. CASE offset + n < PartLength
  <2>1. offset' = offset + n /\ part' = part
    BY <1>4 DEF Moves
  <2>2. QED BY <1>1, <1>2, <1>3, <2>1
<1>5. CASE ~(offset + n < PartLength)
  <2>1. offset' = 0 /\ part' = part + 1
    BY <1>5 DEF Moves
  <2>2. QED BY <1>1, <1>2, <1>3, <1>5, <2>1
<1>6. QED BY <1>4, <1>5

LEMMA Stepwise == ASSUME IOInv, [IONext]_ioVars PROVE IOInv'
<1>1. CASE Offer
  <2>1. ready' \in 0..Total /\ moved <= ready'
    BY <1>1, Constants DEF Offer, IOInv, IOTypeOK
  <2>2. QED BY <1>1, <2>1 DEF Offer, IOInv, IOTypeOK
<1>2. CASE PeerHangsUp
  BY <1>2 DEF PeerHangsUp, IOInv, IOTypeOK
<1>3. CASE Transfer
  <2>1. PICK n \in 1..Asked : moved + n <= ready /\ Moves(n, offset + n)
    BY <1>3 DEF Transfer
  <2>2. part \in Parts /\ offset < PartLength /\ UNCHANGED <<ready, open, failed>>
    BY <1>3 DEF Transfer, Moving
  <2>3. /\ part' \in 1..(LastPart + 1) /\ offset' \in Nat
        /\ moved' \in 0..Total /\ moved' <= ready'
    BY <2>1, <2>2, StepMoves
  <2>4. QED BY <2>2, <2>3 DEF IOInv, IOTypeOK
<1>4. CASE TransferNothing
  BY <1>4, Constants DEF TransferNothing, Moving, IOInv, IOTypeOK
<1>5. CASE Fail
  BY <1>5 DEF Fail, IOInv, IOTypeOK
<1>6. CASE UNCHANGED ioVars
  BY <1>6 DEF ioVars, IOInv, IOTypeOK
<1>7. QED BY <1>1, <1>2, <1>3, <1>4, <1>5, <1>6 DEF IONext

\* Only a transfer can leave the parts.
LEMMA Slips ==
  ASSUME IOInv, [IONext]_ioVars, InStep, ~InStep'
  PROVE  /\ offset > 0 /\ ready > PartStart[part + 1]
         /\ part' = part + 1 /\ moved' - PartStart[part'] <= 2 * offset
<1>1. CASE Transfer
  <2>1. PICK n \in 1..Asked : moved + n <= ready /\ Moves(n, offset + n)
    BY <1>1 DEF Transfer
  <2>2. part \in Parts /\ offset < PartLength /\ ready' = ready
    BY <1>1 DEF Transfer, Moving
  <2>3. /\ n \in Nat /\ n <= PartLength + offset /\ moved' = moved + n
        /\ part \in Nat /\ part' \in {part, part + 1}
        /\ PartStart[part] \in Nat /\ PartStart[part + 1] \in Nat
        /\ PartLength = PartStart[part + 1] - PartStart[part]
        /\ offset \in Nat /\ moved \in Nat /\ ready \in Nat
        /\ part' = part => offset' = offset + n
        /\ part' = part + 1 => offset' = 0 /\ PartLength <= offset + n
    BY <2>1, <2>2, StepMoves
  <2>4. moved = PartStart[part] + offset
    BY DEF InStep
  <2>5. part' # part
    BY <2>3, <2>4 DEF InStep
  <2>6. part' = part + 1 /\ offset' = 0 /\ moved' # PartStart[part + 1]
    BY <2>3, <2>5 DEF InStep
  <2>7. moved' > PartStart[part + 1]
    BY <2>3, <2>4, <2>6
  <2>8. ready > PartStart[part + 1] /\ offset > 0 /\ moved' - PartStart[part + 1] <= 2 * offset
    BY <2>1, <2>3, <2>4, <2>7
  <2>9. QED BY <2>6, <2>8
<1>2. CASE TransferNothing
  BY <1>2, Constants DEF TransferNothing, Moving, IOInv, IOTypeOK, InStep, PartLength, Parts
<1>3. CASE Offer \/ PeerHangsUp \/ Fail \/ UNCHANGED ioVars
  BY <1>3 DEF Offer, PeerHangsUp, Fail, ioVars, InStep
<1>4. QED BY <1>1, <1>2, <1>3 DEF IONext

\* SlipsOnlyWhen for any peer, which may send as much ahead as it likes, and for
\* parts of any number and length.  Connections begin in step: with a peer that
\* waits with a part until the one before it was moved, they stay so.
THEOREM SlipsRight == IOSpec => SlipsOnlyWhen
<1>1. IOInv /\ [IONext]_ioVars =>
        [InStep /\ ~InStep' =>
           /\ offset > 0 /\ ready > PartStart[part + 1]
           /\ part' = part + 1 /\ moved' - PartStart[part'] <= 2 * offset]_ioVars
  BY Slips
<1>2. QED BY <1>1, Initially, Stepwise, PTL DEF IOSpec, SlipsOnlyWhen
=============================================================================
