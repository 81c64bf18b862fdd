------------------------------ MODULE SocketProofs ------------------------------
(***************************************************************************)
(* The TCP transport, for every number of pieces per frame, every buffer   *)
(* and any number of messages, connections, faults and calls of stop().    *)
(***************************************************************************)
EXTENDS SocketTransport, TLAPS

Piece == Nat \X Nat

\* What may come after piece p on a connection: the next piece of its message, or the
\* first piece of another; and the order of the pieces that are in flight.
Follows(p, q) == (q[1] = p[1] /\ q[2] = p[2] + 1) \/ (p[2] = FrameUnits /\ q[2] = 1)
Before(p, q) == p[1] < q[1] \/ (p[1] = q[1] /\ p[2] < q[2])

Framed(s) ==
  /\ \A i \in 1 .. Len(s) : s[i][2] \in 1 .. FrameUnits
  /\ \A i \in 1 .. Len(s) - 1 : Follows(s[i], s[i + 1])
  /\ \A i, j \in 1 .. Len(s) : i < j => Before(s[i], s[j])

CPcs == {"idle", "returned", "threw", "loop", "poll", "select", "read", "handle", "check", "wait"}

TypeInv ==
  /\ stream \in [Conns -> Seq(Piece)] /\ backlog \in Seq(Conns)
  /\ pend \in [Conns -> BOOLEAN] /\ cend \in [Conns -> BOOLEAN]
  /\ nconn \in 0 .. MaxConns /\ psock \in {0, nconn} /\ csock \in 0 .. nconn
  /\ ppc \in {"idle", "connect", "write"} /\ unit \in 1 .. FrameUnits + 1
  /\ nmsgs \in 0 .. MaxMsgs /\ cur = nmsgs /\ sent \in Seq(Nat)
  /\ cpc \in CPcs /\ got \in Seq(Piece) /\ delivered \in Seq(Nat)
  /\ ppc = "connect" => psock = 0 /\ nconn < MaxConns
  /\ ppc = "write" => unit <= FrameUnits /\ nmsgs > 0
  /\ cpc \in {"select", "read", "handle"} => csock # 0

\* Connections are accepted in the order they were made; only those accepted last or
\* still waiting carry anything.
ConnInv ==
  /\ \A i \in 1 .. Len(backlog) : backlog[i] \in csock + 1 .. nconn
  /\ \A i, j \in 1 .. Len(backlog) : i < j => backlog[i] < backlog[j]
  /\ \A c \in Conns : cend[c] => c = csock \/ \E i \in 1 .. Len(backlog) : backlog[i] = c
  /\ \A c \in Conns : stream[c] # << >> => cend[c]

\* The consumer is inside a frame of which it has some pieces, and of which message.
Partial == cpc = "read" /\ got # << >>
Taken == cpc \in {"read", "handle"} /\ got # << >>

\* The first piece in flight goes on where the consumer is.
Resumes(c) ==
  IF c = csock /\ Partial THEN stream[c][1] = <<got[1][1], Len(got) + 1>> ELSE stream[c][1][2] = 1

\* The last piece in flight, or else the last one read, is the one written last.
Writing == ppc = "write" /\ unit > 1
Trails(c) ==
  IF stream[c] = << >>
  THEN IF c = csock /\ Partial THEN Writing /\ cur = got[1][1] /\ unit = Len(got) + 1 ELSE ~Writing
  ELSE LET last == stream[c][Len(stream[c])]
       IN IF Writing THEN last = <<cur, unit - 1>> ELSE last[2] = FrameUnits

StreamInv ==
  /\ \A c \in Conns : Framed(stream[c])
  /\ \A c \in Conns : stream[c] # << >> => Resumes(c)
  /\ psock # 0 /\ cend[psock] => Trails(psock)
  /\ FramesWhole
  /\ Len(got) <= FrameUnits
  /\ cpc = "read" => Len(got) < FrameUnits
  /\ cpc = "handle" => Len(got) = FrameUnits

\* Messages only grow along each connection, from one connection to the next, and from
\* what was delivered to what is in flight.
InSent(m) == \E i \in 1 .. Len(sent) : sent[i] = m

OrderInv ==
  /\ \A c \in Conns : \A i \in 1 .. Len(stream[c]) :
       /\ stream[c][i][1] <= nmsgs
       /\ ppc = "write" /\ (c # psock \/ unit = 1) => stream[c][i][1] < cur
       /\ stream[c][i][2] = FrameUnits => InSent(stream[c][i][1])
  /\ \A c, d \in Conns : c < d =>
       \A i \in 1 .. Len(stream[c]), j \in 1 .. Len(stream[d]) : stream[c][i][1] < stream[d][j][1]
  /\ \A i \in 1 .. Len(sent) : sent[i] <= nmsgs /\ (ppc = "write" => sent[i] < cur)
  /\ \A i, j \in 1 .. Len(sent) : i < j => sent[i] < sent[j]

TakenInv ==
  /\ Taken => got[1][1] <= nmsgs /\ (ppc = "write" /\ (csock # psock \/ unit = 1) => got[1][1] < cur)
  /\ cpc = "handle" => InSent(got[1][1])
  /\ Taken => \A d \in Conns : \A j \in 1 .. Len(stream[d]) :
       IF d = csock /\ Partial THEN Before(got[Len(got)], stream[d][j]) ELSE got[1][1] < stream[d][j][1]

DeliveredInv ==
  delivered # << >> =>
    LET last == delivered[Len(delivered)]
    IN /\ InSent(last)
       /\ \A c \in Conns : \A i \in 1 .. Len(stream[c]) : last < stream[c][i][1]
       /\ Taken => last < got[1][1]

\* The inductive invariant.
SocketInv == TypeInv /\ ConnInv /\ StreamInv /\ OrderInv /\ TakenInv /\ DeliveredInv

-----------------------------------------------------------------------------
\* Sequences.
LEMMA AppendFacts ==
  ASSUME NEW S, NEW s \in Seq(S), NEW p \in S
  PROVE  /\ Append(s, p) \in Seq(S) /\ Len(s) \in Nat /\ Len(Append(s, p)) = Len(s) + 1
         /\ \A i \in 1 .. Len(s) : Append(s, p)[i] = s[i]
         /\ Append(s, p)[Len(s) + 1] = p /\ Append(s, p) # << >>
  OBVIOUS

\* The rest of a sequence.
LEMMA TailFacts ==
  ASSUME NEW S, NEW s \in Seq(S), s # << >>
  PROVE  /\ Tail(s) \in Seq(S) /\ Len(s) \in Nat \ {0} /\ Len(Tail(s)) = Len(s) - 1
         /\ \A i \in 1 .. Len(s) - 1 : Tail(s)[i] = s[i + 1]
         /\ Head(s) = s[1] /\ s[1] \in S
  OBVIOUS

\* Only the empty sequence has length 0.
LEMMA LenFacts == ASSUME NEW S, NEW s \in Seq(S) PROVE Len(s) \in Nat /\ (s = << >> <=> Len(s) = 0)
  OBVIOUS

\* The length of the empty sequence.
LEMMA LenEmpty == Len(<< >>) = 0
  OBVIOUS

\* A sequence without rest ends with its first element.
LEMMA TailEmpty == ASSUME NEW S, NEW s \in Seq(S), s # << >>, Tail(s) = << >> PROVE s[Len(s)] = s[1]
<1>1. Len(s) \in Nat /\ Len(Tail(s)) = Len(s) - 1 BY Zenon, TailFacts, LenFacts
<1>2. Len(Tail(s)) = 0 BY Zenon, LenEmpty
<1>3. Len(s) = 1 BY <1>1, <1>2
<1>4. QED BY Zenon, <1>3

\* A sequence that was appended to is not empty.
LEMMA AppendNonEmpty == ASSUME NEW s \in Seq(Nat), NEW m \in Nat PROVE Append(s, m) # << >>
  OBVIOUS

\* Elements of a sequence are in its set.
LEMMA ElementFacts == ASSUME NEW S, NEW s \in Seq(S), NEW i \in 1 .. Len(s) PROVE s[i] \in S
  OBVIOUS

\* The next message comes after those before it.
LEMMA BelowNext == \A a, b \in Nat : a <= b => a <= b + 1 /\ a < b + 1
  OBVIOUS

\* A stream with nothing in it is well framed.
LEMMA FramedEmpty == Framed(<< >>)
BY DEF Framed

-----------------------------------------------------------------------------
(* The producer, between writes.                                           *)

content == <<stream, got, delivered, sent>>

\* It has no connection any more, or still none.
LEMMA DropKeeps ==
  ASSUME SocketInv, psock' = 0, ppc' \in {"idle", "connect"}, ppc' = "connect" => nconn < MaxConns,
         pend' \in [Conns -> BOOLEAN],
         UNCHANGED <<content, cend, backlog, nconn, csock, cpc, cur, unit, nmsgs>>
  PROVE  SocketInv'
<1>1. UNCHANGED <<stream, got, delivered, sent>> BY Zenon DEF content
<1>2. TypeInv' BY Zenon, <1>1 DEF SocketInv, TypeInv
<1>3. ConnInv' BY Zenon, <1>1 DEF SocketInv, ConnInv
<1>4. StreamInv' BY <1>1 DEF SocketInv, StreamInv, FramesWhole, Resumes, Partial, Framed, Follows, Before
<1>5. OrderInv' BY Zenon, <1>1 DEF SocketInv, OrderInv, InSent
<1>6. TakenInv' BY Zenon, <1>1 DEF SocketInv, TakenInv, Taken, Partial, InSent, Before
<1>7. DeliveredInv' BY Zenon, <1>1 DEF SocketInv, DeliveredInv, Taken, InSent
<1>8. QED BY Zenon, <1>2, <1>3, <1>4, <1>5, <1>6, <1>7 DEF SocketInv

\* Reconnects, failed writes and the producer's death give the connection up.
LEMMA ProducerDropsKeeps ==
  ASSUME SocketInv, Reconnect \/ ConnectFails \/ WriteFails \/ ProducerDies PROVE SocketInv'
<1>1. UNCHANGED <<content, cend, backlog, nconn, csock, cpc, cur, unit, nmsgs>>
  BY Zenon DEF Reconnect, ConnectFails, WriteFails, ProducerDies, content, cons, net, CloseProducer
<1>2. psock' = 0
  BY Zenon DEF Reconnect, ConnectFails, WriteFails, ProducerDies, CloseProducer, SocketInv, TypeInv
<1>3. ppc' \in {"idle", "connect"} /\ (ppc' = "connect" => nconn < MaxConns)
  BY Zenon DEF Reconnect, ConnectFails, WriteFails, ProducerDies
<1>4. pend' \in [Conns -> BOOLEAN]
  <2>1. CASE ConnectFails BY Zenon, <2>1 DEF ConnectFails, net, SocketInv, TypeInv
  <2>2. CASE Reconnect \/ WriteFails \/ ProducerDies
    <3>1. pend' = [c \in Conns |-> pend[c] /\ c # psock] BY Zenon, <2>2 DEF Reconnect, WriteFails, ProducerDies, CloseProducer
    <3>2. QED BY Zenon, <3>1 DEF SocketInv, TypeInv
  <2>3. QED BY Zenon, <2>1, <2>2
<1>5. QED BY Zenon, <1>1, <1>2, <1>3, <1>4, DropKeeps

\* A new connection is the last one, and empty.
LEMMA ConnectedKeeps == ASSUME SocketInv, Connected PROVE SocketInv'
<1>1. /\ ppc = "connect" /\ ppc' = "idle" /\ nconn' = nconn + 1 /\ psock' = nconn + 1
      /\ pend' = [pend EXCEPT ![nconn + 1] = TRUE] /\ cend' = [cend EXCEPT ![nconn + 1] = TRUE]
      /\ backlog' = Append(backlog, nconn + 1)
      /\ UNCHANGED <<stream, csock, cpc, got, delivered, cur, unit, nmsgs, sent>>
  BY Zenon DEF Connected, cons
<1>2. /\ nconn \in 0 .. MaxConns /\ nconn < MaxConns /\ nconn + 1 \in Conns /\ MaxConns \in Nat
      /\ backlog \in Seq(Conns) /\ csock \in 0 .. nconn
      /\ stream \in [Conns -> Seq(Piece)] /\ cend \in [Conns -> BOOLEAN] /\ pend \in [Conns -> BOOLEAN]
  BY <1>1, SocketAssumption DEF SocketInv, TypeInv, Conns
<1>3. /\ backlog' \in Seq(Conns) /\ Len(backlog) \in Nat /\ Len(backlog') = Len(backlog) + 1
      /\ \A i \in 1 .. Len(backlog) : backlog'[i] = backlog[i]
      /\ backlog'[Len(backlog) + 1] = nconn + 1
  BY <1>1, <1>2, AppendFacts
<1>4. ~cend[nconn + 1] /\ stream[nconn + 1] = << >>
  <2>1. \A i \in 1 .. Len(backlog) : backlog[i] \in csock + 1 .. nconn BY Zenon DEF SocketInv, ConnInv
  <2>2. \A i \in 1 .. Len(backlog) : backlog[i] # nconn + 1 BY <1>2, <2>1
  <2>3. csock # nconn + 1 BY <1>2
  <2>4. QED BY Zenon, <1>2, <2>2, <2>3 DEF SocketInv, ConnInv
<1>5. cend'[nconn + 1] /\ \A c \in Conns \ {nconn + 1} : cend'[c] = cend[c] BY Zenon, <1>1, <1>2
<1>6. TypeInv'
  <2>1. cend' \in [Conns -> BOOLEAN] /\ pend' \in [Conns -> BOOLEAN] BY Zenon, <1>1, <1>2
  <2>2. QED BY <1>1, <1>2, <1>3, <2>1 DEF SocketInv, TypeInv
<1>7. ConnInv'
  <2>0. /\ \A i \in 1 .. Len(backlog) : backlog[i] \in csock + 1 .. nconn
        /\ \A i, j \in 1 .. Len(backlog) : i < j => backlog[i] < backlog[j]
    BY Zenon DEF SocketInv, ConnInv
  <2>1. \A i \in 1 .. Len(backlog') : backlog'[i] \in csock + 1 .. nconn + 1
    <3>1. SUFFICES ASSUME NEW i \in 1 .. Len(backlog) + 1 PROVE backlog'[i] \in csock + 1 .. nconn + 1 BY Zenon, <1>3
    <3>2. CASE i = Len(backlog) + 1
      <4>1. backlog'[i] = nconn + 1 BY Zenon, <1>3, <3>2
      <4>2. nconn + 1 \in csock + 1 .. nconn + 1 BY <1>2
      <4>3. QED BY Zenon, <4>1, <4>2
    <3>3. CASE i \in 1 .. Len(backlog)
      <4>1. backlog'[i] = backlog[i] /\ backlog[i] \in csock + 1 .. nconn BY Zenon, <1>3, <2>0, <3>3
      <4>2. nconn \in Nat /\ csock \in Nat BY <1>2
      <4>3. backlog[i] \in csock + 1 .. nconn + 1 BY <4>1, <4>2
      <4>4. QED BY Zenon, <4>1, <4>3
    <3>4. QED BY <1>3, <3>2, <3>3
  <2>2. \A i, j \in 1 .. Len(backlog') : i < j => backlog'[i] < backlog'[j]
    <3>1. SUFFICES ASSUME NEW i \in 1 .. Len(backlog), NEW j \in 1 .. Len(backlog) + 1, i < j
                   PROVE  backlog'[i] < backlog'[j]
      BY <1>3
    <3>2. CASE j = Len(backlog) + 1
      <4>1. backlog'[j] = nconn + 1 /\ backlog'[i] = backlog[i] BY Zenon, <1>3, <3>2
      <4>2. backlog[i] \in csock + 1 .. nconn /\ nconn \in Nat /\ csock \in Nat BY <1>2, <2>0
      <4>3. backlog[i] < nconn + 1 BY <4>2
      <4>4. QED BY Zenon, <4>1, <4>3
    <3>3. CASE j \in 1 .. Len(backlog) BY Zenon, <1>3, <2>0, <3>1, <3>3
    <3>4. QED BY <1>3, <3>2, <3>3
  <2>3. ASSUME NEW c \in Conns, cend'[c] PROVE c = csock \/ \E i \in 1 .. Len(backlog') : backlog'[i] = c
    <3>1. CASE c = nconn + 1 BY <1>3, <3>1
    <3>2. CASE c # nconn + 1
      <4>1. c = csock \/ \E i \in 1 .. Len(backlog) : backlog[i] = c
        BY Zenon, <1>5, <2>3, <3>2 DEF SocketInv, ConnInv
      <4>2. QED BY <1>3, <4>1
    <3>3. QED BY Zenon, <3>1, <3>2
  <2>4. \A c \in Conns : stream[c] # << >> => cend'[c] BY Zenon, <1>4, <1>5 DEF SocketInv, ConnInv
  <2>5. QED BY Zenon, <1>1, <2>1, <2>2, <2>3, <2>4 DEF ConnInv
<1>8. StreamInv'
  <2>1. csock # nconn + 1 BY <1>2
  <2>2. Trails(psock)' BY Zenon, <1>1, <1>4, <2>1 DEF Trails, Writing
  <2>3. QED BY Zenon, <1>1, <2>2 DEF SocketInv, StreamInv, FramesWhole, Resumes, Partial
<1>9. OrderInv' BY Zenon, <1>1 DEF SocketInv, OrderInv, InSent
<1>10. TakenInv' BY Zenon, <1>1 DEF SocketInv, TakenInv, Taken, Partial, InSent, Before
<1>11. DeliveredInv' BY Zenon, <1>1 DEF SocketInv, DeliveredInv, Taken, InSent
<1>12. QED BY Zenon, <1>6, <1>7, <1>8, <1>9, <1>10, <1>11 DEF SocketInv

\* A send begins: its message is larger than everything before.
LEMMA SendKeeps == ASSUME SocketInv, Send PROVE SocketInv'
<1>1. /\ ppc = "idle" /\ ppc' = "write" /\ nmsgs < MaxMsgs /\ nmsgs' = nmsgs + 1 /\ cur' = nmsgs + 1 /\ unit' = 1
      /\ UNCHANGED <<stream, pend, cend, backlog, nconn, psock, csock, cpc, got, delivered, sent>>
  BY Zenon DEF Send, net, cons
<1>2. /\ nmsgs \in Nat /\ sent \in Seq(Nat) /\ got \in Seq(Piece) /\ stream \in [Conns -> Seq(Piece)]
      /\ MaxMsgs \in Nat /\ FrameUnits \in Nat \ {0}
  BY SocketAssumption DEF SocketInv, TypeInv
<1>3. /\ \A c \in Conns : \A i \in 1 .. Len(stream[c]) : stream[c][i] \in Piece
      /\ \A i \in 1 .. Len(sent) : sent[i] \in Nat
      /\ Taken => got[1] \in Piece
  BY <1>2, LenFacts DEF Taken
<1>4. TypeInv' BY <1>1, <1>2 DEF SocketInv, TypeInv
<1>5. ConnInv' BY Zenon, <1>1 DEF SocketInv, ConnInv
<1>6. StreamInv'
  <2>1. ~Writing /\ ~Writing' BY <1>1 DEF Writing
  <2>2. psock # 0 /\ cend[psock] => Trails(psock)' BY Zenon, <1>1, <2>1 DEF SocketInv, StreamInv, Trails, Partial
  <2>3. QED BY Zenon, <1>1, <2>2 DEF SocketInv, StreamInv, FramesWhole, Resumes, Partial
<1>7. OrderInv'
  <2>1. \A c \in Conns : \A i \in 1 .. Len(stream[c]) :
          stream[c][i][1] <= nmsgs /\ (stream[c][i][2] = FrameUnits => InSent(stream[c][i][1]))
    BY Zenon DEF SocketInv, OrderInv
  <2>2. \A c \in Conns : \A i \in 1 .. Len(stream[c]) :
          stream[c][i][1] <= nmsgs + 1 /\ stream[c][i][1] < nmsgs + 1
    <3>1. ASSUME NEW p \in Piece PROVE p[1] \in Nat BY <3>1 DEF Piece
    <3>2. QED BY Zenon, <1>2, <1>3, <2>1, <3>1, BelowNext
  <2>3. \A i \in 1 .. Len(sent) : sent[i] <= nmsgs + 1 /\ sent[i] < nmsgs + 1
    <3>1. \A i \in 1 .. Len(sent) : sent[i] <= nmsgs BY Zenon DEF SocketInv, OrderInv
    <3>2. QED BY Zenon, <1>2, <1>3, <3>1, BelowNext
  <2>4. QED BY Zenon, <1>1, <2>1, <2>2, <2>3 DEF SocketInv, OrderInv, InSent
<1>8. TakenInv'
  <2>1. Taken => got[1][1] <= nmsgs BY Zenon DEF SocketInv, TakenInv
  <2>2. Taken => got[1][1] < nmsgs + 1 /\ got[1][1] <= nmsgs + 1 BY <1>2, <1>3, <2>1 DEF Piece
  <2>3. QED BY Zenon, <1>1, <2>2 DEF SocketInv, TakenInv, Taken, Partial, InSent, Before
<1>9. DeliveredInv' BY Zenon, <1>1 DEF SocketInv, DeliveredInv, Taken, InSent
<1>10. QED BY Zenon, <1>4, <1>5, <1>6, <1>7, <1>8, <1>9 DEF SocketInv

-----------------------------------------------------------------------------
(* The consumer, between frames.                                           *)

\* Nothing is taken from a connection.
LEMMA OutsideKeeps ==
  ASSUME SocketInv, TypeInv', ConnInv', ~Partial, ~Taken', got' = got \/ got' = << >>,
         cpc' # "handle", cpc' = "read" => got' = << >>,
         UNCHANGED <<stream, cend, nconn, psock, ppc, cur, unit, nmsgs, sent>>,
         UNCHANGED delivered \/ DeliveredInv'
  PROVE  SocketInv'
<1>1. ~Partial' BY Zenon DEF Partial, Taken
<1>2. StreamInv'
  <2>1. FramesWhole' /\ Len(got') <= FrameUnits
    <3>1. CASE got' = got BY Zenon, <3>1 DEF SocketInv, StreamInv, FramesWhole
    <3>2. CASE got' = << >> BY <3>2, SocketAssumption DEF FramesWhole
    <3>3. QED BY Zenon, <3>1, <3>2
  <2>2. \A c \in Conns : stream[c] # << >> => stream[c][1][2] = 1
    BY Zenon DEF SocketInv, StreamInv, Resumes
  <2>3. \A c \in Conns : stream[c] # << >> => Resumes(c)' BY Zenon, <1>1, <2>2 DEF Resumes
  <2>4. psock # 0 /\ cend[psock] => Trails(psock)'
    BY Zenon, <1>1 DEF SocketInv, StreamInv, Trails, Writing
  <2>5. cpc' = "read" => Len(got') < FrameUnits BY SocketAssumption
  <2>6. QED BY Zenon, <2>1, <2>3, <2>4, <2>5 DEF SocketInv, StreamInv
<1>3. OrderInv' BY Zenon DEF SocketInv, OrderInv, InSent
<1>4. TakenInv' BY Zenon DEF TakenInv
<1>5. DeliveredInv' BY Zenon DEF SocketInv, DeliveredInv, InSent
<1>6. QED BY Zenon, <1>2, <1>3, <1>4, <1>5 DEF SocketInv

\* Steps of the loop that only move on.
LEMMA LoopKeeps ==
  ASSUME SocketInv, RunStart \/ LoopTest \/ Check \/ Wait \/ (PollAccept /\ csock' = csock /\ backlog' = backlog)
  PROVE  SocketInv'
<1>1. /\ UNCHANGED <<stream, pend, cend, backlog, nconn, psock, ppc, cur, unit, nmsgs, sent, csock, got, delivered>>
      /\ cpc \notin {"read", "handle"} /\ cpc' \in CPcs \ {"read", "handle"}
      /\ cpc' = "select" => csock # 0
  BY DEF RunStart, LoopTest, Check, Wait, PollAccept, net, others, prod, CPcs
<1>2. TypeInv' BY Zenon, <1>1 DEF SocketInv, TypeInv
<1>3. ConnInv' BY Zenon, <1>1 DEF SocketInv, ConnInv
<1>4. ~Partial /\ ~Taken' BY Zenon, <1>1 DEF Partial, Taken
<1>5. QED BY Zenon, <1>1, <1>2, <1>3, <1>4, OutsideKeeps

\* The oldest connection is accepted.
LEMMA AcceptKeeps ==
  ASSUME SocketInv, PollAccept, csock = 0, backlog # << >>, csock' = Head(backlog), backlog' = Tail(backlog),
         cpc' = "select"
  PROVE  SocketInv'
<1>1. /\ UNCHANGED <<stream, pend, cend, nconn, psock, ppc, cur, unit, nmsgs, sent, got, delivered>> /\ cpc = "poll"
  BY Zenon DEF PollAccept, others, prod
<1>2. backlog \in Seq(Conns) /\ nconn \in Nat BY DEF SocketInv, TypeInv
<1>3. /\ backlog' \in Seq(Conns) /\ Len(backlog) \in Nat \ {0} /\ Len(backlog') = Len(backlog) - 1
      /\ \A i \in 1 .. Len(backlog) - 1 : backlog'[i] = backlog[i + 1]
      /\ csock' = backlog[1]
  BY Zenon, <1>2, TailFacts
<1>4. /\ \A i \in 1 .. Len(backlog) : backlog[i] \in 1 .. nconn
      /\ \A i, j \in 1 .. Len(backlog) : i < j => backlog[i] < backlog[j]
  BY DEF SocketInv, ConnInv
<1>5. csock' \in 1 .. nconn BY <1>3, <1>4
<1>6. TypeInv' BY <1>1, <1>2, <1>3, <1>5 DEF SocketInv, TypeInv, CPcs
<1>7. ConnInv'
  <2>1. ASSUME NEW i \in 1 .. Len(backlog') PROVE backlog'[i] \in csock' + 1 .. nconn
    <3>1. i + 1 \in 1 .. Len(backlog) /\ 1 < i + 1 /\ 1 \in 1 .. Len(backlog) /\ backlog'[i] = backlog[i + 1]
      BY <1>3
    <3>2. backlog[1] < backlog[i + 1] /\ backlog[1] \in 1 .. nconn /\ backlog[i + 1] \in 1 .. nconn
      BY Zenon, <1>4, <3>1
    <3>3. backlog[i + 1] \in backlog[1] + 1 .. nconn BY <1>2, <3>2
    <3>4. QED BY Zenon, <1>3, <3>1, <3>3
  <2>2. ASSUME NEW i \in 1 .. Len(backlog'), NEW j \in 1 .. Len(backlog'), i < j PROVE backlog'[i] < backlog'[j]
    <3>1. /\ i + 1 \in 1 .. Len(backlog) /\ j + 1 \in 1 .. Len(backlog) /\ i + 1 < j + 1
          /\ backlog'[i] = backlog[i + 1] /\ backlog'[j] = backlog[j + 1]
      BY <1>3, <2>2
    <3>2. QED BY Zenon, <1>4, <3>1
  <2>3. ASSUME NEW c \in Conns, cend[c] PROVE c = csock' \/ \E i \in 1 .. Len(backlog') : backlog'[i] = c
    <3>1. c # 0 BY DEF Conns
    <3>2. PICK i \in 1 .. Len(backlog) : backlog[i] = c BY Zenon, <2>3, <3>1 DEF SocketInv, ConnInv
    <3>3. CASE i = 1 BY Zenon, <1>3, <3>2, <3>3
    <3>4. CASE i # 1
      <4>1. i - 1 \in 1 .. Len(backlog') /\ backlog'[i - 1] = backlog[i] BY <1>3, <3>4
      <4>2. QED BY Zenon, <3>2, <4>1
    <3>5. QED BY Zenon, <3>3, <3>4
  <2>4. \A c \in Conns : stream[c] # << >> => cend[c] BY Zenon DEF SocketInv, ConnInv
  <2>5. QED BY Zenon, <1>1, <2>1, <2>2, <2>3, <2>4 DEF ConnInv
<1>8. ~Partial /\ ~Taken' BY Zenon, <1>1 DEF Partial, Taken
<1>9. QED BY Zenon, <1>1, <1>6, <1>7, <1>8, OutsideKeeps

\* ensure_peer_connected.
LEMMA PollAcceptKeeps == ASSUME SocketInv, PollAccept PROVE SocketInv'
<1>1. CASE csock' = csock /\ backlog' = backlog BY Zenon, <1>1, LoopKeeps
<1>2. CASE csock = 0 /\ backlog # << >> /\ csock' = Head(backlog) /\ backlog' = Tail(backlog) /\ cpc' = "select"
  BY Zenon, <1>2, AcceptKeeps
<1>3. QED BY Zenon, <1>1, <1>2 DEF PollAccept

\* The select of poll(), after which a frame is read from its beginning.
LEMMA SelectKeeps == ASSUME SocketInv, Select PROVE SocketInv'
<1>1. /\ UNCHANGED <<stream, pend, cend, backlog, nconn, psock, ppc, cur, unit, nmsgs, sent, csock, delivered>>
      /\ cpc = "select" /\ cpc' \in {"read", "check"} /\ got' = << >> /\ csock # 0
  BY Zenon DEF Select, net, others, prod, SocketInv, TypeInv
<1>2. TypeInv' BY <1>1 DEF SocketInv, TypeInv, CPcs
<1>3. ConnInv' BY Zenon, <1>1 DEF SocketInv, ConnInv
<1>4. ~Partial /\ ~Taken' BY Zenon, <1>1 DEF Partial, Taken
<1>5. QED BY Zenon, <1>1, <1>2, <1>3, <1>4, OutsideKeeps

-----------------------------------------------------------------------------
(* The consumer hands a frame over, and closes its connection.             *)

\* The message handed over was sent, and everything in flight comes after it.
LEMMA HandedFacts ==
  ASSUME SocketInv, cpc = "handle", delivered' = Append(delivered, Message)
  PROVE  /\ got # << >> /\ Message \in Nat /\ InSent(Message)
         /\ \A c \in Conns : \A i \in 1 .. Len(stream[c]) : Message < stream[c][i][1]
         /\ delivered' \in Seq(Nat) /\ delivered'[Len(delivered')] = Message
<1>1. got \in Seq(Piece) /\ delivered \in Seq(Nat) BY Zenon DEF SocketInv, TypeInv
<1>2. Len(got) = FrameUnits BY Zenon DEF SocketInv, StreamInv
<1>3. got # << >> /\ got[1] \in Piece BY <1>1, <1>2, SocketAssumption
<1>4. Message \in Nat BY Zenon, <1>3 DEF Message, Piece
<1>5. Taken /\ ~Partial BY Zenon, <1>3 DEF Taken, Partial
<1>6. InSent(Message) /\ \A c \in Conns : \A i \in 1 .. Len(stream[c]) : Message < stream[c][i][1]
  BY Zenon, <1>5 DEF SocketInv, TakenInv, Message
<1>7. delivered' \in Seq(Nat) /\ delivered'[Len(delivered')] = Message BY <1>1, <1>4, AppendFacts
<1>8. QED BY Zenon, <1>3, <1>4, <1>6, <1>7

\* A call of the handler that returns, or throws out of run().
LEMMA HandleKeeps == ASSUME SocketInv, Handle \/ HandlerThrows PROVE SocketInv'
<1>1. /\ UNCHANGED <<stream, pend, cend, backlog, nconn, psock, ppc, cur, unit, nmsgs, sent, csock, got>>
      /\ cpc = "handle" /\ cpc' \in CPcs \ {"select", "read", "handle"} /\ delivered' = Append(delivered, Message)
  BY Zenon DEF Handle, HandlerThrows, net, others, prod, CPcs
<1>2. /\ InSent(Message) /\ delivered' \in Seq(Nat) /\ delivered'[Len(delivered')] = Message
      /\ \A c \in Conns : \A i \in 1 .. Len(stream[c]) : Message < stream[c][i][1]
  BY Zenon, <1>1, HandedFacts
<1>3. TypeInv' BY Zenon, <1>1, <1>2 DEF SocketInv, TypeInv
<1>4. ConnInv' BY Zenon, <1>1 DEF SocketInv, ConnInv
<1>5. ~Partial /\ ~Taken' BY Zenon, <1>1 DEF Partial, Taken
<1>6. DeliveredInv' BY Zenon, <1>1, <1>2, <1>5 DEF DeliveredInv, InSent
<1>7. QED BY Zenon, <1>1, <1>3, <1>4, <1>5, <1>6, OutsideKeeps

\* The connection is closed, and what was in flight on it is lost.
LEMMA CloseKeeps ==
  ASSUME SocketInv, CloseConsumer, csock # 0, cpc' = "check", delivered' \in Seq(Nat), DeliveredInv',
         UNCHANGED <<pend, backlog, nconn, psock, ppc, cur, unit, nmsgs, sent, got>>
  PROVE  SocketInv'
<1>1. /\ stream \in [Conns -> Seq(Piece)] /\ cend \in [Conns -> BOOLEAN] /\ csock \in Conns
      /\ nconn \in Nat /\ csock \in 0 .. nconn /\ csock' = 0
  BY SocketAssumption DEF SocketInv, TypeInv, Conns, CloseConsumer
<1>2. /\ stream' \in [Conns -> Seq(Piece)] /\ cend' \in [Conns -> BOOLEAN]
      /\ stream'[csock] = << >> /\ ~cend'[csock]
      /\ \A c \in Conns \ {csock} : stream'[c] = stream[c] /\ cend'[c] = cend[c]
  BY <1>1 DEF CloseConsumer
<1>3. ~Partial' /\ ~Taken' BY Zenon DEF Partial, Taken
<1>4. TypeInv' BY <1>1, <1>2 DEF SocketInv, TypeInv, CPcs
<1>5. ConnInv'
  <2>1. ASSUME NEW i \in 1 .. Len(backlog) PROVE backlog[i] \in 1 .. nconn
    <3>1. backlog[i] \in csock + 1 .. nconn BY Zenon DEF SocketInv, ConnInv
    <3>2. QED BY <1>1, <3>1
  <2>2. \A i, j \in 1 .. Len(backlog) : i < j => backlog[i] < backlog[j] BY Zenon DEF SocketInv, ConnInv
  <2>3. ASSUME NEW c \in Conns, cend'[c] PROVE \E i \in 1 .. Len(backlog) : backlog[i] = c
    <3>1. c # csock /\ cend[c] BY Zenon, <1>2, <2>3
    <3>2. QED BY Zenon, <3>1 DEF SocketInv, ConnInv
  <2>4. \A c \in Conns : stream'[c] # << >> => cend'[c] BY Zenon, <1>2 DEF SocketInv, ConnInv
  <2>5. \A i \in 1 .. Len(backlog) : backlog[i] \in 0 + 1 .. nconn BY <2>1
  <2>6. QED BY Zenon, <1>1, <2>2, <2>3, <2>4, <2>5 DEF ConnInv
<1>6. StreamInv'
  <2>1. \A c \in Conns : Framed(stream'[c]) BY Zenon, <1>2, FramedEmpty DEF SocketInv, StreamInv
  <2>2. \A c \in Conns : Framed(stream[c])' BY Zenon, <2>1 DEF Framed, Follows, Before
  <2>3. ASSUME NEW c \in Conns, stream'[c] # << >> PROVE Resumes(c)'
    <3>1. c # csock /\ stream'[c] = stream[c] BY Zenon, <1>2, <2>3
    <3>2. stream[c][1][2] = 1 BY Zenon, <2>3, <3>1 DEF SocketInv, StreamInv, Resumes
    <3>3. QED BY Zenon, <1>3, <3>1, <3>2 DEF Resumes
  <2>4. ASSUME psock # 0, cend'[psock] PROVE Trails(psock)'
    <3>1. psock \in Conns BY <2>4, SocketAssumption DEF SocketInv, TypeInv, Conns
    <3>2. psock # csock /\ stream'[psock] = stream[psock] /\ cend[psock] BY Zenon, <1>2, <2>4, <3>1
    <3>3. Trails(psock) BY Zenon, <2>4, <3>2 DEF SocketInv, StreamInv
    <3>4. QED BY Zenon, <1>3, <3>2, <3>3 DEF Trails, Writing
  <2>5. FramesWhole' /\ Len(got') <= FrameUnits BY Zenon DEF SocketInv, StreamInv, FramesWhole
  <2>6. QED BY Zenon, <2>2, <2>3, <2>4, <2>5 DEF StreamInv
<1>7. ASSUME NEW c \in Conns, NEW i \in 1 .. Len(stream'[c])
      PROVE  c # csock /\ i \in 1 .. Len(stream[c]) /\ stream'[c] = stream[c]
  BY <1>2
<1>8. OrderInv'
  <2>1. ASSUME NEW c \in Conns, NEW i \in 1 .. Len(stream'[c])
        PROVE  /\ stream'[c][i][1] <= nmsgs
               /\ ppc = "write" /\ (c # psock \/ unit = 1) => stream'[c][i][1] < cur
               /\ stream'[c][i][2] = FrameUnits => InSent(stream'[c][i][1])
    BY Zenon, <1>7 DEF SocketInv, OrderInv
  <2>2. ASSUME NEW c \in Conns, NEW d \in Conns, c < d, NEW i \in 1 .. Len(stream'[c]), NEW j \in 1 .. Len(stream'[d])
        PROVE  stream'[c][i][1] < stream'[d][j][1]
    BY Zenon, <1>7, <2>2 DEF SocketInv, OrderInv
  <2>3. QED BY Zenon, <2>1, <2>2 DEF SocketInv, OrderInv, InSent
<1>9. TakenInv' BY Zenon, <1>3 DEF TakenInv
<1>10. QED BY Zenon, <1>4, <1>5, <1>6, <1>8, <1>9 DEF SocketInv

\* The end of the stream, or a read that fails.
LEMMA ReadEndsKeeps == ASSUME SocketInv, ReadEnds \/ ReadFails PROVE SocketInv'
<1>1. /\ cpc = "read" /\ CloseConsumer /\ cpc' = "check"
      /\ UNCHANGED <<pend, backlog, nconn, psock, ppc, cur, unit, nmsgs, sent, got, delivered>>
  BY Zenon DEF ReadEnds, ReadFails, others, prod
<1>2. csock # 0 /\ csock \in Conns /\ stream \in [Conns -> Seq(Piece)] /\ delivered \in Seq(Nat)
  BY <1>1, SocketAssumption DEF SocketInv, TypeInv, Conns
<1>3. /\ stream' = [stream EXCEPT ![csock] = << >>] /\ stream'[csock] = << >>
      /\ \A c \in Conns : c # csock => stream'[c] = stream[c]
  BY Zenon, <1>1, <1>2 DEF CloseConsumer
<1>4. \A i \in 1 .. Len(stream'[csock]) : FALSE BY <1>3
<1>5. ~Taken' BY Zenon, <1>1 DEF Taken
<1>6. DeliveredInv'
  <2>1. SUFFICES ASSUME delivered # << >>
                 PROVE  LET last == delivered[Len(delivered)]
                        IN InSent(last) /\ \A c \in Conns : \A i \in 1 .. Len(stream'[c]) : last < stream'[c][i][1]
    BY Zenon, <1>1, <1>5 DEF DeliveredInv, InSent
  <2>2. PICK last : last = delivered[Len(delivered)] BY Zenon
  <2>3. InSent(last) /\ \A c \in Conns : \A i \in 1 .. Len(stream[c]) : last < stream[c][i][1]
    BY Zenon, <2>1, <2>2 DEF SocketInv, DeliveredInv
  <2>4. ASSUME NEW c \in Conns, NEW i \in 1 .. Len(stream'[c]) PROVE last < stream'[c][i][1]
    <3>1. CASE c = csock BY Zenon, <1>4, <2>4, <3>1
    <3>2. CASE c # csock BY Zenon, <1>3, <2>3, <2>4, <3>2
    <3>3. QED BY Zenon, <3>1, <3>2
  <2>5. QED BY Zenon, <2>2, <2>3, <2>4
<1>7. QED BY Zenon, <1>1, <1>2, <1>6, CloseKeeps

\* A std::runtime_error of the handler closes the connection.
LEMMA HandlerRuntimeErrorKeeps == ASSUME SocketInv, HandlerRuntimeError PROVE SocketInv'
<1>1. /\ cpc = "handle" /\ CloseConsumer /\ cpc' = "check" /\ delivered' = Append(delivered, Message)
      /\ UNCHANGED <<pend, backlog, nconn, psock, ppc, cur, unit, nmsgs, sent, got>>
  BY Zenon DEF HandlerRuntimeError, prod
<1>2. csock # 0 /\ csock \in Conns /\ stream \in [Conns -> Seq(Piece)]
  BY <1>1, SocketAssumption DEF SocketInv, TypeInv, Conns
<1>3. /\ InSent(Message) /\ delivered' \in Seq(Nat) /\ delivered'[Len(delivered')] = Message
      /\ \A c \in Conns : \A i \in 1 .. Len(stream[c]) : Message < stream[c][i][1]
  BY Zenon, <1>1, HandedFacts
<1>4. \A c \in Conns : \A i \in 1 .. Len(stream'[c]) : Message < stream'[c][i][1]
  <2>1. stream' = [stream EXCEPT ![csock] = << >>] BY Zenon, <1>1 DEF CloseConsumer
  <2>2. stream'[csock] = << >> BY Zenon, <1>2, <2>1
  <2>3. ASSUME NEW c \in Conns, c # csock PROVE stream'[c] = stream[c] BY Zenon, <1>2, <2>1, <2>3
  <2>4. \A i \in 1 .. Len(stream'[csock]) : FALSE BY <2>2
  <2>5. ASSUME NEW c \in Conns, NEW i \in 1 .. Len(stream'[c]) PROVE Message < stream'[c][i][1]
    <3>1. CASE c = csock BY Zenon, <2>4, <2>5, <3>1
    <3>2. CASE c # csock BY Zenon, <1>3, <2>3, <2>5, <3>2
    <3>3. QED BY Zenon, <3>1, <3>2
  <2>6. QED BY Zenon, <2>5
<1>5. ~Taken' BY Zenon, <1>1 DEF Taken
<1>6. DeliveredInv' BY Zenon, <1>1, <1>3, <1>4, <1>5 DEF DeliveredInv, InSent
<1>7. QED BY Zenon, <1>1, <1>2, <1>3, <1>6, CloseKeeps

-----------------------------------------------------------------------------
(* The consumer reads a piece.                                             *)

\* Only the connection being read and those waiting behind it carry anything.
LEMMA AheadEmpty == ASSUME SocketInv, NEW d \in Conns, d < csock PROVE stream[d] = << >>
<1>1. nconn \in Nat /\ csock \in Nat BY DEF SocketInv, TypeInv
<1>2. \A i \in 1 .. Len(backlog) : backlog[i] \in csock + 1 .. nconn BY Zenon DEF SocketInv, ConnInv
<1>3. \A i \in 1 .. Len(backlog) : backlog[i] # d BY <1>1, <1>2 DEF Conns
<1>4. d # csock BY <1>1 DEF Conns
<1>5. QED BY Zenon, <1>3, <1>4 DEF SocketInv, ConnInv

\* Without its first piece a stream is still in frames.
LEMMA FramedTail == ASSUME NEW s \in Seq(Piece), s # << >>, Framed(s) PROVE Framed(Tail(s))
<1>1. /\ Len(s) \in Nat \ {0} /\ Len(Tail(s)) = Len(s) - 1
      /\ \A i \in 1 .. Len(s) - 1 : Tail(s)[i] = s[i + 1]
  BY Zenon, TailFacts
<1>2. PICK t : t = Tail(s) BY Zenon
<1>3. Len(t) = Len(s) - 1 /\ \A i \in 1 .. Len(s) - 1 : t[i] = s[i + 1] BY Zenon, <1>1, <1>2
<1>4. ASSUME NEW i \in 1 .. Len(t) PROVE t[i][2] \in 1 .. FrameUnits
  <2>1. i + 1 \in 1 .. Len(s) /\ t[i] = s[i + 1] BY <1>1, <1>3
  <2>2. QED BY Zenon, <2>1 DEF Framed
<1>5. ASSUME NEW i \in 1 .. Len(t) - 1 PROVE Follows(t[i], t[i + 1])
  <2>1. i + 1 \in 1 .. Len(s) - 1 /\ t[i] = s[i + 1] /\ t[i + 1] = s[(i + 1) + 1] BY <1>1, <1>3
  <2>2. Follows(s[i + 1], s[(i + 1) + 1]) BY Zenon, <2>1 DEF Framed
  <2>3. QED BY Zenon, <2>1, <2>2
<1>6. ASSUME NEW i \in 1 .. Len(t), NEW j \in 1 .. Len(t), i < j PROVE Before(t[i], t[j])
  <2>1. /\ i + 1 \in 1 .. Len(s) /\ j + 1 \in 1 .. Len(s) /\ i + 1 < j + 1
        /\ t[i] = s[i + 1] /\ t[j] = s[j + 1]
    BY <1>1, <1>3, <1>6
  <2>2. Before(s[i + 1], s[j + 1]) BY Zenon, <2>1 DEF Framed
  <2>3. QED BY Zenon, <2>1, <2>2
<1>7. QED BY Zenon, <1>2, <1>4, <1>5, <1>6 DEF Framed

\* The piece read is the next one of the frame, or the first one of a new frame.
LEMMA ReadFacts ==
  ASSUME SocketInv, Read, NEW s, s = stream[csock], NEW p, p = s[1]
  PROVE  /\ csock \in Conns /\ s \in Seq(Piece) /\ Len(s) \in Nat \ {0} /\ Framed(s)
         /\ p \in Piece /\ p[2] = Len(got) + 1 /\ p[2] \in 1 .. FrameUnits
         /\ got' \in Seq(Piece) /\ Len(got') = p[2] /\ got' # << >> /\ got'[1][1] = p[1]
         /\ \A k \in 1 .. Len(got') : got'[k] = <<p[1], k>>
<1>1. /\ csock \in Conns /\ stream \in [Conns -> Seq(Piece)] /\ got \in Seq(Piece)
      /\ cpc = "read" /\ s # << >> /\ got' = Append(got, Head(s))
  BY SocketAssumption DEF SocketInv, TypeInv, Conns, Read
<1>2. s \in Seq(Piece) /\ Framed(s) BY Zenon, <1>1 DEF SocketInv, StreamInv
<1>3. Len(s) \in Nat \ {0} /\ p \in Piece /\ p = Head(s) BY Zenon, <1>1, <1>2, TailFacts
<1>4. p[2] \in 1 .. FrameUnits BY <1>2, <1>3 DEF Framed
<1>5. /\ Len(got) \in Nat /\ got' \in Seq(Piece) /\ Len(got') = Len(got) + 1 /\ got' # << >>
      /\ \A k \in 1 .. Len(got) : got'[k] = got[k]
      /\ got'[Len(got) + 1] = p
  BY <1>1, <1>3, AppendFacts
<1>6. Resumes(csock) BY Zenon, <1>1 DEF SocketInv, StreamInv
<1>7. CASE got = << >>
  <2>1. Len(got) = 0 BY Zenon, <1>7
  <2>2. p[2] = 1 BY Zenon, <1>6, <1>7 DEF Resumes, Partial
  <2>3. p = <<p[1], 1>> BY <1>3, <2>2 DEF Piece
  <2>4. Len(got') = 1 /\ got'[1] = p BY <1>5, <2>1
  <2>5. QED BY <1>1, <1>2, <1>3, <1>4, <1>5, <2>1, <2>2, <2>3, <2>4
<1>8. CASE got # << >>
  <2>1. Len(got) \in Nat \ {0} BY <1>1, <1>8
  <2>2. p = <<got[1][1], Len(got) + 1>> BY Zenon, <1>1, <1>6, <1>8 DEF Resumes, Partial
  <2>3. p[1] = got[1][1] /\ p[2] = Len(got) + 1 BY <2>2
  <2>4. got'[1] = got[1] BY <1>5, <2>1
  <2>5. \A k \in 1 .. Len(got) : got[k] = <<p[1], k>> BY Zenon, <2>3 DEF SocketInv, StreamInv, FramesWhole
  <2>6. ASSUME NEW k \in 1 .. Len(got') PROVE got'[k] = <<p[1], k>>
    <3>1. CASE k \in 1 .. Len(got) BY Zenon, <1>5, <2>5, <3>1
    <3>2. CASE k = Len(got) + 1 BY Zenon, <1>5, <2>2, <2>3, <3>2
    <3>3. QED BY <1>5, <3>1, <3>2
  <2>7. QED BY Zenon, <1>1, <1>2, <1>3, <1>4, <1>5, <2>3, <2>4, <2>6
<1>9. QED BY Zenon, <1>7, <1>8

\* read_exact_sock takes the next piece of the frame.
LEMMA ReadKeeps == ASSUME SocketInv, Read PROVE SocketInv'
<1>1. PICK s : s = stream[csock] BY Zenon
<1>2. PICK p : p = s[1] BY Zenon
<1>3. /\ csock \in Conns /\ s \in Seq(Piece) /\ Len(s) \in Nat \ {0} /\ Framed(s)
      /\ p \in Piece /\ p[2] = Len(got) + 1 /\ p[2] \in 1 .. FrameUnits
      /\ got' \in Seq(Piece) /\ Len(got') = p[2] /\ got' # << >> /\ got'[1][1] = p[1]
      /\ \A k \in 1 .. Len(got') : got'[k] = <<p[1], k>>
  BY ZenonT(30), <1>1, <1>2, ReadFacts
<1>4. /\ cpc = "read" /\ cpc' = (IF p[2] = FrameUnits THEN "handle" ELSE "read") /\ s # << >>
      /\ stream' = [stream EXCEPT ![csock] = Tail(@)]
      /\ UNCHANGED <<pend, cend, backlog, nconn, psock, ppc, cur, unit, nmsgs, sent, csock, delivered>>
  BY Zenon, <1>1, <1>3 DEF Read, others, prod
<1>5. stream \in [Conns -> Seq(Piece)] BY Zenon DEF SocketInv, TypeInv
<1>6. /\ Tail(s) \in Seq(Piece) /\ Len(Tail(s)) = Len(s) - 1 /\ \A i \in 1 .. Len(s) - 1 : Tail(s)[i] = s[i + 1]
  BY Zenon, <1>3, <1>4, TailFacts
<1>7. PICK t : t = Tail(s) BY Zenon
<1>8. stream' \in [Conns -> Seq(Piece)] /\ stream'[csock] = t /\ \A c \in Conns \ {csock} : stream'[c] = stream[c]
  BY Zenon, <1>1, <1>3, <1>4, <1>5, <1>6, <1>7
<1>9. t \in Seq(Piece) /\ Len(t) = Len(s) - 1 /\ \A i \in 1 .. Len(s) - 1 : t[i] = s[i + 1] BY Zenon, <1>6, <1>7
<1>10. Taken' /\ (Partial' <=> p[2] # FrameUnits) BY Zenon, <1>3, <1>4 DEF Taken, Partial
<1>11. ASSUME NEW c \in Conns, NEW i \in 1 .. Len(stream'[c])
       PROVE  \E k \in 1 .. Len(stream[c]) : stream'[c][i] = stream[c][k]
  <2>1. CASE c = csock
    <3>1. i + 1 \in 1 .. Len(s) /\ t[i] = s[i + 1] BY <1>3, <1>8, <1>9, <2>1
    <3>2. QED BY Zenon, <1>1, <1>8, <2>1, <3>1
  <2>2. CASE c # csock BY Zenon, <1>8, <2>2
  <2>3. QED BY Zenon, <2>1, <2>2
<1>12. 1 \in 1 .. Len(stream[csock]) /\ stream[csock][1] = p BY <1>1, <1>2, <1>3
<1>20. TypeInv' BY Zenon, <1>3, <1>4, <1>8 DEF SocketInv, TypeInv, CPcs
<1>21. ConnInv'
  <2>1. \A c \in Conns : stream'[c] # << >> => stream[c] # << >> BY Zenon, <1>1, <1>4, <1>8
  <2>2. QED BY Zenon, <1>4, <2>1 DEF SocketInv, ConnInv
<1>22. StreamInv'
  <2>1. Framed(t) BY Zenon, <1>3, <1>4, <1>7, FramedTail
  <2>2. \A c \in Conns : Framed(stream'[c]) BY Zenon, <1>8, <2>1 DEF SocketInv, StreamInv
  <2>3. \A c \in Conns : Framed(stream[c])' BY Zenon, <2>2 DEF Framed, Follows, Before
  <2>4. ASSUME NEW c \in Conns, stream'[c] # << >> PROVE Resumes(c)'
    <3>1. CASE c # csock
      <4>1. stream'[c] = stream[c] BY Zenon, <1>8, <3>1
      <4>2. stream[c][1][2] = 1 BY Zenon, <2>4, <3>1, <4>1 DEF SocketInv, StreamInv, Resumes
      <4>3. QED BY Zenon, <1>4, <3>1, <4>1, <4>2 DEF Resumes
    <3>2. CASE c = csock
      <4>1. t # << >> BY Zenon, <1>8, <2>4, <3>2
      <4>2. 1 \in 1 .. Len(s) - 1 /\ 2 \in 1 .. Len(s) /\ t[1] = s[2]
        <5>1. Len(t) # 0 /\ Len(t) \in Nat BY Zenon, <1>9, <4>1, LenFacts
        <5>2. 1 \in 1 .. Len(s) - 1 /\ 2 \in 1 .. Len(s) BY <1>3, <1>9, <5>1
        <5>3. t[1] = s[1 + 1] BY Zenon, <1>9, <5>2
        <5>4. QED BY <5>2, <5>3
      <4>3. Follows(p, s[2]) /\ s[2][2] \in 1 .. FrameUnits /\ s[2] \in Piece
        <5>1. Follows(s[1], s[1 + 1]) BY Zenon, <1>3, <4>2 DEF Framed
        <5>2. s[2][2] \in 1 .. FrameUnits BY Zenon, <1>3, <4>2 DEF Framed
        <5>3. s[2] \in Piece BY <1>3, <4>2
        <5>4. QED BY <1>2, <5>1, <5>2, <5>3
      <4>4. CASE p[2] = FrameUnits
        <5>1. s[2][2] = 1 BY <4>3, <4>4, SocketAssumption DEF Follows
        <5>2. QED BY Zenon, <1>8, <1>10, <3>2, <4>2, <4>4, <5>1 DEF Resumes
      <4>5. CASE p[2] # FrameUnits
        <5>1. s[2][1] = p[1] /\ s[2][2] = p[2] + 1 BY Zenon, <4>3, <4>5 DEF Follows
        <5>2. s[2] = <<p[1], p[2] + 1>> BY <4>3, <5>1 DEF Piece
        <5>3. stream'[c][1] = <<got'[1][1], Len(got') + 1>> BY Zenon, <1>3, <1>8, <3>2, <4>2, <5>2
        <5>4. QED BY Zenon, <1>4, <1>10, <3>2, <4>5, <5>3 DEF Resumes
      <4>6. QED BY Zenon, <4>4, <4>5
    <3>3. QED BY Zenon, <3>1, <3>2
  <2>5. ASSUME psock # 0, cend[psock] PROVE Trails(psock)'
    <3>1. psock \in Conns BY <2>5, SocketAssumption DEF SocketInv, TypeInv, Conns
    <3>2. Trails(psock) BY Zenon, <2>5 DEF SocketInv, StreamInv
    <3>3. Writing' <=> Writing BY Zenon, <1>4 DEF Writing
    <3>4. CASE psock # csock
      <4>1. stream'[psock] = stream[psock] BY Zenon, <1>8, <3>1, <3>4
      <4>2. QED BY Zenon, <1>4, <3>2, <3>3, <3>4, <4>1 DEF Trails
    <3>5. CASE psock = csock
      <4>1. IF Writing THEN s[Len(s)] = <<cur, unit - 1>> ELSE s[Len(s)][2] = FrameUnits
        BY Zenon, <1>1, <1>4, <3>2, <3>5 DEF Trails
      <4>2. CASE t = << >>
        <5>1. s[Len(s)] = p BY Zenon, <1>2, <1>3, <1>4, <1>7, <4>2, TailEmpty
        <5>2. unit \in Nat /\ (Writing => unit <= FrameUnits) BY DEF SocketInv, TypeInv, Writing
        <5>3. Writing => p[1] = cur /\ p[2] = unit - 1 BY <4>1, <5>1
        <5>4. Writing => p[2] # FrameUnits /\ unit = p[2] + 1 BY <5>2, <5>3, SocketAssumption
        <5>5. ~Writing => p[2] = FrameUnits BY Zenon, <4>1, <5>1
        <5>6. CASE Partial'
          <6>1. Writing /\ cur = got'[1][1] /\ unit = Len(got') + 1 BY Zenon, <1>3, <1>10, <5>3, <5>4, <5>5, <5>6
          <6>2. QED BY Zenon, <1>4, <1>8, <3>3, <3>5, <4>2, <5>6, <6>1 DEF Trails
        <5>7. CASE ~Partial'
          <6>1. ~Writing BY Zenon, <1>10, <5>4, <5>7
          <6>2. QED BY Zenon, <1>4, <1>8, <3>3, <3>5, <4>2, <5>7, <6>1 DEF Trails
        <5>8. QED BY Zenon, <5>6, <5>7
      <4>3. CASE t # << >>
        <5>1. t[Len(t)] = s[Len(s)] BY <1>3, <1>9, <4>3
        <5>2. QED BY Zenon, <1>4, <1>8, <3>3, <3>5, <4>1, <4>3, <5>1 DEF Trails
      <4>4. QED BY Zenon, <4>2, <4>3
    <3>6. QED BY Zenon, <3>4, <3>5
  <2>6. FramesWhole'
    BY Zenon, <1>3 DEF FramesWhole
  <2>7. /\ Len(got') <= FrameUnits /\ (cpc' = "read" => Len(got') < FrameUnits)
        /\ (cpc' = "handle" => Len(got') = FrameUnits)
    BY <1>3, <1>4, SocketAssumption
  <2>8. QED BY Zenon, <1>4, <2>3, <2>4, <2>5, <2>6, <2>7 DEF StreamInv
<1>23. OrderInv'
  <2>1. ASSUME NEW c \in Conns, NEW i \in 1 .. Len(stream'[c])
        PROVE  /\ stream'[c][i][1] <= nmsgs
               /\ ppc = "write" /\ (c # psock \/ unit = 1) => stream'[c][i][1] < cur
               /\ stream'[c][i][2] = FrameUnits => InSent(stream'[c][i][1])
    <3>1. PICK k \in 1 .. Len(stream[c]) : stream'[c][i] = stream[c][k] BY Zenon, <1>11
    <3>2. QED BY Zenon, <3>1 DEF SocketInv, OrderInv
  <2>2. ASSUME NEW c \in Conns, NEW d \in Conns, c < d, NEW i \in 1 .. Len(stream'[c]), NEW j \in 1 .. Len(stream'[d])
        PROVE  stream'[c][i][1] < stream'[d][j][1]
    <3>1. PICK k \in 1 .. Len(stream[c]) : stream'[c][i] = stream[c][k] BY Zenon, <1>11
    <3>2. PICK l \in 1 .. Len(stream[d]) : stream'[d][j] = stream[d][l] BY Zenon, <1>11
    <3>3. QED BY Zenon, <2>2, <3>1, <3>2 DEF SocketInv, OrderInv
  <2>3. /\ \A i \in 1 .. Len(sent) : sent[i] <= nmsgs /\ (ppc = "write" => sent[i] < cur)
        /\ \A i, j \in 1 .. Len(sent) : i < j => sent[i] < sent[j]
    BY Zenon DEF SocketInv, OrderInv
  <2>4. (\A c \in Conns : \A i \in 1 .. Len(stream[c]) :
          /\ stream[c][i][1] <= nmsgs
          /\ ppc = "write" /\ (c # psock \/ unit = 1) => stream[c][i][1] < cur
          /\ stream[c][i][2] = FrameUnits => InSent(stream[c][i][1]))'
    BY ZenonT(30), <1>4, <2>1 DEF InSent
  <2>5. (\A c, d \in Conns : c < d =>
          \A i \in 1 .. Len(stream[c]), j \in 1 .. Len(stream[d]) : stream[c][i][1] < stream[d][j][1])'
    BY Zenon, <2>2
  <2>6. (/\ \A i \in 1 .. Len(sent) : sent[i] <= nmsgs /\ (ppc = "write" => sent[i] < cur)
         /\ \A i, j \in 1 .. Len(sent) : i < j => sent[i] < sent[j])'
    BY Zenon, <1>4, <2>3
  <2>7. QED BY Zenon, <2>4, <2>5, <2>6 DEF OrderInv
<1>24. TakenInv'
  <2>1. /\ p[1] <= nmsgs /\ (ppc = "write" /\ (csock # psock \/ unit = 1) => p[1] < cur)
        /\ p[2] = FrameUnits => InSent(p[1])
    BY Zenon, <1>3, <1>12 DEF SocketInv, OrderInv
  <2>2. ASSUME NEW d \in Conns, NEW j \in 1 .. Len(stream'[d])
        PROVE  IF d = csock /\ p[2] # FrameUnits THEN Before(p, stream'[d][j]) ELSE p[1] < stream'[d][j][1]
    <3>1. CASE d = csock
      <4>1. 1 \in 1 .. Len(s) /\ j + 1 \in 1 .. Len(s) /\ 1 < j + 1 /\ stream'[d][j] = s[j + 1]
        BY <1>3, <1>8, <1>9, <3>1
      <4>2. Before(p, s[j + 1]) BY Zenon, <1>2, <1>3, <4>1 DEF Framed
      <4>3. s[j + 1][2] \in 1 .. FrameUnits BY Zenon, <1>3, <4>1 DEF Framed
      <4>4. p[2] = FrameUnits => p[1] < s[j + 1][1] BY <4>2, <4>3, SocketAssumption DEF Before
      <4>5. QED BY Zenon, <3>1, <4>1, <4>2, <4>4
    <3>2. CASE d # csock
      <4>1. stream'[d] = stream[d] BY Zenon, <1>8, <3>2
      <4>2. stream[d] # << >> BY <4>1
      <4>3. ~(d < csock) BY Zenon, <4>2, AheadEmpty
      <4>4. csock < d BY <1>3, <3>2, <4>3, SocketAssumption DEF Conns
      <4>5. p[1] < stream[d][j][1] BY Zenon, <1>3, <1>12, <4>1, <4>4 DEF SocketInv, OrderInv
      <4>6. QED BY Zenon, <3>2, <4>1, <4>5
    <3>3. QED BY Zenon, <3>1, <3>2
  <2>3. got'[Len(got')] = p
    <3>1. Len(got') \in 1 .. Len(got') /\ p = <<p[1], p[2]>> BY <1>3 DEF Piece
    <3>2. QED BY Zenon, <1>3, <3>1
  <2>4. QED BY Zenon, <1>3, <1>4, <1>10, <2>1, <2>2, <2>3 DEF TakenInv, InSent, Before
<1>25. DeliveredInv'
  <2>1. SUFFICES ASSUME delivered # << >>
                 PROVE  /\ InSent(delivered[Len(delivered)])
                        /\ \A c \in Conns : \A i \in 1 .. Len(stream'[c]) : delivered[Len(delivered)] < stream'[c][i][1]
                        /\ delivered[Len(delivered)] < p[1]
    BY Zenon, <1>3, <1>4 DEF DeliveredInv, InSent
  <2>2. /\ InSent(delivered[Len(delivered)])
        /\ \A c \in Conns : \A i \in 1 .. Len(stream[c]) : delivered[Len(delivered)] < stream[c][i][1]
    BY Zenon, <2>1 DEF SocketInv, DeliveredInv
  <2>3. QED BY Zenon, <1>3, <1>11, <1>12, <2>2
<1>26. QED BY Zenon, <1>20, <1>21, <1>22, <1>23, <1>24, <1>25 DEF SocketInv

-----------------------------------------------------------------------------
(* The producer writes a piece.                                            *)

\* Before is an order.
LEMMA BeforeTransitive ==
  ASSUME NEW p \in Piece, NEW q \in Piece, NEW r \in Piece, Before(p, q), Before(q, r)
  PROVE  Before(p, r)
BY DEF Before, Piece

\* A piece that follows the last one leaves the stream in frames.
LEMMA FramedAppend ==
  ASSUME NEW s \in Seq(Piece), Framed(s), NEW q \in Piece, q[2] \in 1 .. FrameUnits,
         s # << >> => Follows(s[Len(s)], q),
         \A i \in 1 .. Len(s) : Before(s[i], q)
  PROVE  Framed(Append(s, q))
<1>1. PICK t : t = Append(s, q) BY Zenon
<1>2. Len(s) \in Nat /\ Len(t) = Len(s) + 1 /\ (\A i \in 1 .. Len(s) : t[i] = s[i]) /\ t[Len(s) + 1] = q
  BY <1>1, AppendFacts
<1>3. ASSUME NEW i \in 1 .. Len(t) PROVE t[i][2] \in 1 .. FrameUnits
  <2>1. CASE i \in 1 .. Len(s) BY Zenon, <1>2, <2>1 DEF Framed
  <2>2. CASE i = Len(s) + 1 BY Zenon, <1>2, <2>2
  <2>3. QED BY <1>2, <2>1, <2>2
<1>4. ASSUME NEW i \in 1 .. Len(t) - 1 PROVE Follows(t[i], t[i + 1])
  <2>1. CASE i = Len(s)
    <3>1. i \in 1 .. Len(s) /\ s # << >> BY <1>2, <1>4, <2>1
    <3>2. t[i] = s[Len(s)] /\ t[i + 1] = q BY Zenon, <1>2, <2>1, <3>1
    <3>3. QED BY Zenon, <3>1, <3>2
  <2>2. CASE i # Len(s)
    <3>1. i \in 1 .. Len(s) - 1 /\ i \in 1 .. Len(s) /\ i + 1 \in 1 .. Len(s) BY <1>2, <1>4, <2>2
    <3>2. Follows(s[i], s[i + 1]) BY Zenon, <3>1 DEF Framed
    <3>3. t[i] = s[i] /\ t[i + 1] = s[i + 1] BY Zenon, <1>2, <3>1
    <3>4. QED BY Zenon, <3>2, <3>3
  <2>3. QED BY Zenon, <2>1, <2>2
<1>5. ASSUME NEW i \in 1 .. Len(t), NEW j \in 1 .. Len(t), i < j PROVE Before(t[i], t[j])
  <2>1. i \in 1 .. Len(s) BY <1>2, <1>5
  <2>2. CASE j = Len(s) + 1 BY Zenon, <1>2, <2>1, <2>2
  <2>3. CASE j \in 1 .. Len(s) BY Zenon, <1>2, <1>5, <2>1, <2>3 DEF Framed
  <2>4. QED BY <1>2, <2>2, <2>3
<1>6. QED BY Zenon, <1>1, <1>3, <1>4, <1>5 DEF Framed

\* What a step of write_full_sock does, whatever becomes of the piece.
LEMMA WriteFacts ==
  ASSUME SocketInv, WriteUnit
  PROVE  /\ ppc = "write" /\ unit \in 1 .. FrameUnits /\ unit' = unit + 1 /\ unit' \in 2 .. FrameUnits + 1
         /\ psock \in Conns /\ psock = nconn /\ nconn \in Nat /\ cur \in Nat /\ cur = nmsgs
         /\ ppc' = (IF unit = FrameUnits THEN "idle" ELSE "write")
         /\ sent' = (IF unit = FrameUnits THEN Append(sent, cur) ELSE sent)
         /\ UNCHANGED <<pend, cend, backlog, nconn, psock, cur, nmsgs, csock, cpc, got, delivered>>
         /\ stream \in [Conns -> Seq(Piece)] /\ sent \in Seq(Nat)
<1>1. /\ ppc = "write" /\ psock # 0 /\ unit' = unit + 1
      /\ ppc' = (IF unit = FrameUnits THEN "idle" ELSE "write")
      /\ sent' = (IF unit = FrameUnits THEN Append(sent, cur) ELSE sent)
      /\ UNCHANGED <<pend, cend, backlog, nconn, psock, cur, nmsgs, csock, cpc, got, delivered>>
  BY Zenon DEF WriteUnit, cons
<1>2. unit \in 1 .. FrameUnits BY <1>1, SocketAssumption DEF SocketInv, TypeInv
<1>3. unit + 1 \in 2 .. FrameUnits + 1 BY <1>2, SocketAssumption
<1>4. psock \in Conns /\ psock = nconn /\ nconn \in Nat /\ cur \in Nat /\ cur = nmsgs
  BY <1>1, SocketAssumption DEF SocketInv, TypeInv, Conns
<1>5. stream \in [Conns -> Seq(Piece)] /\ sent \in Seq(Nat) BY Zenon DEF SocketInv, TypeInv
<1>6. QED BY Zenon, <1>1, <1>2, <1>3, <1>4, <1>5

\* The accepted messages grow by the one just completed.
LEMMA WriteSent ==
  ASSUME SocketInv, WriteUnit
  PROVE  /\ sent' \in Seq(Nat)
         /\ \A i \in 1 .. Len(sent') : sent'[i] <= nmsgs /\ (ppc' = "write" => sent'[i] < cur)
         /\ \A i, j \in 1 .. Len(sent') : i < j => sent'[i] < sent'[j]
         /\ \A m : InSent(m) => InSent(m)'
         /\ unit = FrameUnits => InSent(cur)'
<1>1. /\ ppc = "write" /\ ppc' = (IF unit = FrameUnits THEN "idle" ELSE "write")
      /\ sent' = (IF unit = FrameUnits THEN Append(sent, cur) ELSE sent)
      /\ sent \in Seq(Nat) /\ cur \in Nat /\ cur = nmsgs /\ cur' = cur
  BY Zenon, WriteFacts
<1>2. /\ \A i \in 1 .. Len(sent) : sent[i] <= nmsgs /\ sent[i] < cur
      /\ \A i, j \in 1 .. Len(sent) : i < j => sent[i] < sent[j]
  BY Zenon, <1>1 DEF SocketInv, OrderInv
<1>3. CASE unit # FrameUnits BY Zenon, <1>1, <1>2, <1>3 DEF InSent
<1>4. CASE unit = FrameUnits
  <2>1. /\ sent' \in Seq(Nat) /\ Len(sent) \in Nat /\ Len(sent') = Len(sent) + 1
        /\ (\A i \in 1 .. Len(sent) : sent'[i] = sent[i]) /\ sent'[Len(sent) + 1] = cur
    BY <1>1, <1>4, AppendFacts
  <2>2. \A i \in 1 .. Len(sent') : i \in 1 .. Len(sent) \/ i = Len(sent) + 1 BY <2>1
  <2>3. ppc' = "idle" BY Zenon, <1>1, <1>4
  <2>4. cur <= nmsgs BY <1>1
  <2>5. \A i \in 1 .. Len(sent') : sent'[i] <= nmsgs BY Zenon, <1>1, <1>2, <2>1, <2>2, <2>4
  <2>6. ASSUME NEW i \in 1 .. Len(sent'), NEW j \in 1 .. Len(sent'), i < j PROVE sent'[i] < sent'[j]
    <3>1. i \in 1 .. Len(sent) BY <2>1, <2>6
    <3>2. CASE j \in 1 .. Len(sent) BY Zenon, <1>2, <2>1, <2>6, <3>1, <3>2
    <3>3. CASE j = Len(sent) + 1 BY Zenon, <1>2, <2>1, <3>1, <3>3
    <3>4. QED BY Zenon, <2>2, <3>2, <3>3
  <2>7. \A i \in 1 .. Len(sent) : i \in 1 .. Len(sent') BY <2>1
  <2>8. Len(sent) + 1 \in 1 .. Len(sent') BY <2>1
  <2>9. (\A m : InSent(m) => InSent(m)') /\ InSent(cur)' BY Zenon, <1>1, <2>1, <2>7, <2>8 DEF InSent
  <2>10. QED BY Zenon, <2>1, <2>3, <2>5, <2>6, <2>9
<1>5. QED BY Zenon, <1>3, <1>4

\* No piece in flight is later than the one being written.
LEMMA WriteOrder ==
  ASSUME SocketInv, WriteUnit
  PROVE  /\ \A c \in Conns : \A i \in 1 .. Len(stream[c]) :
              c # psock \/ unit = 1 => stream[c][i][1] < cur
         /\ \A d \in Conns : psock < d => stream[d] = << >>
<1>1. ppc = "write" /\ psock = nconn /\ nconn \in Nat BY Zenon, WriteFacts
<1>2. \A c \in Conns : \A i \in 1 .. Len(stream[c]) : c # psock \/ unit = 1 => stream[c][i][1] < cur
  BY Zenon, <1>1 DEF SocketInv, OrderInv
<1>3. ASSUME NEW d \in Conns, psock < d PROVE stream[d] = << >>
  <2>1. csock \in 0 .. nconn /\ \A i \in 1 .. Len(backlog) : backlog[i] \in csock + 1 .. nconn
    BY Zenon DEF SocketInv, TypeInv, ConnInv
  <2>2. d # csock /\ \A i \in 1 .. Len(backlog) : backlog[i] # d BY <1>1, <1>3, <2>1 DEF Conns
  <2>3. QED BY Zenon, <2>2 DEF SocketInv, ConnInv
<1>4. QED BY Zenon, <1>2, <1>3

\* The connection was closed by the consumer: the piece is dropped.
LEMMA WriteDropped == ASSUME SocketInv, WriteUnit, UNCHANGED stream, ~cend[psock] PROVE SocketInv'
<1>1. /\ ppc = "write" /\ unit \in 1 .. FrameUnits /\ unit' = unit + 1 /\ unit' \in 2 .. FrameUnits + 1
      /\ psock \in Conns /\ cur = nmsgs
      /\ ppc' = (IF unit = FrameUnits THEN "idle" ELSE "write")
      /\ UNCHANGED <<pend, cend, backlog, nconn, psock, cur, nmsgs, csock, cpc, got, delivered>>
  BY Zenon, WriteFacts
<1>2. /\ sent' \in Seq(Nat)
      /\ \A i \in 1 .. Len(sent') : sent'[i] <= nmsgs /\ (ppc' = "write" => sent'[i] < cur)
      /\ \A i, j \in 1 .. Len(sent') : i < j => sent'[i] < sent'[j]
      /\ \A m : InSent(m) => InSent(m)'
  BY Zenon, WriteSent
<1>3. stream[psock] = << >> BY Zenon, <1>1 DEF SocketInv, ConnInv
<1>4. unit' # 1 /\ unit' \in 1 .. FrameUnits + 1 /\ (ppc' = "write" => unit' <= FrameUnits)
  BY <1>1, SocketAssumption
<1>5. TypeInv' BY Zenon, <1>1, <1>2, <1>4 DEF SocketInv, TypeInv
<1>6. ConnInv' BY Zenon, <1>1 DEF SocketInv, ConnInv
<1>7. StreamInv' BY Zenon, <1>1 DEF SocketInv, StreamInv, FramesWhole, Resumes, Partial
<1>8. OrderInv'
  <2>1. ASSUME NEW c \in Conns, NEW i \in 1 .. Len(stream[c])
        PROVE  /\ stream[c][i][1] <= nmsgs
               /\ stream[c][i][1] < cur
               /\ stream[c][i][2] = FrameUnits => InSent(stream[c][i][1])'
    <3>1. c # psock BY <1>3
    <3>2. QED BY Zenon, <1>1, <1>2, <3>1 DEF SocketInv, OrderInv
  <2>2. \A c, d \in Conns : c < d =>
          \A i \in 1 .. Len(stream[c]), j \in 1 .. Len(stream[d]) : stream[c][i][1] < stream[d][j][1]
    BY Zenon DEF SocketInv, OrderInv
  <2>3. QED BY Zenon, <1>1, <1>2, <2>1, <2>2 DEF OrderInv
<1>9. TakenInv'
  <2>1. Taken' = Taken /\ Partial' = Partial BY Zenon, <1>1 DEF Taken, Partial
  <2>2. Taken => got[1][1] <= nmsgs /\ (csock # psock => got[1][1] < cur)
    BY Zenon, <1>1 DEF SocketInv, TakenInv
  <2>3. cpc = "handle" => InSent(got[1][1])' BY Zenon, <1>1, <1>2 DEF SocketInv, TakenInv
  <2>4. Taken => \A d \in Conns : \A j \in 1 .. Len(stream[d]) :
          IF d = csock /\ Partial THEN Before(got[Len(got)], stream[d][j]) ELSE got[1][1] < stream[d][j][1]
    BY Zenon DEF SocketInv, TakenInv
  <2>5. QED BY Zenon, <1>1, <1>4, <2>1, <2>2, <2>3, <2>4 DEF TakenInv, Before
<1>10. DeliveredInv'
  <2>1. Taken' = Taken BY Zenon, <1>1 DEF Taken
  <2>2. QED BY Zenon, <1>1, <1>2, <2>1 DEF SocketInv, DeliveredInv
<1>11. QED BY Zenon, <1>5, <1>6, <1>7, <1>8, <1>9, <1>10 DEF SocketInv

\* The piece follows what is in flight on the connection.
LEMMA WriteFramed ==
  ASSUME SocketInv, WriteUnit, cend[psock], NEW s, s = stream[psock], NEW q, q = <<cur, unit>>
  PROVE  /\ s \in Seq(Piece) /\ q \in Piece /\ q[1] = cur /\ q[2] = unit
         /\ \A i \in 1 .. Len(s) : Before(s[i], q)
         /\ Framed(Append(s, q))
<1>1. /\ ppc = "write" /\ unit \in 1 .. FrameUnits /\ psock \in Conns /\ psock = nconn /\ nconn \in Nat /\ cur \in Nat
      /\ stream \in [Conns -> Seq(Piece)]
  BY Zenon, WriteFacts
<1>2. s \in Seq(Piece) /\ q \in Piece /\ q[1] = cur /\ q[2] = unit BY <1>1 DEF Piece
<1>3. Framed(s) BY Zenon, <1>1 DEF SocketInv, StreamInv
<1>4. psock # 0 BY <1>1 DEF Conns
<1>5. Trails(psock) BY Zenon, <1>4 DEF SocketInv, StreamInv
<1>6. Writing <=> unit > 1 BY Zenon, <1>1 DEF Writing
<1>7. s # << >> => IF unit > 1 THEN s[Len(s)] = <<cur, unit - 1>> ELSE s[Len(s)][2] = FrameUnits
  BY Zenon, <1>5, <1>6 DEF Trails
<1>8. ASSUME s # << >> PROVE Follows(s[Len(s)], q)
  <2>1. CASE unit > 1
    <3>1. s[Len(s)] = <<cur, unit - 1>> BY Zenon, <1>7, <1>8, <2>1
    <3>2. q[1] = s[Len(s)][1] /\ q[2] = s[Len(s)][2] + 1 BY <1>1, <1>2, <3>1
    <3>3. QED BY Zenon, <3>2 DEF Follows
  <2>2. CASE ~(unit > 1)
    <3>1. unit = 1 BY <1>1, <2>2
    <3>2. QED BY Zenon, <1>2, <1>7, <1>8, <2>2, <3>1 DEF Follows
  <2>3. QED BY Zenon, <2>1, <2>2
<1>9. ASSUME NEW i \in 1 .. Len(s) PROVE Before(s[i], q)
  <2>1. s # << >> /\ Len(s) \in Nat /\ Len(s) \in 1 .. Len(s) BY <1>2
  <2>2. CASE unit = 1
    <3>1. s[i][1] < cur BY Zenon, <2>2, <1>1, WriteOrder
    <3>2. QED BY Zenon, <1>2, <3>1 DEF Before
  <2>3. CASE unit # 1
    <3>1. unit > 1 BY <1>1, <2>3
    <3>2. s[Len(s)] = <<cur, unit - 1>> BY Zenon, <1>7, <2>1, <3>1
    <3>3. Before(s[Len(s)], q) BY <1>1, <1>2, <3>2 DEF Before
    <3>4. CASE i = Len(s) BY Zenon, <3>3, <3>4
    <3>5. CASE i # Len(s)
      <4>1. i < Len(s) BY <2>1, <3>5
      <4>2. Before(s[i], s[Len(s)]) BY Zenon, <1>3, <2>1, <4>1 DEF Framed
      <4>3. s[i] \in Piece /\ s[Len(s)] \in Piece BY <1>2, <2>1
      <4>4. QED BY Zenon, <1>2, <3>3, <4>2, <4>3, BeforeTransitive
    <3>6. QED BY Zenon, <3>4, <3>5
  <2>4. QED BY Zenon, <2>2, <2>3
<1>10. QED BY Zenon, <1>1, <1>2, <1>3, <1>8, <1>9, FramedAppend

\* The piece goes behind what is in flight.
LEMMA WriteAppended ==
  ASSUME SocketInv, WriteUnit, cend[psock], stream' = [stream EXCEPT ![psock] = Append(@, <<cur, unit>>)]
  PROVE  SocketInv'
<1>1. /\ ppc = "write" /\ unit \in 1 .. FrameUnits /\ unit' = unit + 1 /\ unit' \in 2 .. FrameUnits + 1
      /\ psock \in Conns /\ psock = nconn /\ nconn \in Nat /\ cur \in Nat /\ cur = nmsgs
      /\ ppc' = (IF unit = FrameUnits THEN "idle" ELSE "write")
      /\ UNCHANGED <<pend, cend, backlog, nconn, psock, cur, nmsgs, csock, cpc, got, delivered>>
      /\ stream \in [Conns -> Seq(Piece)]
  BY Zenon, WriteFacts
<1>2. /\ sent' \in Seq(Nat)
      /\ \A i \in 1 .. Len(sent') : sent'[i] <= nmsgs /\ (ppc' = "write" => sent'[i] < cur)
      /\ \A i, j \in 1 .. Len(sent') : i < j => sent'[i] < sent'[j]
      /\ \A m : InSent(m) => InSent(m)'
      /\ unit = FrameUnits => InSent(cur)'
  BY Zenon, WriteSent
<1>3. PICK s : s = stream[psock] BY Zenon
<1>4. PICK q : q = <<cur, unit>> BY Zenon
<1>5. PICK t : t = Append(s, q) BY Zenon
<1>6. /\ s \in Seq(Piece) /\ q \in Piece /\ q[1] = cur /\ q[2] = unit /\ Framed(t)
      /\ \A i \in 1 .. Len(s) : Before(s[i], q)
  <2>1. /\ s \in Seq(Piece) /\ q \in Piece /\ q[1] = cur /\ q[2] = unit
        /\ \A i \in 1 .. Len(s) : Before(s[i], q)
        /\ Framed(Append(s, q))
    BY Zenon, <1>3, <1>4, WriteFramed
  <2>2. QED BY Zenon, <1>5, <2>1
<1>7. /\ t \in Seq(Piece) /\ Len(s) \in Nat /\ Len(t) = Len(s) + 1 /\ t # << >>
      /\ (\A i \in 1 .. Len(s) : t[i] = s[i]) /\ t[Len(s) + 1] = q
  BY <1>5, <1>6, AppendFacts
<1>8. stream' \in [Conns -> Seq(Piece)] /\ stream'[psock] = t /\ \A c \in Conns \ {psock} : stream'[c] = stream[c]
  BY Zenon, <1>1, <1>3, <1>4, <1>5, <1>7
<1>9. unit' # 1 /\ unit' \in 1 .. FrameUnits + 1 /\ (ppc' = "write" => unit' <= FrameUnits)
  BY <1>1, SocketAssumption
<1>10. psock # 0 BY <1>1 DEF Conns
<1>11. Trails(psock) /\ (Writing <=> unit > 1)
  BY Zenon, <1>1, <1>10 DEF SocketInv, StreamInv, Writing
<1>12. ASSUME NEW c \in Conns, NEW i \in 1 .. Len(stream'[c])
       PROVE  \/ i \in 1 .. Len(stream[c]) /\ stream'[c][i] = stream[c][i]
              \/ c = psock /\ i = Len(s) + 1 /\ stream'[c][i] = q
  <2>1. CASE c = psock
    <3>1. i \in 1 .. Len(s) \/ i = Len(s) + 1 BY <1>7, <1>8, <2>1
    <3>2. QED BY Zenon, <1>3, <1>7, <1>8, <2>1, <3>1
  <2>2. CASE c # psock BY Zenon, <1>8, <2>2
  <2>3. QED BY Zenon, <2>1, <2>2
<1>13. (Taken' <=> Taken) /\ (Partial' <=> Partial) BY Zenon, <1>1 DEF Taken, Partial
<1>20. TypeInv' BY Zenon, <1>1, <1>2, <1>8, <1>9 DEF SocketInv, TypeInv
<1>21. ConnInv'
  <2>1. \A c \in Conns : stream'[c] # << >> => cend[c] BY Zenon, <1>8 DEF SocketInv, ConnInv
  <2>2. QED BY Zenon, <1>1, <2>1 DEF SocketInv, ConnInv
<1>22. StreamInv'
  <2>1. \A c \in Conns : Framed(stream'[c]) BY Zenon, <1>6, <1>8 DEF SocketInv, StreamInv
  <2>2. \A c \in Conns : Framed(stream[c])' BY Zenon, <2>1 DEF Framed, Follows, Before
  <2>3. ASSUME NEW c \in Conns, stream'[c] # << >> PROVE Resumes(c)'
    <3>1. CASE c # psock
      <4>1. stream'[c] = stream[c] BY Zenon, <1>8, <3>1
      <4>2. Resumes(c) BY Zenon, <2>3, <4>1 DEF SocketInv, StreamInv
      <4>3. QED BY Zenon, <1>1, <1>13, <4>1, <4>2 DEF Resumes
    <3>2. CASE c = psock /\ s # << >>
      <4>1. 1 \in 1 .. Len(s) BY <1>6, <3>2
      <4>2. stream'[c][1] = stream[c][1] BY Zenon, <1>3, <1>7, <1>8, <3>2, <4>1
      <4>3. Resumes(c) BY Zenon, <1>3, <3>2 DEF SocketInv, StreamInv
      <4>4. QED BY Zenon, <1>1, <1>13, <4>2, <4>3 DEF Resumes
    <3>3. CASE c = psock /\ s = << >>
      <4>1. stream'[c][1] = q
        <5>1. Len(s) + 1 = 1 BY <3>3
        <5>2. QED BY Zenon, <1>7, <1>8, <3>3, <5>1
      <4>2. CASE c = csock /\ Partial
        <5>1. cur = got[1][1] /\ unit = Len(got) + 1 BY Zenon, <1>3, <1>11, <3>3, <4>2 DEF Trails
        <5>2. stream'[c][1] = <<got[1][1], Len(got) + 1>> BY Zenon, <1>4, <4>1, <5>1
        <5>3. QED BY Zenon, <1>1, <1>13, <4>2, <5>2 DEF Resumes
      <4>3. CASE ~(c = csock /\ Partial)
        <5>1. ~Writing BY Zenon, <1>3, <1>11, <3>3, <4>3 DEF Trails
        <5>2. unit = 1 BY <1>1, <1>11, <5>1
        <5>3. QED BY Zenon, <1>1, <1>6, <1>13, <4>1, <4>3, <5>2 DEF Resumes
      <4>4. QED BY Zenon, <4>2, <4>3
    <3>4. QED BY Zenon, <3>1, <3>2, <3>3
  <2>4. Trails(psock)'
    <3>1. t[Len(t)] = <<cur, unit>> BY Zenon, <1>4, <1>7
    <3>2. CASE unit = FrameUnits
      <4>1. ~Writing' /\ t[Len(t)][2] = FrameUnits BY <1>1, <3>1, <3>2 DEF Writing
      <4>2. QED BY Zenon, <1>1, <1>7, <1>8, <4>1 DEF Trails
    <3>3. CASE unit # FrameUnits
      <4>1. Writing' /\ t[Len(t)] = <<cur', unit' - 1>> BY <1>1, <3>1, <3>3 DEF Writing
      <4>2. QED BY Zenon, <1>1, <1>7, <1>8, <4>1 DEF Trails
    <3>4. QED BY Zenon, <3>2, <3>3
  <2>5. (FramesWhole /\ Len(got) <= FrameUnits /\ (cpc = "read" => Len(got) < FrameUnits)
          /\ (cpc = "handle" => Len(got) = FrameUnits))'
    BY Zenon, <1>1 DEF SocketInv, StreamInv, FramesWhole
  <2>6. QED BY Zenon, <2>2, <2>3, <2>4, <2>5 DEF StreamInv
<1>23. OrderInv'
  <2>1. ASSUME NEW c \in Conns, NEW i \in 1 .. Len(stream'[c])
        PROVE  /\ stream'[c][i][1] <= nmsgs
               /\ c # psock => stream'[c][i][1] < cur
               /\ stream'[c][i][2] = FrameUnits => InSent(stream[c][i][1])'
    <3>1. CASE i \in 1 .. Len(stream[c]) /\ stream'[c][i] = stream[c][i]
      <4>1. /\ stream[c][i][1] <= nmsgs
            /\ c # psock => stream[c][i][1] < cur
            /\ stream[c][i][2] = FrameUnits => InSent(stream[c][i][1])
        BY Zenon, <1>1, <3>1 DEF SocketInv, OrderInv
      <4>2. \A m : InSent(m) => \E k \in 1 .. Len(sent') : sent'[k] = m BY Zenon, <1>2 DEF InSent
      <4>3. QED BY Zenon, <3>1, <4>1, <4>2 DEF InSent
    <3>2. CASE c = psock /\ i = Len(s) + 1 /\ stream'[c][i] = q
      <4>1. cur <= nmsgs BY <1>1
      <4>2. unit = FrameUnits => \E k \in 1 .. Len(sent') : sent'[k] = cur BY Zenon, <1>1, <1>2 DEF InSent
      <4>3. QED BY Zenon, <1>6, <3>2, <4>1, <4>2 DEF InSent
    <3>3. QED BY Zenon, <1>12, <3>1, <3>2
  <2>2. ASSUME NEW c \in Conns, NEW d \in Conns, c < d, NEW i \in 1 .. Len(stream'[c]), NEW j \in 1 .. Len(stream'[d])
        PROVE  stream'[c][i][1] < stream'[d][j][1]
    <3>1. c # d BY <2>2 DEF Conns
    <3>2. c # psock
      <4>1. SUFFICES ASSUME c = psock PROVE FALSE BY Zenon
      <4>2. stream[d] = << >> /\ stream'[d] = stream[d] BY Zenon, <1>8, <2>2, <3>1, <4>1, WriteOrder
      <4>3. QED BY <4>2
    <3>3. i \in 1 .. Len(stream[c]) /\ stream'[c] = stream[c] BY Zenon, <1>8, <3>2
    <3>4. CASE j \in 1 .. Len(stream[d]) /\ stream'[d][j] = stream[d][j]
      BY Zenon, <2>2, <3>3, <3>4 DEF SocketInv, OrderInv
    <3>5. CASE stream'[d][j] = q BY Zenon, <1>6, <3>2, <3>3, <3>5, WriteOrder
    <3>6. QED BY Zenon, <1>12, <3>4, <3>5
  <2>4. (\A c \in Conns : \A i \in 1 .. Len(stream[c]) :
          /\ stream[c][i][1] <= nmsgs
          /\ ppc = "write" /\ (c # psock \/ unit = 1) => stream[c][i][1] < cur
          /\ stream[c][i][2] = FrameUnits => InSent(stream[c][i][1]))'
    BY Zenon, <1>1, <1>9, <2>1
  <2>5. (\A c, d \in Conns : c < d =>
          \A i \in 1 .. Len(stream[c]), j \in 1 .. Len(stream[d]) : stream[c][i][1] < stream[d][j][1])'
    BY Zenon, <2>2
  <2>6. (/\ \A i \in 1 .. Len(sent) : sent[i] <= nmsgs /\ (ppc = "write" => sent[i] < cur)
         /\ \A i, j \in 1 .. Len(sent) : i < j => sent[i] < sent[j])'
    BY Zenon, <1>1, <1>2
  <2>7. QED BY Zenon, <2>4, <2>5, <2>6 DEF OrderInv
<1>24. TakenInv'
  <2>1. Taken => got[1][1] <= nmsgs /\ (csock # psock \/ unit = 1 => got[1][1] < cur)
    BY Zenon, <1>1 DEF SocketInv, TakenInv
  <2>2. cpc = "handle" => InSent(got[1][1])' BY Zenon, <1>1, <1>2 DEF SocketInv, TakenInv
  <2>3. ASSUME Taken, NEW d \in Conns, NEW j \in 1 .. Len(stream'[d])
        PROVE  IF d = csock /\ Partial THEN Before(got[Len(got)], stream'[d][j]) ELSE got[1][1] < stream'[d][j][1]
    <3>1. \A e \in Conns : \A k \in 1 .. Len(stream[e]) :
            IF e = csock /\ Partial THEN Before(got[Len(got)], stream[e][k]) ELSE got[1][1] < stream[e][k][1]
      BY Zenon, <2>3 DEF SocketInv, TakenInv
    <3>2. CASE j \in 1 .. Len(stream[d]) /\ stream'[d][j] = stream[d][j] BY Zenon, <3>1, <3>2
    <3>3. CASE d = psock /\ stream'[d][j] = q
      <4>1. got \in Seq(Piece) /\ got # << >> BY Zenon, <2>3 DEF SocketInv, TypeInv, Taken
      <4>2. Len(got) \in Nat /\ Len(got) \in 1 .. Len(got) /\ got[Len(got)] \in Piece BY <4>1
      <4>3. s # << >> => Len(s) \in 1 .. Len(s) /\ s[Len(s)] \in Piece BY <1>6
      <4>4. CASE d = csock /\ Partial /\ s = << >>
        <5>1. cur = got[1][1] /\ unit = Len(got) + 1 BY Zenon, <1>3, <1>11, <3>3, <4>4 DEF Trails
        <5>2. got[Len(got)] = <<got[1][1], Len(got)>> BY Zenon, <4>2 DEF SocketInv, StreamInv, FramesWhole
        <5>3. Before(got[Len(got)], q) BY <1>6, <4>2, <5>1, <5>2 DEF Before
        <5>4. QED BY Zenon, <3>3, <4>4, <5>3
      <4>5. CASE d = csock /\ Partial /\ s # << >>
        <5>1. Before(got[Len(got)], s[Len(s)]) BY Zenon, <1>1, <1>3, <3>1, <3>3, <4>3, <4>5
        <5>2. Before(s[Len(s)], q) BY Zenon, <1>6, <4>3, <4>5
        <5>3. Before(got[Len(got)], q) BY Zenon, <1>6, <4>2, <4>3, <4>5, <5>1, <5>2, BeforeTransitive
        <5>4. QED BY Zenon, <3>3, <4>5, <5>3
      <4>6. CASE ~(d = csock /\ Partial)
        <5>1. CASE csock # psock \/ unit = 1 BY Zenon, <1>6, <2>1, <2>3, <3>3, <4>6, <5>1
        <5>2. CASE csock = psock /\ unit # 1
          <6>1. Writing BY <1>1, <1>11, <5>2
          <6>2. s # << >> BY Zenon, <1>3, <1>11, <3>3, <4>6, <6>1 DEF Trails
          <6>3. s[Len(s)] = <<cur, unit - 1>> BY Zenon, <1>3, <1>11, <6>1, <6>2 DEF Trails
          <6>4. got[1][1] < s[Len(s)][1] BY Zenon, <1>1, <1>3, <3>1, <3>3, <4>3, <4>6, <6>2
          <6>5. got[1][1] < cur BY <6>3, <6>4
          <6>6. QED BY Zenon, <1>6, <3>3, <4>6, <6>5
        <5>3. QED BY Zenon, <5>1, <5>2
      <4>7. QED BY Zenon, <4>4, <4>5, <4>6
    <3>4. QED BY Zenon, <1>12, <3>2, <3>3
  <2>4. (Taken => got[1][1] <= nmsgs /\ (ppc = "write" /\ (csock # psock \/ unit = 1) => got[1][1] < cur))'
    BY Zenon, <1>1, <1>9, <1>13, <2>1
  <2>5. (Taken => \A d \in Conns : \A j \in 1 .. Len(stream[d]) :
          IF d = csock /\ Partial THEN Before(got[Len(got)], stream[d][j]) ELSE got[1][1] < stream[d][j][1])'
    BY Zenon, <1>1, <1>13, <2>3 DEF Before
  <2>6. QED BY Zenon, <1>1, <2>2, <2>4, <2>5 DEF TakenInv
<1>25. DeliveredInv'
  <2>1. SUFFICES ASSUME delivered # << >>
                 PROVE  /\ InSent(delivered[Len(delivered)])'
                        /\ \A c \in Conns : \A i \in 1 .. Len(stream'[c]) : delivered[Len(delivered)] < stream'[c][i][1]
                        /\ Taken => delivered[Len(delivered)] < got[1][1]
    BY Zenon, <1>1, <1>13 DEF DeliveredInv
  <2>2. /\ InSent(delivered[Len(delivered)])
        /\ \A c \in Conns : \A i \in 1 .. Len(stream[c]) : delivered[Len(delivered)] < stream[c][i][1]
        /\ Taken => delivered[Len(delivered)] < got[1][1]
    BY Zenon, <2>1 DEF SocketInv, DeliveredInv
  <2>3. delivered[Len(delivered)] < cur BY Zenon, <1>1, <2>2 DEF InSent, SocketInv, OrderInv
  <2>4. InSent(delivered[Len(delivered)])' BY Zenon, <1>1, <1>2, <2>2
  <2>5. QED BY Zenon, <1>6, <1>12, <2>2, <2>3, <2>4
<1>26. QED BY Zenon, <1>20, <1>21, <1>22, <1>23, <1>24, <1>25 DEF SocketInv

\* A step of write_full_sock, whether the piece arrives or is dropped.
LEMMA WriteUnitKeeps == ASSUME SocketInv, WriteUnit PROVE SocketInv'
<1>1. CASE cend[psock] /\ stream' = [stream EXCEPT ![psock] = Append(@, <<cur, unit>>)]
  BY Zenon, <1>1, WriteAppended
<1>2. CASE ~cend[psock] /\ UNCHANGED stream BY Zenon, <1>2, WriteDropped
<1>3. QED BY Zenon, <1>1, <1>2 DEF WriteUnit

-----------------------------------------------------------------------------
(* The invariant.                                                          *)

\* Before the first connection there is nothing in flight.
LEMMA SocketInit == Init => SocketInv
<1>1. SUFFICES ASSUME Init PROVE SocketInv BY Zenon
<1>2. \A c \in Conns : stream[c] = << >> /\ ~cend[c] BY Zenon, <1>1 DEF Init
<1>3. TypeInv BY <1>1, SocketAssumption DEF Init, TypeInv, CPcs
<1>4. ConnInv BY <1>1, <1>2 DEF Init, ConnInv
<1>5. StreamInv
  <2>1. \A c \in Conns : Framed(stream[c]) BY Zenon, <1>2, FramedEmpty
  <2>2. QED BY <1>1, <1>2, <2>1, SocketAssumption DEF Init, StreamInv, FramesWhole
<1>6. OrderInv BY <1>1, <1>2 DEF Init, OrderInv
<1>7. TakenInv /\ DeliveredInv BY Zenon, <1>1 DEF Init, TakenInv, DeliveredInv, Taken
<1>8. QED BY Zenon, <1>3, <1>4, <1>5, <1>6, <1>7 DEF SocketInv

\* What the stopping thread does, and a step that changes nothing.
LEMMA SameKeeps ==
  ASSUME SocketInv, UNCHANGED <<net, prod, cons>>
  PROVE  SocketInv'
<1>1. UNCHANGED <<stream, pend, cend, backlog, nconn, psock, ppc, cur, unit, nmsgs, sent, csock, cpc, got, delivered>>
  BY Zenon DEF net, prod, cons
<1>2. TypeInv' BY Zenon, <1>1 DEF SocketInv, TypeInv
<1>3. ConnInv' BY Zenon, <1>1 DEF SocketInv, ConnInv
<1>4. StreamInv' BY Zenon, <1>1 DEF SocketInv, StreamInv, FramesWhole, Resumes, Trails, Writing, Partial
<1>5. OrderInv' BY Zenon, <1>1 DEF SocketInv, OrderInv, InSent
<1>6. TakenInv' BY Zenon, <1>1 DEF SocketInv, TakenInv, Taken, Partial, InSent
<1>7. DeliveredInv' BY Zenon, <1>1 DEF SocketInv, DeliveredInv, Taken, InSent
<1>8. QED BY Zenon, <1>2, <1>3, <1>4, <1>5, <1>6, <1>7 DEF SocketInv

\* Every step keeps the invariant.
LEMMA SocketNext == SocketInv /\ [Next]_vars => SocketInv'
<1>1. SUFFICES ASSUME SocketInv, [Next]_vars PROVE SocketInv' BY Zenon
<1>2. CASE Reconnect \/ ConnectFails \/ WriteFails \/ ProducerDies BY Zenon, <1>1, <1>2, ProducerDropsKeeps
<1>3. CASE Send BY Zenon, <1>1, <1>3, SendKeeps
<1>4. CASE Connected BY Zenon, <1>1, <1>4, ConnectedKeeps
<1>5. CASE WriteUnit BY Zenon, <1>1, <1>5, WriteUnitKeeps
<1>6. CASE RunStart \/ LoopTest \/ Check \/ Wait BY Zenon, <1>1, <1>6, LoopKeeps
<1>7. CASE PollAccept BY Zenon, <1>1, <1>7, PollAcceptKeeps
<1>8. CASE Select BY Zenon, <1>1, <1>8, SelectKeeps
<1>9. CASE Read BY Zenon, <1>1, <1>9, ReadKeeps
<1>10. CASE ReadEnds \/ ReadFails BY Zenon, <1>1, <1>10, ReadEndsKeeps
<1>11. CASE Handle \/ HandlerThrows BY Zenon, <1>1, <1>11, HandleKeeps
<1>12. CASE HandlerRuntimeError BY Zenon, <1>1, <1>12, HandlerRuntimeErrorKeeps
<1>13. CASE Stop \/ InterruptWait \/ UNCHANGED vars
  <2>1. UNCHANGED <<net, prod, cons>> BY Zenon, <1>13 DEF Stop, InterruptWait, vars
  <2>2. QED BY Zenon, <1>1, <2>1, SameKeeps
<1>14. QED BY Zenon, <1>1, <1>2, <1>3, <1>4, <1>5, <1>6, <1>7, <1>8, <1>9, <1>10, <1>11, <1>12, <1>13
           DEF Next, Producing, Looping

\* Along every connection, from one connection to the next and through the consumer's
\* frame, pieces are in order and in frames, whatever is cut short, lost or stopped.
THEOREM SocketInvariant == Spec => []SocketInv
<1>1. Init => SocketInv BY Zenon, SocketInit
<1>2. SocketInv /\ [Next]_vars => SocketInv' BY Zenon, SocketNext
<1>3. QED BY <1>1, <1>2, PTL DEF Spec

\* The pieces read_exact_sock puts into one frame are those of one message, in order:
\* a frame cut short by a failed write never runs into the next one.
THEOREM FramesWholeAlways == Spec => []FramesWhole
<1>1. SocketInv => FramesWhole BY Zenon DEF SocketInv, StreamInv
<1>2. QED BY <1>1, SocketInvariant, PTL

-----------------------------------------------------------------------------
(* The contract.                                                           *)

\* Each accepted message has one place among them.
LEMMA PlaceUnique ==
  ASSUME NEW s \in Seq(Nat), \A i, j \in 1 .. Len(s) : i < j => s[i] < s[j], NEW k \in 1 .. Len(s)
  PROVE  k = CHOOSE i \in 1 .. Len(s) : s[i] = s[k]
<1>1. PICK l : l = CHOOSE i \in 1 .. Len(s) : s[i] = s[k] BY Zenon
<1>2. l \in 1 .. Len(s) /\ s[l] = s[k] BY Zenon, <1>1
<1>3. Len(s) \in Nat /\ s[k] \in Nat BY LenFacts
<1>4. ~(k < l) /\ ~(l < k)
  <2>1. ~(s[k] < s[l]) /\ ~(s[l] < s[k]) BY <1>2, <1>3
  <2>2. QED BY Zenon, <1>2, <2>1
<1>5. k = l BY <1>2, <1>3, <1>4
<1>6. QED BY Zenon, <1>1, <1>5

\* The cursor is the place of the message delivered last.
LEMMA CursorPlace ==
  ASSUME SocketInv
  PROVE  /\ delivered = << >> => Cursor = 0
         /\ delivered # << >> =>
              Cursor \in 1 .. Len(sent) /\ sent[Cursor] = delivered[Len(delivered)]
<1>1. delivered # << >> => \E i \in 1 .. Len(sent) : sent[i] = delivered[Len(delivered)]
  BY Zenon DEF SocketInv, DeliveredInv, InSent
<1>2. QED BY Zenon, <1>1 DEF Cursor

\* The message delivered last has one place in the next state, and Cursor is it.
LEMMA CursorPlaceNext ==
  ASSUME SocketInv', delivered' # << >>, NEW k \in 1 .. Len(sent'), sent'[k] = delivered'[Len(delivered')]
  PROVE  Cursor' = k
<1>1. sent' \in Seq(Nat) /\ \A i, j \in 1 .. Len(sent') : i < j => sent'[i] < sent'[j]
  BY Zenon DEF SocketInv, TypeInv, OrderInv
<1>2. k = CHOOSE i \in 1 .. Len(sent') : sent'[i] = sent'[k] BY Zenon, <1>1, PlaceUnique
<1>3. QED BY Zenon, <1>2 DEF Cursor

\* A step that accepts and delivers nothing leaves the contract where it is.
LEMMA ContractStutters ==
  ASSUME UNCHANGED <<sent, delivered>>
  PROVE  UNCHANGED <<sent, Cursor, delivered>>
BY DEF Cursor

\* The last piece of a frame is the contract's Accept; the others change nothing it sees.
LEMMA WriteAccepts ==
  ASSUME SocketInv, SocketInv', WriteUnit
  PROVE  Contract!Accept \/ UNCHANGED <<sent, Cursor, delivered>>
<1>1. /\ sent' = (IF unit = FrameUnits THEN Append(sent, cur) ELSE sent) /\ UNCHANGED delivered
      /\ ppc = "write" /\ cur \in Nat /\ cur = nmsgs /\ sent \in Seq(Nat)
  BY Zenon, WriteFacts
<1>2. CASE unit # FrameUnits BY Zenon, <1>1, <1>2, ContractStutters
<1>3. CASE unit = FrameUnits
  <2>1. sent' = Append(sent, cur) BY Zenon, <1>1, <1>3
  <2>2. cur \in 1 .. MaxMsgs BY <1>1, SocketAssumption DEF SocketInv, TypeInv
  <2>3. \A i \in 1 .. Len(sent) : i \in 1 .. Len(sent') /\ sent'[i] = sent[i] BY <1>1, <2>1, AppendFacts
  <2>4. Cursor' = Cursor
    <3>1. CASE delivered = << >> BY Zenon, <1>1, <3>1 DEF Cursor
    <3>2. CASE delivered # << >>
      <4>1. Cursor \in 1 .. Len(sent) /\ sent[Cursor] = delivered[Len(delivered)] BY Zenon, <3>2, CursorPlace
      <4>2. PICK k : k = Cursor BY Zenon
      <4>3. k \in 1 .. Len(sent') /\ sent'[k] = delivered'[Len(delivered')] BY Zenon, <1>1, <2>3, <4>1, <4>2
      <4>4. Cursor' = k BY Zenon, <1>1, <3>2, <4>3, CursorPlaceNext
      <4>5. QED BY Zenon, <4>2, <4>4
    <3>3. QED BY Zenon, <3>1, <3>2
  <2>5. QED BY Zenon, <1>1, <2>1, <2>2, <2>4 DEF Contract!Accept
<1>4. QED BY Zenon, <1>2, <1>3

\* A call of the handler moves on to a later accepted message; those it skips were lost.
LEMMA HandlerHands ==
  ASSUME SocketInv, SocketInv', cpc = "handle", delivered' = Append(delivered, Message), UNCHANGED sent
  PROVE  Contract!Hand
<1>1. /\ got # << >> /\ InSent(Message) /\ Message \in Nat
      /\ delivered' \in Seq(Nat) /\ delivered'[Len(delivered')] = Message
  BY Zenon, HandedFacts
<1>2. delivered \in Seq(Nat) /\ sent \in Seq(Nat) /\ \A i, j \in 1 .. Len(sent) : i < j => sent[i] < sent[j]
  BY Zenon DEF SocketInv, TypeInv, OrderInv
<1>3. delivered' # << >> BY Zenon, <1>1, <1>2, AppendNonEmpty
<1>4. PICK k \in 1 .. Len(sent) : sent[k] = Message BY Zenon, <1>1 DEF InSent
<1>5. Cursor' = k BY Zenon, <1>1, <1>3, <1>4, CursorPlaceNext
<1>6. Len(sent) \in Nat /\ k \in Nat \ {0} BY <1>2, <1>4, LenFacts
<1>7. k \in Cursor + 1 .. Len(sent)
  <2>1. CASE delivered = << >>
    <3>1. Cursor = 0 BY Zenon, <2>1, CursorPlace
    <3>2. QED BY <1>4, <3>1
  <2>2. CASE delivered # << >>
    <3>1. PICK l : l = Cursor BY Zenon
    <3>2. l \in 1 .. Len(sent) /\ sent[l] = delivered[Len(delivered)] BY Zenon, <2>2, <3>1, CursorPlace
    <3>3. Taken BY Zenon, <1>1 DEF Taken
    <3>4. sent[l] < sent[k] BY Zenon, <1>4, <2>2, <3>2, <3>3 DEF SocketInv, DeliveredInv, Message
    <3>5. sent[l] \in Nat /\ sent[k] \in Nat BY Zenon, <1>2, <1>4, <3>2, ElementFacts
    <3>6. k # l /\ ~(sent[k] < sent[l]) BY <3>4, <3>5
    <3>7. ~(k < l) BY Zenon, <1>2, <1>4, <3>2, <3>6
    <3>8. l < k BY <1>6, <3>2, <3>6, <3>7
    <3>9. k \in l + 1 .. Len(sent) BY <1>4, <1>6, <3>2, <3>8
    <3>10. QED BY Zenon, <3>1, <3>9
  <2>3. QED BY Zenon, <2>1, <2>2
<1>8. QED BY Zenon, <1>4, <1>5, <1>7 DEF Contract!Hand

\* What the transport accepts it hands over in order, at most once and nothing else: the
\* steps that complete a send and those that call the handler are the contract's steps.
THEOREM SocketImplementsContract == Spec => ImplementsContract
<1>1. Init => Contract!CInit BY Zenon DEF Init, Contract!CInit, Cursor
<1>2. SocketInv /\ SocketInv' /\ [Next]_vars => [Contract!CNext]_(Contract!cvars)
  <2>1. SUFFICES ASSUME SocketInv, SocketInv', [Next]_vars
                 PROVE  Contract!CNext \/ UNCHANGED <<sent, Cursor, delivered>>
    BY Zenon DEF Contract!cvars
  <2>2. CASE UNCHANGED <<sent, delivered>> BY Zenon, <2>2, ContractStutters
  <2>3. CASE WriteUnit
    <3>1. Contract!Accept \/ UNCHANGED <<sent, Cursor, delivered>> BY Zenon, <2>1, <2>3, WriteAccepts
    <3>2. QED BY Zenon, <3>1 DEF Contract!CNext
  <2>4. CASE Handle \/ HandlerRuntimeError \/ HandlerThrows
    <3>1. cpc = "handle" /\ delivered' = Append(delivered, Message) /\ UNCHANGED sent
      BY Zenon, <2>4 DEF Handle, HandlerRuntimeError, HandlerThrows, others, prod
    <3>2. Contract!Hand BY Zenon, <2>1, <3>1, HandlerHands
    <3>3. QED BY Zenon, <3>2 DEF Contract!CNext
  <2>5. CASE Reconnect \/ Send \/ Connected \/ ConnectFails \/ WriteFails \/ ProducerDies
    BY Zenon, <2>2, <2>5 DEF Reconnect, Send, Connected, ConnectFails, WriteFails, ProducerDies, cons
  <2>6. CASE RunStart \/ LoopTest \/ PollAccept \/ Select \/ Read \/ ReadEnds \/ ReadFails \/ Check \/ Wait
    BY Zenon, <2>2, <2>6 DEF RunStart, LoopTest, PollAccept, Select, Read, ReadEnds, ReadFails, Check, Wait, others, prod
  <2>7. CASE Stop \/ InterruptWait \/ UNCHANGED vars
    BY Zenon, <2>2, <2>7 DEF Stop, InterruptWait, vars, prod, cons
  <2>8. QED BY Zenon, <2>1, <2>3, <2>4, <2>5, <2>6, <2>7 DEF Next, Producing, Looping
<1>3. QED BY <1>1, <1>2, SocketInvariant, PTL DEF Spec, ImplementsContract, Contract!CSpec

-----------------------------------------------------------------------------
(* Nothing is lost unless something failed.                                *)

\* Message m has reached the handler, is about to, or is on a connection to its last piece.
Delivered(m) == \E i \in 1 .. Len(delivered) : delivered[i] = m
InHand(m) == cpc = "handle" /\ got[1][1] = m
InFlight(m) == \E c \in Conns : \E k \in 1 .. Len(stream[c]) : stream[c][k] = <<m, FrameUnits>>
Kept(m) == Delivered(m) \/ InHand(m) \/ InFlight(m)

\* As long as nothing failed, a message whose send returned is not lost: not by reconnect(),
\* which leaves the old connection to be read to its end, nor by stop().
NothingLostUnlessFault == faults = 0 => \A i \in 1 .. Len(sent) : Kept(sent[i])

\* The producer's connection has both its ends: the consumer closes only one that the
\* producer has closed.
EndsInv ==
  /\ faults \in Nat
  /\ psock # 0 => pend[psock]
  /\ faults = 0 /\ psock # 0 => cend[psock]

\* A fault is counted.
LEMMA FaultCounts == ASSUME faults \in Nat, Fault PROVE faults' \in Nat /\ faults' # 0
  BY DEF Fault

\* Every step leaves both ends of the producer's connection open, or counts a fault.
LEMMA EndsKeep == ASSUME SocketInv, EndsInv, [Next]_vars PROVE EndsInv'
<1>1. faults \in Nat /\ (psock # 0 => psock \in Conns)
  BY SocketAssumption DEF SocketInv, TypeInv, EndsInv, Conns
<1>2. CASE UNCHANGED <<pend, cend, psock, faults>> BY Zenon, <1>2 DEF EndsInv
<1>3. CASE Send \/ ConnectFails \/ WriteUnit
  BY Zenon, <1>2, <1>3 DEF Send, ConnectFails, WriteUnit, net
<1>4. CASE RunStart \/ LoopTest \/ PollAccept \/ Select \/ Read \/ Handle \/ Check \/ Wait
  BY Zenon, <1>2, <1>4 DEF RunStart, LoopTest, PollAccept, Select, Read, Handle, Check, Wait, net, others, prod
<1>5. CASE Stop \/ InterruptWait \/ UNCHANGED vars
  BY Zenon, <1>2, <1>5 DEF Stop, InterruptWait, vars, net, prod
<1>6. CASE Reconnect \/ WriteFails \/ ProducerDies
  <2>1. psock' = 0 BY Zenon, <1>6 DEF Reconnect, WriteFails, ProducerDies, CloseProducer
  <2>2. Fault \/ faults' = faults BY Zenon, <1>6 DEF Reconnect, WriteFails, ProducerDies
  <2>3. faults' \in Nat BY Zenon, <1>1, <2>2, FaultCounts
  <2>4. QED BY Zenon, <2>1, <2>3 DEF EndsInv
<1>7. CASE Connected
  <2>1. /\ psock' = nconn' /\ faults' = faults /\ nconn' \in Conns
        /\ pend' = [pend EXCEPT ![nconn'] = TRUE] /\ cend' = [cend EXCEPT ![nconn'] = TRUE]
    BY <1>7, SocketAssumption DEF Connected, SocketInv, TypeInv, Conns
  <2>2. pend \in [Conns -> BOOLEAN] /\ cend \in [Conns -> BOOLEAN] BY Zenon DEF SocketInv, TypeInv
  <2>3. pend'[psock'] /\ cend'[psock'] BY Zenon, <2>1, <2>2
  <2>4. QED BY Zenon, <1>1, <2>1, <2>3 DEF EndsInv
<1>8. CASE ReadEnds
  <2>1. /\ cend' = [cend EXCEPT ![csock] = FALSE] /\ ~pend[csock]
        /\ pend' = pend /\ psock' = psock /\ faults' = faults
    BY Zenon, <1>8 DEF ReadEnds, CloseConsumer, others, prod
  <2>2. cend \in [Conns -> BOOLEAN] BY Zenon DEF SocketInv, TypeInv
  <2>3. psock # 0 => cend'[psock] = cend[psock] BY Zenon, <1>1, <2>1, <2>2 DEF EndsInv
  <2>4. QED BY Zenon, <2>1, <2>3 DEF EndsInv
<1>9. CASE HandlerRuntimeError \/ HandlerThrows \/ ReadFails
  <2>1. Fault /\ pend' = pend /\ psock' = psock
    BY Zenon, <1>9 DEF HandlerRuntimeError, HandlerThrows, ReadFails, net, prod
  <2>2. faults' \in Nat /\ faults' # 0 BY Zenon, <1>1, <2>1, FaultCounts
  <2>3. QED BY Zenon, <2>1, <2>2 DEF EndsInv
<1>10. QED BY Zenon, <1>3, <1>4, <1>5, <1>6, <1>7, <1>8, <1>9 DEF Next, Producing, Looping

\* A step that completes no send and drops no message.
LEMMA KeptSame ==
  ASSUME NothingLostUnlessFault, sent' = sent, faults' = faults, \A m : Kept(m) => Kept(m)'
  PROVE  NothingLostUnlessFault'
  BY Zenon DEF NothingLostUnlessFault

\* The last piece of a message goes to a connection the consumer will read.
LEMMA KeptWrite == ASSUME SocketInv, EndsInv, NothingLostUnlessFault, WriteUnit PROVE NothingLostUnlessFault'
<1>1. /\ unit \in 1 .. FrameUnits /\ psock \in Conns /\ cur \in Nat
      /\ sent' = (IF unit = FrameUnits THEN Append(sent, cur) ELSE sent)
      /\ UNCHANGED <<cpc, got, delivered>>
      /\ stream \in [Conns -> Seq(Piece)] /\ sent \in Seq(Nat)
  BY Zenon, WriteFacts
<1>2. faults' = faults /\ psock # 0 BY Zenon DEF WriteUnit
<1>3. SUFFICES ASSUME faults = 0 PROVE NothingLostUnlessFault' BY Zenon, <1>2 DEF NothingLostUnlessFault
<1>4. stream' = [stream EXCEPT ![psock] = Append(@, <<cur, unit>>)]
  BY Zenon, <1>2, <1>3 DEF WriteUnit, EndsInv
<1>5. PICK p : p = <<cur, unit>> BY Zenon
<1>6. p \in Piece BY <1>1, <1>5, SocketAssumption DEF Piece
<1>7. PICK s : s = stream[psock] BY Zenon
<1>8. s \in Seq(Piece) BY Zenon, <1>1, <1>7
<1>9. stream'[psock] = Append(s, p) /\ \A c \in Conns : c # psock => stream'[c] = stream[c]
  BY Zenon, <1>1, <1>4, <1>5, <1>7
<1>10. /\ Len(s) \in Nat /\ Len(Append(s, p)) = Len(s) + 1
       /\ \A k \in 1 .. Len(s) : Append(s, p)[k] = s[k]
       /\ Append(s, p)[Len(s) + 1] = p
  BY <1>6, <1>8, AppendFacts
<1>11. Len(s) + 1 \in 1 .. Len(Append(s, p)) /\ \A k \in 1 .. Len(s) : k \in 1 .. Len(Append(s, p))
  BY <1>10
<1>12. ASSUME NEW m, InFlight(m) PROVE InFlight(m)'
  <2>1. PICK c \in Conns : \E k \in 1 .. Len(stream[c]) : stream[c][k] = <<m, FrameUnits>>
    BY Zenon, <1>12 DEF InFlight
  <2>2. PICK k \in 1 .. Len(stream[c]) : stream[c][k] = <<m, FrameUnits>> BY Zenon, <2>1
  <2>3. k \in 1 .. Len(stream'[c]) /\ stream'[c][k] = <<m, FrameUnits>>
    <3>1. CASE c = psock
      <4>1. k \in 1 .. Len(s) /\ s[k] = <<m, FrameUnits>> BY Zenon, <1>7, <2>2, <3>1
      <4>2. QED BY Zenon, <1>9, <1>10, <1>11, <3>1, <4>1
    <3>2. CASE c # psock BY Zenon, <1>9, <2>2, <3>2
    <3>3. QED BY Zenon, <3>1, <3>2
  <2>4. QED BY Zenon, <2>3 DEF InFlight
<1>13. \A m : Kept(m) => Kept(m)' BY Zenon, <1>1, <1>12 DEF Kept, Delivered, InHand
<1>14. CASE unit # FrameUnits
  <2>1. sent' = sent BY Zenon, <1>1, <1>14
  <2>2. QED BY Zenon, <1>2, <1>13, <2>1, KeptSame
<1>15. CASE unit = FrameUnits
  <2>1. /\ Len(sent) \in Nat /\ Len(sent') = Len(sent) + 1
        /\ (\A i \in 1 .. Len(sent) : sent'[i] = sent[i]) /\ sent'[Len(sent) + 1] = cur
    BY <1>1, <1>15, AppendFacts
  <2>2. \A i \in 1 .. Len(sent') : i \in 1 .. Len(sent) \/ i = Len(sent) + 1 BY <2>1
  <2>3. stream'[psock][Len(s) + 1] = <<cur, FrameUnits>> BY Zenon, <1>5, <1>9, <1>10, <1>15
  <2>4. InFlight(cur)'
    <3>1. cur' = cur BY Zenon DEF WriteUnit
    <3>2. Len(s) + 1 \in 1 .. Len(stream'[psock]) BY Zenon, <1>9, <1>11
    <3>3. QED BY Zenon, <1>1, <2>3, <3>1, <3>2 DEF InFlight
  <2>5. ASSUME NEW i \in 1 .. Len(sent'), NEW m, m = sent'[i] PROVE Kept(m)'
    <3>1. CASE i \in 1 .. Len(sent)
      <4>1. m = sent[i] BY Zenon, <2>1, <2>5, <3>1
      <4>2. Kept(m) BY Zenon, <1>3, <3>1, <4>1 DEF NothingLostUnlessFault
      <4>3. QED BY Zenon, <1>13, <4>2
    <3>2. CASE i = Len(sent) + 1
      <4>1. m = cur /\ cur' = cur BY Zenon, <2>1, <2>5, <3>2 DEF WriteUnit
      <4>2. QED BY Zenon, <2>4, <4>1 DEF Kept, InFlight
    <3>3. QED BY Zenon, <2>2, <3>1, <3>2
  <2>6. QED BY Zenon, <2>5 DEF NothingLostUnlessFault
<1>16. QED BY Zenon, <1>14, <1>15

\* The last piece of a frame leaves the connection when the frame is complete.
LEMMA KeptRead == ASSUME SocketInv, NothingLostUnlessFault, Read PROVE NothingLostUnlessFault'
<1>1. /\ cpc = "read" /\ stream' = [stream EXCEPT ![csock] = Tail(@)]
      /\ cpc' = (IF Len(got') = FrameUnits THEN "handle" ELSE "read")
      /\ UNCHANGED <<sent, faults, delivered>>
  BY Zenon DEF Read, others, prod
<1>2. PICK s : s = stream[csock] BY Zenon
<1>3. PICK p : p = s[1] BY Zenon
<1>4. /\ csock \in Conns /\ s \in Seq(Piece) /\ Len(s) \in Nat \ {0}
      /\ Len(got') = p[2] /\ got'[1][1] = p[1]
  BY Zenon, <1>2, <1>3, ReadFacts
<1>5. stream \in [Conns -> Seq(Piece)] BY Zenon DEF SocketInv, TypeInv
<1>6. stream'[csock] = Tail(s) /\ \A c \in Conns : c # csock => stream'[c] = stream[c]
  BY Zenon, <1>1, <1>2, <1>4, <1>5
<1>7. s # << >> BY Zenon, <1>2 DEF Read
<1>8. Len(Tail(s)) = Len(s) - 1 /\ \A i \in 1 .. Len(s) - 1 : Tail(s)[i] = s[i + 1]
  BY Zenon, <1>4, <1>7, TailFacts
<1>9. ASSUME NEW m, InFlight(m) PROVE InFlight(m)' \/ InHand(m)'
  <2>1. PICK c \in Conns : \E k \in 1 .. Len(stream[c]) : stream[c][k] = <<m, FrameUnits>>
    BY Zenon, <1>9 DEF InFlight
  <2>2. PICK k \in 1 .. Len(stream[c]) : stream[c][k] = <<m, FrameUnits>> BY Zenon, <2>1
  <2>3. CASE c # csock
    <3>1. stream'[c] = stream[c] BY Zenon, <1>6, <2>3
    <3>2. QED BY Zenon, <2>2, <3>1 DEF InFlight
  <2>4. CASE c = csock /\ k # 1
    <3>1. k \in 1 .. Len(s) /\ s[k] = <<m, FrameUnits>> BY Zenon, <1>2, <2>2, <2>4
    <3>2. k - 1 \in 1 .. Len(s) - 1 /\ (k - 1) + 1 = k BY <1>4, <2>4, <3>1
    <3>3. k - 1 \in 1 .. Len(stream'[c]) /\ stream'[c][k - 1] = <<m, FrameUnits>>
      BY Zenon, <1>6, <1>8, <2>4, <3>1, <3>2
    <3>4. QED BY Zenon, <3>3 DEF InFlight
  <2>5. CASE c = csock /\ k = 1
    <3>1. p = <<m, FrameUnits>> BY Zenon, <1>2, <1>3, <2>2, <2>5
    <3>2. p[1] = m /\ p[2] = FrameUnits BY <3>1
    <3>3. cpc' = "handle" /\ got'[1][1] = m BY Zenon, <1>1, <1>4, <3>2
    <3>4. QED BY Zenon, <3>3 DEF InHand
  <2>6. QED BY Zenon, <2>3, <2>4, <2>5
<1>10. \A m : Kept(m) => Kept(m)' BY Zenon, <1>1, <1>9 DEF Kept, Delivered, InHand
<1>11. QED BY Zenon, <1>1, <1>10, KeptSame

\* The message in hand is delivered.
LEMMA KeptHandle == ASSUME SocketInv, NothingLostUnlessFault, Handle PROVE NothingLostUnlessFault'
<1>1. /\ cpc = "handle" /\ delivered' = Append(delivered, Message)
      /\ UNCHANGED <<stream, sent, faults>>
  BY Zenon DEF Handle, net, others, prod
<1>2. Message \in Nat BY Zenon, <1>1, HandedFacts
<1>3. delivered \in Seq(Nat) BY Zenon DEF SocketInv, TypeInv
<1>4. /\ Len(delivered) \in Nat /\ Len(delivered') = Len(delivered) + 1
      /\ \A i \in 1 .. Len(delivered) : delivered'[i] = delivered[i]
      /\ delivered'[Len(delivered) + 1] = Message
  BY <1>1, <1>2, <1>3, AppendFacts
<1>5. Len(delivered) + 1 \in 1 .. Len(delivered') /\ \A i \in 1 .. Len(delivered) : i \in 1 .. Len(delivered')
  BY <1>4
<1>6. \A m : Delivered(m) \/ InHand(m) => Delivered(m)' BY Zenon, <1>4, <1>5 DEF Delivered, InHand, Message
<1>7. \A m : Kept(m) => Kept(m)' BY Zenon, <1>1, <1>6 DEF Kept, InFlight
<1>8. QED BY Zenon, <1>1, <1>7, KeptSame

\* A connection is closed when it has been read to its end.
LEMMA KeptReadEnds == ASSUME SocketInv, NothingLostUnlessFault, ReadEnds PROVE NothingLostUnlessFault'
<1>1. /\ cpc = "read" /\ cpc' = "check" /\ stream[csock] = << >>
      /\ stream' = [stream EXCEPT ![csock] = << >>]
      /\ UNCHANGED <<delivered, sent, faults>>
  BY Zenon DEF ReadEnds, CloseConsumer, others, prod
<1>2. stream \in [Conns -> Seq(Piece)] BY Zenon DEF SocketInv, TypeInv
<1>3. \A c \in Conns : stream'[c] = stream[c] BY Zenon, <1>1, <1>2
<1>4. \A m : Kept(m) => Kept(m)' BY Zenon, <1>1, <1>3 DEF Kept, Delivered, InHand, InFlight
<1>5. QED BY Zenon, <1>1, <1>4, KeptSame

\* Every step keeps the messages, or counts a fault.
LEMMA KeptNext ==
  ASSUME SocketInv, EndsInv, NothingLostUnlessFault, [Next]_vars
  PROVE  NothingLostUnlessFault'
<1>1. CASE Fault
  <2>1. faults' # 0 BY Zenon, <1>1, FaultCounts DEF EndsInv
  <2>2. QED BY Zenon, <2>1 DEF NothingLostUnlessFault
<1>2. CASE /\ UNCHANGED <<stream, delivered, sent, faults>>
           /\ (cpc = "handle" => cpc' = "handle" /\ got' = got)
  <2>1. \A m : Kept(m) => Kept(m)' BY Zenon, <1>2 DEF Kept, Delivered, InHand, InFlight
  <2>2. QED BY Zenon, <1>2, <2>1, KeptSame
<1>3. CASE Send \/ ConnectFails \/ Reconnect \/ Connected
  BY Zenon, <1>2, <1>3 DEF Send, ConnectFails, Reconnect, Connected, net, cons
<1>4. CASE WriteFails \/ ProducerDies
  BY Zenon, <1>1, <1>2, <1>4 DEF WriteFails, ProducerDies, cons
<1>5. CASE RunStart \/ LoopTest \/ PollAccept \/ Select \/ Check \/ Wait
  BY Zenon, <1>2, <1>5 DEF RunStart, LoopTest, PollAccept, Select, Check, Wait, net, others, prod
<1>6. CASE Stop \/ InterruptWait \/ UNCHANGED vars
  BY Zenon, <1>2, <1>6 DEF Stop, InterruptWait, vars, net, prod, cons
<1>7. CASE HandlerRuntimeError \/ HandlerThrows \/ ReadFails
  BY Zenon, <1>1, <1>7 DEF HandlerRuntimeError, HandlerThrows, ReadFails
<1>8. QED BY Zenon, <1>3, <1>4, <1>5, <1>6, <1>7, KeptWrite, KeptRead, KeptHandle, KeptReadEnds
          DEF Next, Producing, Looping

\* As long as no read or write failed, no producer died and no handler threw, every message whose
\* send returned has been handled, is being handled, or can still be read from a
\* connection, through any number of reconnects and calls of stop().
THEOREM NothingLostAlways == Spec => []NothingLostUnlessFault
<1>1. Init => EndsInv /\ NothingLostUnlessFault
  <2>1. SUFFICES ASSUME Init PROVE EndsInv /\ NothingLostUnlessFault BY Zenon
  <2>2. faults = 0 /\ psock = 0 /\ sent = << >> BY Zenon, <2>1 DEF Init
  <2>3. 1 .. Len(sent) = {} /\ faults \in Nat BY <2>2
  <2>4. QED BY Zenon, <2>2, <2>3 DEF EndsInv, NothingLostUnlessFault
<1>2. SocketInv /\ EndsInv /\ NothingLostUnlessFault /\ [Next]_vars => EndsInv' /\ NothingLostUnlessFault'
  BY Zenon, EndsKeep, KeptNext
<1>3. QED BY <1>1, <1>2, SocketInvariant, PTL DEF Spec

-----------------------------------------------------------------------------
(* stop() and the wait.                                                    *)

\* A consumer that waits after running_ became false has the byte of interrupt_wait in its
\* wake pair, or the stopping thread is about to put it there.
StopReachesWait == cpc = "wait" /\ ~running => wake \/ spc = "interrupt"

\* stop() is not missed by socket_consumer::wait, wherever it falls between the test of
\* running_, the select and the draining of an earlier byte.
THEOREM StopReachesWaitAlways == Spec => []StopReachesWait
<1>1. Init => StopReachesWait BY Zenon DEF Init, StopReachesWait
<1>2. StopReachesWait /\ [Next]_vars => StopReachesWait'
  <2>1. SUFFICES ASSUME StopReachesWait, [Next]_vars PROVE StopReachesWait' BY Zenon
  <2>2. CASE Reconnect \/ Send \/ Connected \/ ConnectFails \/ WriteUnit \/ WriteFails \/ ProducerDies
    BY Zenon, <2>1, <2>2
       DEF StopReachesWait, Reconnect, Send, Connected, ConnectFails, WriteUnit, WriteFails, ProducerDies, cons, stopper
  <2>3. CASE RunStart \/ LoopTest \/ PollAccept \/ Select \/ Read \/ ReadEnds \/ ReadFails
    BY <2>3 DEF StopReachesWait, RunStart, LoopTest, PollAccept, Select, Read, ReadEnds, ReadFails
  <2>4. CASE Handle \/ HandlerRuntimeError \/ HandlerThrows \/ Check \/ Wait
    BY <2>4 DEF StopReachesWait, Handle, HandlerRuntimeError, HandlerThrows, Check, Wait
  <2>5. CASE Stop \/ InterruptWait \/ UNCHANGED vars
    BY Zenon, <2>1, <2>5 DEF StopReachesWait, Stop, InterruptWait, vars, cons, stopper
  <2>6. QED BY Zenon, <2>1, <2>2, <2>3, <2>4, <2>5 DEF Next, Producing, Looping
<1>3. QED BY <1>1, <1>2, PTL DEF Spec
================================================================================
