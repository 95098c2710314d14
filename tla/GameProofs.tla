----------------------------- MODULE GameProofs -----------------------------
(***************************************************************************)
(* What the pages of the canvas game show, for any number of players: the  *)
(* invariants behind PagesAgree, GoneStayGone and ServerForgets.  They say *)
(* what is in the queues, first of one session and then of one page about  *)
(* another player.                                                         *)
(***************************************************************************)
EXTENDS Game, TLAPS

Pages == {"away", "open", "leaving", "gone", "closed"}
Names == Known \cup Commands \cup {"absent"}
Hero  == [pos : Nat \cup {Nowhere}, type : Names]
Events == {"add", "move", "command", "say", "remove"}
Asks   == {"listen", "listenRemove", "sync"}
Event  == [topic : Events, id : Player, pos : Nat, type : Names]
Msg    == [topic : Events \cup Asks, id : Player, pos : Nat, type : Names]
Answer == [topic : {"sync"}, data : [Player -> Hero]]

Typed ==
  /\ page \in [Player -> Pages]
  /\ mine \in [Player -> [pos : Nat, type : Known]]
  /\ heros \in [Player -> [Player \cup {Nobody} -> Hero]]
  /\ up \in [Player -> Seq(Msg)]
  /\ down \in [Player -> Seq(Event \cup Answer)]
  /\ data \in [Player -> Hero]
  /\ topics \in [Player -> SUBSET {"move", "msg", "add", "remove"}]
  /\ told \in [Player -> SUBSET Player]
  /\ late \subseteq Player /\ odd \subseteq Player

At(s) == 1 .. Len(s)

-----------------------------------------------------------------------------
(* One session: what it has sent, what the server keeps of it.              *)

Own(q) == \A i \in At(up[q]) : up[q][i].id = q

\* Before a page is opened nothing of it is anywhere; a closed one is forgotten.
Unborn(q) ==
  /\ page[q] = "away" => up[q] = <<>> /\ data[q] = Absent /\ mine[q].type = "hero"
  /\ page[q] = "closed" => up[q] = <<>> /\ data[q] = Absent
  /\ q \in late => page[q] \notin {"away", "open"}

\* One who takes leave says nothing after that, unless it is late.
Leaves(q) ==
  \A i \in At(up[q]) : up[q][i].topic = "remove" =>
     /\ page[q] \notin {"away", "open"}
     /\ q \notin late => i = Len(up[q])

\* An open page is in the data of the server or on its way there, and nothing
\* overtakes its char_add.
Placed(q) ==
  /\ page[q] = "open" => data[q] # Absent \/ \E j \in At(up[q]) : up[q][j].topic = "add"
  /\ q \notin late =>
       /\ data[q] = Absent \/ data[q].pos \in Nat
       /\ \A i \in At(up[q]) : up[q][i].topic \in {"move", "command"} /\ data[q] = Absent =>
            \E j \in 1 .. i - 1 : up[q][j].topic = "add"

\* The page subscribes before it calls "synchronize".
Subscribes(q) ==
  page[q] = "open" =>
    \/ {"move", "msg", "add"} \subseteq topics[q]
    \/ Len(up[q]) >= 4 /\ up[q][1].topic = "listen" /\ up[q][4].topic = "sync"

\* The type of the hero: what was sent last of it is what it is, and every
\* char_move says the type that the server has by then.
Wears(m) == m.topic \in {"add", "move", "command"}
DressedIn(s, d, type) ==
  /\ d # Absent => d.type \in Known
  /\ \A i \in 1 .. Len(s) : s[i].topic = "command" => s[i].type \in Known
  /\ \A j \in 1 .. Len(s) : s[j].topic = "move" /\ (\A i \in 1 .. j - 1 : ~Wears(s[i]))
       => s[j].type = d.type
  /\ \A j \in 1 .. Len(s) : \A i \in 1 .. j - 1 :
       s[j].topic = "move" /\ Wears(s[i]) /\ (\A k \in i + 1 .. j - 1 : ~Wears(s[k]))
       => s[j].type = s[i].type
  /\ (\A i \in 1 .. Len(s) : ~Wears(s[i])) => type = d.type
  /\ \A i \in 1 .. Len(s) :
       Wears(s[i]) /\ (\A k \in i + 1 .. Len(s) : ~Wears(s[k])) => type = s[i].type
Dressed(q) ==
  page[q] = "open" =>
    /\ \A i \in At(up[q]) : up[q][i].topic = "add" => up[q][i].type = "hero"
    /\ q \notin odd => DressedIn(up[q], data[q], mine[q].type)

Session(q) == Own(q) /\ Unborn(q) /\ Leaves(q) /\ Placed(q) /\ Subscribes(q) /\ Dressed(q)

-----------------------------------------------------------------------------
(* One page: what it shows and what is on its way to it.                    *)

\* Messages after which hero q is drawn, is drawn no more, has its place or its
\* type from them.
Raises(m, q) == \/ m.topic = "add" /\ m.id = q
                \/ m.topic = "sync" /\ m.data[q].pos # Nowhere
Fells(m, q)  == m.topic = "remove" /\ m.id = q
Puts(m, q)    == Raises(m, q) \/ (m.topic = "move" /\ m.id = q)
Dresses(m, q) == Raises(m, q) \/ (m.topic = "command" /\ m.id = q /\ m.type \in Known)
PosIn(m, q)   == IF m.topic = "sync" THEN m.data[q].pos ELSE m.pos
TypeIn(m, q)  == IF m.topic = "sync" THEN m.data[q].type
                 ELSE IF m.topic = "add" THEN "hero" ELSE m.type

\* A page that is not there has no messages and no heroes.
Empty(p) == page[p] \notin Up => down[p] = <<>> /\ heros[p] = NoHeros

\* A player whose removal was sent is gone from the server, and whatever draws
\* it again on page p is followed by its removal.
Forgotten(p, q) ==
  q \in told[p] \ late =>
    /\ up[q] = <<>> /\ data[q] = Absent /\ page[q] \notin {"away", "open"}
    /\ heros[p][q] # Absent => \E k \in At(down[p]) : Fells(down[p][k], q)
    /\ \A i \in At(down[p]) : Raises(down[p][i], q) =>
         \E k \in i + 1 .. Len(down[p]) : Fells(down[p][k], q)

\* Nobody is told of its own leave.
NotOwn(p) == p \notin told[p]

\* Nobody is not drawn.
NoNobody(p) ==
  late = {} =>
    /\ heros[p][Nobody] = Absent
    /\ \A i \in At(down[p]) : down[p][i].topic = "sync" =>
         \A r \in Player : down[p][i].data[r] = Absent \/ down[p][i].data[r].pos \in Nat

Asked(p) == page[p] = "open" /\ \A i \in At(up[p]) : up[p][i].topic # "sync"

\* What page p shows once it has heard what is on its way to it is what the
\* server has of hero q: the last message that says it, or else what it shows now.
Drawn(p, q) == heros[p][q] # Absent \/ \E i \in At(down[p]) : Raises(down[p][i], q)
PutLast(p, q) ==
  \A i \in At(down[p]) :
    Puts(down[p][i], q) /\ (\A k \in i + 1 .. Len(down[p]) : ~Puts(down[p][k], q))
    => PosIn(down[p][i], q) = data[q].pos
PutNow(p, q) == (\A i \in At(down[p]) : ~Puts(down[p][i], q)) => heros[p][q].pos = data[q].pos
DressedLast(p, q) ==
  \A i \in At(down[p]) :
    Dresses(down[p][i], q) /\ (\A k \in i + 1 .. Len(down[p]) : ~Dresses(down[p][k], q))
    => TypeIn(down[p][i], q) = data[q].type
DressedNow(p, q) ==
  (\A i \in At(down[p]) : ~Dresses(down[p][i], q)) => heros[p][q].type = data[q].type
Shows(p, q) ==
  /\ Drawn(p, q) /\ PutLast(p, q) /\ PutNow(p, q)
  /\ q \notin odd => DressedLast(p, q) /\ DressedNow(p, q)

\* An open player is not on the way out of page p, and page p shows it once the
\* server has answered "synchronize".
Follows(p, q) ==
  /\ page[q] \in {"away", "open"} => \A i \in At(down[p]) : ~Fells(down[p][i], q)
  /\ page[q] = "open" /\ Asked(p) /\ data[q] # Absent => Shows(p, q)

Inv ==
  /\ Typed
  /\ \A q \in Player : Session(q)
  /\ \A p \in Player : Empty(p) /\ NotOwn(p) /\ NoNobody(p)
  /\ \A p, q \in Player : p # q => Forgotten(p, q) /\ Follows(p, q)
-----------------------------------------------------------------------------
(* Sequences, element by element.                                           *)
LEMMA AppendAt ==
    ASSUME NEW S, NEW s \in Seq(S), NEW e \in S
    PROVE  /\ Append(s, e) \in Seq(S) /\ Len(s) \in Nat
           /\ Len(Append(s, e)) = Len(s) + 1
           /\ \A i \in 1 .. Len(s) : Append(s, e)[i] = s[i]
           /\ Append(s, e)[Len(s) + 1] = e
  OBVIOUS

LEMMA TailAt ==
    ASSUME NEW S, NEW s \in Seq(S), s # <<>>
    PROVE  /\ Tail(s) \in Seq(S) /\ Len(s) \in Nat /\ Len(s) >= 1
           /\ Len(Tail(s)) = Len(s) - 1
           /\ \A i \in 1 .. Len(s) - 1 : Tail(s)[i] = s[i + 1]
           /\ Head(s) = s[1] /\ Head(s) \in S
  OBVIOUS

LEMMA PrefixAt ==
    ASSUME NEW S, NEW s \in Seq(S), NEW n \in 0 .. Len(s)
    PROVE  /\ SubSeq(s, 1, n) \in Seq(S)
           /\ Len(SubSeq(s, 1, n)) = n
           /\ \A i \in 1 .. n : SubSeq(s, 1, n)[i] = s[i]
  OBVIOUS

LEMMA EmptyAt ==
    ASSUME NEW S, NEW s \in Seq(S)
    PROVE  s = <<>> <=> Len(s) = 0
  OBVIOUS

-----------------------------------------------------------------------------
(* Types.                                                                   *)
LEMMA Constants ==
  /\ Absent \in Hero /\ Absent.pos = Nowhere /\ Nowhere \notin Nat
  /\ Known \subseteq Names /\ "hero" \in Known /\ "absent" \notin Known /\ Nobody \notin Player
  /\ NoHeros \in [Player \cup {Nobody} -> Hero]
  BY GameAssumption DEF Absent, Hero, Names, Nowhere, NoHeros

LEMMA MessageType ==
    ASSUME NEW topic \in Events \cup Asks, NEW p \in Player,
           NEW h \in [pos : Nat, type : Names]
    PROVE  /\ Message(topic, p, h) \in Msg
           /\ Message(topic, p, h).topic = topic /\ Message(topic, p, h).id = p
           /\ Message(topic, p, h).pos = h.pos /\ Message(topic, p, h).type = h.type
  BY DEF Message, Msg

LEMMA CopyType ==
    ASSUME NEW x \in Nat \cup {Nowhere}, NEW type
    PROVE  Copy(x, type) \in Hero
  BY Constants DEF Copy, Hero

\* The types of what belongs to one player.
LEMMA TypedAt ==
    ASSUME Typed, NEW p \in Player
    PROVE  /\ page[p] \in Pages /\ mine[p] \in [pos : Nat, type : Known]
           /\ heros[p] \in [Player \cup {Nobody} -> Hero]
           /\ up[p] \in Seq(Msg) /\ down[p] \in Seq(Event \cup Answer)
           /\ data[p] \in Hero /\ told[p] \subseteq Player
           /\ topics[p] \subseteq {"move", "msg", "add", "remove"}
<1> DEFINE H == [Player \cup {Nobody} -> Hero]
           M == [pos : Nat, type : Known]
           U == Seq(Msg)
           D == Seq(Event \cup Answer)
<1>1. /\ page \in [Player -> Pages] /\ mine \in [Player -> M]
      /\ heros \in [Player -> H] /\ up \in [Player -> U] /\ down \in [Player -> D]
      /\ data \in [Player -> Hero] /\ told \in [Player -> SUBSET Player]
      /\ topics \in [Player -> SUBSET {"move", "msg", "add", "remove"}]
  BY DEF Typed
<1> HIDE DEF H, M, U, D
<1>2. /\ page[p] \in Pages /\ mine[p] \in M /\ heros[p] \in H /\ up[p] \in U
      /\ down[p] \in D /\ data[p] \in Hero /\ told[p] \subseteq Player
      /\ topics[p] \subseteq {"move", "msg", "add", "remove"}
  BY <1>1
<1> QED BY <1>2 DEF H, M, U, D

\* What a page makes of a message is a page's heroes again.
LEMMA HeardType ==
    ASSUME Typed, NEW p \in Player, NEW m \in Event \cup Answer
    PROVE  Heard(p, m) \in [Player \cup {Nobody} -> Hero]
<1> DEFINE H == [Player \cup {Nobody} -> Hero]
<1>1. heros[p] \in H /\ \A q \in Player \cup {Nobody} : heros[p][q] \in Hero
  BY TypedAt
<1>2. CASE m \in Answer
  <2>1. m.topic = "sync" /\ m.data \in [Player -> Hero]
    BY <1>2 DEF Answer
  <2>2. Heard(p, m) = Synchronized(p, m.data)
    BY <2>1 DEF Heard
  <2>3. \A q \in Player : m.data[q].pos \in Nat \cup {Nowhere}
    BY <2>1 DEF Hero
  <2>4. Nowhere \in Nat \cup {Nowhere}
    OBVIOUS
  <2> DEFINE s == Synchronized(p, m.data)
  <2>5. DOMAIN heros[p] = Player \cup {Nobody}
    BY <1>1
  <2>6. \A q \in Player \cup {Nobody} : s[q] \in Hero
    <3>1. /\ Copy(Nowhere, "hero") \in Hero
          /\ \A q \in Player : Copy(m.data[q].pos, m.data[q].type) \in Hero
      BY <2>3, <2>4, CopyType
    <3> QED BY <1>1, <2>5, <3>1 DEF Synchronized
  <2>7. s = [q \in Player \cup {Nobody} |-> s[q]]
    BY <2>5 DEF Synchronized
  <2> HIDE DEF s
  <2> QED BY <2>2, <2>6, <2>7 DEF s
<1>3. CASE m \in Event
  <2>1. m.id \in Player /\ m.pos \in Nat /\ m.topic \in Events /\ m.type \in Names
    BY <1>3 DEF Event
  <2>2. Copy(m.pos, "hero") \in Hero
    BY <2>1, CopyType
  <2>3. CASE m.topic = "add"
    BY <1>1, <2>1, <2>2, <2>3 DEF Heard
  <2>4. CASE m.topic = "move"
    <3>1. [heros[p][m.id] EXCEPT !.pos = m.pos] \in Hero
      BY <1>1, <2>1 DEF Hero
    <3> QED BY <1>1, <2>1, <2>4, <3>1 DEF Heard
  <2>5. CASE m.topic = "command"
    <3>1. [heros[p][m.id] EXCEPT !.type = m.type] \in Hero
      BY <1>1, <2>1 DEF Hero
    <3> QED BY <1>1, <2>1, <2>5, <3>1 DEF Heard
  <2>6. CASE m.topic = "say"
    BY <1>1, <2>6 DEF Heard
  <2>7. CASE m.topic = "remove"
    BY <1>1, <2>1, <2>7, Constants DEF Heard
  <2> QED BY <2>1, <2>3, <2>4, <2>5, <2>6, <2>7 DEF Events
<1> QED BY <1>2, <1>3

\* What the server keeps is a hero, and places never get lost.
LEMMA DataType ==
    ASSUME Typed, NEW p \in Player, NEW m \in Msg
    PROVE  Data(p, m) \in Hero
<1>1. data[p] \in Hero /\ m.pos \in Nat /\ m.type \in Names
  BY TypedAt DEF Msg
<1>2. [pos |-> m.pos, type |-> m.type] \in Hero /\ [data[p] EXCEPT !.type = m.type] \in Hero
  BY <1>1 DEF Hero
<1> QED BY <1>1, <1>2, Constants DEF Data

-----------------------------------------------------------------------------
(* What the actions do, element by element.                                 *)

\* A function changed at one point.
LEMMA ChangedAt ==
    ASSUME NEW A, NEW S, NEW f \in [A -> S], NEW a \in A, NEW x \in S
    PROVE  /\ [f EXCEPT ![a] = x] \in [A -> S]
           /\ [f EXCEPT ![a] = x][a] = x
           /\ \A b \in A \ {a} : [f EXCEPT ![a] = x][b] = f[b]
  OBVIOUS

\* The server takes the first message of a session.
LEMMA Took ==
    ASSUME Typed, NEW p \in Player, OnMessage(p)
    PROVE  LET m == up[p][1]
           IN /\ m \in Msg /\ Len(up[p]) \in Nat /\ Len(up[p]) >= 1
              /\ up'[p] = Tail(up[p]) /\ Len(up'[p]) = Len(up[p]) - 1
              /\ \A i \in 1 .. Len(up[p]) - 1 : up'[p][i] = up[p][i + 1]
              /\ \A q \in Player \ {p} :
                   up'[q] = up[q] /\ data'[q] = data[q] /\ topics'[q] = topics[q]
              /\ data'[p] = Data(p, m)
              /\ topics[p] \subseteq topics'[p]
              /\ m.topic = "listen" => {"move", "msg", "add"} \subseteq topics'[p]
              /\ \A q \in Player \ {p} :
                   /\ down'[q] = IF m.topic \in Events /\ Topic(m) \in topics[q] /\ page[q] \in Up
                                 THEN Append(down[q], m) ELSE down[q]
                   /\ told'[q] = IF m.topic = "remove" /\ "remove" \in topics[q]
                                 THEN told[q] \cup {p} ELSE told[q]
              /\ down'[p] = IF m.topic = "sync" /\ page[p] \in Up
                            THEN Append(down[p], [topic |-> "sync", data |-> data]) ELSE down[p]
              /\ told'[p] = told[p]
              /\ page' = page /\ mine' = mine /\ heros' = heros /\ late' = late /\ odd' = odd
              /\ up' \in [Player -> Seq(Msg)] /\ data' \in [Player -> Hero]
              /\ topics' \in [Player -> SUBSET {"move", "msg", "add", "remove"}]
              /\ told' \in [Player -> SUBSET Player]
              /\ down' \in [Player -> Seq(Event \cup Answer)]
<1> DEFINE m == up[p][1]
           U == Seq(Msg)
           D == Seq(Event \cup Answer)
           a == [topic |-> "sync", data |-> data]
<1>1. /\ up \in [Player -> U] /\ down \in [Player -> D] /\ data \in [Player -> Hero]
      /\ topics \in [Player -> SUBSET {"move", "msg", "add", "remove"}]
      /\ told \in [Player -> SUBSET Player]
  BY DEF Typed
<1>2. /\ up[p] \in Seq(Msg) /\ up[p] # <<>> /\ up'= [up EXCEPT ![p] = Tail(@)]
      /\ page' = page /\ mine' = mine /\ heros' = heros /\ late' = late /\ odd' = odd
  BY TypedAt DEF OnMessage
<1>3. /\ Tail(up[p]) \in U /\ Len(up[p]) \in Nat /\ Len(up[p]) >= 1
      /\ Len(Tail(up[p])) = Len(up[p]) - 1
      /\ \A i \in 1 .. Len(up[p]) - 1 : Tail(up[p])[i] = up[p][i + 1]
      /\ Head(up[p]) = m /\ m \in Msg
  BY <1>2, TailAt
<1>4. m.topic \in Events \cup Asks /\ m.id \in Player
  BY <1>3 DEF Msg
<1>5. \A q \in Player : m.topic \in Events => Append(down[q], m) \in D
  <2> SUFFICES ASSUME NEW q \in Player, m.topic \in Events PROVE Append(down[q], m) \in D
    OBVIOUS
  <2>1. m \in Event \cup Answer
    BY <1>3 DEF Msg, Event
  <2> QED BY <2>1, TypedAt, AppendAt
<1>6. \A q \in Player : Append(down[q], a) \in D
  <2>1. a \in Event \cup Answer
    BY <1>1 DEF Answer
  <2> QED BY <2>1, TypedAt, AppendAt
<1>7. Data(p, m) \in Hero
  BY <1>3, DataType
<1> HIDE DEF m, U, D, a
<1>8. /\ up' \in [Player -> U] /\ up'[p] = Tail(up[p])
      /\ \A q \in Player \ {p} : up'[q] = up[q]
  BY <1>1, <1>2, <1>3, ChangedAt
<1> DEFINE R == /\ \A q \in Player \ {p} : data'[q] = data[q] /\ topics'[q] = topics[q]
                /\ data'[p] = Data(p, m)
                /\ topics[p] \subseteq topics'[p]
                /\ m.topic = "listen" => {"move", "msg", "add"} \subseteq topics'[p]
                /\ \A q \in Player \ {p} :
                     /\ down'[q] = IF m.topic \in Events /\ Topic(m) \in topics[q] /\ page[q] \in Up
                                   THEN Append(down[q], m) ELSE down[q]
                     /\ told'[q] = IF m.topic = "remove" /\ "remove" \in topics[q]
                                   THEN told[q] \cup {p} ELSE told[q]
                /\ down'[p] = IF m.topic = "sync" /\ page[p] \in Up
                              THEN Append(down[p], a) ELSE down[p]
                /\ told'[p] = told[p]
                /\ data' \in [Player -> Hero]
                /\ topics' \in [Player -> SUBSET {"move", "msg", "add", "remove"}]
                /\ told' \in [Player -> SUBSET Player]
                /\ down' \in [Player -> D]
<1>9. ASSUME m.topic \in {"listen", "listenRemove"} PROVE R
  <2>1. OnSubscribe(p, m)
    BY <1>3, <1>9 DEF OnMessage
  <2>2. /\ data' = data /\ down' = down /\ told' = told /\ m.topic \notin Events
        /\ topics' = [topics EXCEPT ![p] =
             @ \cup (IF m.topic = "listen" THEN {"move", "msg", "add"} ELSE {"remove"})]
        /\ Data(p, m) = data[p] /\ m.topic # "sync" /\ m.topic # "remove"
    BY <2>1, <1>9 DEF OnSubscribe, Data, Events
  <2> QED BY <2>2, <1>1
<1>10. ASSUME m.topic = "sync" PROVE R
  <2>1. OnCall(p)
    BY <1>3, <1>10 DEF OnMessage
  <2>2. /\ data' = data /\ topics' = topics /\ told' = told /\ m.topic \notin Events
        /\ down' = IF page[p] \in Up THEN [down EXCEPT ![p] = Append(@, a)] ELSE down
        /\ Data(p, m) = data[p] /\ m.topic # "listen" /\ m.topic # "remove"
    BY <2>1, <1>10 DEF OnCall, Data, Events, a
  <2> QED BY <2>2, <1>1, <1>6, <1>10, ChangedAt
<1>11. ASSUME m.topic \in Events PROVE R
  <2>1. OnPublish(p, m)
    BY <1>3, <1>11 DEF OnMessage, Events
  <2> DEFINE to == {q \in Player \ {p} : Topic(m) \in topics[q]}
  <2>2. /\ data' = [data EXCEPT ![p] = Data(p, m)] /\ topics' = topics
        /\ down' = [q \in Player |-> IF q \in to /\ page[q] \in Up
                                     THEN Append(down[q], m) ELSE down[q]]
        /\ told' = IF m.topic = "remove"
                   THEN [q \in Player |-> IF q \in to THEN told[q] \cup {p} ELSE told[q]] ELSE told
        /\ m.topic # "listen" /\ m.topic # "sync"
        /\ m.topic = "remove" => Topic(m) = "remove"
    BY <2>1, <1>11 DEF OnPublish, Events, Topic
  <2>3. \A q \in Player : down[q] \in D
    BY <1>1
  <2>4. /\ data' \in [Player -> Hero] /\ data'[p] = Data(p, m)
        /\ \A q \in Player \ {p} : data'[q] = data[q]
    BY <2>2, <1>1, <1>7, ChangedAt
  <2>5. down' \in [Player -> D]
    BY <2>2, <2>3, <1>5, <1>11
  <2>6. told' \in [Player -> SUBSET Player]
    BY <2>2, <1>1
  <2> QED BY <2>2, <2>4, <2>5, <2>6, <1>1, <1>11
<1> HIDE DEF R
<1>12. R
  BY <1>4, <1>9, <1>10, <1>11 DEF Asks
<1> QED BY <1>2, <1>3, <1>8, <1>12 DEF m, U, D, a, R

\* A page sends something.
LEMMA Spoke ==
    ASSUME Typed, NEW p \in Player, NEW m \in Msg, up' = [up EXCEPT ![p] = Append(@, m)]
    PROVE  /\ up' \in [Player -> Seq(Msg)] /\ Len(up[p]) \in Nat
           /\ up'[p] = Append(up[p], m) /\ Len(up'[p]) = Len(up[p]) + 1
           /\ \A i \in 1 .. Len(up[p]) : up'[p][i] = up[p][i]
           /\ up'[p][Len(up[p]) + 1] = m
           /\ \A q \in Player \ {p} : up'[q] = up[q]
<1> DEFINE U == Seq(Msg)
<1>1. /\ Append(up[p], m) \in U /\ Len(up[p]) \in Nat
      /\ Len(Append(up[p], m)) = Len(up[p]) + 1
      /\ \A i \in 1 .. Len(up[p]) : Append(up[p], m)[i] = up[p][i]
      /\ Append(up[p], m)[Len(up[p]) + 1] = m
  BY TypedAt, AppendAt
<1>2. up \in [Player -> U]
  BY DEF Typed
<1> HIDE DEF U
<1>3. up' \in [Player -> U] /\ up'[p] = Append(up[p], m) /\ \A q \in Player \ {p} : up'[q] = up[q]
  BY <1>1, <1>2, ChangedAt
<1> QED BY <1>1, <1>3 DEF U

\* What Update and SendMessage have a page publish.
LEMMA Published ==
    ASSUME Typed, NEW p \in Player, page[p] \in Up, NEW topic \in Events,
           NEW h \in [pos : Nat, type : Names], Publish(p, topic, h)
    PROVE  LET m == Message(topic, p, h)
           IN /\ m \in Msg /\ m.topic = topic /\ m.id = p /\ m.pos = h.pos /\ m.type = h.type
              /\ up' = [up EXCEPT ![p] = Append(@, m)]
              /\ late \subseteq late' /\ late' \subseteq Player
              /\ \A q \in Player \ {p} : q \in late' <=> q \in late
              /\ page[p] = "leaving" => p \in late'
              /\ p \in late' => p \in late \/ page[p] = "leaving"
  BY MessageType DEF Publish, Typed

LEMMA GreetingAt ==
    ASSUME Typed, NEW p \in Player
    PROVE  /\ Greeting(p) \in Seq(Msg) /\ Len(Greeting(p)) = 4
           /\ \A i \in 1 .. 4 : Greeting(p)[i].id = p /\ Greeting(p)[i].type = mine[p].type
           /\ Greeting(p)[1].topic = "listen" /\ Greeting(p)[2].topic = "listenRemove"
           /\ Greeting(p)[3].topic = "add" /\ Greeting(p)[4].topic = "sync"
<1>1. mine[p] \in [pos : Nat, type : Names]
  BY TypedAt, Constants
<1>2. /\ Message("sync", p, mine[p]) \in Msg /\ Message("listen", p, mine[p]) \in Msg
      /\ Message("listenRemove", p, mine[p]) \in Msg /\ Message("add", p, mine[p]) \in Msg
  BY <1>1, MessageType DEF Events, Asks
<1>3. Greeting(p) \in Seq(Msg) /\ Len(Greeting(p)) = 4
  BY <1>2 DEF Greeting
<1>4. /\ Greeting(p)[1] = Message("listen", p, mine[p])
      /\ Greeting(p)[2] = Message("listenRemove", p, mine[p])
      /\ Greeting(p)[3] = Message("add", p, mine[p]) /\ Greeting(p)[4] = Message("sync", p, mine[p])
  BY DEF Greeting
<1>5. \A i \in 1 .. 4 : i = 1 \/ i = 2 \/ i = 3 \/ i = 4
  OBVIOUS
<1> QED BY <1>3, <1>4, <1>5 DEF Message

\* A page is opened.
LEMMA Opened ==
    ASSUME Typed, NEW p \in Player, Open(p)
    PROVE  /\ page[p] = "away" /\ page'[p] = "open" /\ up'[p] = Greeting(p)
           /\ \A q \in Player \ {p} : page'[q] = page[q] /\ up'[q] = up[q]
           /\ page' \in [Player -> Pages] /\ up' \in [Player -> Seq(Msg)]
           /\ UNCHANGED <<mine, heros, down, data, topics, told, late, odd>>
<1> DEFINE U == Seq(Msg)
<1>1. page \in [Player -> Pages] /\ up \in [Player -> U] /\ "open" \in Pages /\ Greeting(p) \in U
  BY GreetingAt DEF Typed, Pages
<1> HIDE DEF U
<1>2. /\ page[p] = "away" /\ page' = [page EXCEPT ![p] = "open"]
      /\ up' = [up EXCEPT ![p] = Greeting(p)]
      /\ UNCHANGED <<mine, heros, down, data, topics, told, late, odd>>
  BY DEF Open
<1> QED BY <1>1, <1>2, ChangedAt DEF U

\* The hero moves.
LEMMA Updated ==
    ASSUME Typed, NEW p \in Player, NEW returns \in BOOLEAN, Update(p, returns)
    PROVE  /\ page[p] \in Up
           /\ mine' \in [Player -> [pos : Nat, type : Known]] /\ mine'[p].type = mine[p].type
           /\ \A q \in Player \ {p} : mine'[q] = mine[q]
           /\ UNCHANGED <<page, heros, down, data, topics, told, odd>>
           /\ \/ UNCHANGED <<up, late>>
              \/ \E h \in [pos : Nat, type : Names] :
                   h.type = mine[p].type /\ Publish(p, "move", h)
<1> DEFINE M == [pos : Nat, type : Known]
           h == [mine[p] EXCEPT !.pos = @ + 1]
<1>1. mine \in [Player -> M] /\ mine[p] \in [pos : Nat, type : Known]
  BY DEF Typed
<1>2. h \in M /\ h.type = mine[p].type /\ h \in [pos : Nat, type : Names]
  BY <1>1, Constants
<1>3. /\ page[p] \in Up /\ mine' = [mine EXCEPT ![p] = h]
      /\ UNCHANGED <<page, heros, down, data, topics, told, odd>>
      /\ UNCHANGED <<up, late>> \/ Publish(p, "move", h)
  BY DEF Update
<1> HIDE DEF M, h
<1>4. mine' \in [Player -> M] /\ mine'[p] = h /\ \A q \in Player \ {p} : mine'[q] = mine[q]
  BY <1>1, <1>2, <1>3, ChangedAt
<1> QED BY <1>2, <1>3, <1>4 DEF M

\* The player types a message.
LEMMA Sent ==
    ASSUME Typed, NEW p \in Player, NEW command \in BOOLEAN, NEW rest \in Commands,
           SendMessage(p, command, rest)
    PROVE  /\ page[p] \in Up
           /\ mine' \in [Player -> [pos : Nat, type : Known]]
           /\ mine'[p].type = IF rest \in Known THEN rest ELSE mine[p].type
           /\ \A q \in Player \ {p} : mine'[q] = mine[q] /\ (q \in odd' <=> q \in odd)
           /\ odd \subseteq odd' /\ odd' \subseteq Player
           /\ p \notin odd' => command = (rest \in Known)
           /\ UNCHANGED <<page, heros, down, data, topics, told>>
           /\ \E h \in [pos : Nat, type : Names] :
                h.type = rest /\ Publish(p, IF command THEN "command" ELSE "say", h)
<1> DEFINE M == [pos : Nat, type : Known]
           h == [mine[p] EXCEPT !.type = rest]
           x == [mine[p] EXCEPT !.type = IF rest \in Known THEN rest ELSE @]
<1>1. mine \in [Player -> M] /\ mine[p] \in [pos : Nat, type : Known] /\ odd \subseteq Player
  BY DEF Typed
<1>2. /\ x \in M /\ x.type = IF rest \in Known THEN rest ELSE mine[p].type
      /\ h.type = rest /\ h \in [pos : Nat, type : Names]
  BY <1>1, Constants DEF Names
<1>3. /\ page[p] \in Up /\ mine' = [mine EXCEPT ![p] = x]
      /\ UNCHANGED <<page, heros, down, data, topics, told>>
      /\ Publish(p, IF command THEN "command" ELSE "say", h)
      /\ odd' = odd \cup (IF command = (rest \in Known) THEN {} ELSE {p})
  BY DEF SendMessage
<1> HIDE DEF M, h, x
<1>4. mine' \in [Player -> M] /\ mine'[p] = x /\ \A q \in Player \ {p} : mine'[q] = mine[q]
  BY <1>1, <1>2, <1>3, ChangedAt
<1> QED BY <1>1, <1>2, <1>3, <1>4 DEF M

\* The player takes leave.
LEMMA Left ==
    ASSUME Typed, NEW p \in Player, BeforeUnload(p)
    PROVE  LET m == Message("remove", p, mine[p])
           IN /\ page[p] = "open" /\ page'[p] = "leaving" /\ page' \in [Player -> Pages]
              /\ \A q \in Player \ {p} : page'[q] = page[q]
              /\ m \in Msg /\ m.topic = "remove" /\ m.id = p
              /\ up' = [up EXCEPT ![p] = Append(@, m)]
              /\ UNCHANGED <<mine, heros, down, data, topics, told, late, odd>>
<1>1. mine[p] \in [pos : Nat, type : Names] /\ "remove" \in Events \cup Asks
  BY TypedAt, Constants DEF Events
<1>2. page \in [Player -> Pages]
  BY DEF Typed
<1>3. /\ page[p] = "open" /\ page' = [page EXCEPT ![p] = "leaving"]
      /\ up' = [up EXCEPT ![p] = Append(@, Message("remove", p, mine[p]))]
      /\ UNCHANGED <<mine, heros, down, data, topics, told, late, odd>>
  BY DEF BeforeUnload
<1>4. /\ page' \in [Player -> Pages] /\ page'[p] = "leaving"
      /\ \A q \in Player \ {p} : page'[q] = page[q]
  BY <1>2, <1>3, ChangedAt DEF Pages
<1>5. LET m == Message("remove", p, mine[p])
      IN m \in Msg /\ m.topic = "remove" /\ m.id = p
  BY <1>1, MessageType
<1> QED BY <1>3, <1>4, <1>5

\* The socket ends.
LEMMA Vanished ==
    ASSUME Typed, NEW p \in Player, Vanish(p)
    PROVE  /\ page[p] \in Up /\ page'[p] = "gone" /\ page' \in [Player -> Pages]
           /\ up' \in [Player -> Seq(Msg)] /\ Len(up[p]) \in Nat
           /\ \E n \in 0 .. Len(up[p]) :
                Len(up'[p]) = n /\ \A i \in 1 .. n : up'[p][i] = up[p][i]
           /\ up[p] = <<>> => up'[p] = <<>>
           /\ down'[p] = <<>> /\ heros'[p] = NoHeros
           /\ down' \in [Player -> Seq(Event \cup Answer)]
           /\ heros' \in [Player -> [Player \cup {Nobody} -> Hero]]
           /\ \A q \in Player \ {p} : /\ page'[q] = page[q] /\ up'[q] = up[q]
                                    /\ down'[q] = down[q] /\ heros'[q] = heros[q]
           /\ UNCHANGED <<mine, data, topics, told, late, odd>>
<1> DEFINE U == Seq(Msg)
           D == Seq(Event \cup Answer)
           H == [Player \cup {Nobody} -> Hero]
<1>1. PICK n \in 0 .. Len(up[p]) : up' = [up EXCEPT ![p] = SubSeq(@, 1, n)]
  BY DEF Vanish
<1>2. /\ SubSeq(up[p], 1, n) \in U /\ Len(SubSeq(up[p], 1, n)) = n /\ Len(up[p]) \in Nat
      /\ \A i \in 1 .. n : SubSeq(up[p], 1, n)[i] = up[p][i]
      /\ up[p] = <<>> => SubSeq(up[p], 1, n) = <<>>
  <2>1. up[p] \in Seq(Msg)
    BY TypedAt
  <2>2. SubSeq(up[p], 1, n) \in Seq(Msg) /\ Len(SubSeq(up[p], 1, n)) = n
    BY <2>1, PrefixAt
  <2>3. up[p] = <<>> => n = 0
    BY <2>1
  <2>4. n = 0 => SubSeq(up[p], 1, n) = <<>>
    BY <2>2, EmptyAt
  <2> QED BY <2>1, <2>2, <2>3, <2>4, PrefixAt
<1>3. <<>> \in D /\ NoHeros \in H /\ "gone" \in Pages
  BY Constants DEF Pages
<1>4. page \in [Player -> Pages] /\ up \in [Player -> U] /\ down \in [Player -> D] /\ heros \in [Player -> H]
  BY DEF Typed
<1>5. /\ page[p] \in Up /\ page' = [page EXCEPT ![p] = "gone"]
      /\ down' = [down EXCEPT ![p] = <<>>] /\ heros' = [heros EXCEPT ![p] = NoHeros]
      /\ UNCHANGED <<mine, data, topics, told, late, odd>>
  BY DEF Vanish
<1> HIDE DEF U, D, H
<1>6. /\ up' \in [Player -> U] /\ up'[p] = SubSeq(up[p], 1, n)
      /\ \A q \in Player \ {p} : up'[q] = up[q]
  BY <1>1, <1>2, <1>4, ChangedAt
<1>7. /\ down' \in [Player -> D] /\ down'[p] = <<>>
      /\ \A q \in Player \ {p} : down'[q] = down[q]
  BY <1>3, <1>4, <1>5, ChangedAt
<1>8. /\ heros' \in [Player -> H] /\ heros'[p] = NoHeros
      /\ \A q \in Player \ {p} : heros'[q] = heros[q]
  BY <1>3, <1>4, <1>5, ChangedAt
<1>9. /\ page' \in [Player -> Pages] /\ page'[p] = "gone"
      /\ \A q \in Player \ {p} : page'[q] = page[q]
  BY <1>3, <1>4, <1>5, ChangedAt
<1>10. \E k \in 0 .. Len(up[p]) : Len(up'[p]) = k /\ \A i \in 1 .. k : up'[p][i] = up[p][i]
  <2>1. Len(up'[p]) = n /\ \A i \in 1 .. n : up'[p][i] = up[p][i]
    BY <1>2, <1>6
  <2> QED BY <2>1
<1>11. up[p] = <<>> => up'[p] = <<>>
  BY <1>2, <1>6
<1> QED BY <1>2, <1>5, <1>6, <1>7, <1>8, <1>9, <1>10, <1>11 DEF U, D, H

\* The page hears the first message on its way to it.
LEMMA Received ==
    ASSUME Typed, NEW p \in Player, Receive(p)
    PROVE  LET m == down[p][1]
           IN /\ page[p] \in Up /\ m \in Event \cup Answer
              /\ Len(down[p]) \in Nat /\ Len(down[p]) >= 1 /\ Len(down'[p]) = Len(down[p]) - 1
              /\ \A i \in 1 .. Len(down[p]) - 1 : down'[p][i] = down[p][i + 1]
              /\ heros'[p] = Heard(p, m)
              /\ \A q \in Player \ {p} : down'[q] = down[q] /\ heros'[q] = heros[q]
              /\ down' \in [Player -> Seq(Event \cup Answer)]
              /\ heros' \in [Player -> [Player \cup {Nobody} -> Hero]]
              /\ UNCHANGED <<page, mine, up, data, topics, acts, told, late, odd>>
<1> DEFINE D == Seq(Event \cup Answer)
           H == [Player \cup {Nobody} -> Hero]
           m == down[p][1]
<1>1. /\ page[p] \in Up /\ down[p] # <<>>
      /\ heros' = [heros EXCEPT ![p] = Heard(p, Head(down[p]))]
      /\ down' = [down EXCEPT ![p] = Tail(@)]
      /\ UNCHANGED <<page, mine, up, data, topics, acts, told, late, odd>>
  BY DEF Receive
<1>2. /\ Tail(down[p]) \in D /\ Len(down[p]) \in Nat /\ Len(down[p]) >= 1
      /\ Len(Tail(down[p])) = Len(down[p]) - 1
      /\ \A i \in 1 .. Len(down[p]) - 1 : Tail(down[p])[i] = down[p][i + 1]
      /\ Head(down[p]) = m /\ m \in Event \cup Answer
  BY <1>1, TypedAt, TailAt
<1>3. Heard(p, m) \in H /\ down \in [Player -> D] /\ heros \in [Player -> H]
  BY <1>2, HeardType DEF Typed
<1> HIDE DEF D, H, m
<1>4. /\ down' \in [Player -> D] /\ down'[p] = Tail(down[p])
      /\ \A q \in Player \ {p} : down'[q] = down[q]
  BY <1>1, <1>2, <1>3, ChangedAt
<1>5. /\ heros' \in [Player -> H] /\ heros'[p] = Heard(p, m)
      /\ \A q \in Player \ {p} : heros'[q] = heros[q]
  BY <1>1, <1>2, <1>3, ChangedAt
<1> QED BY <1>1, <1>2, <1>4, <1>5 DEF D, H, m

\* The server learns that the socket has ended.
LEMMA Closed ==
    ASSUME Typed, NEW p \in Player, OnClose(p)
    PROVE  /\ page[p] = "gone" /\ up[p] = <<>> /\ page'[p] = "closed"
           /\ data'[p] = Absent /\ topics'[p] = {}
           /\ \A q \in Player \ {p} :
                page'[q] = page[q] /\ data'[q] = data[q] /\ topics'[q] = topics[q]
           /\ page' \in [Player -> Pages] /\ data' \in [Player -> Hero]
           /\ topics' \in [Player -> SUBSET {"move", "msg", "add", "remove"}]
           /\ UNCHANGED <<mine, heros, up, down, told, late, odd>>
<1> DEFINE T == SUBSET {"move", "msg", "add", "remove"}
<1>1. /\ page \in [Player -> Pages] /\ data \in [Player -> Hero] /\ topics \in [Player -> T]
      /\ "closed" \in Pages /\ Absent \in Hero /\ {} \in T
  BY Constants DEF Typed, Pages
<1>2. /\ page[p] = "gone" /\ up[p] = <<>>
      /\ page' = [page EXCEPT ![p] = "closed"]
      /\ topics' = [topics EXCEPT ![p] = {}] /\ data' = [data EXCEPT ![p] = Absent]
      /\ UNCHANGED <<mine, heros, up, down, told, late, odd>>
  BY DEF OnClose
<1> HIDE DEF T
<1> QED BY <1>1, <1>2, ChangedAt DEF T

LEMMA TypeKeeps ==
    ASSUME Typed, [Next]_vars
    PROVE  Typed'
<1> DEFINE U == Seq(Msg)
           D == Seq(Event \cup Answer)
           H == [Player \cup {Nobody} -> Hero]
           M == [pos : Nat, type : Known]
           T == SUBSET {"move", "msg", "add", "remove"}
           Types == /\ page' \in [Player -> Pages] /\ mine' \in [Player -> M]
                    /\ heros' \in [Player -> H] /\ up' \in [Player -> U]
                    /\ down' \in [Player -> D] /\ data' \in [Player -> Hero]
                    /\ topics' \in [Player -> T] /\ told' \in [Player -> SUBSET Player]
                    /\ late' \subseteq Player /\ odd' \subseteq Player
<1>1. /\ page \in [Player -> Pages] /\ mine \in [Player -> M]
      /\ heros \in [Player -> H] /\ up \in [Player -> U]
      /\ down \in [Player -> D] /\ data \in [Player -> Hero]
      /\ topics \in [Player -> T] /\ told \in [Player -> SUBSET Player]
      /\ late \subseteq Player /\ odd \subseteq Player
  BY DEF Typed
<1>2. ASSUME NEW p \in Player, OnMessage(p) PROVE Types
  <2>1. /\ up' \in [Player -> U] /\ data' \in [Player -> Hero] /\ topics' \in [Player -> T]
        /\ told' \in [Player -> SUBSET Player] /\ down' \in [Player -> D]
        /\ page' = page /\ mine' = mine /\ heros' = heros /\ late' = late /\ odd' = odd
    BY <1>2, Took
  <2> HIDE DEF U, D, H, M, T
  <2> QED BY <1>1, <2>1
<1>3. ASSUME NEW p \in Player, Receive(p) PROVE Types
  <2>1. /\ down' \in [Player -> D] /\ heros' \in [Player -> H]
        /\ UNCHANGED <<page, mine, up, data, topics, acts, told, late, odd>>
    BY <1>3, Received
  <2> HIDE DEF U, D, H, M, T
  <2> QED BY <1>1, <2>1
<1>4. ASSUME NEW p \in Player, OnClose(p) PROVE Types
  <2>1. /\ page' \in [Player -> Pages] /\ data' \in [Player -> Hero] /\ topics' \in [Player -> T]
        /\ UNCHANGED <<mine, heros, up, down, told, late, odd>>
    BY <1>4, Closed
  <2> HIDE DEF U, D, H, M, T
  <2> QED BY <1>1, <2>1
<1>5. ASSUME NEW p \in Player, Open(p) PROVE Types
  <2>1. /\ page' \in [Player -> Pages] /\ up' \in [Player -> U]
        /\ UNCHANGED <<mine, heros, down, data, topics, told, late, odd>>
    BY <1>5, Opened
  <2> HIDE DEF U, D, H, M, T
  <2> QED BY <1>1, <2>1
<1>6. ASSUME NEW p \in Player, NEW topic \in Events, NEW h \in [pos : Nat, type : Names],
             page[p] \in Up, Publish(p, topic, h)
      PROVE  up' \in [Player -> U] /\ late' \subseteq Player
  BY <1>6, Published, Spoke
<1>7. ASSUME NEW p \in Player, NEW returns \in BOOLEAN, Update(p, returns) PROVE Types
  <2>1. /\ page[p] \in Up /\ mine' \in [Player -> M]
        /\ UNCHANGED <<page, heros, down, data, topics, told, odd>>
        /\ \/ UNCHANGED <<up, late>>
           \/ \E h \in [pos : Nat, type : Names] : Publish(p, "move", h)
    BY <1>7, Updated
  <2>2. up' \in [Player -> U] /\ late' \subseteq Player
    BY <1>1, <1>6, <2>1 DEF Events
  <2> HIDE DEF U, D, H, M, T
  <2> QED BY <1>1, <2>1, <2>2
<1>8. ASSUME NEW p \in Player, NEW command \in BOOLEAN, NEW rest \in Commands,
             SendMessage(p, command, rest)
      PROVE  Types
  <2>1. /\ page[p] \in Up /\ mine' \in [Player -> M] /\ odd' \subseteq Player
        /\ UNCHANGED <<page, heros, down, data, topics, told>>
        /\ \E h \in [pos : Nat, type : Names] : Publish(p, IF command THEN "command" ELSE "say", h)
    BY <1>8, Sent
  <2>2. (IF command THEN "command" ELSE "say") \in Events
    BY DEF Events
  <2>3. up' \in [Player -> U] /\ late' \subseteq Player
    BY <1>6, <2>1, <2>2
  <2> HIDE DEF U, D, H, M, T
  <2> QED BY <1>1, <2>1, <2>3
<1>9. ASSUME NEW p \in Player, BeforeUnload(p) PROVE Types
  <2>1. /\ page' \in [Player -> Pages] /\ up' \in [Player -> U]
        /\ UNCHANGED <<mine, heros, down, data, topics, told, late, odd>>
    BY <1>9, Left, Spoke
  <2> HIDE DEF U, D, H, M, T
  <2> QED BY <1>1, <2>1
<1>10. ASSUME NEW p \in Player, Vanish(p) PROVE Types
  <2>1. /\ page' \in [Player -> Pages] /\ up' \in [Player -> U] /\ down' \in [Player -> D]
        /\ heros' \in [Player -> H] /\ UNCHANGED <<mine, data, topics, told, late, odd>>
    BY <1>10, Vanished
  <2> HIDE DEF U, D, H, M, T
  <2> QED BY <1>1, <2>1
<1>11. CASE UNCHANGED vars
  <2> HIDE DEF U, D, H, M, T
  <2> QED BY <1>1, <1>11 DEF vars, Typed, U, D, H, M, T
<1>12. Types => Typed'
  BY DEF Typed
<1> HIDE DEF Types
<1> QED BY <1>2, <1>3, <1>4, <1>5, <1>7, <1>8, <1>9, <1>10, <1>11, <1>12 DEF Next, Network, Users

-----------------------------------------------------------------------------
(* One session is kept: by the actions of others, by what its page sends,   *)
(* by what the server takes, by the end of the socket.                      *)

LEMMA SessionAlone ==
    ASSUME NEW q \in Player, Session(q),
           page'[q] = page[q], mine'[q] = mine[q], up'[q] = up[q], data'[q] = data[q],
           topics'[q] = topics[q], q \in late' <=> q \in late, q \in odd' <=> q \in odd
    PROVE  Session(q)'
<1>1. Own(q)'
  BY DEF Session, Own, At
<1>2. Unborn(q)'
  BY DEF Session, Unborn
<1>3. Leaves(q)'
  BY DEF Session, Leaves, At
<1>4. Placed(q)'
  BY DEF Session, Placed, At
<1>5. Subscribes(q)'
  BY DEF Session, Subscribes
<1>6. Dressed(q)'
  BY DEF Session, Dressed, At, Wears
<1> QED BY <1>1, <1>2, <1>3, <1>4, <1>5, <1>6 DEF Session

\* What a page sends is its own, is the last if it takes leave, and comes
\* behind its char_add.
LEMMA SessionSpoke ==
    ASSUME Typed, NEW q \in Player, Session(q), NEW m \in Msg, page[q] \in Up,
           up' = [up EXCEPT ![q] = Append(@, m)], m.id = q, m.topic \in Events,
           UNCHANGED <<data, topics>>, q \in late => q \in late',
           q \in late' => page'[q] \notin {"away", "open"}, page'[q] \in Up,
           page'[q] = "open" => page[q] = "open",
           m.topic = "remove" => page'[q] = "leaving" /\ page[q] = "open",
           m.topic # "remove" => page'[q] = page[q] /\ (page[q] = "leaving" => q \in late')
    PROVE  Own(q)' /\ Unborn(q)' /\ Leaves(q)' /\ Placed(q)' /\ Subscribes(q)'
<1> DEFINE n == Len(up[q])
<1>1. /\ n \in Nat /\ Len(up'[q]) = n + 1
      /\ \A i \in 1 .. n : up'[q][i] = up[q][i]
      /\ up'[q][n + 1] = m
  BY Spoke
<1>2. data'[q] = data[q] /\ topics'[q] = topics[q]
  OBVIOUS
<1> HIDE DEF n
<1>3. \A i \in 1 .. n + 1 : i \in 1 .. n \/ i = n + 1
  BY <1>1
<1>4. Own(q)'
  BY <1>1, <1>3 DEF Session, Own, At, n
<1>5. Unborn(q)'
  BY DEF Unborn, Up
<1>6. Leaves(q)'
  <2> SUFFICES ASSUME NEW i \in 1 .. n + 1, up'[q][i].topic = "remove"
               PROVE  page'[q] \notin {"away", "open"} /\ (q \notin late' => i = n + 1)
    BY <1>1 DEF Leaves, At
  <2>1. CASE i \in 1 .. n
    <3>1. page[q] \notin {"away", "open"}
      BY <1>1, <2>1 DEF Session, Leaves, At, n
    <3>2. m.topic # "remove" /\ page[q] = "leaving"
      BY <3>1 DEF Up
    <3> QED BY <3>2
  <2>2. CASE i = n + 1
    BY <1>1, <2>2
  <2> QED BY <1>3, <2>1, <2>2
<1>7. Placed(q)'
  <2>1. page'[q] = "open" => data'[q] # Absent \/ \E j \in 1 .. n + 1 : up'[q][j].topic = "add"
    BY <1>1, <1>2, <1>3 DEF Session, Placed, At, n
  <2>2. q \notin late' => data'[q] = Absent \/ data'[q].pos \in Nat
    BY <1>2 DEF Session, Placed
  <2>3. ASSUME q \notin late', NEW i \in 1 .. n + 1, up'[q][i].topic \in {"move", "command"},
               data'[q] = Absent
        PROVE  \E j \in 1 .. i - 1 : up'[q][j].topic = "add"
    <3>1. CASE i \in 1 .. n
      <4>1. \E j \in 1 .. i - 1 : up[q][j].topic = "add"
        BY <1>1, <1>2, <2>3, <3>1 DEF Session, Placed, At, n
      <4> QED BY <1>1, <3>1, <4>1
    <3>2. CASE i = n + 1
      <4>1. page[q] = "open"
        BY <1>1, <2>3, <3>2 DEF Up
      <4>2. PICK j \in 1 .. n : up[q][j].topic = "add"
        BY <1>2, <2>3, <4>1 DEF Session, Placed, At, n
      <4>3. j \in 1 .. i - 1 /\ up'[q][j] = up[q][j]
        BY <1>1, <3>2
      <4> QED BY <4>2, <4>3
    <3> QED BY <1>3, <3>1, <3>2
  <2> QED BY <1>1, <2>1, <2>2, <2>3 DEF Placed, At
<1>8. Subscribes(q)'
  <2>1. ASSUME page'[q] = "open", ~ ({"move", "msg", "add"} \subseteq topics'[q])
        PROVE  Len(up'[q]) >= 4 /\ up'[q][1].topic = "listen" /\ up'[q][4].topic = "sync"
    <3>1. n >= 4 /\ up[q][1].topic = "listen" /\ up[q][4].topic = "sync"
      BY <1>2, <2>1 DEF Session, Subscribes, n
    <3>2. 1 \in 1 .. n /\ 4 \in 1 .. n
      BY <1>1, <3>1
    <3> QED BY <1>1, <3>1, <3>2
  <2> QED BY <2>1 DEF Subscribes
<1> QED BY <1>4, <1>5, <1>6, <1>7, <1>8

\* What there is to say of the types of what has been sent, after a step.
LEMMA DressedThen ==
    ASSUME NEW q, NEW s, s = up'[q],
           \A i \in 1 .. Len(s) : s[i].topic = "add" => s[i].type = "hero",
           q \notin odd' => DressedIn(s, data'[q], mine'[q].type)
    PROVE  Dressed(q)'
  BY DEF Dressed, DressedIn, At, Wears

\* What a page sends is in the type of its hero.
LEMMA DressedSpoke ==
    ASSUME Typed, NEW q \in Player, Session(q), NEW m \in Msg,
           up' = [up EXCEPT ![q] = Append(@, m)], UNCHANGED data,
           page'[q] = "open" => page[q] = "open" /\ m.topic # "add",
           q \in odd => q \in odd',
           page'[q] = "open" /\ q \notin odd' =>
             \/ m.topic = "move" /\ m.type = mine[q].type /\ mine'[q].type = mine[q].type
             \/ m.topic = "command" /\ m.type \in Known /\ mine'[q].type = m.type
             \/ m.topic = "say" /\ mine'[q].type = mine[q].type
    PROVE  Dressed(q)'
<1> DEFINE n == Len(up[q])
<1>1. /\ n \in Nat /\ Len(up'[q]) = n + 1
      /\ \A i \in 1 .. n : up'[q][i] = up[q][i]
      /\ up'[q][n + 1] = m
  BY Spoke
<1>2. data'[q] = data[q]
  OBVIOUS
<1> SUFFICES ASSUME page'[q] = "open" PROVE Dressed(q)'
  BY DEF Dressed
<1>3. page[q] = "open" /\ m.topic # "add"
  OBVIOUS
<1>4. /\ \A i \in 1 .. n : up[q][i].topic = "add" => up[q][i].type = "hero"
      /\ q \notin odd =>
       /\ data[q] # Absent => data[q].type \in Known
       /\ \A i \in 1 .. n : up[q][i].topic = "command" => up[q][i].type \in Known
       /\ \A j \in 1 .. n : up[q][j].topic = "move" /\ (\A i \in 1 .. j - 1 : ~Wears(up[q][i]))
            => up[q][j].type = data[q].type
       /\ \A j \in 1 .. n : \A i \in 1 .. j - 1 :
            up[q][j].topic = "move" /\ Wears(up[q][i]) /\ (\A k \in i + 1 .. j - 1 : ~Wears(up[q][k]))
            => up[q][j].type = up[q][i].type
       /\ (\A i \in 1 .. n : ~Wears(up[q][i])) => mine[q].type = data[q].type
       /\ \A i \in 1 .. n :
            Wears(up[q][i]) /\ (\A k \in i + 1 .. n : ~Wears(up[q][k])) => mine[q].type = up[q][i].type
  BY <1>3 DEF Session, Dressed, DressedIn, At
<1> HIDE DEF n
<1>5. \A i \in 1 .. n + 1 : i \in 1 .. n \/ i = n + 1
  BY <1>1
<1>6. \A i \in 1 .. n + 1 : up'[q][i].topic = "add" => up'[q][i].type = "hero"
  BY <1>1, <1>3, <1>4, <1>5
<1>7. ASSUME q \notin odd' PROVE q \notin odd
  BY <1>7
<1>8. ASSUME q \notin odd'
      PROVE  \A i \in 1 .. n + 1 : up'[q][i].topic = "command" => up'[q][i].type \in Known
  BY <1>1, <1>4, <1>5, <1>7, <1>8
<1>9. ASSUME q \notin odd', NEW j \in 1 .. n + 1, up'[q][j].topic = "move",
             \A i \in 1 .. j - 1 : ~Wears(up'[q][i])
      PROVE  up'[q][j].type = data'[q].type
  <2>1. \A i \in 1 .. j - 1 : i \in 1 .. n /\ ~Wears(up[q][i])
    BY <1>1, <1>9
  <2>2. CASE j \in 1 .. n
    BY <1>1, <1>2, <1>4, <1>7, <1>9, <2>1, <2>2
  <2>3. CASE j = n + 1
    <3>1. up'[q][j] = m /\ m.topic = "move" /\ \A i \in 1 .. n : ~Wears(up[q][i])
      BY <1>1, <1>9, <2>1, <2>3
    <3> QED BY <1>2, <1>4, <1>7, <1>9, <3>1
  <2> QED BY <1>5, <2>2, <2>3
<1>10. ASSUME q \notin odd', NEW j \in 1 .. n + 1, NEW i \in 1 .. j - 1, up'[q][j].topic = "move",
              Wears(up'[q][i]), \A k \in i + 1 .. j - 1 : ~Wears(up'[q][k])
       PROVE  up'[q][j].type = up'[q][i].type
  <2>1. /\ i \in 1 .. n /\ up'[q][i] = up[q][i] /\ Wears(up[q][i])
        /\ \A k \in i + 1 .. j - 1 : k \in 1 .. n /\ ~Wears(up[q][k])
    BY <1>1, <1>10
  <2>2. CASE j \in 1 .. n
    BY <1>1, <1>4, <1>7, <1>10, <2>1, <2>2
  <2>3. CASE j = n + 1
    <3>1. up'[q][j] = m /\ m.topic = "move" /\ \A k \in i + 1 .. n : ~Wears(up[q][k])
      BY <1>1, <1>10, <2>1, <2>3
    <3> QED BY <1>4, <1>7, <1>10, <2>1, <3>1
  <2> QED BY <1>5, <2>2, <2>3
<1>11. ASSUME q \notin odd', \A i \in 1 .. n + 1 : ~Wears(up'[q][i])
       PROVE  mine'[q].type = data'[q].type
  <2>1. ~Wears(m) /\ \A i \in 1 .. n : ~Wears(up[q][i])
    BY <1>1, <1>11
  <2>2. mine'[q].type = mine[q].type
    BY <1>11, <2>1 DEF Wears
  <2> QED BY <1>2, <1>4, <1>7, <1>11, <2>1, <2>2
<1>12. ASSUME q \notin odd', NEW i \in 1 .. n + 1, Wears(up'[q][i]),
              \A k \in i + 1 .. n + 1 : ~Wears(up'[q][k])
       PROVE  mine'[q].type = up'[q][i].type
  <2>1. CASE i \in 1 .. n
    <3>1. n + 1 \in i + 1 .. n + 1 /\ \A k \in i + 1 .. n : k \in i + 1 .. n + 1 /\ k \in 1 .. n
      BY <1>1, <2>1
    <3>2. ~Wears(m) /\ Wears(up[q][i]) /\ \A k \in i + 1 .. n : ~Wears(up[q][k])
      BY <1>1, <1>12, <2>1, <3>1
    <3>3. mine'[q].type = mine[q].type
      BY <1>12, <3>2 DEF Wears
    <3> QED BY <1>1, <1>4, <1>7, <1>12, <2>1, <3>2, <3>3
  <2>2. CASE i = n + 1
    <3>1. up'[q][i] = m /\ Wears(m)
      BY <1>1, <1>12, <2>2
    <3> QED BY <1>12, <3>1 DEF Wears
  <2> QED BY <1>5, <2>1, <2>2
<1> DEFINE s == up'[q]
           d == data'[q]
           type == mine'[q].type
<1>13. Len(s) = n + 1
  BY <1>1
<1>14. q \notin odd' => (d # Absent => d.type \in Known)
  BY <1>2, <1>4, <1>7
<1>15. q \notin odd' => DressedIn(s, d, type)
  <2> SUFFICES ASSUME q \notin odd' PROVE DressedIn(s, d, type)
    OBVIOUS
  <2>1. /\ d # Absent => d.type \in Known
        /\ \A i \in 1 .. Len(s) : s[i].topic = "command" => s[i].type \in Known
    BY <1>8, <1>13, <1>14
  <2>2. \A j \in 1 .. Len(s) : s[j].topic = "move" /\ (\A i \in 1 .. j - 1 : ~Wears(s[i]))
          => s[j].type = d.type
    BY <1>9, <1>13
  <2>3. \A j \in 1 .. Len(s) : \A i \in 1 .. j - 1 :
          s[j].topic = "move" /\ Wears(s[i]) /\ (\A k \in i + 1 .. j - 1 : ~Wears(s[k]))
          => s[j].type = s[i].type
    BY <1>10, <1>13
  <2>4. (\A i \in 1 .. Len(s) : ~Wears(s[i])) => type = d.type
    BY <1>11, <1>13
  <2>5. \A i \in 1 .. Len(s) :
          Wears(s[i]) /\ (\A k \in i + 1 .. Len(s) : ~Wears(s[k])) => type = s[i].type
    BY <1>12, <1>13
  <2> HIDE DEF s, d, type
  <2> QED BY <2>1, <2>2, <2>3, <2>4, <2>5 DEF DressedIn
<1>16. \A i \in 1 .. Len(s) : s[i].topic = "add" => s[i].type = "hero"
  BY <1>6, <1>13
<1> QED BY <1>15, <1>16, DressedThen

\* What the server takes: it keeps the place and the type of the session.
LEMMA SessionTook ==
    ASSUME Typed, NEW q \in Player, Session(q), OnMessage(q)
    PROVE  Own(q)' /\ Unborn(q)' /\ Leaves(q)' /\ Placed(q)' /\ Subscribes(q)'
<1> DEFINE n == Len(up[q])
           m == up[q][1]
<1>1. /\ m \in Msg /\ n \in Nat /\ n >= 1 /\ Len(up'[q]) = n - 1
      /\ \A i \in 1 .. n - 1 : up'[q][i] = up[q][i + 1]
      /\ data'[q] = Data(q, m) /\ topics[q] \subseteq topics'[q]
      /\ m.topic = "listen" => {"move", "msg", "add"} \subseteq topics'[q]
      /\ page' = page /\ late' = late
  BY Took
<1>2. /\ m.pos \in Nat /\ m.topic \in Events \cup Asks /\ 1 \in 1 .. n
      /\ \A i \in 1 .. n - 1 : i + 1 \in 1 .. n
  BY <1>1 DEF Msg
<1>3. up[q] # <<>> /\ up[q] \in Seq(Msg)
  BY TypedAt DEF OnMessage
<1>4. /\ m.topic \in {"add", "move"} => data'[q] = [pos |-> m.pos, type |-> m.type] /\ data'[q] # Absent
      /\ m.topic = "command" => data'[q] = [data[q] EXCEPT !.type = m.type]
      /\ m.topic = "remove" => data'[q] = Absent
      /\ m.topic \notin {"add", "move", "command", "remove"} => data'[q] = data[q]
  BY <1>1, <1>2, Constants DEF Data
<1> HIDE DEF n, m
<1>5. Own(q)'
  BY <1>1, <1>2 DEF Session, Own, At, n
<1>6. Unborn(q)'
  BY <1>1, <1>3 DEF Session, Unborn
<1>7. Leaves(q)'
  <2> SUFFICES ASSUME NEW i \in 1 .. n - 1, up'[q][i].topic = "remove"
               PROVE  page[q] \notin {"away", "open"} /\ (q \notin late => i = n - 1)
    BY <1>1 DEF Leaves, At
  <2>1. i + 1 \in 1 .. n /\ up[q][i + 1].topic = "remove"
    BY <1>1, <1>2
  <2>2. page[q] \notin {"away", "open"} /\ (q \notin late => i + 1 = n)
    BY <2>1 DEF Session, Leaves, At, n
  <2> QED BY <1>1, <2>2
<1>8. ASSUME q \notin late PROVE m.topic \in {"move", "command"} => data[q] # Absent /\ data[q].pos \in Nat
  <2>1. ASSUME data[q] = Absent, m.topic \in {"move", "command"} PROVE FALSE
    <3>1. \E j \in 1 .. 1 - 1 : up[q][j].topic = "add"
      BY <1>2, <1>8, <2>1 DEF Session, Placed, At, n, m
    <3> QED BY <3>1
  <2> QED BY <1>8, <2>1 DEF Session, Placed
<1>9. ASSUME q \notin late, m.topic = "command" PROVE data'[q] # Absent /\ data'[q].pos \in Nat
  <2>1. data[q].pos \in Nat /\ data[q] \in Hero
    BY <1>8, <1>9, TypedAt
  <2>2. data'[q].pos = data[q].pos
    BY <1>4, <1>9, <2>1 DEF Hero
  <2> QED BY <2>1, <2>2, Constants
<1>10. Placed(q)'
  <2>1. ASSUME page[q] = "open"
        PROVE  data'[q] # Absent \/ \E j \in 1 .. n - 1 : up'[q][j].topic = "add"
    <3>1. q \notin late /\ m.topic # "remove"
      BY <1>2, <2>1 DEF Session, Unborn, Leaves, At, n, m
    <3>2. CASE m.topic \in {"add", "move", "command"}
      BY <1>4, <1>9, <3>1, <3>2
    <3>3. CASE m.topic \notin {"add", "move", "command"}
      <4>1. data'[q] = data[q]
        BY <1>4, <3>1, <3>3
      <4>2. ASSUME data[q] = Absent PROVE \E j \in 1 .. n - 1 : up'[q][j].topic = "add"
        <5>1. PICK j \in 1 .. n : up[q][j].topic = "add"
          BY <2>1, <4>2 DEF Session, Placed, At, n
        <5>2. j # 1
          BY <3>3, <5>1 DEF m
        <5>3. j - 1 \in 1 .. n - 1 /\ up'[q][j - 1] = up[q][j]
          BY <1>1, <5>2
        <5> QED BY <5>1, <5>3
      <4> QED BY <4>1, <4>2
    <3> QED BY <3>2, <3>3
  <2>2. ASSUME q \notin late PROVE data'[q] = Absent \/ data'[q].pos \in Nat
    <3>1. m.topic \in {"add", "move"} => data'[q].pos \in Nat
      BY <1>2, <1>4
    <3>2. data[q] = Absent \/ data[q].pos \in Nat
      BY <2>2 DEF Session, Placed
    <3> QED BY <1>4, <1>9, <2>2, <3>1, <3>2
  <2>3. ASSUME q \notin late, NEW i \in 1 .. n - 1, up'[q][i].topic \in {"move", "command"},
               data'[q] = Absent
        PROVE  \E j \in 1 .. i - 1 : up'[q][j].topic = "add"
    <3>1. /\ i + 1 \in 1 .. n /\ up[q][i + 1].topic \in {"move", "command"}
          /\ i + 1 # 1 /\ i + 1 - 1 = i
      BY <1>1, <1>2, <2>3
    <3>2. m.topic # "remove"
      <4>1. m.topic = "remove" => n = 1
        BY <1>2, <2>3 DEF Session, Leaves, At, n, m
      <4> QED BY <1>1, <4>1
    <3>3. m.topic \notin {"add", "move", "command", "remove"}
      BY <1>4, <1>9, <2>3, <3>2
    <3>4. \E j \in 1 .. i + 1 - 1 : up[q][j].topic = "add"
      BY <1>4, <2>3, <3>1, <3>3 DEF Session, Placed, At, n
    <3>5. PICK j \in 1 .. i : up[q][j].topic = "add"
      BY <3>1, <3>4
    <3>6. j # 1
      BY <3>3, <3>5 DEF m
    <3>7. j - 1 \in 1 .. i - 1 /\ up'[q][j - 1] = up[q][j]
      BY <1>1, <3>6
    <3> QED BY <3>5, <3>7
  <2> QED BY <1>1, <2>1, <2>2, <2>3 DEF Placed, At
<1>11. Subscribes(q)'
  <2> SUFFICES ASSUME page[q] = "open" PROVE {"move", "msg", "add"} \subseteq topics'[q]
    BY <1>1 DEF Subscribes
  <2>1. CASE {"move", "msg", "add"} \subseteq topics[q]
    BY <1>1, <2>1
  <2>2. CASE m.topic = "listen"
    BY <1>1, <2>2
  <2> QED BY <2>1, <2>2 DEF Session, Subscribes, m
<1> QED BY <1>5, <1>6, <1>7, <1>10, <1>11

\* The server has an open page when it moves or changes, and says no goodbye.
LEMMA TookOfOpen ==
    ASSUME Typed, NEW q \in Player, Session(q), page[q] = "open", up[q] # <<>>
    PROVE  /\ up[q][1].topic # "remove" /\ q \notin late
           /\ up[q][1].topic \in {"move", "command"} => data[q] # Absent /\ data[q].pos \in Nat
<1>1. Len(up[q]) \in Nat /\ Len(up[q]) >= 1 /\ 1 \in 1 .. Len(up[q])
  <2>1. up[q] \in Seq(Msg)
    BY TypedAt
  <2> QED BY <2>1, TailAt
<1>2. q \notin late /\ up[q][1].topic # "remove"
  BY <1>1 DEF Session, Unborn, Leaves, At
<1>3. ASSUME data[q] = Absent, up[q][1].topic \in {"move", "command"} PROVE FALSE
  <2>1. \E j \in 1 .. 1 - 1 : up[q][j].topic = "add"
    BY <1>1, <1>2, <1>3 DEF Session, Placed, At
  <2> QED BY <2>1
<1> QED BY <1>2, <1>3 DEF Session, Placed

LEMMA DressedTook ==
    ASSUME Typed, NEW q \in Player, Session(q), OnMessage(q)
    PROVE  Dressed(q)'
<1> DEFINE n == Len(up[q])
           m == up[q][1]
<1>1. /\ m \in Msg /\ n \in Nat /\ n >= 1 /\ Len(up'[q]) = n - 1
      /\ \A i \in 1 .. n - 1 : up'[q][i] = up[q][i + 1]
      /\ data'[q] = Data(q, m)
      /\ page' = page /\ mine' = mine /\ odd' = odd
  BY Took
<1> SUFFICES ASSUME page[q] = "open" PROVE Dressed(q)'
  BY <1>1 DEF Dressed
<1>2. /\ m.topic # "remove"
      /\ m.topic \in {"move", "command"} => data[q] # Absent
      /\ data[q] \in Hero
  BY TookOfOpen, TypedAt DEF OnMessage
<1>3. /\ Wears(m) => data'[q].type = m.type
      /\ ~Wears(m) => data'[q] = data[q]
  <2>1. /\ m.topic \in {"add", "move"} => Data(q, m) = [pos |-> m.pos, type |-> m.type]
        /\ m.topic = "command" => Data(q, m) = [data[q] EXCEPT !.type = m.type]
        /\ m.topic \notin {"add", "move", "command", "remove"} => Data(q, m) = data[q]
    BY DEF Data
  <2>2. [data[q] EXCEPT !.type = m.type].type = m.type
    BY <1>2 DEF Hero
  <2> HIDE DEF m
  <2>3. Wears(m) <=> m.topic \in {"add", "move", "command"}
    BY DEF Wears
  <2>4. data'[q] = Data(q, m) /\ m.topic # "remove"
    BY <1>1, <1>2
  <2>5. CASE m.topic \in {"add", "move"}
    BY <2>1, <2>3, <2>4, <2>5
  <2>6. CASE m.topic = "command"
    BY <2>1, <2>2, <2>3, <2>4, <2>6
  <2>7. CASE m.topic \notin {"add", "move", "command"}
    BY <2>1, <2>3, <2>4, <2>7
  <2> QED BY <2>5, <2>6, <2>7
<1>4. /\ \A i \in 1 .. n : up[q][i].topic = "add" => up[q][i].type = "hero"
      /\ q \notin odd =>
       /\ data[q] # Absent => data[q].type \in Known
       /\ \A i \in 1 .. n : up[q][i].topic = "command" => up[q][i].type \in Known
       /\ \A j \in 1 .. n : up[q][j].topic = "move" /\ (\A i \in 1 .. j - 1 : ~Wears(up[q][i]))
            => up[q][j].type = data[q].type
       /\ \A j \in 1 .. n : \A i \in 1 .. j - 1 :
            up[q][j].topic = "move" /\ Wears(up[q][i]) /\ (\A k \in i + 1 .. j - 1 : ~Wears(up[q][k]))
            => up[q][j].type = up[q][i].type
       /\ (\A i \in 1 .. n : ~Wears(up[q][i])) => mine[q].type = data[q].type
       /\ \A i \in 1 .. n :
            Wears(up[q][i]) /\ (\A k \in i + 1 .. n : ~Wears(up[q][k])) => mine[q].type = up[q][i].type
  BY DEF Session, Dressed, DressedIn, At
<1> HIDE DEF n, m
<1>5. /\ 1 \in 1 .. n /\ \A i \in 1 .. n - 1 : i + 1 \in 1 .. n /\ 1 \in 1 .. i
      /\ \A i \in 2 .. n : i - 1 \in 1 .. n - 1 /\ up'[q][i - 1] = up[q][i]
  BY <1>1
<1>6. \A i \in 1 .. n - 1 : up'[q][i].topic = "add" => up'[q][i].type = "hero"
  <2>1. \A i \in 1 .. n : up[q][i].topic = "add" => up[q][i].type = "hero"
    BY <1>4
  <2> QED BY <1>1, <1>5, <2>1
<1>7. ASSUME q \notin odd, data'[q] # Absent PROVE data'[q].type \in Known
  <2>1. CASE m.topic = "add"
    BY <1>3, <1>4, <1>5, <2>1, Constants DEF m, Wears
  <2>2. CASE m.topic = "command"
    BY <1>3, <1>4, <1>5, <1>7, <2>2 DEF m, Wears
  <2>3. CASE m.topic = "move"
    <3>1. \A i \in 1 .. 1 - 1 : ~Wears(up[q][i])
      OBVIOUS
    <3>2. m.type = data[q].type
      BY <1>4, <1>5, <1>7, <2>3, <3>1 DEF m
    <3> QED BY <1>2, <1>3, <1>4, <1>7, <2>3, <3>2 DEF Wears
  <2>4. CASE ~Wears(m)
    BY <1>3, <1>4, <1>7, <2>4
  <2> QED BY <2>1, <2>2, <2>3, <2>4 DEF Wears
<1>8. ASSUME q \notin odd
      PROVE  \A i \in 1 .. n - 1 : up'[q][i].topic = "command" => up'[q][i].type \in Known
  <2>1. \A i \in 1 .. n : up[q][i].topic = "command" => up[q][i].type \in Known
    BY <1>4, <1>8
  <2> QED BY <1>1, <1>5, <2>1
<1>9. ASSUME q \notin odd, NEW j \in 1 .. n - 1, up'[q][j].topic = "move",
             \A i \in 1 .. j - 1 : ~Wears(up'[q][i])
      PROVE  up'[q][j].type = data'[q].type
  <2>1. /\ j + 1 \in 1 .. n /\ 1 \in 1 .. j + 1 - 1 /\ up'[q][j] = up[q][j + 1]
        /\ \A i \in 2 .. j + 1 - 1 : ~Wears(up[q][i])
    <3>1. \A i \in 2 .. j + 1 - 1 : i - 1 \in 1 .. j - 1 /\ i \in 2 .. n
      BY <1>1
    <3> QED BY <1>1, <1>5, <1>9, <3>1
  <2>2. CASE Wears(m)
    <3>1. up[q][j + 1].type = up[q][1].type
      <4>1. 1 + 1 = 2 /\ Wears(up[q][1])
        BY <2>2 DEF m
      <4> QED BY <1>4, <1>9, <2>1, <4>1
    <3> QED BY <1>3, <2>1, <2>2, <3>1 DEF m
  <2>3. CASE ~Wears(m)
    <3>1. \A i \in 1 .. j + 1 - 1 : ~Wears(up[q][i])
      <4>1. \A i \in 1 .. j + 1 - 1 : i = 1 \/ i \in 2 .. j + 1 - 1
        OBVIOUS
      <4> QED BY <2>1, <2>3, <4>1 DEF m
    <3> QED BY <1>3, <1>4, <1>9, <2>1, <2>3, <3>1
  <2> QED BY <2>2, <2>3
<1>10. ASSUME q \notin odd, NEW j \in 1 .. n - 1, NEW i \in 1 .. j - 1, up'[q][j].topic = "move",
              Wears(up'[q][i]), \A k \in i + 1 .. j - 1 : ~Wears(up'[q][k])
       PROVE  up'[q][j].type = up'[q][i].type
  <2>1. /\ j + 1 \in 1 .. n /\ i + 1 \in 1 .. j + 1 - 1 /\ i \in 1 .. n - 1
        /\ up'[q][j] = up[q][j + 1] /\ up'[q][i] = up[q][i + 1]
    BY <1>1
  <2>2. \A k \in i + 1 + 1 .. j + 1 - 1 : ~Wears(up[q][k])
    <3>1. \A k \in i + 1 + 1 .. j + 1 - 1 : k - 1 \in i + 1 .. j - 1 /\ k \in 2 .. n
      BY <1>1
    <3> QED BY <1>5, <1>10, <3>1
  <2> QED BY <1>4, <1>10, <2>1, <2>2
<1>11. ASSUME q \notin odd, \A i \in 1 .. n - 1 : ~Wears(up'[q][i])
       PROVE  mine[q].type = data'[q].type
  <2>1. \A i \in 2 .. n : ~Wears(up[q][i])
    BY <1>5, <1>11
  <2>2. CASE Wears(m)
    BY <1>3, <1>4, <1>5, <1>11, <2>1, <2>2 DEF m
  <2>3. CASE ~Wears(m)
    <3>1. \A i \in 1 .. n : i = 1 \/ i \in 2 .. n
      BY <1>1
    <3> QED BY <1>3, <1>4, <1>11, <2>1, <2>3, <3>1 DEF m
  <2> QED BY <2>2, <2>3
<1>12. ASSUME q \notin odd, NEW i \in 1 .. n - 1, Wears(up'[q][i]),
              \A k \in i + 1 .. n - 1 : ~Wears(up'[q][k])
       PROVE  mine[q].type = up'[q][i].type
  <2>1. i + 1 \in 1 .. n /\ up'[q][i] = up[q][i + 1]
    BY <1>1
  <2>2. \A k \in i + 1 + 1 .. n : ~Wears(up[q][k])
    <3>1. \A k \in i + 1 + 1 .. n : k - 1 \in i + 1 .. n - 1 /\ k \in 2 .. n
      BY <1>1
    <3> QED BY <1>5, <1>12, <3>1
  <2> QED BY <1>4, <1>12, <2>1, <2>2
<1> DEFINE s == up'[q]
           d == data'[q]
           type == mine'[q].type
<1>13. Len(s) = n - 1 /\ odd' = odd /\ mine' = mine
  BY <1>1
<1>14. q \notin odd' => (d # Absent => d.type \in Known)
  BY <1>7, <1>13
<1>15. q \notin odd' => DressedIn(s, d, type)
  <2> SUFFICES ASSUME q \notin odd' PROVE DressedIn(s, d, type)
    OBVIOUS
  <2>1. /\ d # Absent => d.type \in Known
        /\ \A i \in 1 .. Len(s) : s[i].topic = "command" => s[i].type \in Known
    BY <1>8, <1>13, <1>14
  <2>2. \A j \in 1 .. Len(s) : s[j].topic = "move" /\ (\A i \in 1 .. j - 1 : ~Wears(s[i]))
          => s[j].type = d.type
    BY <1>9, <1>13
  <2>3. \A j \in 1 .. Len(s) : \A i \in 1 .. j - 1 :
          s[j].topic = "move" /\ Wears(s[i]) /\ (\A k \in i + 1 .. j - 1 : ~Wears(s[k]))
          => s[j].type = s[i].type
    BY <1>10, <1>13
  <2>4. (\A i \in 1 .. Len(s) : ~Wears(s[i])) => type = d.type
    BY <1>11, <1>13
  <2>5. \A i \in 1 .. Len(s) :
          Wears(s[i]) /\ (\A k \in i + 1 .. Len(s) : ~Wears(s[k])) => type = s[i].type
    BY <1>12, <1>13
  <2> HIDE DEF s, d, type
  <2> QED BY <2>1, <2>2, <2>3, <2>4, <2>5 DEF DressedIn
<1>16. \A i \in 1 .. Len(s) : s[i].topic = "add" => s[i].type = "hero"
  BY <1>6, <1>13
<1> QED BY <1>15, <1>16, DressedThen

LEMMA SessionOpened ==
    ASSUME Typed, NEW q \in Player, Session(q), Open(q)
    PROVE  Session(q)'
<1> DEFINE g == Greeting(q)
<1>1. /\ page[q] = "away" /\ page'[q] = "open" /\ up'[q] = g
      /\ UNCHANGED <<mine, data, topics, late, odd>>
  BY Opened
<1>2. /\ Len(g) = 4
      /\ \A i \in 1 .. 4 : g[i].id = q /\ g[i].type = mine[q].type
      /\ g[1].topic = "listen" /\ g[2].topic = "listenRemove"
      /\ g[3].topic = "add" /\ g[4].topic = "sync"
  BY GreetingAt
<1>3. data[q] = Absent /\ mine[q].type = "hero" /\ q \notin late
  BY <1>1 DEF Session, Unborn
<1> HIDE DEF g
<1>4. \A i \in 1 .. 4 : i = 1 \/ i = 2 \/ i = 3 \/ i = 4
  OBVIOUS
<1>5. \A i \in 1 .. 4 : g[i].topic \in {"listen", "listenRemove", "add", "sync"}
  BY <1>2, <1>4
<1>6. Own(q)' /\ Leaves(q)'
  BY <1>1, <1>2, <1>5 DEF Own, Leaves, At
<1>7. Unborn(q)'
  BY <1>1, <1>3 DEF Unborn
<1>8. Placed(q)'
  BY <1>1, <1>2, <1>3, <1>5 DEF Placed, At
<1>9. Subscribes(q)'
  BY <1>1, <1>2 DEF Subscribes
<1>10. Dressed(q)'
  <2>1. \A i \in 1 .. 4 : g[i].topic # "move" /\ g[i].topic # "command" /\ g[i].type = "hero"
    BY <1>2, <1>3, <1>5
  <2>2. data'[q] = Absent /\ mine'[q].type = "hero" /\ 3 \in 1 .. 4 /\ Wears(g[3])
    BY <1>1, <1>2, <1>3 DEF Wears
  <2> QED BY <1>1, <1>2, <2>1, <2>2 DEF Dressed, DressedIn, At, Wears
<1> QED BY <1>6, <1>7, <1>8, <1>9, <1>10 DEF Session

\* What has not arrived when the socket ends is the last of it.
LEMMA SessionVanished ==
    ASSUME Typed, NEW q \in Player, Session(q), Vanish(q)
    PROVE  Session(q)'
<1>1. /\ page[q] \in Up /\ page'[q] = "gone" /\ Len(up[q]) \in Nat
      /\ UNCHANGED <<mine, data, topics, told, late, odd>>
  BY Vanished
<1>2. PICK n \in 0 .. Len(up[q]) : Len(up'[q]) = n /\ \A i \in 1 .. n : up'[q][i] = up[q][i]
  BY Vanished
<1>3. \A i \in 1 .. n : i \in 1 .. Len(up[q])
  BY <1>1
<1>4. Own(q)'
  BY <1>2, <1>3 DEF Session, Own, At
<1>5. Unborn(q)' /\ Subscribes(q)' /\ Dressed(q)'
  BY <1>1 DEF Unborn, Subscribes, Dressed
<1>6. Leaves(q)'
  <2> SUFFICES ASSUME NEW i \in 1 .. n, up'[q][i].topic = "remove", q \notin late
               PROVE  i = n
    BY <1>1, <1>2 DEF Leaves, At
  <2>1. i = Len(up[q])
    BY <1>2, <1>3 DEF Session, Leaves, At
  <2> QED BY <1>1, <2>1
<1>7. Placed(q)'
  <2>1. ASSUME q \notin late PROVE data[q] = Absent \/ data[q].pos \in Nat
    BY <2>1 DEF Session, Placed
  <2>2. ASSUME q \notin late, NEW i \in 1 .. n, up'[q][i].topic \in {"move", "command"}, data[q] = Absent
        PROVE  \E j \in 1 .. i - 1 : up'[q][j].topic = "add"
    <3>1. PICK j \in 1 .. i - 1 : up[q][j].topic = "add"
      BY <1>2, <1>3, <2>2 DEF Session, Placed, At
    <3>2. j \in 1 .. n
      BY <1>1
    <3> QED BY <1>2, <3>1, <3>2
  <2> QED BY <1>1, <1>2, <2>1, <2>2 DEF Placed, At
<1> QED BY <1>4, <1>5, <1>6, <1>7 DEF Session

LEMMA SessionClosed ==
    ASSUME Typed, NEW q \in Player, Session(q), OnClose(q)
    PROVE  Session(q)'
<1>1. /\ up[q] = <<>> /\ page'[q] = "closed" /\ data'[q] = Absent
      /\ UNCHANGED <<mine, up, late, odd>>
  BY Closed
<1>2. Len(up'[q]) = 0
  BY <1>1
<1>3. \A i \in 1 .. Len(up'[q]) : FALSE
  BY <1>2
<1>4. Own(q)' /\ Leaves(q)' /\ Unborn(q)' /\ Subscribes(q)' /\ Dressed(q)'
  BY <1>1, <1>3 DEF Own, Leaves, Unborn, Subscribes, Dressed, At
<1>5. Placed(q)'
  BY <1>1, <1>3 DEF Placed, At
<1> QED BY <1>4, <1>5 DEF Session

\* A hero that moves, a message that is typed, a player who takes leave.
LEMMA SessionSays ==
    ASSUME Typed, NEW q \in Player, Session(q),
           \/ \E returns \in BOOLEAN : Update(q, returns)
           \/ \E command \in BOOLEAN, rest \in Commands : SendMessage(q, command, rest)
           \/ BeforeUnload(q)
    PROVE  Session(q)'
<1>1. q \in late => page[q] \notin {"away", "open"}
  BY DEF Session, Unborn
<1>2. ASSUME NEW returns \in BOOLEAN, Update(q, returns) PROVE Session(q)'
  <2>1. /\ page[q] \in Up /\ mine'[q].type = mine[q].type
        /\ UNCHANGED <<page, heros, down, data, topics, told, odd>>
    BY <1>2, Updated
  <2>2. CASE UNCHANGED <<up, late>>
    <3>1. Own(q)' /\ Unborn(q)' /\ Leaves(q)' /\ Placed(q)' /\ Subscribes(q)'
      <4>1. page'[q] = page[q] /\ page[q] # "away"
        BY <2>1 DEF Up
      <4> QED BY <2>1, <2>2, <4>1 DEF Session, Own, Unborn, Leaves, Placed, Subscribes, At
    <3>2. Dressed(q)'
      BY <2>1, <2>2 DEF Session, Dressed, At, Wears
    <3> QED BY <3>1, <3>2 DEF Session
  <2>3. ASSUME NEW h \in [pos : Nat, type : Names], h.type = mine[q].type, Publish(q, "move", h)
        PROVE  Session(q)'
    <3> DEFINE m == Message("move", q, h)
    <3>1. /\ m \in Msg /\ m.topic = "move" /\ m.id = q /\ m.type = h.type
          /\ up' = [up EXCEPT ![q] = Append(@, m)]
          /\ late \subseteq late'
          /\ page[q] = "leaving" => q \in late'
          /\ q \in late' => q \in late \/ page[q] = "leaving"
      BY <2>1, <2>3, Published DEF Events
    <3> HIDE DEF m
    <3>2. page'[q] = page[q] /\ (q \in late' => page'[q] \notin {"away", "open"})
      BY <1>1, <2>1, <3>1
    <3>3. Own(q)' /\ Unborn(q)' /\ Leaves(q)' /\ Placed(q)' /\ Subscribes(q)'
      BY <2>1, <3>1, <3>2, SessionSpoke DEF Events
    <3>4. Dressed(q)'
      BY <2>1, <2>3, <3>1, <3>2, DressedSpoke
    <3> QED BY <3>3, <3>4 DEF Session
  <2> QED BY <1>2, <2>2, <2>3, Updated
<1>3. ASSUME NEW command \in BOOLEAN, NEW rest \in Commands, SendMessage(q, command, rest)
      PROVE  Session(q)'
  <2>1. /\ page[q] \in Up
        /\ mine'[q].type = IF rest \in Known THEN rest ELSE mine[q].type
        /\ odd \subseteq odd'
        /\ q \notin odd' => command = (rest \in Known)
        /\ UNCHANGED <<page, heros, down, data, topics, told>>
    BY <1>3, Sent
  <2> DEFINE topic == IF command THEN "command" ELSE "say"
  <2>2. PICK h \in [pos : Nat, type : Names] : h.type = rest /\ Publish(q, topic, h)
    BY <1>3, Sent
  <2> DEFINE m == Message(topic, q, h)
  <2>3. topic \in Events /\ topic # "remove"
    BY DEF Events
  <2>4. /\ m \in Msg /\ m.topic = topic /\ m.id = q /\ m.type = h.type
        /\ up' = [up EXCEPT ![q] = Append(@, m)]
        /\ late \subseteq late'
        /\ page[q] = "leaving" => q \in late'
        /\ q \in late' => q \in late \/ page[q] = "leaving"
    BY <2>1, <2>2, <2>3, Published
  <2>5. /\ m.topic # "add"
        /\ q \notin odd' =>
             \/ m.topic = "command" /\ m.type \in Known /\ mine'[q].type = m.type
             \/ m.topic = "say" /\ mine'[q].type = mine[q].type
    <3> HIDE DEF m
    <3>1. command = TRUE \/ command = FALSE
      OBVIOUS
    <3> QED BY <2>1, <2>2, <2>4, <3>1
  <2> HIDE DEF m, topic
  <2>6. page'[q] = page[q] /\ (q \in late' => page'[q] \notin {"away", "open"})
    BY <1>1, <2>1, <2>4
  <2>7. Own(q)' /\ Unborn(q)' /\ Leaves(q)' /\ Placed(q)' /\ Subscribes(q)'
    BY <2>1, <2>3, <2>4, <2>6, SessionSpoke
  <2>8. Dressed(q)'
    BY <2>1, <2>4, <2>5, <2>6, DressedSpoke
  <2> QED BY <2>7, <2>8 DEF Session
<1>4. ASSUME BeforeUnload(q) PROVE Session(q)'
  <2> DEFINE m == Message("remove", q, mine[q])
  <2>1. /\ page[q] = "open" /\ page'[q] = "leaving"
        /\ m \in Msg /\ m.topic = "remove" /\ m.id = q
        /\ up' = [up EXCEPT ![q] = Append(@, m)]
        /\ UNCHANGED <<mine, heros, down, data, topics, told, late, odd>>
    BY <1>4, Left
  <2> HIDE DEF m
  <2>2. page[q] \in Up /\ page'[q] \in Up /\ "remove" \in Events
    BY <2>1 DEF Up, Events
  <2>3. Own(q)' /\ Unborn(q)' /\ Leaves(q)' /\ Placed(q)' /\ Subscribes(q)'
    BY <2>1, <2>2, SessionSpoke
  <2>4. Dressed(q)'
    BY <2>1 DEF Dressed
  <2> QED BY <2>3, <2>4 DEF Session
<1> QED BY <1>2, <1>3, <1>4

\* Others leave a session alone.
LEMMA SessionOfOthers ==
    ASSUME Typed, NEW q \in Player, Session(q), NEW r \in Player, r # q,
           \/ OnMessage(r) \/ OnClose(r) \/ Open(r) \/ Vanish(r) \/ BeforeUnload(r)
           \/ \E returns \in BOOLEAN : Update(r, returns)
           \/ \E command \in BOOLEAN, rest \in Commands : SendMessage(r, command, rest)
    PROVE  Session(q)'
<1> DEFINE Same == /\ page'[q] = page[q] /\ mine'[q] = mine[q] /\ up'[q] = up[q]
                   /\ data'[q] = data[q] /\ topics'[q] = topics[q]
                   /\ (q \in late' <=> q \in late) /\ (q \in odd' <=> q \in odd)
<1>0. q \in Player \ {r}
  OBVIOUS
<1>1. ASSUME OnMessage(r) PROVE Same
  BY <1>0, <1>1, Took
<1>2. ASSUME OnClose(r) PROVE Same
  BY <1>0, <1>2, Closed
<1>3. ASSUME Open(r) PROVE Same
  BY <1>0, <1>3, Opened
<1>4. ASSUME Vanish(r) PROVE Same
  BY <1>0, <1>4, Vanished
<1>5. ASSUME BeforeUnload(r) PROVE Same
  BY <1>0, <1>5, Left, Spoke
<1>6. ASSUME NEW topic \in Events, NEW h \in [pos : Nat, type : Names],
             page[r] \in Up, Publish(r, topic, h)
      PROVE  up'[q] = up[q] /\ (q \in late' <=> q \in late)
  BY <1>0, <1>6, Published, Spoke
<1>7. ASSUME NEW returns \in BOOLEAN, Update(r, returns) PROVE Same
  <2>1. /\ page[r] \in Up /\ mine'[q] = mine[q]
        /\ UNCHANGED <<page, heros, down, data, topics, told, odd>>
        /\ \/ UNCHANGED <<up, late>>
           \/ \E h \in [pos : Nat, type : Names] : Publish(r, "move", h)
    BY <1>0, <1>7, Updated
  <2> QED BY <1>6, <2>1 DEF Events
<1>8. ASSUME NEW command \in BOOLEAN, NEW rest \in Commands, SendMessage(r, command, rest) PROVE Same
  <2>1. /\ page[r] \in Up /\ mine'[q] = mine[q] /\ (q \in odd' <=> q \in odd)
        /\ UNCHANGED <<page, heros, down, data, topics, told>>
        /\ \E h \in [pos : Nat, type : Names] : Publish(r, IF command THEN "command" ELSE "say", h)
    BY <1>0, <1>8, Sent
  <2>2. (IF command THEN "command" ELSE "say") \in Events
    BY DEF Events
  <2> QED BY <1>6, <2>1, <2>2
<1>9. Same => Session(q)'
  BY SessionAlone
<1> HIDE DEF Same
<1> QED BY <1>1, <1>2, <1>3, <1>4, <1>5, <1>7, <1>8, <1>9

LEMMA SessionKeeps ==
    ASSUME Typed, NEW q \in Player, Session(q), [Next]_vars
    PROVE  Session(q)'
<1>1. CASE OnMessage(q)
  BY <1>1, SessionTook, DressedTook DEF Session
<1>2. CASE OnClose(q)
  BY <1>2, SessionClosed
<1>3. CASE Open(q)
  BY <1>3, SessionOpened
<1>4. CASE Vanish(q)
  BY <1>4, SessionVanished
<1>5. CASE \/ \E returns \in BOOLEAN : Update(q, returns)
           \/ \E command \in BOOLEAN, rest \in Commands : SendMessage(q, command, rest)
           \/ BeforeUnload(q)
  BY <1>5, SessionSays
<1>6. ASSUME NEW r \in Player, Receive(r) PROVE Session(q)'
  <2>1. UNCHANGED <<page, mine, up, data, topics, late, odd>>
    BY <1>6, Received
  <2> QED BY <2>1, SessionAlone
<1>7. CASE UNCHANGED vars
  <2>1. UNCHANGED <<page, mine, up, data, topics, late, odd>>
    BY <1>7 DEF vars
  <2> QED BY <2>1, SessionAlone
<1>8. ASSUME NEW r \in Player, r # q,
             \/ OnMessage(r) \/ OnClose(r) \/ Open(r) \/ Vanish(r) \/ BeforeUnload(r)
             \/ \E returns \in BOOLEAN : Update(r, returns)
             \/ \E command \in BOOLEAN, rest \in Commands : SendMessage(r, command, rest)
      PROVE  Session(q)'
  BY <1>8, SessionOfOthers
<1>9. CASE \E r \in Player :
             \/ OnMessage(r) \/ OnClose(r) \/ Open(r) \/ Vanish(r) \/ BeforeUnload(r)
             \/ \E returns \in BOOLEAN : Update(r, returns)
             \/ \E command \in BOOLEAN, rest \in Commands : SendMessage(r, command, rest)
  BY <1>1, <1>2, <1>3, <1>4, <1>5, <1>8, <1>9
<1> QED BY <1>6, <1>7, <1>9 DEF Next, Network, Users

-----------------------------------------------------------------------------
(* What any step leaves of what concerns one player, and what changes it.   *)
Steady(q) ==
  /\ page'[q] \in {"away", "open"} => page'[q] = page[q] \/ Open(q)
  /\ data'[q] = data[q] \/ OnMessage(q) \/ OnClose(q)
  /\ up[q] = <<>> => up'[q] = <<>> \/ Open(q) \/ page[q] = "open" \/ q \in late'
  /\ \/ down'[q] = down[q] /\ heros'[q] = heros[q] /\ told'[q] = told[q]
     \/ Receive(q) \/ Vanish(q) \/ \E r \in Player : OnMessage(r)
  /\ page[q] = "open" /\ Asked(q)' => Asked(q) \/ (OnMessage(q) /\ up[q][1].topic = "sync")

LEMMA SteadyAlone ==
    ASSUME NEW q \in Player, page'[q] = page[q], data'[q] = data[q], up'[q] = up[q],
           \/ down'[q] = down[q] /\ heros'[q] = heros[q] /\ told'[q] = told[q]
           \/ Receive(q) \/ Vanish(q) \/ \E r \in Player : OnMessage(r)
    PROVE  Steady(q)
<1>1. Asked(q)' <=> Asked(q)
  BY DEF Asked, At
<1> QED BY <1>1 DEF Steady

LEMMA SteadySpoke ==
    ASSUME Typed, NEW q \in Player, NEW m \in Msg, up' = [up EXCEPT ![q] = Append(@, m)],
           m.topic \in Events, page[q] \in Up, page'[q] \in Up, page'[q] = "open" => page[q] = "open",
           page[q] = "leaving" => q \in late',
           UNCHANGED <<data, down, heros, told>>
    PROVE  Steady(q)
<1>1. /\ Len(up[q]) \in Nat /\ Len(up'[q]) = Len(up[q]) + 1
      /\ \A i \in 1 .. Len(up[q]) : up'[q][i] = up[q][i]
  BY Spoke
<1>2. Asked(q)' => Asked(q)
  BY <1>1 DEF Asked, At
<1>3. page[q] = "open" \/ page[q] = "leaving"
  BY DEF Up
<1> QED BY <1>2, <1>3 DEF Steady, Up

LEMMA Steadily ==
    ASSUME Typed, [Next]_vars
    PROVE  late \subseteq late' /\ odd \subseteq odd' /\ \A q \in Player : Steady(q)
<1> DEFINE Facts == late \subseteq late' /\ odd \subseteq odd' /\ \A q \in Player : Steady(q)
<1>1. ASSUME NEW p \in Player, OnMessage(p) PROVE Facts
  <2>1. /\ page' = page /\ late' = late /\ odd' = odd
        /\ \A q \in Player \ {p} : up'[q] = up[q] /\ data'[q] = data[q]
    BY <1>1, Took
  <2>2. ASSUME NEW q \in Player \ {p} PROVE Steady(q)
    BY <1>1, <2>1, SteadyAlone
  <2>3. Steady(p)
    <3>1. /\ Len(up[p]) \in Nat /\ Len(up'[p]) = Len(up[p]) - 1 /\ Len(up[p]) >= 1
          /\ \A i \in 1 .. Len(up[p]) - 1 : up'[p][i] = up[p][i + 1]
      BY <1>1, Took
    <3>2. ASSUME Asked(p)', up[p][1].topic # "sync" PROVE Asked(p)
      <4> SUFFICES ASSUME NEW i \in 1 .. Len(up[p]) PROVE up[p][i].topic # "sync"
        BY <2>1, <3>2 DEF Asked, At
      <4>1. CASE i = 1
        BY <3>2, <4>1
      <4>2. CASE i # 1
        <5>1. i - 1 \in 1 .. Len(up'[p]) /\ up'[p][i - 1] = up[p][i]
          BY <3>1, <4>2
        <5> QED BY <3>2, <5>1 DEF Asked, At
      <4> QED BY <4>1, <4>2
    <3>3. up[p] # <<>>
      BY <1>1 DEF OnMessage
    <3> QED BY <1>1, <2>1, <3>2, <3>3 DEF Steady
  <2> QED BY <2>1, <2>2, <2>3
<1>2. ASSUME NEW p \in Player, Receive(p) PROVE Facts
  <2>1. /\ UNCHANGED <<page, mine, up, data, topics, acts, told, late, odd>>
        /\ \A q \in Player \ {p} : down'[q] = down[q] /\ heros'[q] = heros[q]
    BY <1>2, Received
  <2>2. ASSUME NEW q \in Player PROVE Steady(q)
    <3>1. \/ down'[q] = down[q] /\ heros'[q] = heros[q] /\ told'[q] = told[q]
          \/ Receive(q)
      BY <1>2, <2>1
    <3> QED BY <2>1, <3>1, SteadyAlone
  <2> QED BY <2>1, <2>2
<1>3. ASSUME NEW p \in Player, OnClose(p) PROVE Facts
  <2>1. /\ page'[p] = "closed" /\ page[p] = "gone" /\ up'[p] = up[p]
        /\ \A q \in Player \ {p} : page'[q] = page[q] /\ data'[q] = data[q]
        /\ UNCHANGED <<mine, heros, up, down, told, late, odd>>
    BY <1>3, Closed
  <2>2. ASSUME NEW q \in Player \ {p} PROVE Steady(q)
    BY <2>1, SteadyAlone
  <2>3. Steady(p)
    BY <1>3, <2>1 DEF Steady
  <2> QED BY <2>1, <2>2, <2>3
<1>4. ASSUME NEW p \in Player, Open(p) PROVE Facts
  <2>1. /\ page[p] = "away"
        /\ \A q \in Player \ {p} : page'[q] = page[q] /\ up'[q] = up[q]
        /\ UNCHANGED <<mine, heros, down, data, topics, told, late, odd>>
    BY <1>4, Opened
  <2>2. ASSUME NEW q \in Player \ {p} PROVE Steady(q)
    BY <2>1, SteadyAlone
  <2>3. Steady(p)
    BY <1>4, <2>1 DEF Steady
  <2> QED BY <2>1, <2>2, <2>3
<1>5. ASSUME NEW p \in Player, NEW m \in Msg, up' = [up EXCEPT ![p] = Append(@, m)],
             m.topic \in Events, page[p] \in Up, page'[p] \in Up,
             page'[p] = "open" => page[p] = "open", page[p] = "leaving" => p \in late',
             \A q \in Player \ {p} : page'[q] = page[q],
             UNCHANGED <<data, down, heros, told>>
      PROVE  \A q \in Player : Steady(q)
  <2>1. \A q \in Player \ {p} : up'[q] = up[q]
    BY <1>5, Spoke
  <2>2. ASSUME NEW q \in Player \ {p} PROVE Steady(q)
    BY <1>5, <2>1, SteadyAlone
  <2>3. Steady(p)
    BY <1>5, SteadySpoke
  <2> QED BY <2>2, <2>3
<1>6. ASSUME NEW p \in Player, NEW topic \in Events, NEW h \in [pos : Nat, type : Names],
             page[p] \in Up, Publish(p, topic, h), UNCHANGED <<page, data, down, heros, told>>
      PROVE  late \subseteq late' /\ \A q \in Player : Steady(q)
  <2> DEFINE m == Message(topic, p, h)
  <2>1. /\ m \in Msg /\ m.topic = topic /\ up' = [up EXCEPT ![p] = Append(@, m)]
        /\ late \subseteq late'
        /\ page[p] = "leaving" => p \in late'
    BY <1>6, Published
  <2> HIDE DEF m
  <2> QED BY <1>5, <1>6, <2>1
<1>7. ASSUME NEW p \in Player, NEW returns \in BOOLEAN, Update(p, returns) PROVE Facts
  <2>1. /\ page[p] \in Up /\ UNCHANGED <<page, heros, down, data, topics, told, odd>>
        /\ \/ UNCHANGED <<up, late>>
           \/ \E h \in [pos : Nat, type : Names] : Publish(p, "move", h)
    BY <1>7, Updated
  <2>2. CASE UNCHANGED <<up, late>>
    BY <2>1, <2>2, SteadyAlone
  <2>3. CASE \E h \in [pos : Nat, type : Names] : Publish(p, "move", h)
    BY <1>6, <2>1, <2>3 DEF Events
  <2> QED BY <2>1, <2>2, <2>3
<1>8. ASSUME NEW p \in Player, NEW command \in BOOLEAN, NEW rest \in Commands,
             SendMessage(p, command, rest)
      PROVE  Facts
  <2>1. /\ page[p] \in Up /\ odd \subseteq odd'
        /\ UNCHANGED <<page, heros, down, data, topics, told>>
        /\ \E h \in [pos : Nat, type : Names] : Publish(p, IF command THEN "command" ELSE "say", h)
    BY <1>8, Sent
  <2>2. (IF command THEN "command" ELSE "say") \in Events
    BY DEF Events
  <2> QED BY <1>6, <2>1, <2>2
<1>9. ASSUME NEW p \in Player, BeforeUnload(p) PROVE Facts
  <2> DEFINE m == Message("remove", p, mine[p])
  <2>1. /\ page[p] = "open" /\ page'[p] = "leaving" /\ \A q \in Player \ {p} : page'[q] = page[q]
        /\ m \in Msg /\ m.topic = "remove" /\ up' = [up EXCEPT ![p] = Append(@, m)]
        /\ UNCHANGED <<mine, heros, down, data, topics, told, late, odd>>
    BY <1>9, Left
  <2> HIDE DEF m
  <2>2. page[p] \in Up /\ page'[p] \in Up /\ "remove" \in Events
    BY <2>1 DEF Up, Events
  <2> QED BY <1>5, <2>1, <2>2
<1>10. ASSUME NEW p \in Player, Vanish(p) PROVE Facts
  <2>1. /\ page[p] \in Up /\ page'[p] = "gone" /\ (up[p] = <<>> => up'[p] = <<>>)
        /\ \A q \in Player \ {p} : /\ page'[q] = page[q] /\ up'[q] = up[q]
                                 /\ down'[q] = down[q] /\ heros'[q] = heros[q]
        /\ UNCHANGED <<mine, data, topics, told, late, odd>>
    BY <1>10, Vanished
  <2>2. ASSUME NEW q \in Player \ {p} PROVE Steady(q)
    BY <2>1, SteadyAlone
  <2>3. Steady(p)
    BY <1>10, <2>1 DEF Steady, Asked
  <2> QED BY <2>1, <2>2, <2>3
<1>11. CASE UNCHANGED vars
  BY <1>11, SteadyAlone DEF vars
<1> HIDE DEF Facts
<1>12. Facts
  BY <1>1, <1>2, <1>3, <1>4, <1>7, <1>8, <1>9, <1>10, <1>11 DEF Next, Network, Users, Facts
<1> QED BY <1>12 DEF Facts

-----------------------------------------------------------------------------
(* What one page shows of another player when it hears a message.           *)
LEMMA CopyIsThere ==
    ASSUME NEW pos, NEW type
    PROVE  Copy(pos, type) # Absent /\ Copy(pos, type).pos = pos
           /\ (type \in Known => Copy(pos, type).type = type)
  BY Constants DEF Copy, Absent

LEMMA HeardAt ==
    ASSUME Typed, NEW p \in Player, NEW q \in Player, p # q, NEW m \in Event \cup Answer
    PROVE  LET x == heros[p][q]
               y == Heard(p, m)[q]
           IN /\ Raises(m, q) => /\ y # Absent /\ y.pos = PosIn(m, q)
                                 /\ TypeIn(m, q) \in Known => y.type = TypeIn(m, q)
              /\ Fells(m, q) => y = Absent
              /\ ~Raises(m, q) /\ ~Fells(m, q) => (y = Absent <=> x = Absent)
              /\ ~Puts(m, q) /\ ~Fells(m, q) => y.pos = x.pos
              /\ ~Dresses(m, q) /\ ~Fells(m, q) => y.type = x.type
              /\ ~Raises(m, q) /\ Puts(m, q) /\ x # Absent => y.pos = PosIn(m, q)
              /\ ~Raises(m, q) /\ Dresses(m, q) /\ x # Absent => y.type = TypeIn(m, q)
<1> DEFINE x == heros[p][q]
           y == Heard(p, m)[q]
<1>1. heros[p] \in [Player \cup {Nobody} -> Hero] /\ x \in Hero
  BY TypedAt
<1>2. CASE m \in Answer
  <2>1. m.topic = "sync" /\ m.data \in [Player -> Hero]
    BY <1>2 DEF Answer
  <2>2. Heard(p, m) = Synchronized(p, m.data) /\ q # Nobody
    BY <2>1, Constants DEF Heard
  <2>3. y = IF m.data[q].pos # Nowhere THEN Copy(m.data[q].pos, m.data[q].type) ELSE x
    BY <1>1, <2>2 DEF Synchronized
  <2>4. /\ Raises(m, q) <=> m.data[q].pos # Nowhere
        /\ Puts(m, q) <=> Raises(m, q)
        /\ Dresses(m, q) <=> Raises(m, q)
        /\ ~Fells(m, q) /\ PosIn(m, q) = m.data[q].pos /\ TypeIn(m, q) = m.data[q].type
    BY <2>1 DEF Raises, Puts, Dresses, Fells, PosIn, TypeIn
  <2> HIDE DEF x, y
  <2> QED BY <2>3, <2>4, CopyIsThere DEF x, y
<1>3. CASE m \in Event
  <2>1. m.id \in Player /\ m.pos \in Nat /\ m.topic \in Events /\ m.topic # "sync"
    BY <1>3 DEF Event, Events
  <2>2. /\ Raises(m, q) <=> m.topic = "add" /\ m.id = q
        /\ Fells(m, q) <=> m.topic = "remove" /\ m.id = q
        /\ Puts(m, q) <=> m.topic \in {"add", "move"} /\ m.id = q
        /\ Dresses(m, q) <=> m.id = q /\ (m.topic = "add" \/ (m.topic = "command" /\ m.type \in Known))
        /\ PosIn(m, q) = m.pos /\ TypeIn(m, q) = IF m.topic = "add" THEN "hero" ELSE m.type
    BY <2>1 DEF Raises, Puts, Dresses, Fells, PosIn, TypeIn
  <2>3. ASSUME m.id # q PROVE y = x
    BY <1>1, <2>1, <2>3 DEF Heard, Events
  <2>4. ASSUME m.id = q
        PROVE  /\ m.topic = "add" => y = Copy(m.pos, "hero")
               /\ m.topic = "move" => y = IF x = Absent THEN x ELSE [x EXCEPT !.pos = m.pos]
               /\ m.topic = "command" => y = IF x = Absent \/ m.type \notin Known THEN x
                                             ELSE [x EXCEPT !.type = m.type]
               /\ m.topic = "say" => y = x
               /\ m.topic = "remove" => y = Absent
    BY <1>1, <2>4 DEF Heard
  <2>5. /\ [x EXCEPT !.pos = m.pos].pos = m.pos /\ [x EXCEPT !.pos = m.pos].type = x.type
        /\ [x EXCEPT !.pos = m.pos] # Absent
        /\ [x EXCEPT !.type = m.type].type = m.type /\ [x EXCEPT !.type = m.type].pos = x.pos
    BY <1>1, <2>1, Constants DEF Hero
  <2>6. m.type \in Known => [x EXCEPT !.type = m.type] # Absent
    BY <2>5, Constants DEF Absent
  <2>7. "hero" \in Known
    BY Constants
  <2>8. /\ Copy(m.pos, "hero") # Absent /\ Copy(m.pos, "hero").pos = m.pos
        /\ Copy(m.pos, "hero").type = "hero"
    BY <2>7, CopyIsThere
  <2> DEFINE xp == [x EXCEPT !.pos = m.pos]
             xt == [x EXCEPT !.type = m.type]
             Goal == /\ Raises(m, q) => /\ y # Absent /\ y.pos = PosIn(m, q)
                                        /\ TypeIn(m, q) \in Known => y.type = TypeIn(m, q)
                     /\ Fells(m, q) => y = Absent
                     /\ ~Raises(m, q) /\ ~Fells(m, q) => (y = Absent <=> x = Absent)
                     /\ ~Puts(m, q) /\ ~Fells(m, q) => y.pos = x.pos
                     /\ ~Dresses(m, q) /\ ~Fells(m, q) => y.type = x.type
                     /\ ~Raises(m, q) /\ Puts(m, q) /\ x # Absent => y.pos = PosIn(m, q)
                     /\ ~Raises(m, q) /\ Dresses(m, q) /\ x # Absent => y.type = TypeIn(m, q)
  <2> HIDE DEF x, y, xp, xt
  <2>9. ASSUME m.id # q PROVE Goal
    BY <2>2, <2>3, <2>9
  <2>10. ASSUME m.id = q /\ m.topic = "add" PROVE Goal
    BY <2>2, <2>4, <2>8, <2>10
  <2>11. ASSUME m.id = q /\ m.topic = "move" PROVE Goal
    BY <2>2, <2>4, <2>5, <2>11 DEF xp
  <2>12. ASSUME m.id = q /\ m.topic = "command" PROVE Goal
    BY <2>2, <2>4, <2>5, <2>6, <2>12 DEF xt
  <2>13. ASSUME m.id = q /\ m.topic \in {"say", "remove"} PROVE Goal
    BY <2>2, <2>4, <2>13
  <2> HIDE DEF Goal
  <2>14. Goal
    BY <2>1, <2>9, <2>10, <2>11, <2>12, <2>13 DEF Events
  <2> QED BY <2>14 DEF x, y, Goal
<1> QED BY <1>2, <1>3

\* Nobody is drawn only from an answer with an entry of nothing but a type.
LEMMA HeardOfNobody ==
    ASSUME Typed, NEW p \in Player, NEW m \in Event \cup Answer,
           m.topic = "sync" => \A r \in Player : m.data[r] = Absent \/ m.data[r].pos \in Nat
    PROVE  Heard(p, m)[Nobody] = heros[p][Nobody]
<1>1. heros[p] \in [Player \cup {Nobody} -> Hero]
  BY TypedAt
<1>2. CASE m \in Answer
  <2>1. m.topic = "sync" /\ Heard(p, m) = Synchronized(p, m.data)
    BY <1>2 DEF Answer, Heard
  <2>2. ~ \E r \in Player : m.data[r].pos = Nowhere /\ m.data[r] # Absent
    BY <2>1, Constants
  <2> QED BY <1>1, <2>1, <2>2 DEF Synchronized
<1>3. CASE m \in Event
  <2>1. m.id \in Player /\ m.topic \in Events /\ m.id # Nobody
    BY <1>3, Constants DEF Event
  <2> QED BY <1>1, <2>1 DEF Heard, Events
<1> QED BY <1>2, <1>3

-----------------------------------------------------------------------------
(* One page is kept.                                                        *)
LEMMA EmptyKeeps ==
    ASSUME Typed, NEW p \in Player, Empty(p), [Next]_vars
    PROVE  Empty(p)'
<1> SUFFICES ASSUME page'[p] \notin Up PROVE down'[p] = <<>> /\ heros'[p] = NoHeros
  BY DEF Empty, Up, NoHeros
<1>1. ASSUME NEW r \in Player, OnMessage(r) PROVE down'[p] = down[p] /\ heros' = heros /\ page' = page
  <2>1. page' = page /\ heros' = heros
    BY <1>1, Took
  <2>2. page[p] \notin Up
    BY <2>1
  <2>3. CASE r = p
    BY <1>1, <2>1, <2>2, <2>3, Took
  <2>4. CASE r # p
    <3>1. p \in Player \ {r}
      BY <2>4
    <3> QED BY <1>1, <2>1, <2>2, <3>1, Took
  <2> QED BY <2>3, <2>4
<1>2. CASE Receive(p)
  <2>1. page'[p] \in Up
    BY <1>2, Received
  <2> QED BY <2>1
<1>3. CASE Vanish(p)
  BY <1>3, Vanished
<1>4. CASE down'[p] = down[p] /\ heros'[p] = heros[p] /\ page[p] \notin Up
  BY <1>4 DEF Empty
<1>5. CASE page[p] \in Up
  <2>1. page'[p] # page[p]
    BY <1>5
  <2>2. OnClose(p) => page[p] = "gone"
    BY Closed
  <2>3. Open(p) => page'[p] = "open"
    BY Opened
  <2>4. BeforeUnload(p) => page'[p] = "leaving"
    BY Left
  <2>5. ASSUME NEW r \in Player, r # p,
               OnMessage(r) \/ Receive(r) \/ OnClose(r) \/ Open(r) \/ BeforeUnload(r) \/ Vanish(r)
        PROVE  page'[p] = page[p]
    <3>1. p \in Player \ {r}
      BY <2>5
    <3> QED BY <2>5, <3>1, Took, Received, Closed, Opened, Left, Vanished
  <2>6. ASSUME NEW r \in Player,
               \/ \E returns \in BOOLEAN : Update(r, returns)
               \/ \E command \in BOOLEAN, rest \in Commands : SendMessage(r, command, rest)
        PROVE  page' = page
    BY <2>6, Updated, Sent
  <2>7. OnMessage(p) \/ Receive(p) \/ UNCHANGED vars => page' = page
    BY Took, Received DEF vars
  <2>8. Vanish(p)
    BY <1>5, <2>1, <2>2, <2>3, <2>4, <2>5, <2>6, <2>7 DEF Next, Network, Users, Up
  <2> QED BY <1>3, <2>8
<1> QED BY <1>1, <1>2, <1>3, <1>4, <1>5, Steadily DEF Steady, Empty

LEMMA NobodyKeeps ==
    ASSUME Typed, NEW p \in Player, NoNobody(p), \A r \in Player : Session(r), [Next]_vars
    PROVE  NoNobody(p)'
<1> DEFINE Fine(m) == m.topic = "sync" =>
                        \A r \in Player : m.data[r] = Absent \/ m.data[r].pos \in Nat
<1> SUFFICES ASSUME late' = {}
             PROVE  heros'[p][Nobody] = Absent /\ \A i \in At(down'[p]) : Fine(down'[p][i])
  BY DEF NoNobody, At
<1>1. late = {} /\ heros[p][Nobody] = Absent /\ \A i \in At(down[p]) : Fine(down[p][i])
  BY Steadily DEF NoNobody
<1> HIDE DEF Fine
<1>2. ASSUME NEW r \in Player, OnMessage(r) PROVE \A i \in At(down'[p]) : Fine(down'[p][i])
  <2> DEFINE a == [topic |-> "sync", data |-> data]
             m == up[r][1]
  <2>1. \A q \in Player : data[q] = Absent \/ data[q].pos \in Nat
    BY <1>1 DEF Session, Placed
  <2>2. Fine(a)
    BY <2>1 DEF Fine
  <2>3. m.topic \in Events => Fine(m) /\ m \in Event \cup Answer
    BY <1>2, Took DEF Fine, Events, Msg, Event
  <2>4. a \in Event \cup Answer
    BY DEF Typed, Answer
  <2> HIDE DEF a, m
  <2>5. ASSUME NEW e \in Event \cup Answer, Fine(e), down'[p] = Append(down[p], e)
        PROVE  \A i \in At(down'[p]) : Fine(down'[p][i])
    <3>1. /\ Len(down[p]) \in Nat /\ Len(down'[p]) = Len(down[p]) + 1
          /\ \A i \in 1 .. Len(down[p]) : down'[p][i] = down[p][i]
          /\ down'[p][Len(down[p]) + 1] = e
      BY <2>5, TypedAt, AppendAt
    <3>2. \A i \in 1 .. Len(down[p]) + 1 : i \in 1 .. Len(down[p]) \/ i = Len(down[p]) + 1
      BY <3>1
    <3> QED BY <1>1, <2>5, <3>1, <3>2 DEF At
  <2>6. CASE r = p
    <3>1. down'[p] = down[p] \/ down'[p] = Append(down[p], a)
      BY <1>2, <2>6, Took DEF a
    <3> QED BY <1>1, <2>2, <2>4, <2>5, <3>1 DEF At
  <2>7. CASE r # p
    <3>1. p \in Player \ {r}
      BY <2>7
    <3>2. down'[p] = down[p] \/ (m.topic \in Events /\ down'[p] = Append(down[p], m))
      BY <1>2, <3>1, Took DEF m
    <3> QED BY <1>1, <2>3, <2>5, <3>2 DEF At
  <2> QED BY <2>6, <2>7
<1>3. ASSUME NEW r \in Player, OnMessage(r) PROVE heros' = heros
  BY <1>3, Took
<1>4. ASSUME Receive(p)
      PROVE  heros'[p][Nobody] = Absent /\ \A i \in At(down'[p]) : Fine(down'[p][i])
  <2>1. /\ Len(down[p]) \in Nat /\ Len(down[p]) >= 1 /\ Len(down'[p]) = Len(down[p]) - 1
        /\ \A i \in 1 .. Len(down[p]) - 1 : down'[p][i] = down[p][i + 1]
        /\ down[p][1] \in Event \cup Answer /\ heros'[p] = Heard(p, down[p][1])
    BY <1>4, Received
  <2>2. 1 \in 1 .. Len(down[p]) /\ \A i \in 1 .. Len(down[p]) - 1 : i + 1 \in 1 .. Len(down[p])
    BY <2>1
  <2>3. Fine(down[p][1]) /\ \A i \in 1 .. Len(down[p]) - 1 : Fine(down'[p][i])
    BY <1>1, <2>1, <2>2 DEF At
  <2> QED BY <1>1, <2>1, <2>3, HeardOfNobody DEF At, Fine
<1>5. ASSUME Vanish(p)
      PROVE  heros'[p][Nobody] = Absent /\ \A i \in At(down'[p]) : Fine(down'[p][i])
  <2>1. heros'[p] = NoHeros /\ Len(down'[p]) = 0
    BY <1>5, Vanished
  <2> QED BY <2>1 DEF NoHeros, At
<1>6. CASE down'[p] = down[p] /\ heros'[p] = heros[p]
  BY <1>1, <1>6 DEF At
<1> QED BY <1>1, <1>2, <1>3, <1>4, <1>5, <1>6, Steadily DEF Steady

-----------------------------------------------------------------------------
(* What reaches one page about another player.                              *)

\* How what is on its way to a page changes: the page hears the first of it, the
\* socket ends, the server appends to it, or nothing happens to it.
LEMMA DownSteps ==
    ASSUME Typed, NEW p \in Player, [Next]_vars
    PROVE  \/ Receive(p)
           \/ Vanish(p)
           \/ down'[p] = down[p] /\ heros'[p] = heros[p]
           \/ /\ heros'[p] = heros[p] /\ OnMessage(p) /\ up[p][1].topic = "sync"
              /\ down'[p] = Append(down[p], [topic |-> "sync", data |-> data])
           \/ \E r \in Player \ {p} :
                /\ heros'[p] = heros[p] /\ OnMessage(r) /\ up[r][1].topic \in Events
                /\ down'[p] = Append(down[p], up[r][1])
<1>1. ASSUME OnMessage(p)
      PROVE  \/ down'[p] = down[p] /\ heros'[p] = heros[p]
             \/ /\ heros'[p] = heros[p] /\ up[p][1].topic = "sync"
                /\ down'[p] = Append(down[p], [topic |-> "sync", data |-> data])
  BY <1>1, Took
<1>2. ASSUME NEW r \in Player \ {p}, OnMessage(r)
      PROVE  \/ down'[p] = down[p] /\ heros'[p] = heros[p]
             \/ /\ heros'[p] = heros[p] /\ up[r][1].topic \in Events
                /\ down'[p] = Append(down[p], up[r][1])
  <2>1. p \in Player \ {r}
    OBVIOUS
  <2> QED BY <1>2, <2>1, Took
<1>3. \/ down'[p] = down[p] /\ heros'[p] = heros[p]
      \/ Receive(p) \/ Vanish(p) \/ \E r \in Player : OnMessage(r)
  BY Steadily DEF Steady
<1>4. CASE \E r \in Player : OnMessage(r)
  <2>1. PICK r \in Player : OnMessage(r)
    BY <1>4
  <2>2. CASE r = p
    BY <1>1, <2>1, <2>2
  <2>3. CASE r # p
    BY <1>2, <2>1, <2>3
  <2> QED BY <2>2, <2>3
<1> QED BY <1>3, <1>4

\* The list appended to, when it is another's message: its author is named.
LEMMA DownAppended ==
    ASSUME Typed, NEW p \in Player, NEW e, e \in Event \cup Answer, down'[p] = Append(down[p], e)
    PROVE  /\ Len(down[p]) \in Nat /\ Len(down'[p]) = Len(down[p]) + 1
           /\ \A i \in 1 .. Len(down[p]) : down'[p][i] = down[p][i]
           /\ down'[p][Len(down[p]) + 1] = e
           /\ \A i \in 1 .. Len(down[p]) + 1 : i \in 1 .. Len(down[p]) \/ i = Len(down[p]) + 1
<1>1. down[p] \in Seq(Event \cup Answer)
  BY TypedAt
<1>2. /\ Len(down[p]) \in Nat /\ Len(down'[p]) = Len(down[p]) + 1
      /\ \A i \in 1 .. Len(down[p]) : down'[p][i] = down[p][i]
      /\ down'[p][Len(down[p]) + 1] = e
  BY <1>1, AppendAt
<1> QED BY <1>2

LEMMA OwnMessage ==
    ASSUME Typed, NEW r \in Player, Session(r), OnMessage(r)
    PROVE  /\ up[r][1] \in Msg /\ up[r][1].id = r /\ 1 \in At(up[r])
           /\ up[r][1].topic \in Events => up[r][1] \in Event \cup Answer /\ up[r][1].topic # "sync"
<1>1. up[r][1] \in Msg /\ 1 \in At(up[r])
  BY Took DEF At
<1> QED BY <1>1 DEF Session, Own, Msg, Event, Events

\* One who has gone from the server is not there again, unless it is late.
LEMMA StaysGone ==
    ASSUME Typed, NEW q \in Player, [Next]_vars, q \notin late',
           up[q] = <<>>, data[q] = Absent, page[q] \notin {"away", "open"}
    PROVE  up'[q] = <<>> /\ data'[q] = Absent /\ page'[q] \notin {"away", "open"}
<1>1. ~Open(q)
  BY Opened
<1>2. ~OnMessage(q)
  BY DEF OnMessage
<1>3. OnClose(q) => data'[q] = Absent
  BY Closed
<1> QED BY <1>1, <1>2, <1>3, Steadily DEF Steady

LEMMA ForgottenKeeps ==
    ASSUME Typed, NEW p \in Player, NEW q \in Player, p # q, Empty(p), Forgotten(p, q),
           \A r \in Player : Session(r), [Next]_vars
    PROVE  Forgotten(p, q)'
<1> SUFFICES ASSUME q \in told'[p], q \notin late' PROVE Forgotten(p, q)'
  BY DEF Forgotten
<1> DEFINE n == Len(down[p])
           Followed == \A i \in 1 .. Len(down'[p]) : Raises(down'[p][i], q) =>
                          \E k \in i + 1 .. Len(down'[p]) : Fells(down'[p][k], q)
           Cleared == heros'[p][q] # Absent =>
                          \E k \in 1 .. Len(down'[p]) : Fells(down'[p][k], q)
<1>1. q \notin late /\ q \in Player \ {p} /\ p \in Player \ {q}
  BY Steadily
<1>2. ASSUME up'[q] = <<>>, data'[q] = Absent, page'[q] \notin {"away", "open"}, Cleared, Followed
      PROVE  Forgotten(p, q)'
  BY <1>2 DEF Forgotten, At, Raises, Fells
<1>3. CASE q \in told[p]
  <2>1. /\ up[q] = <<>> /\ data[q] = Absent /\ page[q] \notin {"away", "open"}
        /\ heros[p][q] # Absent => \E k \in 1 .. n : Fells(down[p][k], q)
        /\ \A i \in 1 .. n : Raises(down[p][i], q) =>
             \E k \in i + 1 .. n : Fells(down[p][k], q)
    BY <1>1, <1>3 DEF Forgotten, At
  <2>2. up'[q] = <<>> /\ data'[q] = Absent /\ page'[q] \notin {"away", "open"}
    BY <2>1, StaysGone
  <2> HIDE DEF n
  <2>3. CASE down'[p] = down[p] /\ heros'[p] = heros[p]
    BY <1>2, <2>1, <2>2, <2>3 DEF n
  <2>4. CASE Vanish(p)
    <3>1. heros'[p] = NoHeros /\ Len(down'[p]) = 0
      BY <2>4, Vanished
    <3> QED BY <1>2, <2>2, <3>1 DEF NoHeros
  <2>5. CASE Receive(p)
    <3> DEFINE m == down[p][1]
    <3>1. /\ n \in Nat /\ n >= 1 /\ Len(down'[p]) = n - 1
          /\ \A i \in 1 .. n - 1 : down'[p][i] = down[p][i + 1]
          /\ m \in Event \cup Answer /\ heros'[p] = Heard(p, m)
      BY <2>5, Received DEF n
    <3>2. 1 \in 1 .. n /\ \A i \in 2 .. n : i - 1 \in 1 .. n - 1 /\ down'[p][i - 1] = down[p][i]
      BY <3>1
    <3>3. Followed
      <4> SUFFICES ASSUME NEW i \in 1 .. n - 1, Raises(down'[p][i], q)
                   PROVE  \E k \in i + 1 .. n - 1 : Fells(down'[p][k], q)
        BY <3>1
      <4>1. i + 1 \in 1 .. n /\ Raises(down[p][i + 1], q)
        BY <3>1
      <4>2. PICK k \in i + 1 + 1 .. n : Fells(down[p][k], q)
        BY <2>1, <4>1
      <4>3. k - 1 \in i + 1 .. n - 1 /\ k - 1 \in 1 .. n - 1 /\ k - 1 + 1 = k
        BY <3>1
      <4>4. down'[p][k - 1] = down[p][k]
        BY <3>1, <4>3
      <4> QED BY <4>2, <4>3, <4>4
    <3>4. Cleared
      <4> SUFFICES ASSUME heros'[p][q] # Absent PROVE \E k \in 1 .. n - 1 : Fells(down'[p][k], q)
        BY <3>1
      <4>1. ~Fells(m, q) /\ (Raises(m, q) \/ heros[p][q] # Absent)
        <5> HIDE DEF m
        <5> QED BY <3>1, HeardAt
      <4>2. PICK k \in 1 .. n : k # 1 /\ Fells(down[p][k], q)
        <5>1. CASE Raises(m, q)
          <6>1. \E k \in 1 + 1 .. n : Fells(down[p][k], q)
            BY <2>1, <3>2, <5>1
          <6> QED BY <6>1
        <5>2. CASE heros[p][q] # Absent
          BY <2>1, <4>1, <5>2
        <5> QED BY <4>1, <5>1, <5>2
      <4>3. k - 1 \in 1 .. n - 1 /\ k - 1 + 1 = k
        BY <3>1, <4>2
      <4>4. down'[p][k - 1] = down[p][k]
        BY <3>1, <4>3
      <4> QED BY <4>2, <4>3, <4>4
    <3> QED BY <1>2, <2>2, <3>3, <3>4
  <2>6. ASSUME NEW e, e \in Event \cup Answer, ~Raises(e, q), down'[p] = Append(down[p], e),
               heros'[p] = heros[p]
        PROVE  Forgotten(p, q)'
    <3>1. /\ n \in Nat /\ Len(down'[p]) = n + 1
          /\ \A i \in 1 .. n : down'[p][i] = down[p][i]
          /\ down'[p][n + 1] = e
          /\ \A i \in 1 .. n + 1 : i \in 1 .. n \/ i = n + 1
      BY <2>6, DownAppended DEF n
    <3>2. Followed
      <4> SUFFICES ASSUME NEW i \in 1 .. n + 1, Raises(down'[p][i], q)
                   PROVE  \E k \in i + 1 .. n + 1 : Fells(down'[p][k], q)
        BY <3>1
      <4>1. i \in 1 .. n /\ Raises(down[p][i], q)
        BY <2>6, <3>1
      <4>2. PICK k \in i + 1 .. n : Fells(down[p][k], q)
        BY <2>1, <4>1
      <4>3. k \in 1 .. n /\ k \in i + 1 .. n + 1
        BY <3>1, <4>1
      <4> QED BY <3>1, <4>2, <4>3
    <3>3. Cleared
      <4> SUFFICES ASSUME heros[p][q] # Absent PROVE \E k \in 1 .. n + 1 : Fells(down'[p][k], q)
        BY <2>6, <3>1
      <4>1. PICK k \in 1 .. n : Fells(down[p][k], q)
        BY <2>1
      <4>2. k \in 1 .. n + 1
        BY <3>1
      <4> QED BY <3>1, <4>1, <4>2
    <3> QED BY <1>2, <2>2, <3>2, <3>3
  <2>7. CASE /\ heros'[p] = heros[p] /\ OnMessage(p) /\ up[p][1].topic = "sync"
             /\ down'[p] = Append(down[p], [topic |-> "sync", data |-> data])
    <3> DEFINE a == [topic |-> "sync", data |-> data]
    <3>1. a \in Event \cup Answer
      BY DEF Typed, Answer
    <3>2. ~Raises(a, q)
      BY <2>1, Constants DEF Raises
    <3> HIDE DEF a
    <3> QED BY <2>6, <2>7, <3>1, <3>2 DEF a
  <2>8. ASSUME NEW r \in Player \ {p}, heros'[p] = heros[p], OnMessage(r), up[r][1].topic \in Events,
               down'[p] = Append(down[p], up[r][1])
        PROVE  Forgotten(p, q)'
    <3>1. r # q
      BY <2>1, <2>8 DEF OnMessage
    <3>2. up[r][1] \in Event \cup Answer /\ ~Raises(up[r][1], q)
      BY <2>8, <3>1, OwnMessage DEF Raises
    <3> QED BY <2>6, <2>8, <3>2
  <2> QED BY <2>3, <2>4, <2>5, <2>7, <2>8, DownSteps
<1>4. CASE q \notin told[p]
  <2> DEFINE m == up[q][1]
  <2>1. ASSUME NEW r \in Player, OnMessage(r) PROVE r = q
    <3>1. CASE r = p
      BY <1>4, <2>1, <3>1, Took
    <3>2. CASE r # p
      <4>1. p \in Player \ {r}
        BY <3>2
      <4>2. told'[p] = told[p] \/ told'[p] = told[p] \cup {r}
        BY <2>1, <4>1, Took
      <4> QED BY <1>4, <4>2
    <3> QED BY <3>1, <3>2
  <2>2. \E r \in Player : OnMessage(r)
    <3>1. told'[p] # told[p]
      BY <1>4
    <3>2. Receive(p) => told' = told
      BY Received
    <3>3. Vanish(p) => told' = told
      BY Vanished
    <3> QED BY <3>1, <3>2, <3>3, Steadily DEF Steady
  <2>3. OnMessage(q)
    BY <2>1, <2>2
  <2>4. /\ m \in Msg /\ Len(up[q]) \in Nat /\ up'[q] = Tail(up[q]) /\ Len(up'[q]) = Len(up[q]) - 1
        /\ data'[q] = Data(q, m) /\ page' = page /\ heros' = heros
        /\ m.topic = "remove" /\ "remove" \in topics[p]
        /\ down'[p] = IF m.topic \in Events /\ Topic(m) \in topics[p] /\ page[p] \in Up
                      THEN Append(down[p], m) ELSE down[p]
    <3>1. /\ m \in Msg /\ Len(up[q]) \in Nat /\ up'[q] = Tail(up[q]) /\ Len(up'[q]) = Len(up[q]) - 1
          /\ data'[q] = Data(q, m) /\ page' = page /\ heros' = heros
      BY <2>3, Took
    <3>2. /\ down'[p] = IF m.topic \in Events /\ Topic(m) \in topics[p] /\ page[p] \in Up
                        THEN Append(down[p], m) ELSE down[p]
          /\ told'[p] = IF m.topic = "remove" /\ "remove" \in topics[p]
                        THEN told[p] \cup {q} ELSE told[p]
      BY <1>1, <2>3, Took
    <3> HIDE DEF m
    <3>3. m.topic = "remove" /\ "remove" \in topics[p]
      BY <1>4, <3>2
    <3> QED BY <3>1, <3>2, <3>3
  <2>5. m.id = q /\ m \in Event \cup Answer /\ 1 \in At(up[q])
    BY <2>3, <2>4, OwnMessage DEF Events
  <2>6. /\ up'[q] = <<>> /\ data'[q] = Absent /\ page'[q] \notin {"away", "open"}
    <3>1. page[q] \notin {"away", "open"} /\ 1 = Len(up[q])
      BY <1>1, <2>4, <2>5 DEF Session, Leaves
    <3>2. up'[q] = <<>>
      <4>1. up'[q] \in Seq(Msg)
        BY <2>3, <2>4, TypedAt, TailAt DEF OnMessage
      <4>2. Len(up'[q]) = 0
        BY <2>4, <3>1
      <4> QED BY <4>1, <4>2, EmptyAt
    <3> QED BY <2>4, <3>1, <3>2 DEF Data
  <2>7. Fells(m, q) /\ ~Raises(m, q)
    BY <2>4, <2>5 DEF Fells, Raises
  <2> HIDE DEF m, n
  <2>8. CASE page[p] \in Up
    <3>1. down'[p] = Append(down[p], m)
      BY <2>4, <2>8 DEF Events, Topic
    <3>2. /\ n \in Nat /\ Len(down'[p]) = n + 1 /\ down'[p][n + 1] = m
          /\ \A i \in 1 .. n + 1 : i \in 1 .. n \/ i = n + 1
      BY <2>5, <3>1, DownAppended DEF n
    <3>3. Cleared
      <4>1. n + 1 \in 1 .. n + 1
        BY <3>2
      <4> QED BY <2>7, <3>2, <4>1
    <3>4. Followed
      <4> SUFFICES ASSUME NEW i \in 1 .. n + 1, Raises(down'[p][i], q)
                   PROVE  \E k \in i + 1 .. n + 1 : Fells(down'[p][k], q)
        BY <3>2
      <4>1. i \in 1 .. n
        BY <2>7, <3>2
      <4>2. n + 1 \in i + 1 .. n + 1
        BY <3>2, <4>1
      <4> QED BY <2>7, <3>2, <4>2
    <3> QED BY <1>2, <2>6, <3>3, <3>4
  <2>9. CASE page[p] \notin Up
    <3>1. heros'[p][q] = Absent /\ Len(down'[p]) = 0
      BY <2>4, <2>9 DEF Empty, NoHeros
    <3> QED BY <1>2, <2>6, <3>1
  <2> QED BY <2>8, <2>9
<1> QED BY <1>3, <1>4

-----------------------------------------------------------------------------
(* A page follows the server.                                               *)

\* What there is to show of the messages that are on their way after a step.
LEMMA ShowsThen ==
    ASSUME NEW p, NEW q, NEW s, NEW y, s = down'[p], y = heros'[p][q],
           y # Absent \/ \E i \in 1 .. Len(s) : Raises(s[i], q),
           \A i \in 1 .. Len(s) : Puts(s[i], q) /\ (\A k \in i + 1 .. Len(s) : ~Puts(s[k], q))
             => PosIn(s[i], q) = data'[q].pos,
           (\A i \in 1 .. Len(s) : ~Puts(s[i], q)) => y.pos = data'[q].pos,
           q \notin odd' =>
             \A i \in 1 .. Len(s) : Dresses(s[i], q) /\ (\A k \in i + 1 .. Len(s) : ~Dresses(s[k], q))
               => TypeIn(s[i], q) = data'[q].type,
           q \notin odd' =>
             ((\A i \in 1 .. Len(s) : ~Dresses(s[i], q)) => y.type = data'[q].type)
    PROVE  Shows(p, q)'
<1>1. Drawn(p, q)'
  BY DEF Drawn, At, Raises
<1>2. PutLast(p, q)' /\ PutNow(p, q)'
  BY DEF PutLast, PutNow, At, Raises, Puts, PosIn
<1>3. q \notin odd' => DressedLast(p, q)' /\ DressedNow(p, q)'
  BY DEF DressedLast, DressedNow, At, Raises, Dresses, TypeIn
<1> QED BY <1>1, <1>2, <1>3 DEF Shows

\* Message e says what the server has of hero q after the step, or it says nothing
\* and what was there before it does.
Says(p, q, e) ==
  /\ Raises(e, q) \/ Drawn(p, q)
  /\ IF Puts(e, q) THEN PosIn(e, q) = data'[q].pos
     ELSE PutLast(p, q) /\ PutNow(p, q) /\ data'[q].pos = data[q].pos
  /\ q \notin odd' =>
       IF Dresses(e, q) THEN TypeIn(e, q) = data'[q].type
       ELSE DressedLast(p, q) /\ DressedNow(p, q) /\ data'[q].type = data[q].type

LEMMA ShowsAppended ==
    ASSUME Typed, NEW p \in Player, NEW q \in Player, NEW e, e \in Event \cup Answer,
           down'[p] = Append(down[p], e), heros'[p] = heros[p], Says(p, q, e)
    PROVE  Shows(p, q)'
<1> DEFINE n == Len(down[p])
           s == down'[p]
<1>1. /\ n \in Nat /\ Len(s) = n + 1 /\ n + 1 \in 1 .. n + 1
      /\ \A i \in 1 .. n : s[i] = down[p][i]
      /\ s[n + 1] = e
      /\ \A i \in 1 .. n + 1 : i \in 1 .. n \/ i = n + 1
  BY DownAppended
<1> DEFINE old == down[p]
<1>0. \A i \in 1 .. n : i \in 1 .. n + 1 /\ s[i] = old[i]
  BY <1>1
<1> HIDE DEF n, s, old
<1>2. heros'[p][q] # Absent \/ \E i \in 1 .. n + 1 : Raises(s[i], q)
  <2>1. CASE Raises(e, q)
    BY <1>1, <2>1
  <2>2. CASE heros[p][q] # Absent
    BY <2>2
  <2>3. CASE \E i \in At(down[p]) : Raises(down[p][i], q)
    <3>1. PICK i \in 1 .. n : Raises(down[p][i], q)
      BY <2>3 DEF At, n
    <3>2. i \in 1 .. n + 1 /\ s[i] = down[p][i]
      BY <1>1
    <3> QED BY <3>1, <3>2
  <2> QED BY <2>1, <2>2, <2>3 DEF Says, Drawn
<1>3. ASSUME NEW i \in 1 .. n + 1, Puts(s[i], q), \A k \in i + 1 .. n + 1 : ~Puts(s[k], q)
      PROVE  PosIn(s[i], q) = data'[q].pos
  <2>1. CASE i = n + 1
    BY <1>1, <1>3, <2>1 DEF Says
  <2>2. CASE i \in 1 .. n
    <3>1. n + 1 \in i + 1 .. n + 1 /\ \A k \in i + 1 .. n : k \in i + 1 .. n + 1 /\ s[k] = down[p][k]
      BY <1>1, <2>2
    <3>2. ~Puts(e, q) /\ \A k \in i + 1 .. n : ~Puts(down[p][k], q)
      BY <1>1, <1>3, <3>1
    <3>3. PosIn(down[p][i], q) = data[q].pos /\ data'[q].pos = data[q].pos
      BY <1>1, <1>3, <2>2, <3>2 DEF Says, PutLast, At, n
    <3> QED BY <1>1, <2>2, <3>3
  <2> QED BY <1>1, <2>1, <2>2
<1>4. ASSUME \A i \in 1 .. n + 1 : ~Puts(s[i], q) PROVE heros'[p][q].pos = data'[q].pos
  <2>1. ~Puts(e, q)
    BY <1>1, <1>4
  <2>2. \A i \in 1 .. n : ~Puts(old[i], q)
    BY <1>0, <1>4
  <2> QED BY <2>1, <2>2 DEF Says, PutNow, At, n, old
<1>5. ASSUME q \notin odd', NEW i \in 1 .. n + 1, Dresses(s[i], q),
             \A k \in i + 1 .. n + 1 : ~Dresses(s[k], q)
      PROVE  TypeIn(s[i], q) = data'[q].type
  <2>1. CASE i = n + 1
    BY <1>1, <1>5, <2>1 DEF Says
  <2>2. CASE i \in 1 .. n
    <3>1. n + 1 \in i + 1 .. n + 1 /\ \A k \in i + 1 .. n : k \in i + 1 .. n + 1 /\ s[k] = down[p][k]
      BY <1>1, <2>2
    <3>2. ~Dresses(e, q) /\ \A k \in i + 1 .. n : ~Dresses(down[p][k], q)
      BY <1>1, <1>5, <3>1
    <3>3. TypeIn(down[p][i], q) = data[q].type /\ data'[q].type = data[q].type
      BY <1>1, <1>5, <2>2, <3>2 DEF Says, DressedLast, At, n
    <3> QED BY <1>1, <2>2, <3>3
  <2> QED BY <1>1, <2>1, <2>2
<1>6. ASSUME q \notin odd', \A i \in 1 .. n + 1 : ~Dresses(s[i], q)
      PROVE  heros'[p][q].type = data'[q].type
  <2>1. ~Dresses(e, q)
    BY <1>1, <1>6
  <2>2. \A i \in 1 .. n : ~Dresses(old[i], q)
    BY <1>0, <1>6
  <2> QED BY <1>6, <2>1, <2>2 DEF Says, DressedNow, At, n, old
<1> DEFINE y == heros'[p][q]
<1>7. s = down'[p] /\ y = heros'[p][q]
  BY DEF s
<1>8. y # Absent \/ \E i \in 1 .. Len(s) : Raises(s[i], q)
  BY <1>1, <1>2
<1>9. \A i \in 1 .. Len(s) : Puts(s[i], q) /\ (\A k \in i + 1 .. Len(s) : ~Puts(s[k], q))
        => PosIn(s[i], q) = data'[q].pos
  BY <1>1, <1>3
<1>10. (\A i \in 1 .. Len(s) : ~Puts(s[i], q)) => y.pos = data'[q].pos
  BY <1>1, <1>4
<1>11. q \notin odd' =>
        \A i \in 1 .. Len(s) : Dresses(s[i], q) /\ (\A k \in i + 1 .. Len(s) : ~Dresses(s[k], q))
          => TypeIn(s[i], q) = data'[q].type
  BY <1>1, <1>5
<1>12. q \notin odd' =>
        ((\A i \in 1 .. Len(s) : ~Dresses(s[i], q)) => y.type = data'[q].type)
  BY <1>1, <1>6
<1> HIDE DEF y
<1> QED BY <1>7, <1>8, <1>9, <1>10, <1>11, <1>12, ShowsThen

\* A sequence g that is f without its first element.
LEMMA LaterAt ==
    ASSUME NEW n \in Nat, n >= 1, NEW f, NEW g, \A i \in 1 .. n - 1 : g[i] = f[i + 1]
    PROVE  /\ 1 \in 1 .. n /\ \A i \in 1 .. n - 1 : i + 1 \in 1 .. n
           /\ \A i \in 1 .. n : i = 1 \/ (i - 1 \in 1 .. n - 1 /\ g[i - 1] = f[i])
<1>1. 1 \in 1 .. n /\ \A i \in 1 .. n - 1 : i + 1 \in 1 .. n
  OBVIOUS
<1>2. ASSUME NEW i \in 1 .. n, i # 1
      PROVE  i - 1 \in 1 .. n - 1 /\ g[i - 1] = f[i]
  <2>1. i - 1 \in 1 .. n - 1 /\ (i - 1) + 1 = i
    BY <1>2
  <2>2. g[i - 1] = f[(i - 1) + 1]
    BY <2>1
  <2> QED BY <2>1, <2>2
<1> QED BY <1>1, <1>2

\* The first message is heard.
LEMMA ShowsReceived ==
    ASSUME Typed, NEW p \in Player, NEW q \in Player, p # q, Receive(p), Shows(p, q),
           \A i \in At(down[p]) : ~Fells(down[p][i], q),
           q \notin odd => data[q].type \in Known
    PROVE  Shows(p, q)'
<1> DEFINE n == Len(down[p])
           m == down[p][1]
           s == down'[p]
           x == heros[p][q]
           y == heros'[p][q]
<1>1. /\ n \in Nat /\ n >= 1 /\ Len(s) = n - 1
      /\ \A i \in 1 .. n - 1 : s[i] = down[p][i + 1]
      /\ m \in Event \cup Answer /\ heros'[p] = Heard(p, m)
      /\ data' = data /\ odd' = odd
  BY Received
<1>2. /\ 1 \in 1 .. n /\ \A i \in 1 .. n - 1 : i + 1 \in 1 .. n
      /\ \A i \in 1 .. n : i = 1 \/ (i - 1 \in 1 .. n - 1 /\ s[i - 1] = down[p][i])
  <2> HIDE DEF n, m, s, x, y
  <2> QED BY <1>1, LaterAt
<1>3. ~Fells(m, q)
  BY <1>2 DEF At
<1> HIDE DEF m
<1>4. /\ Raises(m, q) => /\ y # Absent /\ y.pos = PosIn(m, q)
                         /\ TypeIn(m, q) \in Known => y.type = TypeIn(m, q)
      /\ ~Raises(m, q) => (y = Absent <=> x = Absent)
      /\ ~Puts(m, q) => y.pos = x.pos
      /\ ~Dresses(m, q) => y.type = x.type
      /\ ~Raises(m, q) /\ Puts(m, q) /\ x # Absent => y.pos = PosIn(m, q)
      /\ ~Raises(m, q) /\ Dresses(m, q) /\ x # Absent => y.type = TypeIn(m, q)
  BY <1>1, <1>3, HeardAt
<1>5. /\ x # Absent \/ \E i \in 1 .. n : Raises(down[p][i], q)
      /\ \A i \in 1 .. n :
           Puts(down[p][i], q) /\ (\A k \in i + 1 .. n : ~Puts(down[p][k], q))
           => PosIn(down[p][i], q) = data[q].pos
      /\ (\A i \in 1 .. n : ~Puts(down[p][i], q)) => x.pos = data[q].pos
      /\ q \notin odd =>
           /\ \A i \in 1 .. n :
                Dresses(down[p][i], q) /\ (\A k \in i + 1 .. n : ~Dresses(down[p][k], q))
                => TypeIn(down[p][i], q) = data[q].type
           /\ (\A i \in 1 .. n : ~Dresses(down[p][i], q)) => x.type = data[q].type
  BY DEF Shows, Drawn, PutLast, PutNow, DressedLast, DressedNow, At
<1> HIDE DEF n, s, x, y
<1>6. x # Absent \/ Raises(m, q) \/ \E i \in 1 .. n - 1 : Raises(s[i], q)
  <2>1. CASE \E i \in 1 .. n : Raises(down[p][i], q)
    <3>1. PICK i \in 1 .. n : Raises(down[p][i], q)
      BY <2>1
    <3> QED BY <1>2, <3>1 DEF m
  <2> QED BY <1>5, <2>1
<1>7. y # Absent \/ \E i \in 1 .. n - 1 : Raises(s[i], q)
  BY <1>4, <1>6
<1>8. ASSUME NEW i \in 1 .. n - 1, Puts(s[i], q), \A k \in i + 1 .. n - 1 : ~Puts(s[k], q)
      PROVE  PosIn(s[i], q) = data[q].pos
  <2>1. i + 1 \in 1 .. n /\ s[i] = down[p][i + 1]
    BY <1>1, <1>2
  <2>2. \A k \in i + 1 + 1 .. n : ~Puts(down[p][k], q)
    <3>1. \A k \in i + 1 + 1 .. n : k - 1 \in i + 1 .. n - 1 /\ k \in 1 .. n /\ k # 1
      BY <1>1
    <3> QED BY <1>2, <1>8, <3>1
  <2> QED BY <1>5, <1>8, <2>1, <2>2
<1>9. ASSUME \A i \in 1 .. n - 1 : ~Puts(s[i], q) PROVE y.pos = data[q].pos
  <2>1. \A i \in 1 .. n : i # 1 => ~Puts(down[p][i], q)
    BY <1>2, <1>9
  <2>2. CASE Puts(m, q)
    <3>1. \A k \in 1 + 1 .. n : k \in 1 .. n /\ k # 1
      OBVIOUS
    <3>2. PosIn(m, q) = data[q].pos
      BY <1>2, <1>5, <2>1, <2>2, <3>1 DEF m
    <3>3. Raises(m, q) \/ x # Absent
      BY <1>6, <1>9 DEF Puts
    <3> QED BY <1>4, <2>2, <3>2, <3>3
  <2>3. CASE ~Puts(m, q)
    BY <1>4, <1>5, <2>1, <2>3 DEF m
  <2> QED BY <2>2, <2>3
<1>10. ASSUME q \notin odd, NEW i \in 1 .. n - 1, Dresses(s[i], q),
              \A k \in i + 1 .. n - 1 : ~Dresses(s[k], q)
       PROVE  TypeIn(s[i], q) = data[q].type
  <2>1. i + 1 \in 1 .. n /\ s[i] = down[p][i + 1]
    BY <1>1, <1>2
  <2>2. \A k \in i + 1 + 1 .. n : ~Dresses(down[p][k], q)
    <3>1. \A k \in i + 1 + 1 .. n : k - 1 \in i + 1 .. n - 1 /\ k \in 1 .. n /\ k # 1
      BY <1>1
    <3> QED BY <1>2, <1>10, <3>1
  <2> QED BY <1>5, <1>10, <2>1, <2>2
<1>11. ASSUME q \notin odd, \A i \in 1 .. n - 1 : ~Dresses(s[i], q) PROVE y.type = data[q].type
  <2>1. \A i \in 1 .. n : i # 1 => ~Dresses(down[p][i], q)
    BY <1>2, <1>11
  <2>2. CASE Dresses(m, q)
    <3>1. \A k \in 1 + 1 .. n : k \in 1 .. n /\ k # 1
      OBVIOUS
    <3>2. TypeIn(m, q) = data[q].type
      BY <1>2, <1>5, <1>11, <2>1, <2>2, <3>1 DEF m
    <3>3. Raises(m, q) \/ x # Absent
      BY <1>6, <1>11 DEF Dresses
    <3>4. data[q].type \in Known
      BY <1>11
    <3> QED BY <1>4, <2>2, <3>2, <3>3, <3>4
  <2>3. CASE ~Dresses(m, q)
    BY <1>4, <1>5, <1>11, <2>1, <2>3 DEF m
  <2> QED BY <2>2, <2>3
<1>12. s = down'[p] /\ y = heros'[p][q]
  BY DEF s, y
<1>13. y # Absent \/ \E i \in 1 .. Len(s) : Raises(s[i], q)
  BY <1>1, <1>7
<1>14. \A i \in 1 .. Len(s) : Puts(s[i], q) /\ (\A k \in i + 1 .. Len(s) : ~Puts(s[k], q))
        => PosIn(s[i], q) = data'[q].pos
  BY <1>1, <1>8
<1>15. (\A i \in 1 .. Len(s) : ~Puts(s[i], q)) => y.pos = data'[q].pos
  BY <1>1, <1>9
<1>16. q \notin odd' =>
        \A i \in 1 .. Len(s) : Dresses(s[i], q) /\ (\A k \in i + 1 .. Len(s) : ~Dresses(s[k], q))
          => TypeIn(s[i], q) = data'[q].type
  BY <1>1, <1>10
<1>17. q \notin odd' =>
        ((\A i \in 1 .. Len(s) : ~Dresses(s[i], q)) => y.type = data'[q].type)
  BY <1>1, <1>11
<1> QED BY <1>12, <1>13, <1>14, <1>15, <1>16, <1>17, ShowsThen

\* What is on its way says nothing of the sort, and nothing changes.
LEMMA ShowsAlone ==
    ASSUME NEW p \in Player, NEW q \in Player, Shows(p, q), down'[p] = down[p],
           heros'[p] = heros[p], data'[q] = data[q], odd \subseteq odd'
    PROVE  Shows(p, q)'
<1>1. Drawn(p, q)'
  BY DEF Shows, Drawn, At, Raises
<1>2. PutLast(p, q)' /\ PutNow(p, q)'
  BY DEF Shows, PutLast, PutNow, At, Raises, Puts, PosIn
<1>3. q \notin odd' => DressedLast(p, q)' /\ DressedNow(p, q)'
  BY DEF Shows, DressedLast, DressedNow, At, Raises, Dresses, TypeIn
<1> QED BY <1>1, <1>2, <1>3 DEF Shows

\* An open player is never on the way out.
LEMMA NotFelled ==
    ASSUME Typed, NEW p \in Player, NEW q \in Player, p # q, \A r \in Player : Session(r),
           page[q] \in {"away", "open"} => \A i \in At(down[p]) : ~Fells(down[p][i], q),
           [Next]_vars, page'[q] \in {"away", "open"}
    PROVE  \A i \in At(down'[p]) : ~Fells(down'[p][i], q)
<1>1. page[q] \in {"away", "open"}
  BY Opened, Steadily DEF Steady
<1>2. \A i \in At(down[p]) : ~Fells(down[p][i], q)
  BY <1>1
<1>3. ASSUME NEW e, e \in Event \cup Answer, ~Fells(e, q), down'[p] = Append(down[p], e)
      PROVE  \A i \in At(down'[p]) : ~Fells(down'[p][i], q)
  <2>1. /\ Len(down'[p]) = Len(down[p]) + 1
        /\ \A i \in 1 .. Len(down[p]) : down'[p][i] = down[p][i]
        /\ down'[p][Len(down[p]) + 1] = e
        /\ \A i \in 1 .. Len(down[p]) + 1 : i \in 1 .. Len(down[p]) \/ i = Len(down[p]) + 1
    BY <1>3, DownAppended
  <2> QED BY <1>2, <1>3, <2>1 DEF At
<1>4. CASE Receive(p)
  <2>1. /\ Len(down[p]) \in Nat /\ Len(down'[p]) = Len(down[p]) - 1
        /\ \A i \in 1 .. Len(down[p]) - 1 : down'[p][i] = down[p][i + 1]
    BY <1>4, Received
  <2>2. \A i \in 1 .. Len(down[p]) - 1 : i + 1 \in 1 .. Len(down[p])
    BY <2>1
  <2> QED BY <1>2, <2>1, <2>2 DEF At
<1>5. CASE Vanish(p)
  <2>1. Len(down'[p]) = 0
    BY <1>5, Vanished
  <2> QED BY <2>1 DEF At
<1>6. CASE down'[p] = down[p]
  BY <1>2, <1>6
<1>7. CASE down'[p] = Append(down[p], [topic |-> "sync", data |-> data])
  <2> DEFINE a == [topic |-> "sync", data |-> data]
  <2>1. a \in Event \cup Answer /\ ~Fells(a, q)
    BY DEF Typed, Answer, Fells
  <2> HIDE DEF a
  <2> QED BY <1>3, <1>7, <2>1 DEF a
<1>8. ASSUME NEW r \in Player \ {p}, OnMessage(r), up[r][1].topic \in Events,
             down'[p] = Append(down[p], up[r][1])
      PROVE  \A i \in At(down'[p]) : ~Fells(down'[p][i], q)
  <2>1. up[r][1].id = r /\ 1 \in At(up[r]) /\ up[r][1] \in Event \cup Answer
    BY <1>8, OwnMessage
  <2>2. r = q => up[r][1].topic # "remove"
    BY <1>1, <2>1 DEF Session, Leaves
  <2> QED BY <1>3, <1>8, <2>1, <2>2 DEF Fells
<1> QED BY <1>4, <1>5, <1>6, <1>7, <1>8, DownSteps

\* The answer of "synchronize" says what the server has.
LEMMA ShowsAnswered ==
    ASSUME Typed, NEW p \in Player, NEW q \in Player, Session(q), page[q] = "open",
           data[q] # Absent, data'[q] = data[q], heros'[p] = heros[p],
           down'[p] = Append(down[p], [topic |-> "sync", data |-> data])
    PROVE  Shows(p, q)'
<1> DEFINE a == [topic |-> "sync", data |-> data]
<1>1. a \in Event \cup Answer
  BY DEF Typed, Answer
<1>2. data[q].pos \in Nat
  BY DEF Session, Unborn, Placed
<1>3. Raises(a, q) /\ PosIn(a, q) = data[q].pos /\ TypeIn(a, q) = data[q].type
  BY <1>2, Constants DEF Raises, PosIn, TypeIn
<1>4. Says(p, q, a)
  <2> HIDE DEF a
  <2> QED BY <1>3 DEF Says, Puts, Dresses
<1> HIDE DEF a
<1> QED BY <1>1, <1>4, ShowsAppended DEF a

\* An event of another player says nothing of q.
LEMMA ShowsOther ==
    ASSUME Typed, NEW p \in Player, NEW q \in Player, Shows(p, q), data'[q] = data[q],
           odd \subseteq odd', heros'[p] = heros[p], NEW r \in Player, r # q, Session(r),
           OnMessage(r), up[r][1].topic \in Events, down'[p] = Append(down[p], up[r][1])
    PROVE  Shows(p, q)'
<1> DEFINE e == up[r][1]
<1>1. e \in Event \cup Answer /\ e.id # q /\ e.topic # "sync"
  BY OwnMessage
<1>2. ~Raises(e, q) /\ ~Puts(e, q) /\ ~Dresses(e, q)
  BY <1>1 DEF Raises, Puts, Dresses
<1>3. Says(p, q, e)
  <2> HIDE DEF e
  <2> QED BY <1>2 DEF Says, Shows
<1> HIDE DEF e
<1> QED BY <1>1, <1>3, ShowsAppended DEF e

\* An event of the player itself is sent to p, and says what the server keeps of it.
LEMMA ShowsOwn ==
    ASSUME Typed, NEW p \in Player, NEW q \in Player, p # q, Session(p), Session(q),
           page[p] = "open", Asked(p), page[q] = "open", OnMessage(q), data'[q] # Absent,
           data[q] # Absent => Shows(p, q)
    PROVE  Shows(p, q)'
<1> DEFINE m == up[q][1]
<1>1. /\ m \in Msg /\ m.id = q /\ 1 \in At(up[q])
      /\ m.topic \in Events => m \in Event \cup Answer /\ m.topic # "sync"
  BY OwnMessage
<1>2. /\ m.topic # "remove"
      /\ m.topic \in {"move", "command"} => data[q] # Absent
      /\ data[q] \in Hero
  BY TookOfOpen, TypedAt DEF OnMessage
<1>3. {"move", "msg", "add"} \subseteq topics[p]
  <2>1. Len(up[p]) \in Nat
    BY TypedAt
  <2>2. Len(up[p]) >= 4 => 4 \in At(up[p])
    BY <2>1 DEF At
  <2> QED BY <2>2 DEF Session, Subscribes, Asked
<1>4. /\ heros' = heros /\ odd' = odd /\ data'[q] = Data(q, m)
      /\ down'[p] = IF m.topic \in Events /\ Topic(m) \in topics[p] /\ page[p] \in Up
                    THEN Append(down[p], m) ELSE down[p]
  <2>1. p \in Player \ {q}
    OBVIOUS
  <2> QED BY <2>1, Took
<1>5. m.topic \in Events => Topic(m) \in topics[p] /\ page[p] \in Up
  BY <1>2, <1>3 DEF Topic, Events, Up
<1>6. /\ m.topic = "add" => m.type = "hero"
      /\ q \notin odd => /\ m.topic = "command" => m.type \in Known
                         /\ m.topic = "move" => m.type = data[q].type
  <2>1. \A i \in 1 .. 1 - 1 : ~Wears(up[q][i])
    OBVIOUS
  <2> QED BY <1>1, <2>1 DEF Session, Dressed, DressedIn, At
<1>7. /\ m.topic \in {"add", "move"} => data'[q].pos = m.pos /\ data'[q].type = m.type
      /\ m.topic = "command" => data'[q].pos = data[q].pos /\ data'[q].type = m.type
      /\ m.topic \notin {"add", "move", "command"} => data'[q] = data[q]
  <2>1. /\ [data[q] EXCEPT !.type = m.type].type = m.type
        /\ [data[q] EXCEPT !.type = m.type].pos = data[q].pos
    BY <1>2 DEF Hero
  <2> QED BY <1>2, <1>4, <2>1 DEF Data
<1> HIDE DEF m
<1>8. CASE m.topic \notin Events
  <2>1. m.topic \notin {"add", "move", "command"}
    BY <1>8 DEF Events
  <2> QED BY <1>4, <1>7, <1>8, <2>1, ShowsAlone
<1>9. CASE m.topic \in Events
  <2>1. /\ Raises(m, q) <=> m.topic = "add"
        /\ Puts(m, q) <=> m.topic \in {"add", "move"}
        /\ Dresses(m, q) <=> m.topic = "add" \/ (m.topic = "command" /\ m.type \in Known)
        /\ PosIn(m, q) = m.pos /\ TypeIn(m, q) = IF m.topic = "add" THEN "hero" ELSE m.type
    BY <1>1, <1>9 DEF Raises, Puts, Dresses, PosIn, TypeIn
  <2>2. CASE m.topic = "add"
    <3>1. Says(p, q, m)
      BY <1>6, <1>7, <2>1, <2>2 DEF Says
    <3> QED BY <1>1, <1>4, <1>5, <1>9, <3>1, ShowsAppended
  <2>3. CASE m.topic # "add"
    <3>1. Shows(p, q)
      BY <1>2, <1>7, <2>3
    <3>2. Says(p, q, m)
      <4>1. CASE m.topic = "move"
        BY <1>4, <1>6, <1>7, <2>1, <3>1, <4>1 DEF Says, Shows
      <4>2. CASE m.topic = "command"
        BY <1>4, <1>6, <1>7, <2>1, <3>1, <4>2 DEF Says, Shows
      <4>3. CASE m.topic = "say"
        BY <1>4, <1>7, <2>1, <3>1, <4>3 DEF Says, Shows
      <4> QED BY <1>2, <1>9, <2>3, <4>1, <4>2, <4>3 DEF Events
    <3> QED BY <1>1, <1>4, <1>5, <1>9, <3>2, ShowsAppended
  <2> QED BY <2>2, <2>3
<1> QED BY <1>8, <1>9

LEMMA FollowsKeeps ==
    ASSUME Typed, NEW p \in Player, NEW q \in Player, p # q, \A r \in Player : Session(r),
           Follows(p, q), [Next]_vars
    PROVE  Follows(p, q)'
<1>1. page'[q] \in {"away", "open"} => (\A i \in At(down[p]) : ~Fells(down[p][i], q))'
  <2>1. page'[q] \in {"away", "open"} => \A i \in At(down'[p]) : ~Fells(down'[p][i], q)
    BY NotFelled DEF Follows
  <2> QED BY <2>1 DEF At, Fells
<1>2. ASSUME page'[q] = "open", Asked(p)', data'[q] # Absent PROVE Shows(p, q)'
  <2>1. page[q] = "open"
    <3>1. Open(q) => page[q] = "away" /\ data'[q] = data[q]
      BY Opened
    <3>2. ~Open(q)
      BY <1>2, <3>1 DEF Session, Unborn
    <3> QED BY <1>2, <3>2, Steadily DEF Steady
  <2>2. page[p] = "open" /\ page'[p] = "open"
    <3>1. page'[p] = "open"
      BY <1>2 DEF Asked
    <3>2. ASSUME Open(p) PROVE FALSE
      <4>1. up'[p] = Greeting(p)
        BY <3>2, Opened
      <4>2. Len(up'[p]) = 4 /\ up'[p][4].topic = "sync"
        BY <4>1, GreetingAt
      <4> QED BY <1>2, <4>2 DEF Asked, At
    <3> QED BY <3>1, <3>2, Steadily DEF Steady
  <2>3. CASE OnMessage(q)
    <3>1. ~ (OnMessage(p) /\ up[p][1].topic = "sync") \/ Asked(p)
      <4>1. OnMessage(p) => up'[p] # up[p]
        <5>1. OnMessage(p) => Len(up'[p]) = Len(up[p]) - 1 /\ Len(up[p]) \in Nat
          BY Took
        <5> QED BY <5>1
      <4>2. up'[p] = up[p]
        BY <2>3, Took
      <4> QED BY <4>1, <4>2
    <3>2. Asked(p)
      BY <1>2, <2>2, <3>1, Steadily DEF Steady
    <3> QED BY <1>2, <2>1, <2>2, <2>3, <3>2, ShowsOwn DEF Follows
  <2>4. CASE ~OnMessage(q)
    <3>1. data'[q] = data[q] /\ odd \subseteq odd'
      <4>1. ~OnClose(q)
        BY <1>2, Closed
      <4> QED BY <2>4, <4>1, Steadily DEF Steady
    <3>2. CASE OnMessage(p) /\ up[p][1].topic = "sync"
      <4>1. heros'[p] = heros[p] /\ down'[p] = Append(down[p], [topic |-> "sync", data |-> data])
        BY <2>2, <3>2, Took DEF Up
      <4> QED BY <1>2, <2>1, <3>1, <4>1, ShowsAnswered
    <3>3. CASE ~(OnMessage(p) /\ up[p][1].topic = "sync")
      <4>1. Asked(p)
        BY <1>2, <2>2, <3>3, Steadily DEF Steady
      <4>2. Shows(p, q) /\ \A i \in At(down[p]) : ~Fells(down[p][i], q)
        BY <1>2, <2>1, <3>1, <4>1 DEF Follows
      <4>3. CASE Receive(p)
        <5>1. q \notin odd => data[q].type \in Known
          BY <1>2, <2>1, <3>1 DEF Session, Dressed, DressedIn, At
        <5> QED BY <4>2, <4>3, <5>1, ShowsReceived
      <4>4. ~Vanish(p)
        BY <2>2, Vanished
      <4>5. CASE down'[p] = down[p] /\ heros'[p] = heros[p]
        BY <3>1, <4>2, <4>5, ShowsAlone
      <4>6. ASSUME NEW r \in Player \ {p}, heros'[p] = heros[p], OnMessage(r),
                   up[r][1].topic \in Events, down'[p] = Append(down[p], up[r][1])
            PROVE  Shows(p, q)'
        <5>1. r # q
          BY <2>4, <4>6
        <5> QED BY <3>1, <4>2, <4>6, <5>1, ShowsOther
      <4> QED BY <3>3, <4>3, <4>4, <4>5, <4>6, DownSteps
    <3> QED BY <3>2, <3>3
  <2> QED BY <2>3, <2>4
<1> QED BY <1>1, <1>2 DEF Follows

-----------------------------------------------------------------------------
(* The invariant, and what follows from it.                                 *)
LEMMA NotOwnKeeps ==
    ASSUME Typed, NEW p \in Player, NotOwn(p), [Next]_vars
    PROVE  NotOwn(p)'
<1>1. ASSUME NEW r \in Player, OnMessage(r) PROVE NotOwn(p)'
  <2>1. CASE r = p
    BY <1>1, <2>1, Took DEF NotOwn
  <2>2. CASE r # p
    <3>1. p \in Player \ {r}
      BY <2>2
    <3>2. told'[p] = told[p] \/ told'[p] = told[p] \cup {r}
      BY <1>1, <3>1, Took
    <3> QED BY <2>2, <3>2 DEF NotOwn
  <2> QED BY <2>1, <2>2
<1>2. Receive(p) => told' = told
  BY Received
<1>3. Vanish(p) => told' = told
  BY Vanished
<1> QED BY <1>1, <1>2, <1>3, Steadily DEF Steady, NotOwn

LEMMA InvInit == Init => Inv
<1> SUFFICES ASSUME Init PROVE Inv
  OBVIOUS
<1> DEFINE H == [Player \cup {Nobody} -> Hero]
           M == [pos : Nat, type : Known]
           T == SUBSET {"move", "msg", "add", "remove"}
           U == Seq(Msg)
           D == Seq(Event \cup Answer)
<1>1. Typed
  <2>1. NoHeros \in H /\ Absent \in Hero /\ [pos |-> 0, type |-> "hero"] \in M
        /\ <<>> \in U /\ <<>> \in D /\ {} \in T /\ "away" \in Pages
    BY Constants DEF Pages
  <2>2. /\ page = [p \in Player |-> "away"]
        /\ mine = [p \in Player |-> [pos |-> 0, type |-> "hero"]]
        /\ heros = [p \in Player |-> NoHeros]
        /\ up = [p \in Player |-> <<>>] /\ down = [p \in Player |-> <<>>]
        /\ data = [p \in Player |-> Absent] /\ topics = [p \in Player |-> {}]
        /\ told = [p \in Player |-> {}] /\ late = {} /\ odd = {}
    BY DEF Init
  <2> HIDE DEF H, M, T, U, D
  <2>3. /\ page \in [Player -> Pages] /\ mine \in [Player -> M] /\ heros \in [Player -> H]
        /\ up \in [Player -> U] /\ down \in [Player -> D] /\ data \in [Player -> Hero]
        /\ topics \in [Player -> T] /\ told \in [Player -> SUBSET Player]
        /\ late \subseteq Player /\ odd \subseteq Player
    BY <2>1, <2>2
  <2> QED BY <2>3 DEF Typed, H, M, T, U, D
<1>2. ASSUME NEW q \in Player
      PROVE  /\ page[q] = "away" /\ mine[q].type = "hero" /\ heros[q] = NoHeros
             /\ up[q] = <<>> /\ down[q] = <<>> /\ data[q] = Absent /\ told[q] = {}
             /\ late = {} /\ At(up[q]) = {} /\ At(down[q]) = {}
  BY DEF Init, At
<1>3. ASSUME NEW q \in Player PROVE Session(q)
  <2>1. Own(q) /\ Unborn(q) /\ Leaves(q) /\ Subscribes(q) /\ Dressed(q)
    BY <1>2 DEF Own, Unborn, Leaves, Subscribes, Dressed
  <2>2. Placed(q)
    BY <1>2 DEF Placed
  <2> QED BY <2>1, <2>2 DEF Session
<1>4. ASSUME NEW p \in Player PROVE Empty(p) /\ NotOwn(p) /\ NoNobody(p)
  <2>1. heros[p][Nobody] = Absent
    BY <1>2 DEF NoHeros
  <2> QED BY <1>2, <2>1 DEF Empty, NotOwn, NoNobody
<1>5. ASSUME NEW p \in Player, NEW q \in Player PROVE Forgotten(p, q) /\ Follows(p, q)
  BY <1>2 DEF Forgotten, Follows
<1> QED BY <1>1, <1>3, <1>4, <1>5 DEF Inv

LEMMA InvKeeps == Inv /\ [Next]_vars => Inv'
<1> SUFFICES ASSUME Inv, [Next]_vars PROVE Inv'
  OBVIOUS
<1>1. Typed /\ \A q \in Player : Session(q)
  BY DEF Inv
<1>2. Typed'
  BY <1>1, TypeKeeps
<1>3. ASSUME NEW q \in Player PROVE Session(q)'
  BY <1>1, SessionKeeps
<1>4. ASSUME NEW p \in Player PROVE Empty(p)' /\ NotOwn(p)' /\ NoNobody(p)'
  BY <1>1, EmptyKeeps, NotOwnKeeps, NobodyKeeps DEF Inv
<1>5. ASSUME NEW p \in Player, NEW q \in Player, p # q PROVE Forgotten(p, q)' /\ Follows(p, q)'
  BY <1>1, <1>5, ForgottenKeeps, FollowsKeeps DEF Inv
<1> QED BY <1>2, <1>3, <1>4, <1>5 DEF Inv

\* What the queues of sessions and pages hold, in every state (onPublish(),
\* onCall(), onClose() and the handlers of game.js).
THEOREM GameInvariant == Spec => []Inv
  BY InvInit, InvKeeps, PTL DEF Spec

\* The server has nothing of a session whose socket has ended (onClose()).
THEOREM ClosedIsForgotten == Spec => []ServerForgets
<1>1. Inv => ServerForgets
  BY DEF Inv, Session, Unborn, ServerForgets, Unset
<1> QED BY <1>1, GameInvariant, PTL

\* A hero whose removal a page was sent is not drawn there again, and nobody's
\* hero never, unless a player goes on after char_remove (game.js, char_remove).
THEOREM GoneForGood == Spec => []GoneStayGone
<1>1. Inv => GoneStayGone
  <2> SUFFICES ASSUME Inv, NEW p \in Player
               PROVE  /\ \A q \in told[p] \ late : down[p] = <<>> => heros[p][q] = Absent
                      /\ heros[p][Nobody] # Absent => late # {}
    BY DEF GoneStayGone
  <2>1. ASSUME NEW q \in told[p] \ late, down[p] = <<>>, heros[p][q] # Absent PROVE FALSE
    <3>1. q \in Player /\ q # p
      BY TypedAt DEF Inv, NotOwn
    <3>2. \E k \in At(down[p]) : Fells(down[p][k], q)
      BY <2>1, <3>1 DEF Inv, Forgotten
    <3> QED BY <2>1, <3>2 DEF At
  <2>2. heros[p][Nobody] # Absent => late # {}
    BY DEF Inv, NoNobody
  <2> QED BY <2>1, <2>2
<1> QED BY <1>1, GameInvariant, PTL

\* An open page that has heard everything shows every other one where the server
\* has it, in the type the server has (onPublish(), onCall()).
THEOREM PagesFollow == Spec => []PagesAgree
<1>1. Inv => PagesAgree
  <2> SUFFICES ASSUME Inv, NEW p \in Player, NEW q \in Player, p # q,
                      {page[p], page[q]} = {"open"},
                      <<up[p], up[q], down[p]>> = <<<<>>, <<>>, <<>>>>
               PROVE  /\ heros[p][q] # Absent /\ heros[p][q].pos = data[q].pos
                      /\ q \notin odd => heros[p][q].type = data[q].type
    BY DEF PagesAgree
  <2>0. page[p] = "open" /\ page[q] = "open" /\ up[p] = <<>> /\ up[q] = <<>> /\ down[p] = <<>>
    OBVIOUS
  <2>1. At(up[p]) = {} /\ At(up[q]) = {} /\ At(down[p]) = {}
    BY <2>0 DEF At
  <2>2. data[q] # Absent
    BY <2>0, <2>1 DEF Inv, Session, Placed
  <2>3. Shows(p, q)
    BY <2>0, <2>1, <2>2 DEF Inv, Follows, Asked
  <2> QED BY <2>1, <2>3 DEF Shows, Drawn, PutNow, DressedNow
<1> QED BY <1>1, GameInvariant, PTL
=============================================================================
