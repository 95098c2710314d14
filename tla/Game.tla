-------------------------------- MODULE Game --------------------------------
(***************************************************************************)
(* The canvas game: ExGame\Server, which keeps what each session published *)
(* last in $playerData and passes events on, and the pages that run        *)
(* simple_canvas_game/js/game.js, each with a hero of its own and copies   *)
(* of the others' in heros.  A page has one session and one hero id, so    *)
(* one name stands for the three.  A socket keeps the order of what is     *)
(* sent on it; sockets know nothing of each other.                         *)
(*                                                                         *)
(* A position is the number of times the hero has moved; a type is what    *)
(* "/type" asks for, known when there is a sprite of that name.            *)
(***************************************************************************)
EXTENDS Integers, Sequences

CONSTANTS
  Player,    \* the pages; each is opened at most once
  Known,     \* the names in spriteCollection, "hero" among them
  Commands,  \* what is typed behind a "/"
  MaxActs    \* bound: key strokes, messages and departures of all players

Nowhere == -1                       \* parseFloat(undefined)
Nobody  == "undefined"              \* heros[undefined]

ASSUME GameAssumption ==
  "hero" \in Known /\ "absent" \notin Known /\ Nobody \notin Player /\ MaxActs \in Nat

Absent  == [pos |-> Nowhere, type |-> "absent"]

VARIABLES
  page,      \* away, open, leaving (beforeunload has run) or gone; closed
             \* once the server knows
  mine,      \* myHero of each page
  heros,     \* each page's copies of the heroes of others
  up,        \* messages on the way to the server
  down,      \* messages on the way to each page
  data,      \* $playerData, by session
  topics,    \* the topics each session is subscribed to
  acts,      \* acts so far
  told,      \* history: whose removal was sent to each page
  late,      \* history: who published after taking leave
  odd        \* history: whose type is not what the others were told

vars == <<page, mine, heros, up, down, data, topics, acts, told, late, odd>>

Up == {"open", "leaving"}
Unset(p) == data[p] = Absent

NoHeros == [q \in Player \cup {Nobody} |-> Absent]

Init ==
  /\ page = [p \in Player |-> "away"]
  /\ mine = [p \in Player |-> [pos |-> 0, type |-> "hero"]]
  /\ heros = [p \in Player |-> NoHeros]
  /\ up = [p \in Player |-> <<>>] /\ down = [p \in Player |-> <<>>]
  /\ data = [p \in Player |-> Absent]
  /\ topics = [p \in Player |-> {}]
  /\ acts = 0
  /\ told = [p \in Player |-> {}] /\ late = {} /\ odd = {}

Act == acts < MaxActs /\ acts' = acts + 1

Message(topic, p, h) == [topic |-> topic, id |-> p, pos |-> h.pos, type |-> h.type]

Publish(p, topic, h) ==
  /\ up' = [up EXCEPT ![p] = Append(@, Message(topic, p, h))]
  /\ late' = late \cup (IF page[p] = "leaving" THEN {p} ELSE {})

-----------------------------------------------------------------------------
(* The page.                                                                *)

\* Mutant: the others are asked for before their events are subscribed to.
GreetingFirst(p) ==
  <<Message("sync", p, mine[p]), Message("listen", p, mine[p]),
    Message("listenRemove", p, mine[p]), Message("add", p, mine[p])>>

(* What the callback of ab.Session sends: four subscriptions, char_add and  *)
(* the call of "synchronize".  The subscriptions before char_remove are one *)
(* message: a page without heroes ignores all events but char_add.          *)
Greeting(p) ==
  <<Message("listen", p, mine[p]), Message("listenRemove", p, mine[p]),
    Message("add", p, mine[p]), Message("sync", p, mine[p])>>

Open(p) ==
  /\ page[p] = "away"
  /\ page' = [page EXCEPT ![p] = "open"]
  /\ up' = [up EXCEPT ![p] = Greeting(p)]
  /\ UNCHANGED <<mine, heros, down, data, topics, acts, told, late, odd>>

(* update() with keys down: the hero moves and char_move is published, or   *)
(* the canvas ends in one direction after it has moved in another, and      *)
(* update() returns before it publishes.                                    *)
Update(p, returns) ==
  /\ page[p] \in Up /\ Act
  /\ LET h == [mine[p] EXCEPT !.pos = @ + 1]
     IN /\ mine' = [mine EXCEPT ![p] = h]
        /\ IF returns THEN UNCHANGED <<up, late>> ELSE Publish(p, "move", h)
  /\ UNCHANGED <<page, heros, down, data, topics, told, odd>>

(* sendMessage(): myHero takes the type named by all but the first letter,  *)
(* whether that is a "/" or not; the server sees to the others only if it   *)
(* is, and keeps a type that nobody knows.                                  *)
SendMessage(p, command, rest) ==
  /\ page[p] \in Up /\ Act
  /\ Publish(p, IF command THEN "command" ELSE "say", [mine[p] EXCEPT !.type = rest])
  /\ mine' = [mine EXCEPT ![p].type = IF rest \in Known THEN rest ELSE @]
  /\ odd' = odd \cup (IF command = (rest \in Known) THEN {} ELSE {p})
  /\ UNCHANGED <<page, heros, down, data, topics, told>>

(* onbeforeunload; the page goes on until the next one has arrived.         *)
BeforeUnload(p) ==
  /\ page[p] = "open" /\ Act
  /\ page' = [page EXCEPT ![p] = "leaving"]
  /\ up' = [up EXCEPT ![p] = Append(@, Message("remove", p, mine[p]))]
  /\ UNCHANGED <<mine, heros, down, data, topics, told, late, odd>>

(* The socket ends, with the page or by itself; some of what was sent last  *)
(* may never arrive.                                                        *)
Vanish(p) ==
  /\ page[p] \in Up
  /\ IF page[p] = "leaving" THEN UNCHANGED acts ELSE Act
  /\ page' = [page EXCEPT ![p] = "gone"]
  /\ \E n \in 0 .. Len(up[p]) : up' = [up EXCEPT ![p] = SubSeq(@, 1, n)]
  /\ down' = [down EXCEPT ![p] = <<>>] /\ heros' = [heros EXCEPT ![p] = NoHeros]
  /\ UNCHANGED <<mine, data, topics, told, late, odd>>

Copy(pos, type) == [pos |-> pos, type |-> IF type \in Known THEN type ELSE "hero"]

\* The heroes of a page after the answer of "synchronize".  A hero without an id
\* is kept under the key undefined; its type, the last one's, is left fixed here.
Synchronized(p, answer) ==
  [q \in DOMAIN heros[p] |->
     IF q = Nobody
     THEN IF \E r \in Player : answer[r].pos = Nowhere /\ answer[r] # Absent
          THEN Copy(Nowhere, "hero") ELSE heros[p][q]
     ELSE IF q # p /\ answer[q].pos # Nowhere
          THEN Copy(answer[q].pos, answer[q].type) ELSE heros[p][q]]

(* The handlers of the four topics, and of the answer.                      *)
Heard(p, m) ==
  CASE m.topic = "add" ->
         [heros[p] EXCEPT ![m.id] = Copy(m.pos, "hero")]
    [] m.topic = "move" ->
         [heros[p] EXCEPT ![m.id] = IF @ = Absent THEN @ ELSE [@ EXCEPT !.pos = m.pos]]
    [] m.topic = "command" ->
         [heros[p] EXCEPT ![m.id] = IF @ = Absent \/ m.type \notin Known THEN @
                                    ELSE [@ EXCEPT !.type = m.type]]
    [] m.topic = "say" -> heros[p]
    [] m.topic = "remove" -> [heros[p] EXCEPT ![m.id] = Absent]
    [] m.topic = "sync" -> Synchronized(p, m.data)

Receive(p) ==
  /\ page[p] \in Up /\ down[p] # <<>>
  /\ heros' = [heros EXCEPT ![p] = Heard(p, Head(down[p]))]
  /\ down' = [down EXCEPT ![p] = Tail(@)]
  /\ UNCHANGED <<page, mine, up, data, topics, acts, told, late, odd>>

-----------------------------------------------------------------------------
(* The server.                                                              *)

\* Mutant: one who takes leave stays in the data until the socket closes.
DataKept(p, m) ==
  CASE m.topic \in {"add", "move"} -> [pos |-> m.pos, type |-> m.type]
    [] m.topic = "command"         -> [data[p] EXCEPT !.type = m.type]
    [] OTHER                       -> data[p]

(* What onPublish() keeps of a message.  A "/type" of a session that is not *)
(* there makes an entry of nothing but the type.                            *)
Data(p, m) ==
  CASE m.topic \in {"add", "move"} -> [pos |-> m.pos, type |-> m.type]
    [] m.topic = "command"         -> [data[p] EXCEPT !.type = m.type]
    [] m.topic = "remove"          -> Absent
    [] OTHER                       -> data[p]

Topic(m) == IF m.topic \in {"command", "say"} THEN "msg" ELSE m.topic

(* onPublish(): to every subscriber but the one who published.  What is     *)
(* sent to a page that is gone is lost.                                     *)
OnPublish(p, m) ==
  LET to == {q \in Player \ {p} : Topic(m) \in topics[q]}
  IN /\ data' = [data EXCEPT ![p] = Data(p, m)]
     /\ down' = [q \in Player |-> IF q \in to /\ page[q] \in Up
                                 THEN Append(down[q], m) ELSE down[q]]
     /\ told' = IF m.topic = "remove"
                THEN [q \in Player |-> IF q \in to THEN told[q] \cup {p} ELSE told[q]] ELSE told
     /\ UNCHANGED topics

OnSubscribe(p, m) ==
  /\ topics' = [topics EXCEPT ![p] =
                  @ \cup (IF m.topic = "listen" THEN {"move", "msg", "add"} ELSE {"remove"})]
  /\ UNCHANGED <<data, down, told>>

OnCall(p) ==
  /\ down' = IF page[p] \in Up
              THEN [down EXCEPT ![p] = Append(@, [topic |-> "sync", data |-> data])] ELSE down
  /\ UNCHANGED <<data, topics, told>>

OnMessage(p) ==
  /\ up[p] # <<>>
  /\ LET m == Head(up[p])
     IN CASE m.topic \in {"listen", "listenRemove"} -> OnSubscribe(p, m)
          [] m.topic = "sync" -> OnCall(p)
          [] OTHER -> OnPublish(p, m)
  /\ up' = [up EXCEPT ![p] = Tail(@)]
  /\ UNCHANGED <<page, mine, heros, acts, late, odd>>

\* Mutant: the entry of the session is left.
OnCloseOnly(p) ==
  /\ page[p] = "gone" /\ up[p] = <<>>
  /\ page' = [page EXCEPT ![p] = "closed"]
  /\ topics' = [topics EXCEPT ![p] = {}]
  /\ UNCHANGED <<data, mine, heros, up, down, acts, told, late, odd>>

(* onClose(): the entry goes, and nobody is told.                           *)
OnClose(p) ==
  /\ page[p] = "gone" /\ up[p] = <<>>
  /\ page' = [page EXCEPT ![p] = "closed"]
  /\ topics' = [topics EXCEPT ![p] = {}]
  /\ data' = [data EXCEPT ![p] = Absent]
  /\ UNCHANGED <<mine, heros, up, down, acts, told, late, odd>>

-----------------------------------------------------------------------------
Network == \E p \in Player : Receive(p) \/ OnMessage(p) \/ OnClose(p)

Users ==
  \E p \in Player :
    \/ Open(p)
    \/ \E returns \in BOOLEAN : Update(p, returns)
    \/ \E command \in BOOLEAN, rest \in Commands : SendMessage(p, command, rest)
    \/ BeforeUnload(p)
    \/ Vanish(p)

Next == Network \/ Users

Spec == Init /\ [][Next]_vars

-----------------------------------------------------------------------------
(* A page that is open and has nothing more to say or to read shows every   *)
(* other one where the server has it, in the type the server has: no event  *)
(* falls between the subscriptions and the answer of "synchronize", and the *)
(* answer undoes none that came before it (onPublish(), onCall()).          *)
PagesAgree ==
  \A p, q \in Player :
    /\ p # q /\ {page[p], page[q]} = {"open"}
    /\ <<up[p], up[q], down[p]>> = <<<<>>, <<>>, <<>>>>
    => /\ heros[p][q] # Absent /\ heros[p][q].pos = data[q].pos
       /\ q \notin odd => heros[p][q].type = data[q].type

(* A hero whose removal a page was sent is not drawn there again, though    *)
(* the answer of "synchronize" may be on its way, unless its player went on *)
(* after char_remove; and only then is a hero drawn that is nobody's.       *)
GoneStayGone ==
  \A p \in Player :
    /\ \A q \in told[p] \ late : down[p] = <<>> => heros[p][q] = Absent
    /\ heros[p][Nobody] # Absent => late # {}

(* The server forgets a session whose socket has ended, whatever its page   *)
(* published last, char_move after char_remove included (onClose()).        *)
ServerForgets == \A p \in Player : page[p] = "closed" => Unset(p)

=============================================================================
