----------------------------- MODULE Multiplex -----------------------------
(***************************************************************************)
(* Several pages that show one deck and follow each other, in the three    *)
(* ways this repository has:                                               *)
(*   "multiplex"  plugin/multiplex: master.js sends where it is to the     *)
(*                socket server index.js, which checks the secret and      *)
(*                broadcasts; client.js goes there;                        *)
(*   "notes"      plugin/notes-server: the presenter's client.js sends     *)
(*                slides and single steps of fragments, the notes page     *)
(*                repeats them;                                            *)
(*   "popup"      plugin/notes: openNotes() posts to a window it opened,   *)
(*                whose own navigation calls slide() of the opener.        *)
(* A page is a deck of module Slides.  The network keeps the order of what *)
(* one page sends, and says nothing of how two pages' messages mix.        *)
(***************************************************************************)
EXTENDS Slides

CONSTANTS Page,      \* the pages
          Setups,    \* [c, how, masters, clients, trusted]: what each loads
          MaxMoves   \* bound: navigations by the users

ASSUME MaxMovesAssumption == MaxMoves \in Nat

(* Each setup loads one deck; a page of the notes or of the popup does not  *)
(* present what it is told.                                                 *)
IsSetup(s) ==
  /\ IsPresentation(s.c)
  /\ s.masters \subseteq Page /\ s.clients \subseteq Page
  /\ s.how \in {"multiplex", "notes", "popup"}
  /\ s.how # "multiplex" => s.masters \cap s.clients = {}

ASSUME SetupsAssumption == \A s \in Setups : IsSetup(s)

VARIABLES
  setup,    \* the setup in use
  deck,     \* the deck of each page
  up,       \* what each page has sent to the server and it has not read
  down,     \* what was sent to each page and it has not read
  moves,    \* navigations so far
  strayed   \* history: pages whose user navigated, or that were reloaded,
            \* since they were last told where to be

vars == <<setup, deck, up, down, moves, strayed>>

FreshPage(c) == [ReadURL(c, SortAllFragments(c, FreshDeck(c)), HashAt(0, 0)) EXCEPT !.events = <<>>]
Quiet(e) == [e EXCEPT !.events = <<>>]

Init ==
  /\ setup \in Setups
  /\ deck = [p \in Page |-> FreshPage(setup.c)]
  /\ up = [p \in Page |-> <<>>] /\ down = [p \in Page |-> <<>>]
  /\ moves = 0 /\ strayed = {}

\* Mutant: the place that comes next is sent.
PlaceNext(e, f) == [by |-> 0, h |-> e.h + 1, v |-> 0, f |-> f]
Place(e, f) == [by |-> 0, h |-> e.h, v |-> e.v, f |-> f]
Step(by)    == [by |-> by, h |-> 0, v |-> 0, f |-> Undef]

(* The events of the deck e that the plugins listen to, by position.        *)
Heard(e) == {i \in DOMAIN e.events : e.events[i] # "url"}

\* Mutant: the origin is not looked at.
NoticesEcho(e, origin) ==
  LET f == Indices(e).f
  IN [i \in 1 .. Cardinality(Heard(e)) |-> Place(e, IF f = Undef THEN 0 ELSE f)]

(* notify(): every event of the deck e is answered with the place it is in, *)
(* which has the same indices for each of them; a slide that was ordered    *)
(* from elsewhere has an origin and is not told, but events of fragments    *)
(* carry none.  Without fragments their index is sent as 0.                 *)
Notices(e, origin) ==
  LET f == Indices(e).f
      told == {i \in Heard(e) : e.events[i] = "slidechanged" => origin = "user"}
  IN [i \in 1 .. Cardinality(told) |-> Place(e, IF f = Undef THEN 0 ELSE f)]

(* The presenter's side of the notes server: fragments as single steps.     *)
PresenterSays(e) ==
  LET nth(k) == CHOOSE i \in Heard(e) : Cardinality({j \in Heard(e) : j <= i}) = k
      Saying(event) == CASE event = "fragmentshown"  -> Step(1)
                         [] event = "fragmenthidden" -> Step(-1)
                         [] event = "slidechanged"   -> Place(e, Undef)
  IN [k \in 1 .. Cardinality(Heard(e)) |-> Saying(e.events[nth(k)])]

(* post() of the notes plugin, for each event of the opener.                *)
Post(e) == [i \in 1 .. Cardinality(Heard(e)) |-> Place(e, Indices(e).f)]

Says(p, e, origin) ==
  IF p \notin setup.masters THEN <<>>
  ELSE CASE setup.how = "multiplex" -> Notices(e, origin)
         [] setup.how = "notes"     -> PresenterSays(e)
         [] setup.how = "popup"     -> Post(e)

Follow(c, e, m) ==
  IF m.by # 0 THEN StepFragment(c, e, m.by) ELSE Slide(c, e, m.h, m.v, m.f)

-----------------------------------------------------------------------------
(* The user of page p presses an arrow.                                     *)
Navigate(p, dir) ==
  /\ moves < MaxMoves
  /\ p \in setup.masters \/ (setup.how = "multiplex" /\ p \in setup.clients)
  /\ LET e == Press(setup.c, deck[p], dir)
     IN /\ deck' = [deck EXCEPT ![p] = Quiet(e)]
        /\ up' = [up EXCEPT ![p] = @ \o Says(p, e, "user")]
  /\ moves' = moves + 1
  /\ strayed' = strayed \cup ({p} \cap setup.clients)
  /\ UNCHANGED <<setup, down>>

(* synchronizeMainWindow(): the user navigates inside of the popup p, and   *)
(* each of its events puts the opener where the popup is, in one go.  The   *)
(* post() at the popup's load is left out: both pages start on one slide.   *)
NavigatePopup(p, opener, dir) ==
  /\ setup.how = "popup" /\ moves < MaxMoves
  /\ p \in setup.clients /\ opener \in setup.masters
  /\ LET e == Press(setup.c, deck[p], dir)
         i == Indices(e)
         o == IF Heard(e) = {} THEN deck[opener] ELSE Slide(setup.c, deck[opener], i.h, i.v, i.f)
     IN /\ deck' = [deck EXCEPT ![p] = Quiet(e), ![opener] = Quiet(o)]
        /\ up' = [up EXCEPT ![opener] = @ \o Post(o)]
  /\ moves' = moves + 1
  /\ UNCHANGED <<setup, down, strayed>>

\* Mutant: the secret is not asked for.
RelayAny(p) ==
  /\ up[p] # <<>>
  /\ up' = [up EXCEPT ![p] = Tail(@)]
  /\ down' = [q \in Page |-> IF q \in setup.clients \ {p}
                             THEN Append(down[q], Head(up[p])) ELSE down[q]]
  /\ UNCHANGED <<setup, deck, moves, strayed>>

(* The server: what does not carry the secret of its id is dropped, the     *)
(* rest goes to every other connection.  A posted message goes its own way. *)
Relay(p) ==
  /\ up[p] # <<>>
  /\ up' = [up EXCEPT ![p] = Tail(@)]
  /\ down' = [q \in Page |-> IF q \in setup.clients \ {p} /\ p \in setup.trusted
                             THEN Append(down[q], Head(up[p])) ELSE down[q]]
  /\ UNCHANGED <<setup, deck, moves, strayed>>

(* A page goes where it is told, with the origin "remote".                  *)
Deliver(p) ==
  /\ down[p] # <<>>
  /\ LET e == Follow(setup.c, deck[p], Head(down[p]))
     IN /\ deck' = [deck EXCEPT ![p] = Quiet(e)]
        /\ up' = [up EXCEPT ![p] = @ \o Says(p, e, "remote")]
  /\ down' = [down EXCEPT ![p] = Tail(@)]
  /\ strayed' = strayed \ {p}
  /\ UNCHANGED <<setup, moves>>

(* A member of the audience reloads the page, and with it the connection.   *)
Reload(p) ==
  /\ setup.how = "multiplex" /\ p \in setup.clients \ setup.masters
  /\ moves < MaxMoves /\ moves' = moves + 1
  /\ deck' = [deck EXCEPT ![p] = FreshPage(setup.c)]
  /\ down' = [down EXCEPT ![p] = <<>>]
  /\ strayed' = strayed \cup {p}
  /\ UNCHANGED <<setup, up>>

HomeTimer(p) ==
  /\ deck[p].home
  /\ deck' = [deck EXCEPT ![p] = ResetStacks(setup.c, @)]
  /\ UNCHANGED <<setup, up, down, moves, strayed>>

Arrows == {"left", "right", "down", "prev", "next"}

Network == \E p \in Page : Relay(p) \/ Deliver(p) \/ HomeTimer(p)
User ==
  \/ \E p \in Page, dir \in Arrows : Navigate(p, dir)
  \/ \E p, q \in Page, dir \in Arrows : NavigatePopup(p, q, dir)
  \/ \E p \in Page : Reload(p)

Next == Network \/ User

Spec == Init /\ [][Next]_vars

(* Sockets deliver, and the browser runs its tasks; nobody has to navigate. *)
FairSpec ==
  /\ Spec
  /\ \A p \in Page : WF_vars(HomeTimer(p))
  /\ \A p \in Page : []<>(up[p] = <<>>)   \/ []<><<Relay(p)>>_vars
  /\ \A p \in Page : []<>(down[p] = <<>>) \/ []<><<Deliver(p)>>_vars

-----------------------------------------------------------------------------
(* Two decks that show the same.                                            *)
Same(e, g) == e.cur = g.cur /\ e.vis = g.vis

Speakers == setup.masters \cap setup.trusted
OnTheWay(p) == down[p] # <<>> \/ \E q \in Speakers : up[q] # <<>>

(* The type invariant of the pages and the queues: where they are told to   *)
(* go is a place of the deck.                                               *)
TypeOK ==
  /\ setup \in Setups /\ moves \in 0 .. MaxMoves /\ strayed \subseteq setup.clients
  /\ \A p \in Page :
       /\ deck[p].cur \in Leaves(setup.c)
       /\ \A i \in DOMAIN up[p] :
            \/ up[p][i].by \in {-1, 1}
            \/ /\ up[p][i].h \in 0 .. setup.c.n - 1
               /\ SlideAt(setup.c, up[p][i].h, up[p][i].v) \in Leaves(setup.c)

(* What following needs of a setup beyond that.  A place is sent with the   *)
(* number of fragments visible there, which finds the same again when       *)
(* fragments are enabled and no two of them come together (group_followed   *)
(* shows two that do).  A popup has one opener.                             *)
Ungrouped(c) ==
  \A l \in Leaves(c) : \A i, j \in DOMAIN c.frags[l] :
    c.frags[l][i] = c.frags[l][j] /\ c.frags[l][i] # Undef => i = j

Steady(s) ==
  /\ s.how # "notes" => s.c.fragments /\ Ungrouped(s.c)
  /\ s.how = "popup" => \A m, k \in s.masters : m = k

(* "As the master presentation navigates the slides, all client             *)
(* presentations will update": with one page that has the secret, a page    *)
(* that has read everything sent to it and that nobody has moved since      *)
(* shows the slide and the fragments of that one.  The notes follow by      *)
(* single steps, so none may be lost or repeated on the way.                *)
FollowersShowMaster ==
  \A m \in Speakers, p \in setup.clients \ Speakers :
    Speakers = {m} /\ p \notin strayed /\ ~OnTheWay(p) => Same(deck[p], deck[m])

(* Once the users let go, the pages stop telling each other where to be:    *)
(* what a page does because it was told is not told again.                  *)
TrafficSettles ==
  <>[][Network]_vars => <>[](\A p \in Page : up[p] = <<>> /\ down[p] = <<>>)

=============================================================================
