------------------------------- MODULE Reveal -------------------------------
(***************************************************************************)
(* One page that runs reveal.js: the deck of module Slides driven by every *)
(* event handler and timer of the file.  The browser runs one handler at a *)
(* time, to its end, so each is one action; between two handlers anything  *)
(* that is pending (a timer, a hashchange event, the user) may come next.  *)
(*                                                                         *)
(* Beside the markup and the config used by Slides, a presentation c says  *)
(*   c.auto[s]     data-autoslide of section s, Undef where it is missing  *)
(*   c.autoSlide, c.stoppable, c.history, c.mouseWheel, c.touch   config   *)
(*   c.start       the hash the page is opened with                        *)
(*   c.keys, c.links, c.options, c.calls    what its user does: the keys   *)
(*                 pressed, the hashes typed or followed, the options given *)
(*                 to configure(), the arguments given to slide()          *)
(*   c.preview     whether a slide has a link that opens in the overlay    *)
(***************************************************************************)
EXTENDS Slides

CONSTANTS Presentations,   \* the presentations a page may show
          MaxValue,        \* stands for Number.MAX_VALUE
          MaxPending       \* bound: hashchange events queued at a time

IsHash(url) == {"name", "h", "v"} \subseteq DOMAIN url /\ url.h \in Int /\ url.v \in Int

IsPage(p) ==
  /\ IsPresentation(p)
  /\ p.history \in BOOLEAN /\ p.stoppable \in BOOLEAN
  /\ IsHash(p.start) /\ \A url \in p.links : IsHash(url)
  /\ {"n", "verticals", "startv", "frags", "ids", "number", "viewDistance", "loop", "rtl",
      "fragments", "autoSlide", "stoppable", "history", "start", "links", "options"}
        \subseteq DOMAIN p
  /\ p.options \subseteq [loop : BOOLEAN, autoSlide : Nat]

ASSUME MaxValueAssumption == MaxValue \in Nat
ASSUME MaxPendingAssumption == MaxPending \in Nat \ {0}
ASSUME PresentationsAssumption == \A p \in Presentations : IsPage(p)

VARIABLES
  c,           \* the presentation and its config
  d,           \* the deck
  hash,        \* window.location.hash
  hashEvents,  \* hashchange events not yet handled
  paused,      \* the wrapper has the class 'paused'
  armed,       \* the timeout of autoSlideTimeout is pending
  stopped,     \* autoSlidePaused
  player,      \* autoSlidePlayer: none, idle or playing
  ovTimer,     \* activateOverviewTimeout: none, or what wasActive makes of it
  clickable,   \* the slides listen to onOverviewSlideClicked
  zoomable,    \* isEnabled of the zoom plugin, set by the overview's events
  touch,       \* the ongoing touch: fingers down, startCount, captured
  preview      \* dom.preview: none, hidden until its timer has run, visible

urlVars  == <<hash, hashEvents>>
autoVars == <<armed, stopped, player>>
gridVars == <<ovTimer, clickable, zoomable>>
vars == <<c, d, urlVars, paused, autoVars, gridVars, touch, preview>>

Slid(e) == \E i \in DOMAIN e.events : e.events[i] = "url"

(* The duration cueAutoSlide() picks: the slide's own data-autoslide, its   *)
(* stack's, the config's.  An attribute "0" is a string, hence present.     *)
AutoSlideOf(p, e) ==
  LET own    == p.auto[e.cur]
      parent == IF IsVerticalSlide(e.cur) THEN p.auto[<<e.cur[1], Whole>>] ELSE Undef
  IN IF own # Undef THEN own ELSE IF parent # Undef THEN parent ELSE p.autoSlide

(* The condition under which cueAutoSlide() sets the timeout.               *)
Ready(p, e, isPaused, isStopped) ==
  /\ AutoSlideOf(p, e) # 0
  /\ ~isStopped
  /\ ~isPaused
  /\ ~e.overview
  /\ ~IsLastSlide(p, e) \/ p.loop

CueAutoSlide(p, e, isPaused, isStopped) ==
  /\ armed' = Ready(p, e, isPaused, isStopped)
  /\ player' = IF player = "none" THEN "none"
               ELSE IF Ready(p, e, isPaused, isStopped) THEN "playing" ELSE "idle"

(* writeURL(): assigning another hash queues a hashchange event.            *)
WriteURL(url) ==
  /\ hash' = url
  /\ hashEvents' = IF url # hash /\ hashEvents < MaxPending THEN hashEvents + 1 ELSE hashEvents

(* What a handler leaves behind: the deck e, the URL if slide() ran, the    *)
(* auto-slide stopped first when user says that onUserInput() was called,   *)
(* and cued again by slide() or when cue says that the handler does it.     *)
Settle(e, user, cue) ==
  LET stops == user /\ c.stoppable
  IN /\ d' = [e EXCEPT !.events = <<>>]
     /\ IF Slid(e) /\ c.history THEN WriteURL(UrlOf(c, e)) ELSE UNCHANGED urlVars
     /\ stopped' = (stopped \/ stops)
     /\ IF Slid(e) \/ cue
        THEN CueAutoSlide(c, e, paused, stopped \/ stops)
        ELSE /\ armed' = (armed /\ ~stops)
             /\ player' = IF stops /\ player = "playing" THEN "idle" ELSE player

(* slide() runs activateOverview() again when the overview is on, which     *)
(* replaces the timer by one that announces nothing.                        *)
Reposition(e) ==
  /\ ovTimer' = IF Slid(e) /\ e.overview THEN "again" ELSE ovTimer
  /\ UNCHANGED <<clickable, zoomable>>

(* A handler that navigates and changes nothing else.                       *)
Moves(e, user, cue) ==
  Settle(e, user, cue) /\ Reposition(e) /\ UNCHANGED <<c, paused>>

(* activateOverview(); overviewshown is sent later, by the timer.           *)
ActivateOverview == [d EXCEPT !.overview = TRUE]
Opens ==
  /\ ovTimer' = IF d.overview THEN "again" ELSE "show"
  /\ UNCHANGED <<clickable, zoomable>>

(* deactivateOverview() slides to where we are; overviewhidden goes at once. *)
DeactivateOverview == Slide(c, [d EXCEPT !.overview = FALSE], d.h, d.v, Undef)
\* Mutant: the timer of activateOverview() is not cleared.
ClosesLate == clickable' = FALSE /\ zoomable' = TRUE /\ UNCHANGED ovTimer
Closes == ovTimer' = "none" /\ clickable' = FALSE /\ zoomable' = TRUE

-----------------------------------------------------------------------------
HasPlayer(p) == Cardinality(Sections(p)) > 1 /\ p.autoSlide # 0 /\ p.stoppable

(* start(): set up, configure(), which listens to hashchange events, then   *)
(* readURL(), which slides and so writes the address.                       *)
Init ==
  /\ c \in Presentations
  /\ LET e == ReadURL(c, SortAllFragments(c, FreshDeck(c)), c.start)
     IN /\ d = [e EXCEPT !.events = <<>>]
        /\ hash = IF c.history THEN UrlOf(c, e) ELSE c.start
        /\ armed = Ready(c, e, FALSE, FALSE)
        /\ player = IF ~HasPlayer(c) THEN "none"
                    ELSE IF Ready(c, e, FALSE, FALSE) THEN "playing" ELSE "idle"
  /\ hashEvents = IF hash # c.start THEN 1 ELSE 0
  /\ paused = FALSE /\ stopped = FALSE
  /\ ovTimer = "none" /\ clickable = FALSE /\ zoomable = TRUE
  /\ touch = [fingers |-> 0, startCount |-> 0, captured |-> FALSE]
  /\ preview = "none"

-----------------------------------------------------------------------------
(* onDocumentKeyDown() calls onUserInput() before anything else and         *)
(* cueAutoSlide() last; a key that is ignored does only the first.          *)
Arrow == [h |-> "left", l |-> "right", k |-> "up", j |-> "down", p |-> "prev", n |-> "next"]

KeyIgnored ==
  /\ "ignored" \in c.keys \/ (paused /\ c.keys # {})
  /\ Settle(d, TRUE, FALSE) /\ Reposition(d)
  /\ UNCHANGED <<c, paused, touch, preview>>

KeyMoves(k) ==
  /\ ~paused
  /\ \/ /\ k \in DOMAIN Arrow
        /\ Moves(Press(c, d, Arrow[k]), TRUE, TRUE)
     \/ /\ k = "home"
        /\ Moves(Slide(c, d, 0, Undef, Undef), TRUE, TRUE)
     \/ /\ k = "end"
        /\ Moves(Slide(c, d, MaxValue, Undef, Undef), TRUE, TRUE)
     \/ /\ k = "space" /\ ~d.overview
        /\ Moves(NavigateNext(c, d), TRUE, TRUE)
     \/ /\ k = "shift" /\ ~d.overview
        /\ Moves(NavigatePrev(c, d), TRUE, TRUE)
     \/ /\ k = "return" /\ ~d.overview
        /\ Moves(d, TRUE, TRUE)
  /\ UNCHANGED <<touch, preview>>

KeyLeavesOverview(k) ==
  /\ ~paused /\ d.overview
  /\ k \in {"space", "shift", "return"}
  /\ Settle(DeactivateOverview, TRUE, TRUE) /\ Closes
  /\ UNCHANGED <<c, paused, touch, preview>>

\* Mutant: resume() does not cue.
TogglePauseOnly(user) ==
  LET stops == user /\ c.stoppable
  IN /\ paused' = ~paused
     /\ stopped' = (stopped \/ stops)
     /\ IF user
        THEN CueAutoSlide(c, d, ~paused, stopped \/ stops)
        ELSE armed' = FALSE /\ UNCHANGED player
     /\ UNCHANGED <<c, d, urlVars, gridVars, touch, preview>>

(* togglePause(); the class goes first, the cue is the handler's.           *)
TogglePause(user) ==
  LET stops == user /\ c.stoppable
  IN /\ paused' = ~paused
     /\ stopped' = (stopped \/ stops)
     /\ IF user \/ paused
        THEN CueAutoSlide(c, d, ~paused, stopped \/ stops)
        ELSE armed' = FALSE /\ UNCHANGED player
     /\ UNCHANGED <<c, d, urlVars, gridVars, touch, preview>>

KeyPause == "b" \in c.keys /\ TogglePause(TRUE)

(* ESC and o close the preview if there is one, else toggle the overview.   *)
KeyEscape ==
  /\ ~paused /\ "esc" \in c.keys
  /\ \/ /\ preview # "none"
        /\ Moves(d, TRUE, TRUE)
     \/ /\ preview = "none" /\ ~d.overview
        /\ Settle(ActivateOverview, TRUE, TRUE) /\ Opens
        /\ UNCHANGED <<c, paused>>
     \/ /\ preview = "none" /\ d.overview
        /\ Settle(DeactivateOverview, TRUE, TRUE) /\ Closes
        /\ UNCHANGED <<c, paused>>
  /\ preview' = "none" /\ UNCHANGED touch

(* Reveal.toggleOverview() and Reveal.togglePause(), as the leap and the    *)
(* remotes plugins call them: no user input, and no cue when switching on.  *)
ApiToggleOverview ==
  /\ "overview" \in c.calls
  /\ IF d.overview
     THEN Settle(DeactivateOverview, FALSE, TRUE) /\ Closes
     ELSE /\ d' = ActivateOverview /\ Opens
          /\ armed' = FALSE
          /\ UNCHANGED <<player, stopped, urlVars>>
  /\ UNCHANGED <<c, paused, touch, preview>>

(* toggleOverview(override): closing what is closed slides, and announces.  *)
ApiOverview(on) ==
  /\ "override" \in c.calls
  /\ IF on
     THEN /\ d' = ActivateOverview /\ Opens
          /\ armed' = FALSE
          /\ UNCHANGED <<player, stopped, urlVars>>
     ELSE Settle(DeactivateOverview, FALSE, TRUE) /\ Closes
  /\ UNCHANGED <<c, paused, touch, preview>>

(* Reveal.left() ... Reveal.next(), as a remote control or a message calls  *)
(* them: nothing here stops the auto-slide.                                 *)
ApiArrow(dir) ==
  /\ "arrows" \in c.calls
  /\ Moves(Press(c, d, dir), FALSE, dir = "next")
  /\ UNCHANGED <<touch, preview>>

ApiTogglePause == "pause" \in c.calls /\ TogglePause(FALSE)

ApiSlide(h, v, f) ==
  /\ "slide" \in c.calls
  /\ Moves(Slide(c, d, h, v, f), FALSE, FALSE)
  /\ UNCHANGED <<touch, preview>>

-----------------------------------------------------------------------------
(* The mouse.  What covers a paused deck takes its clicks.                  *)
ClickControl(dir) ==
  /\ "mouse" \in c.calls /\ ~paused
  /\ Moves(Press(c, d, dir), TRUE, dir = "next")
  /\ UNCHANGED <<touch, preview>>

ProgressClick(x) ==
  /\ "mouse" \in c.calls /\ ~paused
  /\ Moves(Slide(c, d, x, Undef, Undef), TRUE, FALSE)
  /\ UNCHANGED <<touch, preview>>

(* onDocumentMouseScroll(): no user input as far as auto-slide is concerned. *)
Wheel(dir) ==
  /\ c.mouseWheel
  /\ Moves(Press(c, d, dir), FALSE, dir = "next")
  /\ UNCHANGED <<touch, preview>>

(* onOverviewSlideClicked(): leave the overview, then go to the slide.  The  *)
(* index data-index-v of a slide outside a stack is not a number.  The two  *)
(* slide() of the handler write the address one after the other; here it is *)
(* written once, as the second leaves it.                                   *)
OverviewClick(l) ==
  /\ clickable /\ d.overview /\ ~paused
  /\ Settle(Slide(c, DeactivateOverview, l[1], l[2], Undef), FALSE, FALSE) /\ Closes
  /\ UNCHANGED <<c, paused, touch, preview>>

PlayerClick ==
  /\ player # "none" /\ ~paused
  /\ \/ /\ IsLastSlide(c, d) /\ ~c.loop
        /\ LET e == Slide(c, d, 0, 0, Undef)
           IN /\ d' = [e EXCEPT !.events = <<>>] /\ Reposition(e)
              /\ IF c.history THEN WriteURL(UrlOf(c, e)) ELSE UNCHANGED urlVars
              /\ stopped' = FALSE /\ CueAutoSlide(c, e, paused, FALSE)
     \/ /\ ~(IsLastSlide(c, d) /\ ~c.loop) /\ stopped
        /\ stopped' = FALSE /\ CueAutoSlide(c, d, paused, FALSE)
        /\ Reposition(d) /\ UNCHANGED <<d, urlVars>>
     \/ /\ ~(IsLastSlide(c, d) /\ ~c.loop) /\ ~stopped
        /\ stopped' = TRUE /\ armed' = FALSE /\ player' = "idle"
        /\ Reposition(d) /\ UNCHANGED <<d, urlVars>>
  /\ UNCHANGED <<c, paused, touch, preview>>

(* Touch.  onTouchMove() acts at most once until a finger is lifted: a      *)
(* pinch when the touch began with two fingers, else a swipe.               *)
TouchStart(fingers) ==
  /\ c.touch /\ touch.fingers < fingers
  /\ touch' = [touch EXCEPT !.fingers = fingers, !.startCount = fingers]
  /\ UNCHANGED <<c, d, urlVars, paused, autoVars, gridVars, preview>>

TouchMove(dir) ==
  /\ touch.fingers > 0 /\ ~touch.captured
  /\ \/ /\ dir \in {"left", "right", "up", "down"}
        /\ touch.fingers = 1 /\ touch.startCount # 2
        /\ Moves(Press(c, d, dir), TRUE, FALSE)
        /\ touch' = [touch EXCEPT !.captured = TRUE]
     \/ /\ dir = "in" /\ touch.fingers = 2 /\ touch.startCount = 2
        /\ d' = ActivateOverview /\ Opens
        /\ armed' = FALSE
        /\ stopped' = (stopped \/ c.stoppable)
        /\ player' = IF c.stoppable /\ player = "playing" THEN "idle" ELSE player
        /\ touch' = [touch EXCEPT !.captured = TRUE]
        /\ UNCHANGED <<c, paused, urlVars>>
     \/ /\ dir = "out" /\ touch.fingers = 2 /\ touch.startCount = 2
        /\ Settle(DeactivateOverview, TRUE, TRUE) /\ Closes
        /\ touch' = [touch EXCEPT !.captured = TRUE]
        /\ UNCHANGED <<c, paused>>
     \/ /\ dir = "short"
        /\ Moves(d, TRUE, FALSE) /\ UNCHANGED touch
  /\ UNCHANGED preview

TouchEnd ==
  /\ touch.fingers > 0
  /\ touch' = [touch EXCEPT !.fingers = @ - 1, !.captured = FALSE]
  /\ UNCHANGED <<c, d, urlVars, paused, autoVars, gridVars, preview>>

-----------------------------------------------------------------------------
(* The preview overlay: openPreview() closes the one there is, and makes    *)
(* the new one visible from a timer that looks dom.preview up again.        *)
OpenPreview ==
  /\ c.preview /\ preview = "none" /\ ~paused /\ ~d.overview
  /\ preview' = "hidden"
  /\ UNCHANGED <<c, d, urlVars, paused, autoVars, gridVars, touch>>

PreviewTimer ==
  /\ preview = "hidden" /\ preview' = "visible"
  /\ UNCHANGED <<c, d, urlVars, paused, autoVars, gridVars, touch>>

ClosePreview ==
  /\ preview = "visible" /\ preview' = "none"
  /\ UNCHANGED <<c, d, urlVars, paused, autoVars, gridVars, touch>>

(* sync(): the auto-slide cued by the config as it is now, for the player   *)
(* there is now, and the fragments numbered afresh.                         *)
Sync(p, isStopped) ==
  /\ armed' = Ready(p, d, paused, isStopped)
  /\ player' = IF ~HasPlayer(p) THEN "none" ELSE IF armed' THEN "playing" ELSE "idle"
  /\ d' = SortAllFragments(p, d)

(* configure({...}): another player if one is due, and sync().              *)
Configure(o) ==
  /\ c' = [c EXCEPT !.loop = o.loop, !.autoSlide = o.autoSlide]
  /\ stopped' = IF HasPlayer(c') THEN FALSE ELSE stopped
  /\ Sync(c', stopped')
  /\ UNCHANGED <<urlVars, paused, gridVars, touch, preview>>

-----------------------------------------------------------------------------
(* The timers and the hash.                                                 *)
\* Mutant: a fragment that is shown does not cue the next step.
AutoSlideTimerOnce ==
  /\ armed
  /\ LET e == NavigateNext(c, d)
     IN /\ d' = [e EXCEPT !.events = <<>>] /\ Reposition(e)
        /\ IF Slid(e) THEN CueAutoSlide(c, e, paused, stopped) ELSE armed' = FALSE /\ UNCHANGED player
        /\ UNCHANGED <<urlVars, c, paused, stopped>>
  /\ UNCHANGED <<touch, preview>>

AutoSlideTimer ==
  /\ armed
  /\ Moves(NavigateNext(c, d), FALSE, TRUE)
  /\ UNCHANGED <<touch, preview>>

OverviewTimer ==
  /\ ovTimer # "none"
  /\ ovTimer' = "none" /\ clickable' = TRUE
  /\ zoomable' = (zoomable /\ ovTimer = "again")
  /\ d' = [d EXCEPT !.shown = Shown(c, d)]
  /\ UNCHANGED <<c, urlVars, paused, autoVars, touch, preview>>

(* Every navigation to the first slide sets a 0-ms timeout of its own.      *)
(* Those pending at a time are one here: they do the same, and expire one   *)
(* after the other.                                                         *)
HomeTimer ==
  /\ d.home
  /\ d' = ResetStacks(c, d)
  /\ UNCHANGED <<c, urlVars, paused, autoVars, gridVars, touch, preview>>

(* The user edits the address or follows a link inside the deck.            *)
UserHash(url) ==
  /\ url # hash /\ hashEvents < MaxPending
  /\ hash' = url /\ hashEvents' = hashEvents + 1
  /\ UNCHANGED <<c, d, paused, autoVars, gridVars, touch, preview>>

(* onWindowHashChange() reads the hash as it is by now.                      *)
HashChange ==
  /\ hashEvents > 0
  /\ LET e == ReadURL(c, d, hash)
     IN /\ d' = [e EXCEPT !.events = <<>>] /\ Reposition(e)
        /\ hash' = IF Slid(e) /\ c.history THEN UrlOf(c, e) ELSE hash
        /\ hashEvents' = IF hash' # hash THEN hashEvents ELSE hashEvents - 1
        /\ IF Slid(e) THEN CueAutoSlide(c, e, paused, stopped) ELSE UNCHANGED <<armed, player>>
  /\ UNCHANGED <<c, paused, stopped, touch, preview>>

Timers == AutoSlideTimer \/ OverviewTimer \/ HomeTimer \/ PreviewTimer \/ HashChange

Keys == {"h", "l", "k", "j", "p", "n", "home", "end", "space", "shift", "return"}
Gestures == {"left", "right", "up", "down", "in", "out", "short"}

User ==
  \/ KeyIgnored \/ KeyPause \/ KeyEscape
  \/ \E k \in c.keys \cap Keys : KeyMoves(k) \/ KeyLeavesOverview(k)
  \/ ApiToggleOverview \/ ApiTogglePause
  \/ \E on \in BOOLEAN : ApiOverview(on)
  \/ \E dir \in Directions : ApiArrow(dir)
  \/ \E h \in -1 .. c.n, v \in 0 .. 1, f \in {Undef, -1, 0, 1} : ApiSlide(h, v, f)
  \/ \E dir \in Directions : ClickControl(dir)
  \/ \E x \in 0 .. c.n - 1 : ProgressClick(x)
  \/ \E dir \in {"prev", "next"} : Wheel(dir)
  \/ \E l \in Leaves(c) : OverviewClick(l)
  \/ PlayerClick
  \/ \E fingers \in 1 .. 2 : TouchStart(fingers)
  \/ \E dir \in Gestures : TouchMove(dir)
  \/ TouchEnd
  \/ OpenPreview \/ ClosePreview
  \/ \E o \in c.options : Configure(o)
  \/ \E url \in c.links : UserHash(url)

Next == Timers \/ User

(* The browser runs a timer that has expired and an event that is queued.   *)
(* The first two conjuncts are WF_vars(AutoSlideTimer), WF_vars(HashChange) *)
(* with the guard of the action in the place of ENABLED.                    *)
Fairness ==
  /\ []<>(~armed) \/ []<><<AutoSlideTimer>>_vars
  /\ []<>(hashEvents = 0) \/ []<><<HashChange>>_vars
  /\ WF_vars(OverviewTimer) /\ WF_vars(HomeTimer) /\ WF_vars(PreviewTimer)

Spec == Init /\ [][Next]_vars /\ Fairness

-----------------------------------------------------------------------------
(* The type invariant of a page: what each variable of the closure and each *)
(* attribute of the DOM may hold.                                           *)
TypeOK ==
  /\ d.h \in 0 .. c.n - 1 /\ d.v \in Nat
  /\ d.cur \in Leaves(c) /\ d.cur = SlideAt(c, d.h, d.v)
  /\ d.prev \in Leaves(c) \cup {None} /\ d.prev # d.cur
  /\ d.cls \in [Sections(c) -> {"none", "past", "present", "future"}]
  /\ \A l \in Leaves(c) : d.mark[l] \subseteq d.vis[l] /\ d.vis[l] \subseteq DOMAIN c.frags[l]
  /\ hashEvents \in 0 .. MaxPending
  /\ <<paused, armed, stopped, clickable, zoomable>> \in [1 .. 5 -> BOOLEAN]
  /\ player \in {"none", "idle", "playing"}
  /\ ovTimer \in {"none", "show", "again"}
  /\ preview \in {"none", "hidden", "visible"}

(* The progress bar, which counts the DOM's classes, agrees with the        *)
(* indices: one slide alone is present, it is the current one, it is on     *)
(* display, and the slides counted as past are those before it, however we  *)
(* got there (slide(), updateSlides(), updateProgress()).                   *)
ProgressTrue ==
  /\ {l \in Leaves(c) : d.cls[l] = "present"} = {d.cur}
  /\ PastCount(c, d) = Cardinality({l \in Leaves(c) : Precedes(l, d.cur)})
  /\ d.cur \in d.shown

(* The fragments follow the slides: all shown before the current slide,     *)
(* none after it, and on it the first few groups, numbered without gaps     *)
(* although every step of a fragment renumbers the visible ones on their    *)
(* own (updateSlides(), sortFragments(), navigateFragment()).               *)
FragmentsAgree ==
  \A l \in Leaves(c) :
    /\ Precedes(l, d.cur) => d.vis[l] = DOMAIN c.frags[l]
    /\ Precedes(d.cur, l) => d.vis[l] = {}
    /\ Range(d.attr[l]) = 0 .. Cardinality(Range(d.attr[l])) - 1
    /\ \A i \in d.vis[l], j \in DOMAIN c.frags[l] \ d.vis[l] : d.attr[l][i] < d.attr[l][j]

(* A page reopened at the address on display starts on the slide we are on: *)
(* writeURL() and readURL() agree whenever no hashchange is on its way,     *)
(* whatever the user typed into the address in between.                     *)
AddressReopens ==
  c.history /\ hashEvents = 0 =>
    LET e == ReadURL(c, SortAllFragments(c, FreshDeck(c)), hash)
    IN e.cur = d.cur

(* The auto-slide timeout is pending exactly when cueAutoSlide() would set  *)
(* it now: no handler that stops, pauses, opens the overview, reaches the   *)
(* end or reconfigures leaves one behind, none that undoes this forgets to  *)
(* set it, and while it runs the player never shows that it is idle.        *)
AutoSlideExact ==
  /\ armed <=> Ready(c, d, paused, stopped)
  /\ armed => player # "idle"

(* Outside the overview the zoom plugin is enabled and no slide takes a     *)
(* click as a jump: a timer of an overview that was left before it fired    *)
(* announces nothing (activateOverview(), deactivateOverview()).            *)
OverviewLeavesNothing ==
  /\ ~d.overview => zoomable /\ ovTimer = "none"
  /\ clickable => d.overview

(* An arrow drawn as enabled does something when it is pressed, except in a *)
(* deck that loops, where "previous" does nothing on the first slide and    *)
(* nothing does when there is no other (updateControls() against the        *)
(* navigate functions).  Excluded: the overview, where fragments are drawn  *)
(* as enabled and not stepped through, and right-to-left decks, where the   *)
(* routes left and right are exchanged and the marks of fragments are not.  *)
EnabledControlsWork ==
  ~c.rtl /\ ~d.overview /\ (c.loop => c.n > 1) =>
    \A dir \in Controls(c, d) \ (IF c.loop THEN {"prev"} ELSE {}) :
       LET e == Press(c, d, dir) IN e.cur # d.cur \/ e.vis # d.vis

(* "previous" undoes "next": same slide, same fragments, unless "next" went *)
(* into a stack somewhere below its top or fragments are switched off, when *)
(* it leaves the hidden ones shown (navigateNext(), navigatePrev()).        *)
(* Excluded: decks that loop, where "next" may go round and "previous" does *)
(* not, and right-to-left decks, where both go to the column before: "next" *)
(* is navigateRight(), which is the way back there.                         *)
PrevUndoesNext ==
  LET e == NavigateNext(c, d)
      b == NavigatePrev(c, e)
      moved == e.cur # d.cur \/ e.vis # d.vis
  IN ~c.rtl /\ ~c.loop /\ c.fragments /\ moved /\ (e.h = d.h \/ e.v = 0)
       => b.cur = d.cur /\ b.vis[d.cur] = d.vis[d.cur]

(* Left alone, a deck that auto-slides reaches a place where it has nothing *)
(* more to do, or goes round for ever from the first slide to the last: the *)
(* timeout of each step cues the next (navigateNext(), cueAutoSlide()).     *)
AutoRuns ==
  <>[][Timers]_vars =>
    \/ <>[](~Ready(c, d, paused, stopped) /\ ~armed)
    \/ []<>(d.h = 0) /\ []<>IsLastSlide(c, d)

=============================================================================
