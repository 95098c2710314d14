----------------------------- MODULE SearchBox -----------------------------
(***************************************************************************)
(* The search plugin of reveal.js (plugin/search/search.js): a box whose   *)
(* Enter key and whose button go from one slide that holds the term to the *)
(* next.  A slide is a number, and Matches says on which slides Hilitor    *)
(* finds a term, in document order.                                        *)
(***************************************************************************)
EXTENDS Integers, Sequences

CONSTANTS
  Terms,       \* what may be typed; "" is a box that was emptied
  Matches,     \* the slides that hold each term but ""
  MaxSearches  \* bound: searches

Undefined == <<-1>>

VARIABLES
  input,     \* the value of searchinput
  dirty,     \* searchboxDirty
  matched,   \* matchedSlides
  index,     \* currentMatchedIndex
  shown,     \* the slide the deck is on
  searches,  \* searches so far
  asked,     \* history: whether the term was searched for already
  before     \* history: the slide a repeated search started from, or -1

vars == <<input, dirty, matched, index, shown, searches, asked, before>>

Init ==
  /\ input = "" /\ dirty = FALSE
  /\ matched = Undefined /\ index = 0
  /\ shown = 0 /\ searches = 0 /\ asked = FALSE /\ before = -1

(* A key other than Enter.                                                  *)
TypeTerm(t) ==
  /\ input' = t /\ dirty' = TRUE /\ asked' = FALSE /\ before' = -1
  /\ UNCHANGED <<matched, index, shown, searches>>

(* doSearch() up to the test of matchedSlides.length, which throws when     *)
(* there is no array: apply() returns none for an empty term.               *)
Found == IF ~dirty THEN matched ELSE IF input = "" THEN Undefined ELSE Matches[input]
From  == IF dirty THEN 0 ELSE index

DoSearch ==
  LET at == IF Len(Found) <= From THEN 0 ELSE From
      any == Found # <<>>
  IN /\ searches < MaxSearches /\ searches' = searches + 1
     /\ matched' = Found
     /\ IF Found # Undefined /\ any
        THEN shown' = Found[at + 1] /\ index' = at + 1
        ELSE index' = From /\ UNCHANGED shown
     /\ asked' = TRUE /\ before' = IF asked THEN shown ELSE -1
     /\ UNCHANGED input

(* An exception leaves the box dirty.                                       *)
Enter == DoSearch /\ dirty' = (dirty /\ Found = Undefined)
Click == DoSearch /\ UNCHANGED dirty

Next == Enter \/ Click \/ \E t \in Terms : TypeTerm(t)

Spec == Init /\ [][Next]_vars

(* "navigate to the next slide that has the keyword, wrapping to the first  *)
(* if necessary" (search.js:141): to search again for what was searched for *)
(* last goes from one match to the next.                                    *)
ShowsNext ==
  LET m == Matches[input]
  IN before # -1 /\ input # "" =>
       \A i \in DOMAIN m : m[i] = before => shown = m[(i % Len(m)) + 1]
=============================================================================
