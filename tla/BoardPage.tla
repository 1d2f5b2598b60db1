----------------------------- MODULE BoardPage ------------------------------
(***************************************************************************)
(* The board page in the browser: which frames of its stream change what   *)
(* it displays, and where.  htmx and its SSE extension are external; what  *)
(* they do is decided by the attributes BoardView gives two elements.      *)
(***************************************************************************)
EXTENDS Realtime

VARIABLE dom    \* the card elements of a page: their content and their column

browserVars == <<rtVars, dom>>

NoElement == [text |-> Absent, column |-> NoColumn]

PageInit == Init /\ dom = [ch \in Channels |-> [c \in Cards |-> NoElement]]

\* The elements with sse-swap and how they swap: #board has no hx-swap of its
\* own and inherits that of the element around it.
SwapOf == [name \in {"card-updated", "board-replaced"} |-> "none"]

\* htmx swaps a frame in if an element listens to its name, unless hx-swap is none.
IsSwapped(f) == f.name \in DOMAIN SwapOf /\ SwapOf[f.name] # "none"

\* A frame that does not say in which column a card is leaves it where it is.
Swapped(elements, f) ==
  [c \in Cards |->
     IF f.texts[c] = Absent THEN elements[c]
     ELSE [text |-> f.texts[c],
           column |-> IF f.columns[c] = NoColumn THEN elements[c].column ELSE f.columns[c]]]

ShowPage(ch) ==
  /\ Load(ch)
  /\ dom' = [dom EXCEPT ![ch] = Swapped([c \in Cards |-> NoElement],
                                        ListFrame("page", Found(ch)))]

DisplayFrame(ch) ==
  /\ ReceiveFrame(ch)
  /\ LET f == Head(wire[ch])
     IN  dom' = IF IsSwapped(f) THEN [dom EXCEPT ![ch] = Swapped(@, f)] ELSE dom

\* Nothing breaks: cards change once the listener is connected and the pages are
\* open, every notification is sent, and no connection or stream ends.
HealthyNext ==
  \/ /\ \/ \E r \in Requests :
             \/ Change(r) /\ listening /\ \A ch \in Channels : Subscribed(ch)
             \/ Notify(r) \/ BoardLookupFails(r)
        \/ Listen \/ Forward
        \/ \E ch \in Channels :
             BeginLoad(ch) \/ OpenStream(ch) \/ TakeEvent(ch) \/ BeginRender(ch) \/ WriteEvent(ch)
     /\ UNCHANGED dom
  \/ \E ch \in Channels : ShowPage(ch) \/ DisplayFrame(ch)

HealthySpec ==
  /\ PageInit /\ [][HealthyNext]_browserVars
  /\ Fairness
  /\ \A ch \in Channels : KeepsReading(ch)
-----------------------------------------------------------------------------
\* A card that another page moves is, in the end, in its new column on every page
\* whose stream stays open: "the other one updates without a reload".
MovesAreDisplayed ==
  \A ch \in Channels :
    <>[]Subscribed(ch)
      => <>[](\A c \in Cards : Live(db[c]) /\ Live(dom[ch][c].text) =>
                dom[ch][c].column = at[c])
=============================================================================
