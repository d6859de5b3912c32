---------------------------- MODULE InputManager ----------------------------
(***************************************************************************)
(* The input poller of the controller (src/manager/worker.go,              *)
(* inputManager.Run): every tick it queries the keymap and the pointer,    *)
(* collects the configured binds whose keys and buttons are all held (in   *)
(* the order Go's map iteration yields them), sorts them with its own      *)
(* comparator, sends the first one with a Held flag that says whether it   *)
(* was among the binds pressed at the previous tick, and remembers the     *)
(* pressed binds.  A tick whose X query fails changes nothing (continue).  *)
(*                                                                         *)
(* The sort is golang.org/x/exp/slices.SortFunc, whose pattern-defeating   *)
(* quicksort sorts slices of at most 12 elements by insertion sort; a     *)
(* config with more than 12 binds held at once is out of scope.           *)
(***************************************************************************)
EXTENDS Naturals, Sequences, FiniteSets, SequencesExt

CONSTANTS
    Keys,     \* key codes
    Buttons,  \* pointer buttons
    Binds     \* conf.Keybinds: at most 12 records [keys, buttons] with
              \* keys a subset of Keys and buttons a subset of Buttons

NoBind == [keys |-> {}, buttons |-> {}]
NoInput == [bind |-> NoBind, held |-> FALSE]

VARIABLES
    keymap,    \* the keys held down
    pointer,   \* the pointer buttons held down
    lastBinds, \* i.lastBinds: the binds pressed at the last tick
    lastWin,   \* the bind sent at the last tick, NoBind if none (history)
    sent       \* the last Input sent on the inputs channel

vars == <<keymap, pointer, lastBinds, lastWin, sent>>

Init ==
    /\ keymap = {}
    /\ pointer = {}
    /\ lastBinds = {}
    /\ lastWin = NoBind
    /\ sent = NoInput

KeyCount(b) == Cardinality(b.keys)
ButtonCount(b) == Cardinality(b.buttons)

\* The comparator given to slices.SortFunc.
less(a, b) ==
    IF KeyCount(b) < KeyCount(a) THEN TRUE ELSE ButtonCount(b) < ButtonCount(a)

Swap(s, i, j) == [s EXCEPT ![i] = s[j], ![j] = s[i]]

\* The inner loop of insertion sort: for j := i; j > a && less(data[j],
\* data[j-1]); j-- { swap }.
RECURSIVE SinkLeft(_, _)
SinkLeft(s, j) ==
    IF j > 1 /\ less(s[j], s[j - 1]) THEN SinkLeft(Swap(s, j, j - 1), j - 1)
    ELSE s

\* insertionSortLessFunc: for i := a + 1; i < b; i++ { inner loop }.
SortFunc(s) ==
    FoldLeft(LAMBDA acc, i : SinkLeft(acc, i), s, [k \in 1 .. Len(s) - 1 |-> k + 1])

\* keymap.HasPressed(mask) && pointer.HasPressed(buttons) for each bind.
Pressed == {b \in Binds : b.keys \subseteq keymap /\ b.buttons \subseteq pointer}

\* The user presses or releases a key or a button.
PressKey(k) ==
    /\ keymap' = keymap \cup {k}
    /\ UNCHANGED <<pointer, lastBinds, lastWin, sent>>

ReleaseKey(k) ==
    /\ keymap' = keymap \ {k}
    /\ UNCHANGED <<pointer, lastBinds, lastWin, sent>>

PressButton(b) ==
    /\ pointer' = pointer \cup {b}
    /\ UNCHANGED <<keymap, lastBinds, lastWin, sent>>

ReleaseButton(b) ==
    /\ pointer' = pointer \ {b}
    /\ UNCHANGED <<keymap, lastBinds, lastWin, sent>>

\* A tick with no pressed bind: forget the last binds and send nothing.
PollNone ==
    /\ Pressed = {}
    /\ lastBinds' = {}
    /\ lastWin' = NoBind
    /\ UNCHANGED <<keymap, pointer, sent>>

\* A tick with pressed binds, collected in the map's iteration order: sort
\* them, send the first with Held = slices.Contains(i.lastBinds, bind),
\* and remember the pressed binds.
PollSend ==
    /\ Pressed # {}
    /\ \E order \in SetToSeqs(Pressed) :
          LET bind == SortFunc(order)[1]
          IN  /\ sent' = [bind |-> bind, held |-> bind \in lastBinds]
              /\ lastWin' = bind
    /\ lastBinds' = Pressed
    /\ UNCHANGED <<keymap, pointer>>

Next ==
    \/ \E k \in Keys : PressKey(k) \/ ReleaseKey(k)
    \/ \E b \in Buttons : PressButton(b) \/ ReleaseButton(b)
    \/ PollNone
    \/ PollSend

Spec == Init /\ [][Next]_vars

-----------------------------------------------------------------------------
(* Properties *)

TypeOK ==
    /\ keymap \subseteq Keys
    /\ pointer \subseteq Buttons
    /\ lastBinds \subseteq Binds
    /\ lastWin \in Binds \cup {NoBind}
    /\ sent \in [bind : Binds \cup {NoBind}, held : BOOLEAN]

\* The binds a tick may resolve to: the pressed binds with the most keys,
\* among them those with the most buttons.
Best(P) ==
    LET most == {b \in P : \A c \in P : KeyCount(c) =< KeyCount(b)}
    IN  {b \in most : \A c \in most : ButtonCount(c) =< ButtonCount(b)}

\* Every input the poller sends follows the spec's resolution rule: of the
\* binds held at once, the one with the most keys wins, ties broken by the
\* most buttons, and it is sent as held exactly when the same bind also
\* won the tick before.
SendsSpecInput ==
    [][PollSend => /\ sent'.bind \in Best(Pressed)
                   /\ sent'.held = (sent'.bind = lastWin)]_vars

=============================================================================
